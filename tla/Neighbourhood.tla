---------------------------- MODULE Neighbourhood ----------------------------
(***************************************************************************)
(* What the bridge rendezvous promises, without packages or queues: two    *)
(* sides of a neighbourhood whose members come and go, and what each       *)
(* member p thinks of a member q of the other side.  q is a stranger until *)
(* p meets it, a neighbour from then on, and once q has left p takes it    *)
(* for gone, for good: nobody meets a member that p knows to be gone.      *)
(***************************************************************************)
EXTENDS FiniteSets

CONSTANTS Left, Right   \* the members of the two sides

Members == Left \cup Right
Pairs   == (Left \X Right) \cup (Right \X Left)

VARIABLES status,  \* status[p]: where p is in its life
          view     \* view[<<p, q>>]: what p thinks of q

Init == /\ status = [p \in Members |-> "unborn"]
        /\ view = [e \in Pairs |-> "stranger"]

Arrive(p) == /\ status[p] = "unborn"
             /\ status' = [status EXCEPT ![p] = "windowed"]
             /\ UNCHANGED view

Settle(p) == /\ status[p] = "windowed"
             /\ status' = [status EXCEPT ![p] = "attached"]
             /\ UNCHANGED view

\* p leaves: it has no neighbours any more, and if it said so, some of those
\* that never met it (H) never will.
Leave(p) ==
    /\ \/ /\ status[p] = "attached"
          /\ status' = [status EXCEPT ![p] = "detached"]
       \/ /\ status[p] \in {"windowed", "attached"}
          /\ status' = [status EXCEPT ![p] = "crashed"]
    /\ \E H \in SUBSET {e \in Pairs : e[2] = p /\ view[e] = "stranger"} :
         /\ status'[p] = "crashed" => H = {}
         /\ view' = [e \in Pairs |-> IF e[1] = p \/ e \in H THEN "gone" ELSE view[e]]

Meet(e) == /\ status[e[1]] \in {"windowed", "attached"}
           /\ status[e[2]] # "unborn"
           /\ view[e] = "stranger"
           /\ view' = [view EXCEPT ![e] = "neighbour"]
           /\ UNCHANGED status

Part(e) == /\ status[e[1]] \in {"windowed", "attached"}
           /\ status[e[2]] = "detached"
           /\ view[e] = "neighbour"
           /\ view' = [view EXCEPT ![e] = "gone"]
           /\ UNCHANGED status

Next == \/ \E p \in Members : Arrive(p) \/ Settle(p) \/ Leave(p)
        \/ \E e \in Pairs : Meet(e) \/ Part(e)

Spec == Init /\ [][Next]_<<status, view>>
=============================================================================
