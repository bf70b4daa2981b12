--------------------------- MODULE DebugSessions ---------------------------
(***************************************************************************)
(* What a debugger may rely on: at most one debugger at a time has a       *)
(* session with the JVM, and a reply it is sent answers a command of its   *)
(* own that has not been answered.                                         *)
(***************************************************************************)
CONSTANTS Debuggers, Ids

VARIABLES session,     \* the debugger that has a session, or Nobody
          asked,       \* per debugger: the ids of the commands it has sent
          answered     \* and of the replies that were sent to it

vars == <<session, asked, answered>>

Nobody == "nobody"

Init ==
    /\ session = Nobody
    /\ asked = [d \in Debuggers |-> {}]
    /\ answered = [d \in Debuggers |-> {}]

Begin(d) == session = Nobody /\ session' = d /\ UNCHANGED <<asked, answered>>

End == session' = Nobody /\ UNCHANGED <<asked, answered>>

Ask(d, id) ==
    /\ id \notin asked[d]
    /\ asked' = [asked EXCEPT ![d] = @ \cup {id}]
    /\ UNCHANGED <<session, answered>>

Answer(d, id) ==
    /\ session = d
    /\ id \in asked[d] \ answered[d]
    /\ answered' = [answered EXCEPT ![d] = @ \cup {id}]
    /\ UNCHANGED <<session, asked>>

Next ==
    \/ End
    \/ \E d \in Debuggers : Begin(d) \/ \E id \in Ids : Ask(d, id) \/ Answer(d, id)

Spec == Init /\ [][Next]_vars
=============================================================================
