-------------------------- MODULE AccessibleActions --------------------------
(***************************************************************************)
(* An assistive technology (AT) has a component perform actions            *)
(* (include/win32/bridge/, headers AccessBridgeCalls.h and                 *)
(* AccessBridgePackages.h).  getAccessibleActions tells it up to           *)
(* MAX_ACTION_INFO actions of the component by name; doAccessibleActions   *)
(* performs a list of them, but no more than MAX_ACTIONS_TO_DO in a call,  *)
(* and stops at the first that fails.                                      *)
(*                                                                         *)
(* Longer lists take several calls, and the index of the action that       *)
(* failed counts from the start of its call.  The application changes what *)
(* the component can do at any time, also while a call is performed.  How  *)
(* the AT splits its list and what it does about a failure is up to it:    *)
(* the AT here tries again from the action that failed, or gives up.       *)
(***************************************************************************)
EXTENDS Naturals, Sequences, FiniteSets, FiniteSetsExt, Functions

CONSTANTS Actions,            \* the names of actions the component may have
          MAX_ACTION_INFO,    \* how many fit in AccessibleActions
          MAX_ACTIONS_TO_DO,  \* how many fit in AccessibleActionsToDo
          MaxPlan             \* bound: actions the AT wants performed

ASSUME RoomForActions == MAX_ACTION_INFO \in Nat \ {0} /\ MAX_ACTIONS_TO_DO \in Nat \ {0}
ASSUME PlansAreBounded == MaxPlan \in Nat

VARIABLES offered,      \* the actions the component can perform now
          actionInfo,   \* the actions the AT was told of
          plan,         \* the actions it wants performed, in this order
          pc,           \* the AT: "idle", "asking", "called", "answered",
                        \* "failed" or "done"
          next,         \* how many of plan it knows to be performed
          actionsToDo,  \* the list in the package
          at,           \* how many of these the JVM has performed
          rResult,      \* the answer: whether all were performed,
          failure,      \* and the index of the one that failed
          performed     \* what was performed for plan, in order

package == <<actionsToDo, at, rResult, failure>>
vars == <<offered, actionInfo, plan, pc, next, package, performed>>

TypeOK ==
    /\ offered \subseteq Actions
    /\ actionInfo \subseteq Actions
    /\ plan \in Seq(Actions)
    /\ pc \in {"idle", "asking", "called", "answered", "failed", "done"}
    /\ next \in 0 .. Len(plan)
    /\ actionsToDo \in Seq(Actions) /\ Len(actionsToDo) <= MAX_ACTIONS_TO_DO
    /\ at \in 0 .. Len(actionsToDo)
    /\ rResult \in BOOLEAN
    /\ failure \in Nat
    /\ performed \in Seq(Actions)

Init ==
    /\ offered \in SUBSET Actions
    /\ actionInfo = {}
    /\ plan = <<>>
    /\ pc = "idle"
    /\ next = 0
    /\ actionsToDo = <<>>
    /\ at = 0
    /\ rResult = FALSE
    /\ failure = 0
    /\ performed = <<>>

-----------------------------------------------------------------------------
(***************************************************************************)
(* The AT.                                                                 *)
(***************************************************************************)
Resting == pc \in {"idle", "done"}

\* getAccessibleActions: as many actions as there is room for.
GetAccessibleActions ==
    /\ Resting
    /\ \E A \in kSubset(Min({MAX_ACTION_INFO, Cardinality(offered)}), offered) :
          actionInfo' = A
    /\ UNCHANGED <<offered, plan, pc, next, package, performed>>

Plan ==
    /\ Resting
    /\ actionInfo # {}
    /\ \E n \in 1 .. MaxPlan : plan' \in [1 .. n -> actionInfo]
    /\ pc' = "asking"
    /\ next' = 0
    /\ performed' = <<>>
    /\ UNCHANGED <<offered, actionInfo, package>>

\* Variant with a bug: the list is cut one action late.
LongChunk == SubSeq(plan, next + 1, Min({next + MAX_ACTIONS_TO_DO + 1, Len(plan)}))

\* The next actions of the plan that fit in one package.
Chunk == SubSeq(plan, next + 1, Min({next + MAX_ACTIONS_TO_DO, Len(plan)}))

\* doAccessibleActions, as far as the package.
Request ==
    /\ pc = "asking"
    /\ next < Len(plan)
    /\ pc' = "called"
    /\ actionsToDo' = Chunk
    /\ at' = 0
    /\ rResult' = FALSE
    /\ failure' = 0
    /\ UNCHANGED <<offered, actionInfo, plan, next, performed>>

\* Variant with a bug: the index is taken for one into the plan.
FailureInPlan == next' = failure

\* What was performed by the call that failed is known from the index.
FailureInCall == next' = next + failure

\* The answer arrives.
ReceiveAnswer ==
    /\ pc = "answered"
    /\ IF rResult THEN pc' = "asking" /\ next' = next + Len(actionsToDo)
                  ELSE pc' = "failed" /\ FailureInCall
    /\ UNCHANGED <<offered, actionInfo, plan, package, performed>>

Finish ==
    /\ pc = "asking"
    /\ next = Len(plan)
    /\ pc' = "done"
    /\ UNCHANGED <<offered, actionInfo, plan, next, package, performed>>

TryAgain ==
    /\ pc = "failed"
    /\ pc' = "asking"
    /\ UNCHANGED <<offered, actionInfo, plan, next, package, performed>>

GiveUp ==
    /\ pc = "failed"
    /\ pc' = "idle"
    /\ UNCHANGED <<offered, actionInfo, plan, next, package, performed>>

-----------------------------------------------------------------------------
(***************************************************************************)
(* The JVM performs the list of the package one by one.                    *)
(***************************************************************************)
Perform ==
    /\ pc = "called"
    /\ at < Len(actionsToDo)
    /\ actionsToDo[at + 1] \in offered
    /\ performed' = Append(performed, actionsToDo[at + 1])
    /\ at' = at + 1
    /\ UNCHANGED <<offered, actionInfo, plan, pc, next, actionsToDo, rResult, failure>>

Succeed ==
    /\ pc = "called"
    /\ at = Len(actionsToDo)
    /\ pc' = "answered"
    /\ rResult' = TRUE
    /\ UNCHANGED <<offered, actionInfo, plan, next, actionsToDo, at, failure, performed>>

\* Variant with a bug: goes on after an action that fails, and tells of the last.
CarryOn ==
    /\ pc = "called"
    /\ at < Len(actionsToDo)
    /\ at' = at + 1
    /\ failure' = at
    /\ UNCHANGED <<offered, actionInfo, plan, pc, next, actionsToDo, rResult, performed>>

\* Variant with a bug: the JVM waits until the action can be performed.
Wait ==
    /\ pc = "called"
    /\ at < Len(actionsToDo)
    /\ actionsToDo[at + 1] \notin offered
    /\ UNCHANGED vars

\* The first action that fails ends the call.  An action that is offered may fail too.
Fail ==
    /\ pc = "called"
    /\ at < Len(actionsToDo)
    /\ pc' = "answered"
    /\ rResult' = FALSE
    /\ failure' = at
    /\ UNCHANGED <<offered, actionInfo, plan, next, actionsToDo, at, performed>>

-----------------------------------------------------------------------------
\* The application enables or disables an action.
Change(a) ==
    /\ offered' = IF a \in offered THEN offered \ {a} ELSE offered \cup {a}
    /\ UNCHANGED <<actionInfo, plan, pc, next, package, performed>>

Ask  == GetAccessibleActions \/ Plan
Work == Request \/ Perform \/ Succeed \/ Fail \/ ReceiveAnswer \/ Finish

Next ==
    \/ Ask
    \/ Work
    \/ TryAgain
    \/ GiveUp
    \/ \E a \in Actions : Change(a)

\* A call that was begun is answered, and the AT goes on with the rest of its plan.
Fairness == WF_vars(Work)

Spec == Init /\ [][Next]_vars
FairSpec == Spec /\ Fairness

-----------------------------------------------------------------------------
(***************************************************************************)
(* Properties.                                                             *)
(***************************************************************************)
\* How far the plan has come: the actions of answered calls and those of the
\* call that is being performed.
Progress == IF pc \in {"called", "answered"} THEN next + at ELSE next

\* However the plan is split into calls, wherever a call fails, and however
\* often the AT tries again: the actions performed are the plan as far as it
\* has come, in order, none left out and none done twice.  Between the calls
\* that is as far as the AT takes it to have come.
PerformedAsPlanned == performed = SubSeq(plan, 1, Progress)

\* Every plan comes to an end or to a failure that the AT is told of.
EveryPlanIsAnswered == pc = "asking" ~> pc \in {"done", "failed"}
=============================================================================
