----------------------- MODULE AccessibleActions_proofs -----------------------
(***************************************************************************)
(* AccessibleActions for any actions, limits and plans: it is type         *)
(* correct, and the actions performed are the plan as far as it has come.  *)
(*                                                                         *)
(* PerformedAsPlanned counts at into the plan, and at is an index into the *)
(* list of the package: Asked says that this list is the part of the plan  *)
(* that begins at next.  Answered says what the two results mean, so that  *)
(* the AT adds the right number to next.                                   *)
(***************************************************************************)
EXTENDS AccessibleActions, SequenceTheorems, TLAPS

Asked == pc \in {"called", "answered"} => next < Len(plan) /\ actionsToDo = Chunk

Answered == pc = "answered" => at = (IF rResult THEN Len(actionsToDo) ELSE failure)

IInv == TypeOK /\ Asked /\ Answered /\ PerformedAsPlanned

LEMMA MinOfTwo ==
    ASSUME NEW m \in Nat, NEW n \in Nat
    PROVE  /\ Min({m, n}) \in {m, n}
           /\ Min({m, n}) <= m
           /\ Min({m, n}) <= n
<1>1. \E x \in {m, n} : \A y \in {m, n} : x <= y
  <2>1. CASE m <= n
    BY <2>1
  <2>2. CASE n <= m
    BY <2>2
  <2>3. QED
    BY <2>1, <2>2
<1>2. QED
  BY <1>1 DEF Min

\* A package has room for a chunk, which is the plan from next on.
LEMMA ChunkOfPlan ==
    ASSUME TypeOK
    PROVE  /\ Chunk \in Seq(Actions)
           /\ Len(Chunk) <= MAX_ACTIONS_TO_DO
           /\ next + Len(Chunk) <= Len(plan)
           /\ \A i \in 1 .. Len(Chunk) : Chunk[i] = plan[next + i]
<1> DEFINE last == Min({next + MAX_ACTIONS_TO_DO, Len(plan)})
<1>1. next \in Nat /\ plan \in Seq(Actions) /\ next <= Len(plan) /\ MAX_ACTIONS_TO_DO \in Nat
  BY RoomForActions DEF TypeOK
<1>2. last \in Nat /\ last <= next + MAX_ACTIONS_TO_DO /\ last <= Len(plan) /\ next <= last
  BY <1>1, MinOfTwo
<1> HIDE DEF last
<1>3. \A i \in next + 1 .. last : plan[i] \in Actions
  BY <1>1, <1>2
<1>4. /\ SubSeq(plan, next + 1, last) \in Seq(Actions)
      /\ Len(SubSeq(plan, next + 1, last)) = last - next
      /\ \A i \in 1 .. last - next : SubSeq(plan, next + 1, last)[i] = plan[next + i]
  <2>1. next + 1 \in Int /\ last \in Int
    BY <1>1, <1>2
  <2>2. QED
    BY <2>1, <1>1, <1>2, <1>3, SubSeqProperties
<1>5. Chunk = SubSeq(plan, next + 1, last)
  BY DEF Chunk, last
<1>6. QED
  BY <1>1, <1>2, <1>4, <1>5

\* The first actions of a plan and the next one.
LEMMA OneMore ==
    ASSUME NEW p \in Seq(Actions), NEW n \in Nat, n < Len(p)
    PROVE  Append(SubSeq(p, 1, n), p[n + 1]) = SubSeq(p, 1, n + 1)
<1>1. Len(p) \in Nat /\ n + 1 \in 1 .. Len(p) /\ (n + 1) - 1 = n
  OBVIOUS
<1>2. SubSeq(p, 1, n + 1) = SubSeq(p, 1, n) \o <<p[n + 1]>>
  BY <1>1, SubSeqRecursiveSecond
<1>3. SubSeq(p, 1, n) \in Seq(Actions) /\ p[n + 1] \in Actions
  BY <1>1, SubSeqProperties
<1>4. QED
  BY <1>2, <1>3, AppendIsConcat

LEMMA Start == Init => IInv
<1> SUFFICES ASSUME Init PROVE IInv
  OBVIOUS
<1>1. TypeOK
  <2>1. <<>> \in Seq(Actions) /\ Len(<<>>) = 0
    BY EmptySeq
  <2>2. MAX_ACTIONS_TO_DO >= 0 /\ 0 \in 0 .. 0
    BY RoomForActions
  <2>3. offered \subseteq Actions /\ actionInfo \subseteq Actions
    BY DEF Init
  <2>4. QED
    BY <2>1, <2>2, <2>3 DEF Init, TypeOK
<1>2. PerformedAsPlanned
  <2>1. SubSeq(plan, 1, 0) = <<>>
    BY SubSeqEmpty
  <2>2. QED
    BY <2>1 DEF Init, PerformedAsPlanned, Progress
<1>3. QED
  BY <1>1, <1>2 DEF Init, IInv, Asked, Answered

\* The type invariant needs the others where next moves on.
LEMMA TypeStep ==
    ASSUME IInv, [Next]_vars
    PROVE  TypeOK'
<1> USE DEF IInv
<1>1. CASE GetAccessibleActions
  <2>1. actionInfo' \subseteq Actions
    BY <1>1 DEF GetAccessibleActions, TypeOK, kSubset
  <2>2. QED
    BY <1>1, <2>1 DEF GetAccessibleActions, TypeOK, package
<1>2. CASE Plan
  <2>1. plan' \in Seq(Actions)
    <3>1. PICK n \in 1 .. MaxPlan : plan' \in [1 .. n -> actionInfo]
      BY <1>2 DEF Plan
    <3>2. n \in Nat /\ actionInfo \subseteq Actions
      BY <3>1, PlansAreBounded DEF TypeOK
    <3>3. plan' \in [1 .. n -> Actions]
      BY <3>1, <3>2
    <3>4. QED
      BY <3>2, <3>3, SeqDef
  <2>2. Len(plan') \in Nat
    BY <2>1
  <2>3. QED
    BY <1>2, <2>1, <2>2 DEF Plan, TypeOK, package
<1>3. CASE Request
  <2>1. /\ actionsToDo' \in Seq(Actions)
        /\ Len(actionsToDo') <= MAX_ACTIONS_TO_DO
        /\ at' \in 0 .. Len(actionsToDo')
    BY <1>3, ChunkOfPlan DEF Request
  <2>2. QED
    BY <1>3, <2>1 DEF Request, TypeOK
<1>4. CASE Perform
  BY <1>4 DEF Perform, TypeOK
<1>5. CASE Succeed
  BY <1>5 DEF Succeed, TypeOK
<1>6. CASE Fail
  <2>1. at \in Nat /\ failure' = at /\ pc' = "answered" /\ rResult' = FALSE
    BY <1>6 DEF Fail, TypeOK
  <2>2. QED
    BY <1>6, <2>1 DEF Fail, TypeOK
<1>7. CASE ReceiveAnswer
  <2>1. next' = next + at
    BY <1>7 DEF ReceiveAnswer, FailureInCall, Answered
  <2>2. next' \in 0 .. Len(plan)
    BY <1>7, <2>1, ChunkOfPlan DEF ReceiveAnswer, Asked, TypeOK
  <2>3. pc' \in {"asking", "failed"}
    BY <1>7 DEF ReceiveAnswer
  <2>4. QED
    BY <1>7, <2>2, <2>3 DEF ReceiveAnswer, TypeOK, package
<1>8. CASE Finish \/ TryAgain \/ GiveUp
  BY <1>8 DEF Finish, TryAgain, GiveUp, TypeOK, package
<1>9. ASSUME NEW a \in Actions, Change(a) PROVE TypeOK'
  BY <1>9 DEF Change, TypeOK, package
<1>10. CASE UNCHANGED vars
  BY <1>10 DEF vars, package, TypeOK
<1>11. QED
  BY <1>1, <1>2, <1>3, <1>4, <1>5, <1>6, <1>7, <1>8, <1>9, <1>10 DEF Next, Ask, Work

\* What a call asks for and what its answer means.
LEMMA CallStep ==
    ASSUME IInv, [Next]_vars
    PROVE  Asked' /\ Answered'
<1> USE DEF IInv
<1>1. CASE Request
  BY <1>1 DEF Request, Asked, Answered, Chunk
<1>2. CASE Perform
  BY <1>2 DEF Perform, Asked, Answered, Chunk
<1>3. CASE Succeed
  BY <1>3 DEF Succeed, Asked, Answered, Chunk
<1>4. CASE Fail
  BY <1>4 DEF Fail, Asked, Answered, Chunk
<1>5. CASE Ask
  BY <1>5 DEF Ask, GetAccessibleActions, Plan, Resting, Asked, Answered, Chunk, package
<1>6. CASE ReceiveAnswer \/ Finish \/ TryAgain \/ GiveUp
  BY <1>6 DEF ReceiveAnswer, Finish, TryAgain, GiveUp, Asked, Answered
<1>7. ASSUME NEW a \in Actions, Change(a) PROVE Asked' /\ Answered'
  BY <1>7 DEF Change, Asked, Answered, Chunk, package
<1>8. CASE UNCHANGED vars
  BY <1>8 DEF vars, package, Asked, Answered, Chunk
<1>9. QED
  BY <1>1, <1>2, <1>3, <1>4, <1>5, <1>6, <1>7, <1>8 DEF Next, Work

LEMMA PlanStep ==
    ASSUME IInv, [Next]_vars
    PROVE  PerformedAsPlanned'
<1> USE DEF IInv
<1>1. CASE Plan
  <2>1. SubSeq(plan', 1, 0) = <<>>
    BY SubSeqEmpty
  <2>2. QED
    BY <1>1, <2>1 DEF Plan, PerformedAsPlanned, Progress
<1>2. CASE Request
  <2>1. Progress' = Progress
    BY <1>2 DEF Request, Progress, TypeOK
  <2>2. QED
    BY <1>2, <2>1 DEF Request, PerformedAsPlanned
<1>3. CASE Perform
  <2>1. Progress = next + at /\ Progress' = next + at + 1
    BY <1>3 DEF Perform, Progress, TypeOK
  <2>2. /\ next + at \in Nat /\ next + at < Len(plan)
        /\ actionsToDo[at + 1] = plan[next + at + 1]
    <3>1. next \in Nat /\ at \in Nat /\ at < Len(Chunk) /\ actionsToDo = Chunk
      BY <1>3 DEF Perform, Asked, TypeOK
    <3>2. Len(Chunk) \in Nat /\ next + Len(Chunk) <= Len(plan) /\ Len(plan) \in Nat
      BY ChunkOfPlan DEF TypeOK
    <3>3. at + 1 \in 1 .. Len(Chunk)
      BY <3>1, <3>2
    <3>4. actionsToDo[at + 1] = plan[next + (at + 1)]
      BY <3>1, <3>3, ChunkOfPlan
    <3>5. QED
      BY <3>1, <3>2, <3>4
  <2>3. performed' = Append(SubSeq(plan, 1, next + at), plan[next + at + 1])
    BY <1>3, <2>1, <2>2 DEF Perform, PerformedAsPlanned
  <2>4. performed' = SubSeq(plan, 1, next + at + 1)
    BY <2>2, <2>3, OneMore DEF TypeOK
  <2>5. QED
    BY <1>3, <2>1, <2>4 DEF Perform, PerformedAsPlanned
<1>4. CASE ReceiveAnswer
  <2>1. next' = next + at
    BY <1>4 DEF ReceiveAnswer, FailureInCall, Answered
  <2>2. Progress = next + at /\ Progress' = next'
    BY <1>4 DEF ReceiveAnswer, Progress
  <2>3. QED
    BY <1>4, <2>1, <2>2 DEF ReceiveAnswer, PerformedAsPlanned
<1>5. CASE GetAccessibleActions \/ Succeed \/ Fail \/ Finish \/ TryAgain \/ GiveUp
  BY <1>5 DEF GetAccessibleActions, Resting, Succeed, Fail, Finish, TryAgain, GiveUp,
              PerformedAsPlanned, Progress, package
<1>6. ASSUME NEW a \in Actions, Change(a) PROVE PerformedAsPlanned'
  BY <1>6 DEF Change, PerformedAsPlanned, Progress, package
<1>7. CASE UNCHANGED vars
  BY <1>7 DEF vars, package, PerformedAsPlanned, Progress
<1>8. QED
  BY <1>1, <1>2, <1>3, <1>4, <1>5, <1>6, <1>7 DEF Next, Ask, Work

LEMMA Invariance == Spec => []IInv
<1>1. ASSUME IInv, [Next]_vars PROVE IInv'
  BY <1>1, TypeStep, CallStep, PlanStep DEF IInv
<1>2. QED
  BY <1>1, Start, PTL DEF Spec

\* Every list in a package fits in it, and the AT never takes more of its plan to
\* be done than there is.
THEOREM TypeCorrect == Spec => []TypeOK
<1>1. IInv => TypeOK
  BY DEF IInv
<1>2. QED
  BY <1>1, Invariance, PTL

\* Whatever fails and however often the AT tries again, the actions performed are
\* the plan as far as it has come, each once and in order.
THEOREM ActionsArePerformedAsPlanned == Spec => []PerformedAsPlanned
<1>1. IInv => PerformedAsPlanned
  BY DEF IInv
<1>2. QED
  BY <1>1, Invariance, PTL

-----------------------------------------------------------------------------
(***************************************************************************)
(* Why every plan is answered.  While the AT is busy with a plan, an       *)
(* action that remains costs at most four steps (its request, itself, the  *)
(* answer and the AT's reading it), and each step brings the number down.  *)
(***************************************************************************)
Busy == pc \in {"asking", "called", "answered"}

Remaining == Len(plan) - Progress

StepsLeft ==
    4 * Remaining + (CASE pc = "asking"   -> 2
                       [] pc = "called"   -> IF at = 0 THEN 1 ELSE 4
                       [] pc = "answered" -> IF rResult THEN 3 ELSE 0)

\* All but what the application changes.
call == <<actionInfo, plan, pc, next, package, performed>>

StepCounts ==
    Busy /\ Busy' => \/ StepsLeft' < StepsLeft
                     \/ StepsLeft' = StepsLeft /\ UNCHANGED call

\* In each state of a plan: how far it has come, and where a call is in its list.
LEMMA PlaceInPlan ==
    ASSUME IInv
    PROVE  /\ next \in Nat /\ at \in Nat /\ Len(plan) \in Nat /\ Len(actionsToDo) \in Nat
           /\ Remaining \in 0 .. Len(plan)
           /\ pc \in {"called", "answered"} =>
                 /\ 0 < Len(actionsToDo)
                 /\ at <= Len(actionsToDo)
                 /\ next + Len(actionsToDo) <= Len(plan)
<1> USE DEF IInv
<1>1. /\ next \in Nat /\ at \in Nat /\ Len(plan) \in Nat /\ Len(actionsToDo) \in Nat
      /\ next <= Len(plan) /\ at <= Len(actionsToDo)
  BY DEF TypeOK
<1>2. ASSUME pc \in {"called", "answered"}
      PROVE  0 < Len(actionsToDo) /\ next + Len(actionsToDo) <= Len(plan)
  <2>1. next < Len(plan) /\ actionsToDo = Chunk
    BY <1>2 DEF Asked
  <2>2. next + Len(actionsToDo) <= Len(plan)
    BY <2>1, ChunkOfPlan
  <2>3. Len(Chunk) = Min({next + MAX_ACTIONS_TO_DO, Len(plan)}) - next
    <3> DEFINE last == Min({next + MAX_ACTIONS_TO_DO, Len(plan)})
    <3>1. MAX_ACTIONS_TO_DO \in Nat /\ MAX_ACTIONS_TO_DO # 0
      BY RoomForActions
    <3>2. last \in Nat /\ last <= Len(plan) /\ next <= last
      BY <1>1, <3>1, MinOfTwo
    <3> HIDE DEF last
    <3>3. plan \in Seq(Actions) /\ next + 1 \in Int /\ last \in Int
      BY <1>1, <3>2 DEF TypeOK
    <3>4. \A i \in next + 1 .. last : plan[i] \in Actions
      BY <1>1, <3>2, <3>3
    <3>5. Len(SubSeq(plan, next + 1, last)) = last - next
      BY <1>1, <3>2, <3>3, <3>4, SubSeqProperties
    <3>6. QED
      BY <3>5 DEF Chunk, last
  <2>4. Min({next + MAX_ACTIONS_TO_DO, Len(plan)}) > next
    BY <1>1, <2>1, MinOfTwo, RoomForActions
  <2>5. Min({next + MAX_ACTIONS_TO_DO, Len(plan)}) \in Nat
    BY <1>1, MinOfTwo, RoomForActions
  <2>6. QED
    BY <1>1, <2>1, <2>2, <2>3, <2>4, <2>5
<1>3. Remaining \in 0 .. Len(plan)
  BY <1>1, <1>2 DEF Remaining, Progress
<1>4. QED
  BY <1>1, <1>2, <1>3

LEMMA BoundedSteps == IInv /\ Busy => StepsLeft \in 0 .. 4 * Len(plan) + 2
<1> SUFFICES ASSUME IInv, Busy PROVE StepsLeft \in 0 .. 4 * Len(plan) + 2
  OBVIOUS
<1>1. CASE pc = "asking"
  BY <1>1, PlaceInPlan DEF StepsLeft
<1>2. CASE pc = "called"
  <2>1. at = 0 \/ Remaining < Len(plan)
    BY <1>2, PlaceInPlan DEF Remaining, Progress
  <2>2. QED
    BY <1>2, <2>1, PlaceInPlan DEF StepsLeft
<1>3. CASE pc = "answered"
  <2>1. rResult => Remaining < Len(plan)
    BY <1>3, PlaceInPlan DEF IInv, Answered, Remaining, Progress
  <2>2. QED
    BY <1>3, <2>1, PlaceInPlan DEF StepsLeft
<1>4. QED
  BY <1>1, <1>2, <1>3 DEF Busy

LEMMA StepsCount ==
    ASSUME IInv, [Next]_vars
    PROVE  StepCounts
<1> SUFFICES ASSUME Busy, Busy'
             PROVE  StepsLeft' < StepsLeft \/ (StepsLeft' = StepsLeft /\ UNCHANGED call)
  BY DEF StepCounts
<1>1. /\ next \in Nat /\ at \in Nat /\ Len(plan) \in Nat /\ Len(actionsToDo) \in Nat
      /\ Remaining \in Nat
  BY PlaceInPlan
<1>2. CASE Request
  <2>1. Remaining' = Remaining
    BY <1>1, <1>2 DEF Request, Remaining, Progress
  <2>2. StepsLeft = 4 * Remaining + 2 /\ StepsLeft' = 4 * Remaining + 1
    BY <1>2, <2>1 DEF Request, StepsLeft
  <2>3. QED
    BY <1>1, <2>2
<1>3. CASE Perform
  <2>1. Remaining' = Remaining - 1
    BY <1>1, <1>3 DEF Perform, Remaining, Progress
  <2>2. StepsLeft >= 4 * Remaining + 1 /\ StepsLeft' = 4 * (Remaining - 1) + 4
    BY <1>1, <1>3, <2>1 DEF Perform, StepsLeft
  <2>3. StepsLeft \in Int
    BY BoundedSteps
  <2>4. QED
    BY <1>1, <2>2, <2>3
<1>4. CASE Succeed
  <2>1. Remaining' = Remaining
    BY <1>1, <1>4 DEF Succeed, Remaining, Progress
  <2>2. at # 0
    BY <1>4, PlaceInPlan DEF Succeed
  <2>3. StepsLeft = 4 * Remaining + 4 /\ StepsLeft' = 4 * Remaining + 3
    BY <1>4, <2>1, <2>2 DEF Succeed, StepsLeft
  <2>4. QED
    BY <1>1, <2>3
<1>5. CASE Fail
  <2>1. Remaining' = Remaining
    BY <1>1, <1>5 DEF Fail, Remaining, Progress
  <2>2. StepsLeft >= 4 * Remaining + 1 /\ StepsLeft' = 4 * Remaining
    BY <1>1, <1>5, <2>1 DEF Fail, StepsLeft
  <2>3. StepsLeft \in Int
    BY BoundedSteps
  <2>4. QED
    BY <1>1, <2>2, <2>3
<1>6. CASE ReceiveAnswer
  <2>1. pc = "answered" /\ rResult /\ pc' = "asking" /\ next' = next + Len(actionsToDo)
    BY <1>6 DEF ReceiveAnswer, Busy
  <2>2. Remaining' = Remaining
    BY <1>1, <1>6, <2>1 DEF ReceiveAnswer, Remaining, Progress, IInv, Answered
  <2>3. StepsLeft = 4 * Remaining + 3 /\ StepsLeft' = 4 * Remaining + 2
    BY <2>1, <2>2 DEF StepsLeft
  <2>4. QED
    BY <1>1, <2>3
<1>7. CASE Ask \/ Finish \/ TryAgain \/ GiveUp
  BY <1>7 DEF Ask, GetAccessibleActions, Plan, Resting, Finish, TryAgain, GiveUp, Busy
<1>8. CASE (\E a \in Actions : Change(a)) \/ UNCHANGED vars
  <2>1. UNCHANGED call
    BY <1>8 DEF Change, vars, call
  <2>2. StepsLeft' = StepsLeft
    BY <2>1 DEF call, package, StepsLeft, Remaining, Progress
  <2>3. QED
    BY <2>1, <2>2
<1>9. QED
  BY <1>2, <1>3, <1>4, <1>5, <1>6, <1>7, <1>8 DEF Next, Work

\* A plan of n actions is answered, or ends in a failure, after 4n + 2 steps at most,
\* whatever the application changes meanwhile: no call is made for nothing
\* (doAccessibleActions and its failure parameter in AccessBridgeCalls.h).
THEOREM EveryStepCounts ==
    Spec => [](Busy => StepsLeft \in 0 .. 4 * Len(plan) + 2) /\ [][StepCounts]_vars
<1>1. IInv => (Busy => StepsLeft \in 0 .. 4 * Len(plan) + 2)
  BY BoundedSteps
<1>2. IInv /\ [Next]_vars => [StepCounts]_vars
  BY StepsCount
<1>3. QED
  BY <1>1, <1>2, Invariance, PTL DEF Spec
=============================================================================
