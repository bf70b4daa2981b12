-------------------------- MODULE JawtSurface_proofs --------------------------
(***************************************************************************)
(* JawtSurface for any number of painters and any versions: it is type     *)
(* correct, and every thread paints what is there.                         *)
(*                                                                         *)
(* PaintsWhatIsThere says what a painter knows at the moment it paints;    *)
(* by itself it does not survive a step, because it says nothing of the    *)
(* info a thread has kept since an earlier Lock.  Reported does: whatever  *)
(* such an info has wrong is in what the thread's next Lock will report.   *)
(***************************************************************************)
EXTENDS JawtSurface, TLAPS

\* Every step is one of these (UnderLock adds none).
LEMMA Steps ==
    ASSUME Next
    PROVE  \/ \E t \in Threads :
                \/ GetAWT(t) \/ AwtLock(t) \/ AwtUnlock(t) \/ Leave(t)
                \/ GetDrawingSurface(t) \/ FreeDrawingSurface(t) \/ FreeDrawingSurfaceInfo(t)
                \/ Lock(t) \/ LockError(t) \/ TryAgain(t) \/ Unlock(t)
                \/ GetDrawingSurfaceInfo(t) \/ NoDrawingSurfaceInfo(t) \/ Paint(t)
           \/ \E a \in Aspects : Change(a)
           \/ Hide
           \/ Show
  BY DEF Next, Step

\* The look of the component stays a look when one aspect changes.
LEMMA Flip ==
    ASSUME NEW l \in Looks, NEW a \in Aspects
    PROVE  /\ [l EXCEPT ![a] = 1 - @] \in Looks
           /\ \A b \in Aspects : b # a => [l EXCEPT ![a] = 1 - @][b] = l[b]
  BY DEF Looks

LEMMA TypingStep ==
    ASSUME TypeOK, [Next]_vars
    PROVE  TypeOK'
<1>1. CASE UNCHANGED vars
  BY <1>1 DEF TypeOK, vars, component
<1>2. ASSUME NEW t \in Threads, GetAWT(t)
      PROVE  TypeOK'
  BY <1>2 DEF TypeOK, GetAWT, Goto, component, HasSurface
<1>3. ASSUME NEW t \in Threads,
             \/ AwtLock(t) \/ AwtUnlock(t) \/ Leave(t) \/ GetDrawingSurface(t)
             \/ FreeDrawingSurface(t) \/ FreeDrawingSurfaceInfo(t)
      PROVE  TypeOK'
  BY <1>3 DEF TypeOK, AwtLock, AwtUnlock, Leave, GetDrawingSurface, FreeDrawingSurface,
              FreeDrawingSurfaceInfo, Goto, component, HasSurface
<1>4. ASSUME NEW t \in Threads, Lock(t) \/ LockError(t) \/ TryAgain(t) \/ Unlock(t)
      PROVE  TypeOK'
  BY <1>4 DEF TypeOK, Lock, LockError, TryAgain, Unlock, Goto, component, HasSurface
<1>5. ASSUME NEW t \in Threads,
             GetDrawingSurfaceInfo(t) \/ NoDrawingSurfaceInfo(t) \/ Paint(t)
      PROVE  TypeOK'
  BY <1>5 DEF TypeOK, GetDrawingSurfaceInfo, NoDrawingSurfaceInfo, Paint, Goto, component,
              HasSurface
<1>6. ASSUME NEW a \in Aspects, Change(a)
      PROVE  TypeOK'
  <2>1. look' \in Looks
    BY <1>6, Flip DEF TypeOK, Change
  <2>2. changed' \in [Threads -> SUBSET Aspects]
    BY <1>6 DEF TypeOK, Change, Report
  <2> QED
    BY <1>6, <2>1, <2>2 DEF TypeOK, Change
<1>7. CASE Hide
  BY <1>7 DEF TypeOK, Hide
<1>8. CASE Show
  BY <1>8, Flip DEF TypeOK, Show, Report, Aspects
<1> QED
  BY <1>1, <1>2, <1>3, <1>4, <1>5, <1>6, <1>7, <1>8, Steps

\* JawtSurface is type correct, whatever the threads and versions.
THEOREM TypeCorrect == Spec => []TypeOK
<1>1. Init => TypeOK
  BY DEF Init, TypeOK, Looks, HasSurface
<1> QED
  BY <1>1, TypingStep, PTL DEF Spec

-----------------------------------------------------------------------------
\* The lock of the surface: who holds it is where only its holder can be.
LEMMA ExclusiveStep ==
    ASSUME TypeOK, Exclusive, [Next]_vars
    PROVE  Exclusive'
<1>1. CASE UNCHANGED vars
  BY <1>1 DEF Exclusive, vars, component
<1>2. ASSUME NEW t \in Threads,
             \/ GetAWT(t) \/ AwtLock(t) \/ AwtUnlock(t) \/ Leave(t) \/ GetDrawingSurface(t)
             \/ FreeDrawingSurface(t) \/ FreeDrawingSurfaceInfo(t) \/ LockError(t) \/ TryAgain(t)
      PROVE  Exclusive'
  BY <1>2 DEF TypeOK, Exclusive, GetAWT, AwtLock, AwtUnlock, Leave, GetDrawingSurface,
              FreeDrawingSurface, FreeDrawingSurfaceInfo, LockError, TryAgain, Goto, component,
              HasLock
<1>3. ASSUME NEW t \in Threads, Lock(t)
      PROVE  Exclusive'
  BY <1>3, NobodyIsNoThread DEF TypeOK, Exclusive, Lock, Goto, component, HasLock
<1>4. ASSUME NEW t \in Threads, Unlock(t)
      PROVE  Exclusive'
  BY <1>4, NobodyIsNoThread DEF TypeOK, Exclusive, Unlock, Goto, component, HasLock
<1>5. ASSUME NEW t \in Threads,
             GetDrawingSurfaceInfo(t) \/ NoDrawingSurfaceInfo(t) \/ Paint(t)
      PROVE  Exclusive'
  BY <1>5 DEF TypeOK, Exclusive, GetDrawingSurfaceInfo, NoDrawingSurfaceInfo, Paint, Goto,
              component, HasLock
<1>6. ASSUME NEW a \in Aspects, Change(a)
      PROVE  Exclusive'
  BY <1>6 DEF Exclusive, Change
<1>7. CASE Hide \/ Show
  BY <1>7 DEF Exclusive, Hide, Show, MayChange
<1> QED
  BY <1>1, <1>2, <1>3, <1>4, <1>5, <1>6, <1>7, Steps

\* The info goes before the surface does.
LEMMA NoInfoStep ==
    ASSUME TypeOK, NoSurfaceNoInfo, [Next]_vars
    PROVE  NoSurfaceNoInfo'
<1>1. CASE UNCHANGED vars
  BY <1>1 DEF NoSurfaceNoInfo, vars, component
<1>2. ASSUME NEW t \in Threads,
             \/ GetAWT(t) \/ AwtLock(t) \/ AwtUnlock(t) \/ Leave(t) \/ GetDrawingSurface(t)
             \/ FreeDrawingSurface(t) \/ FreeDrawingSurfaceInfo(t)
      PROVE  NoSurfaceNoInfo'
  BY <1>2 DEF TypeOK, NoSurfaceNoInfo, GetAWT, AwtLock, AwtUnlock, Leave, GetDrawingSurface,
              FreeDrawingSurface, FreeDrawingSurfaceInfo, Goto, component
<1>3. ASSUME NEW t \in Threads,
             \/ Lock(t) \/ LockError(t) \/ TryAgain(t) \/ Unlock(t)
             \/ GetDrawingSurfaceInfo(t) \/ NoDrawingSurfaceInfo(t) \/ Paint(t)
      PROVE  NoSurfaceNoInfo'
  BY <1>3 DEF TypeOK, NoSurfaceNoInfo, Lock, LockError, TryAgain, Unlock,
              GetDrawingSurfaceInfo, NoDrawingSurfaceInfo, Paint, Goto, component
<1>4. CASE (\E a \in Aspects : Change(a)) \/ Hide \/ Show
  BY <1>4 DEF NoSurfaceNoInfo, Change, Hide, Show
<1> QED
  BY <1>1, <1>2, <1>3, <1>4, Steps

\* What the AWT changes is added to the report of every thread with an info.
LEMMA ReportedChange ==
    ASSUME TypeOK, NoSurfaceNoInfo, Reported, NEW a \in Aspects,
           look' = [look EXCEPT ![a] = 1 - @], Report({a}), UNCHANGED <<pc, info>>
    PROVE  Reported'
<1> SUFFICES ASSUME NEW t \in Threads, info[t] # NoInfo, pc[t] # "locked",
                    NEW b \in Aspects, info[t][b] # look'[b]
             PROVE  b \in changed'[t]
  BY DEF Reported
<1>1. pc[t] \in HasSurface
  BY DEF TypeOK, NoSurfaceNoInfo
<1>2. changed'[t] = changed[t] \cup {a}
  BY <1>1 DEF Report
<1>3. CASE b = a
  BY <1>2, <1>3
<1>4. CASE b # a
  <2>1. look'[b] = look[b]
    BY <1>4, Flip DEF TypeOK
  <2> QED
    BY <2>1, <1>2 DEF Reported
<1> QED
  BY <1>3, <1>4

LEMMA ReportedStep ==
    ASSUME TypeOK, Exclusive, NoSurfaceNoInfo, Reported, ReadyIsFresh, [Next]_vars
    PROVE  Reported'
<1>1. CASE UNCHANGED vars
  BY <1>1 DEF Reported, vars, component
<1>2. ASSUME NEW t \in Threads,
             \/ GetAWT(t) \/ AwtLock(t) \/ AwtUnlock(t) \/ Leave(t) \/ GetDrawingSurface(t)
      PROVE  Reported'
  BY <1>2 DEF TypeOK, Reported, GetAWT, AwtLock, AwtUnlock, Leave, GetDrawingSurface, Goto,
              component
<1>3. ASSUME NEW t \in Threads, FreeDrawingSurface(t) \/ FreeDrawingSurfaceInfo(t)
      PROVE  Reported'
  BY <1>3 DEF TypeOK, Reported, FreeDrawingSurface, FreeDrawingSurfaceInfo, Goto, component
<1>4. ASSUME NEW t \in Threads, LockError(t) \/ TryAgain(t) \/ Unlock(t)
      PROVE  Reported'
  BY <1>4 DEF TypeOK, Reported, LockError, TryAgain, Unlock, Goto, component
<1>5. ASSUME NEW t \in Threads, Lock(t)
      PROVE  Reported'
  <2> SUFFICES ASSUME NEW u \in Threads, info[u] # NoInfo, pc'[u] # "locked"
               PROVE  {a \in Aspects : info[u][a] # look[a]} \subseteq changed'[u]
    BY <1>5 DEF Reported, Lock, component
  <2>1. CASE u = t
    BY <1>5, <2>1 DEF TypeOK, Reported, Lock, Goto
  <2>2. CASE u # t
    BY <1>5, <2>2 DEF TypeOK, Reported, Lock, Goto
  <2> QED
    BY <2>1, <2>2
<1>6. ASSUME NEW t \in Threads,
             GetDrawingSurfaceInfo(t) \/ NoDrawingSurfaceInfo(t) \/ Paint(t)
      PROVE  Reported'
  BY <1>6 DEF TypeOK, Reported, GetDrawingSurfaceInfo, NoDrawingSurfaceInfo, Paint, Goto,
              component
<1>7. ASSUME NEW a \in Aspects, Change(a)
      PROVE  Reported'
  BY <1>7, ReportedChange DEF Change
<1>8. CASE Hide
  BY <1>8 DEF Reported, Hide
<1>9. CASE Show
  BY <1>9, ReportedChange DEF Show, Aspects
<1> QED
  BY <1>1, <1>2, <1>3, <1>4, <1>5, <1>6, <1>7, <1>8, <1>9, Steps

\* Nothing reported, nothing wrong.
LEMMA NothingReported ==
    ASSUME TypeOK, Reported, NEW t \in Threads, info[t] # NoInfo, pc[t] = "surface",
           changed[t] = {}
    PROVE  info[t] = look
<1>1. info[t] \in Looks /\ look \in Looks
  BY DEF TypeOK
<1>2. \A a \in Aspects : info[t][a] = look[a]
  BY DEF Reported
<1> QED
  BY <1>1, <1>2 DEF Looks

LEMMA FreshStep ==
    ASSUME TypeOK, Exclusive, Reported, ReadyIsFresh, [Next]_vars
    PROVE  ReadyIsFresh'
<1>1. CASE UNCHANGED vars
  BY <1>1 DEF ReadyIsFresh, vars, component
<1>2. ASSUME NEW t \in Threads,
             \/ GetAWT(t) \/ AwtLock(t) \/ AwtUnlock(t) \/ Leave(t) \/ GetDrawingSurface(t)
             \/ FreeDrawingSurface(t) \/ FreeDrawingSurfaceInfo(t)
      PROVE  ReadyIsFresh'
  BY <1>2 DEF TypeOK, ReadyIsFresh, GetAWT, AwtLock, AwtUnlock, Leave, GetDrawingSurface,
              FreeDrawingSurface, FreeDrawingSurfaceInfo, Goto, component
<1>3. ASSUME NEW t \in Threads,
             \/ LockError(t) \/ TryAgain(t) \/ Unlock(t)
             \/ GetDrawingSurfaceInfo(t) \/ NoDrawingSurfaceInfo(t) \/ Paint(t)
      PROVE  ReadyIsFresh'
  BY <1>3 DEF TypeOK, ReadyIsFresh, LockError, TryAgain, Unlock, GetDrawingSurfaceInfo,
              NoDrawingSurfaceInfo, Paint, Goto, component
<1>4. ASSUME NEW t \in Threads, Lock(t)
      PROVE  ReadyIsFresh'
  BY <1>4, NothingReported DEF TypeOK, ReadyIsFresh, Lock, Goto, component
<1>5. CASE (\E a \in Aspects : Change(a)) \/ Hide \/ Show
  <2>1. \A t \in Threads : pc[t] # "ready"
    BY <1>5, NobodyIsNoThread DEF Change, Hide, Show, MayChange, Exclusive, HasLock
  <2> QED
    BY <1>5, <2>1 DEF ReadyIsFresh, Change, Hide, Show
<1> QED
  BY <1>1, <1>2, <1>3, <1>4, <1>5, Steps

-----------------------------------------------------------------------------
LEMMA Invariance == Spec => []IInv
<1>1. Init => IInv
  BY NobodyIsNoThread
  DEF Init, IInv, TypeOK, Exclusive, NoSurfaceNoInfo, Reported, ReadyIsFresh, Looks,
      HasSurface, HasLock
<1>2. IInv /\ [Next]_vars => IInv'
  BY TypingStep, ExclusiveStep, NoInfoStep, ReportedStep, FreshStep DEF IInv
<1> QED
  BY <1>1, <1>2, PTL DEF Spec

\* For any number of painters: a thread about to paint holds the lock of a
\* surface that exists and knows its clip, bounds and surface as they are, even
\* from an info it has kept since an earlier Lock (jawt.h:214-222).
THEOREM EveryonePaintsWhatIsThere == Spec => []PaintsWhatIsThere
<1>1. IInv => PaintsWhatIsThere
  BY NobodyIsNoThread DEF IInv, TypeOK, Exclusive, ReadyIsFresh, PaintsWhatIsThere, HasLock
<1> QED
  BY <1>1, Invariance, PTL

-----------------------------------------------------------------------------
(***************************************************************************)
(* Why painters that wait for each other do not wait for ever.  A thread   *)
(* waits for another in Lock, when that one has the surface, or in         *)
(* AwtLock, when it has the whole AWT.                                     *)
(***************************************************************************)
WaitsFor(t, u) ==
    /\ t # u
    /\ \/ pc[t] = "surface" /\ displayable /\ holder = u
       \/ pc[t] = "awt" /\ version[t] >= JAWT_VERSION_1_4 /\ awtHolder = u

\* Nobody leaves with the AWT locked.
AwtIsGivenBack == \A t \in Threads : awtHolder = t => pc[t] # "out"

\* Who waits for one that waits itself, waits for one that has the surface and
\* waits for nobody.
NoCircle ==
    \A t, u, v \in Threads : WaitsFor(t, u) /\ WaitsFor(u, v) =>
        pc[v] \in HasLock /\ \A w \in Threads : ~WaitsFor(v, w)

LEMMA AwtStep ==
    ASSUME TypeOK, AwtIsGivenBack, [Next]_vars
    PROVE  AwtIsGivenBack'
<1>1. CASE UNCHANGED vars
  BY <1>1 DEF AwtIsGivenBack, vars, component
<1>2. ASSUME NEW t \in Threads, AwtLock(t) \/ AwtUnlock(t)
      PROVE  AwtIsGivenBack'
  BY <1>2, NobodyIsNoThread DEF TypeOK, AwtIsGivenBack, AwtLock, AwtUnlock
<1>3. ASSUME NEW t \in Threads,
             \/ GetAWT(t) \/ Leave(t) \/ GetDrawingSurface(t) \/ FreeDrawingSurface(t)
             \/ FreeDrawingSurfaceInfo(t) \/ Lock(t) \/ LockError(t) \/ TryAgain(t) \/ Unlock(t)
             \/ GetDrawingSurfaceInfo(t) \/ NoDrawingSurfaceInfo(t) \/ Paint(t)
      PROVE  AwtIsGivenBack'
  BY <1>3 DEF TypeOK, AwtIsGivenBack, GetAWT, Leave, GetDrawingSurface, FreeDrawingSurface,
              FreeDrawingSurfaceInfo, Lock, LockError, TryAgain, Unlock, GetDrawingSurfaceInfo,
              NoDrawingSurfaceInfo, Paint, Goto
<1>4. ASSUME NEW a \in Aspects, Change(a)
      PROVE  AwtIsGivenBack'
  BY <1>4 DEF AwtIsGivenBack, Change
<1>5. CASE Hide \/ Show
  BY <1>5 DEF AwtIsGivenBack, Hide, Show
<1> QED
  BY <1>1, <1>2, <1>3, <1>4, <1>5, Steps

LEMMA Ordered == TypeOK /\ Exclusive => NoCircle
<1> SUFFICES ASSUME TypeOK, Exclusive, NEW t \in Threads, NEW u \in Threads, NEW v \in Threads,
                    WaitsFor(t, u), WaitsFor(u, v)
             PROVE  pc[v] \in HasLock /\ \A w \in Threads : ~WaitsFor(v, w)
  BY DEF NoCircle
<1>1. pc[u] \in {"surface", "awt"}
  BY DEF WaitsFor
<1>2. holder # u
  BY <1>1 DEF Exclusive, HasLock
<1>3. awtHolder = u
  BY <1>2 DEF WaitsFor
<1>4. holder = v
  BY <1>3 DEF WaitsFor
<1>5. pc[v] \in HasLock
  BY <1>4 DEF Exclusive
<1>6. pc[v] # "surface" /\ pc[v] # "awt"
  BY <1>5 DEF HasLock
<1> QED
  BY <1>5, <1>6 DEF WaitsFor

\* For any number of painters, whatever versions they ask for: the two locks are never
\* waited for in a circle, and who has locked the AWT is where it can give it back
\* (Lock and Unlock of a drawing surface and of the JAWT structure in jawt.h).
THEOREM NobodyWaitsInACircle == Spec => [](NoCircle /\ AwtIsGivenBack)
<1>1. Init => AwtIsGivenBack
  BY NobodyIsNoThread DEF Init, AwtIsGivenBack
<1>2. IInv /\ AwtIsGivenBack /\ [Next]_vars => AwtIsGivenBack'
  BY AwtStep DEF IInv
<1>3. IInv => NoCircle
  BY Ordered DEF IInv
<1> QED
  BY <1>1, <1>2, <1>3, Invariance, PTL DEF Spec

\* How many steps a thread may still take before it has unlocked the surface: to give
\* back an outdated info, to get one, to paint, to give it back, and to unlock.
StepsToUnlock(t) ==
    CASE pc[t] = "locked" -> IF info[t] = NoInfo THEN 4 ELSE 5
      [] pc[t] = "ready"  -> 3
      [] pc[t] = "drawn"  -> IF info[t] = NoInfo THEN 1 ELSE 2
      [] OTHER            -> 0

UnlockIsNearer ==
    \A t \in Threads : pc[t] \in HasLock =>
        \/ pc'[t] = pc[t] /\ info'[t] = info[t]
        \/ StepsToUnlock(t)' < StepsToUnlock(t)

\* A step of another thread than t.
LEMMA OthersStep ==
    ASSUME TypeOK, NEW t \in Threads, NEW u \in Threads, Step(u)
    PROVE  \/ u = t
           \/ pc'[t] = pc[t] /\ info'[t] = info[t]
<1>1. ASSUME GetAWT(u) \/ AwtLock(u) \/ AwtUnlock(u) \/ Leave(u) \/ GetDrawingSurface(u)
             \/ FreeDrawingSurface(u) \/ LockError(u) \/ TryAgain(u)
      PROVE  u = t \/ (pc'[t] = pc[t] /\ info'[t] = info[t])
  BY <1>1 DEF TypeOK, GetAWT, AwtLock, AwtUnlock, Leave, GetDrawingSurface, FreeDrawingSurface,
              LockError, TryAgain, Goto
<1>2. ASSUME FreeDrawingSurfaceInfo(u) \/ Lock(u) \/ Unlock(u) \/ GetDrawingSurfaceInfo(u)
             \/ NoDrawingSurfaceInfo(u) \/ Paint(u)
      PROVE  u = t \/ (pc'[t] = pc[t] /\ info'[t] = info[t])
  BY <1>2 DEF TypeOK, FreeDrawingSurfaceInfo, Lock, Unlock, GetDrawingSurfaceInfo,
              NoDrawingSurfaceInfo, Paint, Goto
<1> QED
  BY <1>1, <1>2 DEF Step

\* A step of t itself while it has the lock.
LEMMA OwnStep ==
    ASSUME TypeOK, NEW t \in Threads, Step(t), pc[t] \in HasLock
    PROVE  StepsToUnlock(t)' < StepsToUnlock(t)
<1>1. CASE FreeDrawingSurfaceInfo(t)
  <2>1. pc[t] \in {"locked", "drawn"} /\ pc' = pc /\ info[t] # NoInfo /\ info'[t] = NoInfo
    BY <1>1 DEF TypeOK, FreeDrawingSurfaceInfo, HasLock
  <2> QED
    BY <2>1 DEF StepsToUnlock
<1>2. CASE GetDrawingSurfaceInfo(t) \/ NoDrawingSurfaceInfo(t)
  <2>1. pc[t] = "locked" /\ info[t] = NoInfo
    BY <1>2 DEF GetDrawingSurfaceInfo, NoDrawingSurfaceInfo
  <2>2. pc'[t] = "ready" \/ (pc'[t] = "drawn" /\ info'[t] = NoInfo)
    BY <1>2 DEF TypeOK, GetDrawingSurfaceInfo, NoDrawingSurfaceInfo, Goto
  <2> QED
    BY <2>1, <2>2 DEF StepsToUnlock
<1>3. CASE Paint(t)
  <2>1. pc[t] = "ready" /\ pc'[t] = "drawn"
    BY <1>3 DEF TypeOK, Paint, Goto
  <2> QED
    BY <2>1 DEF StepsToUnlock
<1>4. CASE Unlock(t)
  <2>1. pc[t] = "drawn" /\ pc'[t] = "surface"
    BY <1>4 DEF TypeOK, Unlock, Goto
  <2> QED
    BY <2>1 DEF StepsToUnlock
<1> QED
  BY <1>1, <1>2, <1>3, <1>4 DEF Step, HasLock, GetAWT, AwtLock, AwtUnlock, Leave,
     GetDrawingSurface, FreeDrawingSurface, Lock, LockError, TryAgain

\* Who has locked the surface is never more than five steps of its own from having
\* unlocked it, and nothing that others or the AWT do takes it back: the steps of the
\* example of usage in jawt.h, from Lock to Unlock.
THEOREM UnlockComesNearer == Spec => [][UnlockIsNearer]_vars
<1>1. ASSUME IInv, [Next]_vars
      PROVE  [UnlockIsNearer]_vars
  <2> SUFFICES ASSUME NEW t \in Threads, pc[t] \in HasLock
               PROVE  \/ pc'[t] = pc[t] /\ info'[t] = info[t]
                      \/ StepsToUnlock(t)' < StepsToUnlock(t)
    BY DEF UnlockIsNearer
  <2>1. ASSUME NEW u \in Threads, Step(u)
        PROVE  \/ pc'[t] = pc[t] /\ info'[t] = info[t]
               \/ StepsToUnlock(t)' < StepsToUnlock(t)
    BY <1>1, <2>1, OthersStep, OwnStep DEF IInv
  <2>2. CASE (\E a \in Aspects : Change(a)) \/ Hide \/ Show \/ UNCHANGED vars
    BY <2>2 DEF Change, Hide, Show, vars
  <2> QED
    BY <1>1, <2>1, <2>2 DEF Next
<1> QED
  BY <1>1, Invariance, PTL DEF Spec
=============================================================================
