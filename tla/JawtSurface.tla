----------------------------- MODULE JawtSurface -----------------------------
(***************************************************************************)
(* Native painting through the AWT native interface (include/jawt.h).      *)
(*                                                                         *)
(* Each native thread follows the header's example of usage on a drawing   *)
(* surface of its own for one shared component: GetAWT, GetDrawingSurface, *)
(* Lock, GetDrawingSurfaceInfo, paint, FreeDrawingSurfaceInfo, Unlock,     *)
(* FreeDrawingSurface.  It may go on painting on a surface it keeps, and   *)
(* may keep the drawing surface info across Lock and Unlock as the header  *)
(* allows, asking for a new one when Lock reports a change.                *)
(*                                                                         *)
(* Meanwhile the AWT moves, clips, hides and shows the component.  The AWT *)
(* itself is not part of the repository: what it does is what the header   *)
(* promises of it.                                                         *)
(***************************************************************************)
EXTENDS Naturals, FiniteSets

CONSTANTS Threads,   \* the native threads that paint
          Versions,  \* the values they may give JAWT.version
          Nobody,    \* no thread
          NoInfo     \* no drawing surface info

JAWT_VERSION_1_3 == \h00010003
JAWT_VERSION_1_4 == \h00010004
JAWT_VERSION_1_7 == \h00010007
JAWT_VERSION_9   == \h00090000

\* What Lock reports changes of: JAWT_LOCK_CLIP_CHANGED and its like.
Aspects == {"CLIP", "BOUNDS", "SURFACE"}
Looks   == [Aspects -> {0, 1}]

ASSUME VersionsAreKnown ==
    Versions \subseteq {JAWT_VERSION_1_3, JAWT_VERSION_1_4, JAWT_VERSION_1_7, JAWT_VERSION_9}
ASSUME NobodyIsNoThread == Nobody \notin Threads
ASSUME NoInfoIsNoLook == NoInfo \notin Looks

VARIABLES look,         \* the component's clip, bounds and surface as they are
          displayable,  \* the component has a native surface
          holder,       \* the thread that has locked the surface, or Nobody
          awtHolder,    \* the thread that has locked the entire AWT, or Nobody
          pc,           \* pc[t]: how far thread t has come
          version,      \* version[t]: the JAWT.version t asked for
          info,         \* info[t]: the drawing surface info t has, or NoInfo
          changed       \* changed[t]: what t's next Lock will report

component == <<look, displayable>>
vars == <<look, displayable, holder, awtHolder, pc, version, info, changed>>

HasSurface == {"surface", "refused", "locked", "ready", "drawn"}
HasLock    == {"locked", "ready", "drawn"}

TypeOK ==
    /\ look \in Looks
    /\ displayable \in BOOLEAN
    /\ holder \in Threads \cup {Nobody}
    /\ awtHolder \in Threads \cup {Nobody}
    /\ pc \in [Threads -> {"out", "awt"} \cup HasSurface]
    /\ version \in [Threads -> Versions]
    /\ info \in [Threads -> Looks \cup {NoInfo}]
    /\ changed \in [Threads -> SUBSET Aspects]

Init ==
    /\ look = [a \in Aspects |-> 0]
    /\ displayable = TRUE
    /\ holder = Nobody
    /\ awtHolder = Nobody
    /\ pc = [t \in Threads |-> "out"]
    /\ version \in [Threads -> Versions]
    /\ info = [t \in Threads |-> NoInfo]
    /\ changed = [t \in Threads |-> {}]

Goto(t, l) == pc' = [pc EXCEPT ![t] = l]

-----------------------------------------------------------------------------
(***************************************************************************)
(* Variants with a bug each, used to see the properties fail.              *)
(***************************************************************************)
\* What has changed is kept for the component, not for each drawing surface:
\* the first thread to lock it gets the report and the others do not.
ReportOnce(t) ==
    /\ pc[t] = "surface"
    /\ holder = Nobody
    /\ displayable
    /\ holder' = t
    /\ Goto(t, IF info[t] # NoInfo /\ changed[t] = {} THEN "ready" ELSE "locked")
    /\ changed' = [u \in Threads |-> {}]
    /\ UNCHANGED <<component, awtHolder, version, info>>

\* The whole AWT is locked to paint, when the surface is already locked.
PaintUnderAwt(t) ==
    /\ pc[t] = "ready"
    /\ awtHolder \in {t, Nobody}
    /\ Goto(t, "drawn")
    /\ UNCHANGED <<component, holder, awtHolder, version, info, changed>>

\* The version is not one of those the header defines.
AnyVersion(t) ==
    /\ pc[t] = "out"
    /\ Goto(t, "awt")
    /\ version' = [version EXCEPT ![t] = 0]
    /\ UNCHANGED <<component, holder, awtHolder, info, changed>>

-----------------------------------------------------------------------------
(***************************************************************************)
(* JAWT_GetAWT and the functions of struct JAWT.  The version decides      *)
(* which of them there are: Lock and Unlock came with 1.4.                 *)
(***************************************************************************)
GetAWT(t) ==
    /\ pc[t] = "out"
    /\ Goto(t, "awt")
    /\ \E v \in Versions : version' = [version EXCEPT ![t] = v]
    /\ UNCHANGED <<component, holder, awtHolder, info, changed>>

\* A painter that wants the whole AWT locks it before any surface.
AwtLock(t) ==
    /\ pc[t] = "awt"
    /\ version[t] >= JAWT_VERSION_1_4
    /\ awtHolder = Nobody
    /\ awtHolder' = t
    /\ UNCHANGED <<component, holder, pc, version, info, changed>>

AwtUnlock(t) ==
    /\ pc[t] = "awt"
    /\ awtHolder = t
    /\ awtHolder' = Nobody
    /\ UNCHANGED <<component, holder, pc, version, info, changed>>

\* The painter is through with the AWT.
Leave(t) ==
    /\ pc[t] = "awt"
    /\ awtHolder # t
    /\ Goto(t, "out")
    /\ UNCHANGED <<component, holder, awtHolder, version, info, changed>>

\* A NULL surface, returned when an error has occurred, leaves the painter
\* where it was.
GetDrawingSurface(t) ==
    /\ pc[t] = "awt"
    /\ Goto(t, "surface")
    /\ UNCHANGED <<component, holder, awtHolder, version, info, changed>>

FreeDrawingSurface(t) ==
    /\ pc[t] \in {"surface", "refused"}
    /\ info[t] = NoInfo
    /\ Goto(t, "awt")
    /\ changed' = [changed EXCEPT ![t] = {}]
    /\ UNCHANGED <<component, holder, awtHolder, version, info>>

-----------------------------------------------------------------------------
(***************************************************************************)
(* The functions of JAWT_DrawingSurface.                                   *)
(***************************************************************************)
\* Lock waits for the surface, and reports what has changed since the last
\* Lock of this drawing surface.  A kept info of which nothing has changed is
\* as good as new.
Lock(t) ==
    /\ pc[t] = "surface"
    /\ holder = Nobody
    /\ displayable
    /\ holder' = t
    /\ Goto(t, IF info[t] # NoInfo /\ changed[t] = {} THEN "ready" ELSE "locked")
    /\ changed' = [changed EXCEPT ![t] = {}]
    /\ UNCHANGED <<component, awtHolder, version, info>>

\* JAWT_LOCK_ERROR: the surface could not be locked, and must not be unlocked.
LockError(t) ==
    /\ pc[t] = "surface"
    /\ ~displayable
    /\ Goto(t, "refused")
    /\ UNCHANGED <<component, holder, awtHolder, version, info, changed>>

TryAgain(t) ==
    /\ pc[t] = "refused"
    /\ displayable
    /\ Goto(t, "surface")
    /\ UNCHANGED <<component, holder, awtHolder, version, info, changed>>

GetDrawingSurfaceInfo(t) ==
    /\ pc[t] = "locked"
    /\ info[t] = NoInfo
    /\ info' = [info EXCEPT ![t] = look]
    /\ Goto(t, "ready")
    /\ UNCHANGED <<component, holder, awtHolder, version, changed>>

\* It returned NULL: nothing to paint with, and the lock still to be undone.
NoDrawingSurfaceInfo(t) ==
    /\ pc[t] = "locked"
    /\ info[t] = NoInfo
    /\ Goto(t, "drawn")
    /\ UNCHANGED <<component, holder, awtHolder, version, info, changed>>

Paint(t) ==
    /\ pc[t] = "ready"
    /\ Goto(t, "drawn")
    /\ UNCHANGED <<component, holder, awtHolder, version, info, changed>>

\* After painting, before asking for a new one, or before the surface goes.
FreeDrawingSurfaceInfo(t) ==
    /\ pc[t] \in {"locked", "drawn", "surface", "refused"}
    /\ info[t] # NoInfo
    /\ info' = [info EXCEPT ![t] = NoInfo]
    /\ UNCHANGED <<component, holder, awtHolder, pc, version, changed>>

Unlock(t) ==
    /\ pc[t] = "drawn"
    /\ holder' = Nobody
    /\ Goto(t, "surface")
    /\ UNCHANGED <<component, awtHolder, version, info, changed>>

-----------------------------------------------------------------------------
(***************************************************************************)
(* The AWT: it leaves a locked surface alone, and does nothing while it is *)
(* locked as a whole.                                                      *)
(***************************************************************************)
MayChange == holder = Nobody /\ awtHolder = Nobody

\* Every drawing surface of the component will report the changes A.
Report(A) ==
    changed' = [t \in Threads |-> IF pc[t] \in HasSurface THEN changed[t] \cup A ELSE {}]

Change(a) ==
    /\ MayChange
    /\ displayable
    /\ look' = [look EXCEPT ![a] = 1 - @]
    /\ Report({a})
    /\ UNCHANGED <<displayable, holder, awtHolder, pc, version, info>>

Hide ==
    /\ MayChange
    /\ displayable
    /\ displayable' = FALSE
    /\ UNCHANGED <<look, holder, awtHolder, pc, version, info, changed>>

\* Shown again, the component has another surface.
Show ==
    /\ MayChange
    /\ ~displayable
    /\ displayable' = TRUE
    /\ look' = [look EXCEPT !["SURFACE"] = 1 - @]
    /\ Report({"SURFACE"})
    /\ UNCHANGED <<holder, awtHolder, pc, version, info>>

-----------------------------------------------------------------------------
\* What a thread does once it has locked the surface.
UnderLock(t) ==
    /\ pc[t] \in HasLock
    /\ \/ GetDrawingSurfaceInfo(t) \/ NoDrawingSurfaceInfo(t) \/ Paint(t)
       \/ FreeDrawingSurfaceInfo(t) \/ Unlock(t)

Step(t) ==
    \/ GetAWT(t) \/ AwtLock(t) \/ AwtUnlock(t) \/ Leave(t)
    \/ GetDrawingSurface(t) \/ FreeDrawingSurface(t) \/ FreeDrawingSurfaceInfo(t)
    \/ Lock(t) \/ LockError(t) \/ TryAgain(t) \/ Unlock(t)
    \/ GetDrawingSurfaceInfo(t) \/ NoDrawingSurfaceInfo(t) \/ Paint(t)

Next ==
    \/ \E t \in Threads : Step(t)
    \/ \E a \in Aspects : Change(a)
    \/ Hide
    \/ Show

\* A thread does not stop in the middle of the example: it locks the surface
\* when it can, goes on to unlock it, and gives the AWT back.  Nothing is
\* assumed of which of two waiting threads gets a lock.
Fairness ==
    \A t \in Threads : WF_vars(Lock(t)) /\ WF_vars(UnderLock(t)) /\ WF_vars(AwtUnlock(t))

Spec == Init /\ [][Next]_vars
FairSpec == Spec /\ Fairness

-----------------------------------------------------------------------------
(***************************************************************************)
(* Properties.                                                             *)
(***************************************************************************)
\* A thread about to paint holds the lock of a surface that exists, and what
\* it knows of clip, bounds and surface is so, even if it kept the info from
\* an earlier Lock, other threads have painted since and the component has
\* been clipped, moved, hidden and shown (jawt.h:214-222).
PaintsWhatIsThere ==
    \A t \in Threads : pc[t] = "ready" =>
        /\ holder = t
        /\ displayable
        /\ info[t] = look

\* Whatever a kept info has wrong will be reported by the next Lock; while a
\* thread holds the lock nothing changes under it.
Exclusive ==
    /\ \A t \in Threads : pc[t] \in HasLock <=> holder = t
    /\ holder # Nobody => displayable

Reported ==
    \A t \in Threads : info[t] # NoInfo /\ pc[t] # "locked" =>
        {a \in Aspects : info[t][a] # look[a]} \subseteq changed[t]

ReadyIsFresh == \A t \in Threads : pc[t] = "ready" => info[t] = look

NoSurfaceNoInfo == \A t \in Threads : pc[t] \in {"out", "awt"} => info[t] = NoInfo

IInv == TypeOK /\ Exclusive /\ NoSurfaceNoInfo /\ Reported /\ ReadyIsFresh

\* Painters that lock the surface and the whole AWT never wait for each other
\* for ever: whoever has locked the surface unlocks it.
EveryLockEnds ==
    \A t \in Threads : pc[t] \in HasLock ~> pc[t] \notin HasLock
=============================================================================
