----------------------------- MODULE JvmtiAgent -----------------------------
(***************************************************************************)
(* An agent of the JVM tool interface (include/jvmti.h) that keeps a       *)
(* breakpoint on every instruction of a method.  A thread of its own waits *)
(* for the live phase, reads the bytecodes of the method, and walks them   *)
(* with the table of lengths (module Opcodes).  Another thread of the      *)
(* agent redefines the class, which clears the breakpoints of the method;  *)
(* after RedefineClasses has returned it tells the first thread, which     *)
(* clears what it has set since then and walks the new code.  The JVM goes *)
(* through its phases meanwhile, and it may die at any time.               *)
(*                                                                         *)
(* The JVM calls the agent back for events through a struct of functions,  *)
(* of the size of the struct the agent was compiled with.                  *)
(***************************************************************************)
EXTENDS Naturals, Sequences, FiniteSetsExt, SequencesExt, Opcodes, JvmtiEvents

CONSTANTS Codes,             \* the codes the method may have, in a sequence;
          NewCodes,          \* the indices of those it may be redefined to
          Events,            \* the events the agent has enabled
          CallbackCounts,    \* how many members its struct may have
          MaxRedefinitions   \* bound: calls of RedefineClasses

ASSUME CodesAreMethods ==
    Codes \in Seq(Seq(Instructions)) /\ NewCodes \subseteq DOMAIN Codes
ASSUME EventsExist ==
    Events \subseteq EventTypes /\ CallbackCounts \subseteq 1 .. Len(jvmtiEventCallbacks)
ASSUME BoundIsNumber == MaxRedefinitions \in Nat

NoCode == 0
NoEvent == "none"
NoMember == "no member"

VARIABLES phase,         \* the phase of the JVM
          code,          \* the code the method has in the JVM
          breakpoints,   \* the locations of the method with a breakpoint
          redefining,    \* RedefineClasses has done its work and not returned
          redefinitions, \* how many calls of RedefineClasses there were
          callbacks,     \* how many members the agent's struct has; 0 if not set
          called,        \* the event last posted, and the member called for it
          job,           \* the agent's thread: "waiting", "reading", "walking",
                         \* "clearing" or "over"
          bytes,         \* the code whose bytes it has read
          location,      \* how far it has walked
          set,           \* the locations it has set and not cleared
          again,         \* it was told of a redefinition
          error          \* what its last call returned

jvm  == <<phase, code, breakpoints, redefining, redefinitions>>
walk == <<bytes, location, set, again, error>>
vars == <<jvm, callbacks, called, job, walk>>

\* Of each code: its bytes, their number, and where its instructions start.
BytesOf == [c \in 1 .. Len(Codes) |-> Bytes(Codes[c])]
SizeOf(c) == IF c = NoCode THEN 0 ELSE Len(BytesOf[c])
Starts  == [c \in 1 .. Len(Codes) |-> StartsOf(Codes[c])]

TypeOK ==
    /\ phase \in DOMAIN JVMTI_PHASE
    /\ code \in DOMAIN Codes
    /\ breakpoints \subseteq 0 .. SizeOf(code) - 1
    /\ redefining \in BOOLEAN
    /\ redefinitions \in 0 .. MaxRedefinitions
    /\ callbacks \in CallbackCounts \cup {0}
    /\ called \in (Events \cup {NoEvent}) \X (EventTypes \cup {reserved, NoMember})
    /\ job \in {"waiting", "reading", "walking", "clearing", "over"}
    /\ bytes \in DOMAIN Codes \cup {NoCode}
    /\ location \in 0 .. SizeOf(bytes)
    /\ set \subseteq 0 .. SizeOf(bytes) - 1
    /\ again \in BOOLEAN
    /\ \E e \in DOMAIN JVMTI_ERROR : error = JVMTI_ERROR[e]

Init ==
    /\ phase = PhaseOrder[1]
    /\ code \in DOMAIN Codes
    /\ breakpoints = {}
    /\ redefining = FALSE
    /\ redefinitions = 0
    /\ callbacks = 0
    /\ called = <<NoEvent, NoMember>>
    /\ job = "waiting"
    /\ bytes = NoCode
    /\ location = 0
    /\ set = {}
    /\ again = FALSE
    /\ error = JVMTI_ERROR.NONE

-----------------------------------------------------------------------------
(***************************************************************************)
(* The JVM: its phases and its events.                                     *)
(***************************************************************************)
\* From one phase to the next; the first ends when Agent_OnLoad has returned.
Advance ==
    /\ callbacks # 0
    /\ \E i \in 1 .. Len(PhaseOrder) - 1 : phase = PhaseOrder[i] /\ phase' = PhaseOrder[i + 1]
    /\ UNCHANGED <<code, breakpoints, redefining, redefinitions, callbacks, called, job, walk>>

Live == phase = "LIVE"

\* Agent_OnLoad hands over the callbacks (SetEventCallbacks).
Agent_OnLoad ==
    /\ phase = "ONLOAD"
    /\ callbacks = 0
    /\ callbacks' \in CallbackCounts
    /\ UNCHANGED <<jvm, called, job, walk>>

\* The member of the struct for an event is found by its number.
Slot(event) == JVMTI_EVENT[event] - JVMTI_MIN_EVENT_TYPE_VAL + 1

\* Variant with a bug: an agent has all the members the JVM knows.
AnySize(event) == callbacks > 0

\* The agent's struct may end before the member.
HasMember(event) == Slot(event) <= callbacks

Post(event) ==
    /\ phase \in {"START", "LIVE"}
    /\ HasMember(event)
    /\ called' = <<event, IF Slot(event) <= callbacks
                             THEN jvmtiEventCallbacks[Slot(event)] ELSE NoMember>>
    /\ UNCHANGED <<jvm, callbacks, job, walk>>

-----------------------------------------------------------------------------
(***************************************************************************)
(* The agent's thread that redefines the class.                            *)
(***************************************************************************)
\* The JVM has the new code, and the breakpoints of the old one are gone.
RedefineClasses(new) ==
    /\ Live
    /\ ~redefining /\ redefinitions < MaxRedefinitions
    /\ code' = new
    /\ breakpoints' = {}
    /\ redefining' = TRUE
    /\ redefinitions' = redefinitions + 1
    /\ UNCHANGED <<phase, callbacks, called, job, walk>>

\* RedefineClasses returns, and the other thread is told.
Redefined ==
    /\ redefining
    /\ redefining' = FALSE
    /\ again' = TRUE
    /\ UNCHANGED <<phase, code, breakpoints, redefinitions, callbacks, called,
                   job, bytes, location, set, error>>

-----------------------------------------------------------------------------
(***************************************************************************)
(* The agent's thread that sets the breakpoints.                           *)
(***************************************************************************)
\* Variant with a bug: takes the numbers of the phases to be in their order.
LiveOrLater(number) == number >= JVMTI_PHASE.LIVE

IsLive(number) == number = JVMTI_PHASE.LIVE

\* GetPhase, until the JVM is live.
AwaitLive ==
    /\ job = "waiting"
    /\ IsLive(JVMTI_PHASE[phase])
    /\ job' = "reading"
    /\ UNCHANGED <<jvm, callbacks, called, walk>>

GetBytecodes ==
    /\ job = "reading"
    /\ phase \in {"START", "LIVE"}
    /\ job' = "walking"
    /\ bytes' = code
    /\ location' = 0
    /\ error' = JVMTI_ERROR.NONE
    /\ UNCHANGED <<jvm, callbacks, called, set, again>>

\* Variant with a bug: the JVM takes any location.
AnyLocation(l) == l \in Nat

HasLocation(l) == l < SizeOf(code)

\* SetBreakpoint at the next instruction.  The JVM does not know where the
\* instructions of the bytes start that the agent has read.
SetBreakpoint ==
    /\ job = "walking" /\ ~again
    /\ location < SizeOf(bytes)
    /\ Live
    /\ error' = CASE ~HasLocation(location)   -> JVMTI_ERROR.INVALID_LOCATION
                  [] location \in breakpoints -> JVMTI_ERROR.DUPLICATE
                  [] OTHER                    -> JVMTI_ERROR.NONE
    /\ IF HasLocation(location)
       THEN breakpoints' = breakpoints \cup {location} /\ set' = set \cup {location}
       ELSE UNCHANGED <<breakpoints, set>>
    /\ location' = Min({location + InstructionLength(BytesOf[bytes], location), SizeOf(bytes)})
    /\ UNCHANGED <<phase, code, redefining, redefinitions, callbacks, called, job, bytes, again>>

\* Variant with a bug: as the redefinition has cleared the breakpoints, the
\* agent does not.
KeepBreakpoints ==
    /\ job = "walking" /\ again
    /\ job' = "reading"
    /\ again' = FALSE
    /\ set' = {}
    /\ UNCHANGED <<jvm, callbacks, called, bytes, location, error>>

\* The agent has been told of a redefinition: it starts again.
StartAgain ==
    /\ job = "walking" /\ again
    /\ job' = "clearing"
    /\ again' = FALSE
    /\ UNCHANGED <<jvm, callbacks, called, bytes, location, set, error>>

ClearBreakpoint ==
    /\ job = "clearing"
    /\ set # {}
    /\ Live
    /\ LET l == Min(set)
       IN  /\ error' = CASE ~HasLocation(l)   -> JVMTI_ERROR.INVALID_LOCATION
                         [] l \in breakpoints -> JVMTI_ERROR.NONE
                         [] OTHER             -> JVMTI_ERROR.NOT_FOUND
           /\ breakpoints' = breakpoints \ {l}
           /\ set' = set \ {l}
    /\ UNCHANGED <<phase, code, redefining, redefinitions, callbacks, called,
                   job, bytes, location, again>>

Cleared ==
    /\ job = "clearing"
    /\ set = {}
    /\ job' = "reading"
    /\ UNCHANGED <<jvm, callbacks, called, walk>>

\* The calls of the agent are not for the phase the JVM is in: it stops.
WrongPhase ==
    /\ \/ job = "reading" /\ phase \notin {"START", "LIVE"}
       \/ job = "walking" /\ ~again /\ location < SizeOf(bytes) /\ ~Live
       \/ job = "clearing" /\ set # {} /\ ~Live
    /\ job' = "over"
    /\ error' = JVMTI_ERROR.WRONG_PHASE
    /\ UNCHANGED <<jvm, callbacks, called, bytes, location, set, again>>

-----------------------------------------------------------------------------
Agent ==
    \/ AwaitLive \/ GetBytecodes \/ SetBreakpoint
    \/ StartAgain \/ ClearBreakpoint \/ Cleared
    \/ WrongPhase

Next ==
    \/ Advance
    \/ Agent_OnLoad
    \/ \E event \in Events : Post(event)
    \/ \E new \in NewCodes : RedefineClasses(new)
    \/ Redefined
    \/ Agent

\* Both threads of the agent run, and a call of RedefineClasses returns.
Fairness == WF_vars(Agent) /\ WF_vars(Redefined)

Spec == Init /\ [][Next]_vars
FairSpec == Spec /\ Fairness

-----------------------------------------------------------------------------
(***************************************************************************)
(* Properties.                                                             *)
(***************************************************************************)
\* Whenever the agent knows of every redefinition, there is a breakpoint on
\* each instruction it has come by and nowhere else: none inside an
\* instruction, and none left of an older code that was set after its
\* redefinition.
BreakpointsOnInstructions ==
    Live /\ job = "walking" /\ ~redefining /\ ~again
        => breakpoints = {l \in Starts[code] : l < location}

\* However the class is redefined while the agent walks: as long as the JVM
\* lives, every instruction of the code it has comes to have a breakpoint, and
\* nothing else does.
EventuallyCovered == <>[](Live => breakpoints = Starts[code])

\* The agent makes no call too early: one that comes in the wrong phase comes
\* after the death of the JVM, which the agent cannot exclude.
NeverTooEarly == error = JVMTI_ERROR.WRONG_PHASE => phase = "DEAD"

\* The function called for an event is the one the agent provided for it, also
\* across the reserved members of the struct and for an agent whose struct is
\* smaller than the JVM's.
EventsReachTheirFunctions == called[1] # NoEvent => called[2] = called[1]
=============================================================================
