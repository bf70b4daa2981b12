# A TLA+ model of the native interfaces of this JDK

The repository is a Java development kit for Windows (21.0.8) as it is
distributed: binaries under `bin/` and `jmods/`, the C headers of its native
interfaces under `include/`, its configuration under `conf/`, licences, and a
small test program. What can be verified here is what the headers say: the
packages two processes exchange, their layout and numbers, and the protocols
that callers and callees of the native interfaces follow. The code behind the
headers (DLLs, the `.c` file the headers refer to) is not in the repository;
where the model needs it, it does what the headers say of it, and `map` in
`PROJECT.json` marks the definition external.

## The system

| Part | State it keeps | Operations | Interacts by |
|---|---|---|---|
| Access Bridge: rendezvous (`AccessBridgePackages.h` 699-771) | bridge window and peers of each process, memory-mapped files | attach, detach, seven packages | messages posted to windows |
| Access Bridge: packages (same file, 602-2210) | none; fields, numbers and unions | number, lay out | shared memory, one layout for two compilers |
| Access Bridge: context info (577-642) | interface bits of a context | fill, read | shared memory |
| Access Bridge: calls (`AccessBridgeCalls.h` 111-715) | the JVM's components, selections, documents | 68 calls | call by package, answered in place |
| Access Bridge: events (`AccessBridgeCalls.h` 399-429, `AccessBridgeCallbacks.h`) | registered callbacks, events waiting, object references | set callback, deliver, release | event packages |
| AWT native interface (`jawt.h`) | drawing surfaces, their info, two locks | lock, get info, paint, free, unlock | calls from any number of native threads |
| JDWP transport (`jdwpTransport.h`) | listening, connection, last error | listen, accept, attach, read, write, close | packets, timeouts |
| JNI (`jni.h`) | attached threads, references | create, attach, detach, destroy | calls |
| JVM tool interface (`jvmti.h`) | phase, thread states, monitors, enabled events | about 150 functions, 39 members for the callbacks of 34 events | calls and callbacks |
| Class file constants (`classfile_constants.h`) | none; opcodes and lengths | walk over bytecode | - |
| Configuration (`conf/`) | settings | read | - |

The hard behaviour is where two processes or threads meet: bridges that come
and go while packages about them are under way; a document or a component that
changes between two calls about it; information that may be kept and may have
become wrong; two locks; structures that two compilers have to agree on without
seeing each other. `hazards` in `PROJECT.json` lists these places by line.

What makes the parts correct:

- rendezvous: nobody is missed, nobody who left is kept, one file per pair;
- packages: every package has its own number, the same layout for both word
  sizes, and room in the buffer it travels in;
- calls: all that a call is given and gives back has a place in its package;
  iterations end and explain what they skip; a list of actions is done once, in order;
- drawing surfaces: nobody paints from outdated information, nobody waits for ever;
- events: no reference used after its release, none kept for ever;
- transport: one session at a time, every command answered by its own session,
  nobody waits for a peer that says nothing;
- JVMTI: breakpoints on instructions only, whatever is redefined meanwhile; no
  call in the wrong phase; every event reaches the function meant for it.

## Modules

**AccessBridgeRendezvous** models the rendezvous. A bridge is a JVM or an
assistive technology (AT); `status`, `inbox`, `peers` and `mapped` are, for each
bridge, its life, the queue of its window, the bridges it knows, and (for a
JVM) whose memory-mapped file it has open. `OpenWindow`, `Announce`, `Detach`
and `Crash` are the life of a bridge; one `Receive...` action stands for each of
the seven packages. The header says when each package is sent ("sent by JVM
Bridges in response to a WindowsATCreate message; saying howdy, welcome to the
neighborhood"). What it leaves open is assumed:

- the bridge window exists before Created is sent, because Created carries it;
- Created and Destroyed go to every bridge window of the other side;
- a window's messages are read in the order in which they were posted;
- an AT sets up one memory-mapped file for a JVM, when it first meets it;
- detaching and telling of it is one step (a crash may come before it);
- a member of `JVMs` or `ATs` is one life of a bridge: window handles are never
  used again, and a process that attaches again is another member.

**Neighbourhood** is the abstract specification: who may regard whom as a
stranger, a neighbour or gone. `ImplementsNeighbourhood` maps a peer to a
neighbour and a departed bridge of which only the Destroyed package is still
queued to gone.

**AccessBridgeEvents** models the events. An AT has `callback`, the types it has a
callback for; what it knows of each JVM (`relation`); the queue of its window
(`events`); and the references it was given and has not released (`inHand`). A
JVM has its queue (`requests`), the notification masks each window asked for
(`wanted`), and the objects it keeps alive for ATs (`held`). `SetCallback` and
`ClearCallback` are a `Set...` call with a function and with null, and send the
registration package of the type's family (`AccessBridgePackages.h` 1401-1436)
to every JVM that was met. `Post` is an event in the JVM, `CallBack` and
`NoCallback` are its arrival at the AT, `ReleaseJavaObject` and `Call` are calls
that name an object, `ServeRegistration` and `ServeObject` the JVM's side.
`ShutDown` posts JavaShutdown and Destroyed, `Crash` posts nothing. A mask is the
set of its bits, and the same bit means one thing in each family. Assumed:

- `Meet` stands for the whole rendezvous, and registers what is set by then;
- what an AT sends to a JVM arrives in the order in which it was sent;
- a JVM that shuts down posts JavaShutdown before Destroyed, and both to the queue
  its events go to;
- every window that asked for an event gets references of its own;
- for an event that has no callback (any more) the bridge releases the references;
- what a callback is given, the AT releases in the end;
- releases and registrations for a JVM that has ended go nowhere, and a JVM's
  objects end with it; ATs do not end here.

**DataLemmas** has what several proofs use: how the packages of a queue and their
order change when one is read and others are posted, and induction over numbers,
stated with sets.

**AccessBridgePackages** has every struct of the header as a sequence of runs of
equal fields, the numbers of `PackageType` and the members of the unions, with
the rules by which a Windows compiler lays a struct out, for 32- and 64-bit
processes with and without `ACCESSBRIDGE_ARCH_LEGACY`. **PackageLayout** passes
over the enumerators and fields in the order of the header.

**AccessBridgeCalls** is the table of functions an AT calls (`AccessBridgeFPs`):
what each call is given and what it gives back, as the C types of the prototypes.
`Lost` and `Unused` compare that with the fields of the package that carries the
call; `Dropped` names the five values that have no field (what two
calls ask about, and whether three succeeded). The property
`CallsTravel` says that these five are all: nothing else is lost, and no package
has a field its call has no use for. PackageLayout checks it at each package.

**AccessibleInterfaces** is the field `accessibleInterfaces` and its older
reader.

**HypertextPaging** is the iteration that `getAccessibleHypertextExt` is for,
against an application that inserts and removes links between any two calls.
The caller's loop is assumed to stop at the count it was told and at the first
call that fails. A start index behind the last link is taken to be an error, and
either call may fail for a reason of the JVM's own at any time (`NoCount`, the
count is -1; `NoPage`, the call returns FALSE). `shifted` remembers edits before the index.

**AccessibleActions** is `doAccessibleActions`. The AT knows up to
`MAX_ACTION_INFO` actions (`actionInfo`), wants a list of them performed (`plan`)
and sends it in packages of `MAX_ACTIONS_TO_DO` (`Request`); the JVM performs a
package action by action (`Perform`), and the first that fails ends the call with
its index (`Fail`). The application enables and disables actions at any step
(`Change`). How an AT splits a list and whether it tries again (`TryAgain`) or
not (`GiveUp`) is not in the headers; the split the limits force is assumed, and
either choice after a failure.

**JawtSurface** is painting by native threads: `pc` follows the example of usage
in `jawt.h` (92-134) for each thread, with the failures the header allows (a
surface that cannot be locked, no info), the info kept across locks that the
header allows, repeated painting on one surface, and the lock of the entire
AWT. The AWT moves, clips, hides and shows the component whenever neither lock
is held. It is assumed that Lock reports every change since the last Lock of
the same drawing surface, that a drawing surface stays with its thread
(184-185), and that painters take the lock of the AWT before that of a surface.

**DebugSessions** says what debuggers may rely on: one session at a time, and
replies only to commands of the debugger's own, each once. **JdwpTransport**
is the listening side of `jdwpTransport.h`: a transport that listens, accepts one
connection with a handshake, stops listening, and reads and writes packets until
`Close`; and the agent that calls it, as two threads (`reader` and `loop`) with a
queue between them. `AcceptTimeout` and `HandshakeTimeout` are the two timeouts of
`Accept` (181-184), each allowed by its capability. Debuggers connect, greet, send
and leave at any step, and number their commands from 1 in every session. The
header has the calls, not what happens when they meet; assumed are:

- `Close` ends a `ReadPacket` that is blocked in another thread, with an error;
- `StopListening` refuses the connections that wait;
- a handshake that fails closes its connection and ends `Accept`;
- a session is served to its end before the agent listens again, and what the
  reader has left is thrown away then.

**Opcodes** is `classfile_constants.h`: the mnemonics in the order of their
opcodes, the table of instruction lengths, and how to work out a length where the
table has 99 (the switches) or 0 (wide). The encoding of instructions (`Encoded`),
which the table is checked against, is that of the class file format; the bytes of a
method (`BytesUpTo`) are a recursive function. **JvmtiEvents** has
the phases, errors, events and members of the callback struct of `jvmti.h` with
their numbers. **JvmtiAgent** is an agent that uses both: a thread
waits for the live phase (`AwaitLive`), reads a method (`GetBytecodes`) and sets a
breakpoint on every instruction (`SetBreakpoint`), while another redefines the
class (`RedefineClasses`, `Redefined`) and the JVM posts events through the
agent's callbacks and dies (`Advance`). After a redefinition the first
thread clears what it has set (`ClearBreakpoint`) and starts again. From the
specification of the JVM tool interface, which the header only names, it takes:

- breakpoints, like their clearing, belong to the live phase, bytecodes to the
  start and live phases;
- a redefinition clears the breakpoints of the method and counts from the moment
  the JVM has the new code, before `RedefineClasses` returns;
- `SetBreakpoint` and `ClearBreakpoint` check a location against the size of the
  code (`JVMTI_ERROR_INVALID_LOCATION`) and not against the starts of its instructions.

## Runs

| Run | Shows | Bounds |
|---|---|---|
| `rendezvous_safety` | `NobodyMissed`, `NoStalePeer`, `OneFilePerPair` | 2 JVMs, 2 ATs, symmetric |
| `rendezvous_live` | `EventuallyLinked`, `EventuallyForgotten`, `ImplementsNeighbourhood` | 1 JVM, 2 ATs |
| `events_ats` | `RegistrationsAddUp`, `NoUseAfterRelease` | 1 JVM, 2 ATs, FocusGained and PropertyDescriptionChange, 1 event, symmetric |
| `events_live` | `RegistrationsAddUp`, `ShutdownIsLast`, `NothingLost`, `EventuallyListens`, `EventuallyReleased` | 1 JVM, 1 AT, MouseReleased, PropertyChildChange and JavaShutdown, 1 event |
| `package_layout` | `Dispatchable`, `WordSizeIndependent`, `FitsItsUnion`, `CallsTravel` | none: all packages, all four ABIs |
| `package_unions` | refutes `UnionsAreComplete` | none |
| `older_at` | refutes `BackwardlyCompatible` | none: all sets of interfaces |
| `hypertext_paging` | `PrefixReceived`, `ReceivedOnce`, `NothingSkipped`, `EveryIterationEnds` | 5 links, pages of 2 |
| `jawt_painters` | `PaintsWhatIsThere`, `EveryLockEnds` | 2 threads, versions 1.3 and 9 |
| `accessible_actions` | `PerformedAsPlanned`, `EveryPlanIsAnswered` | 2 actions, lists of up to 5 in packages of 2 |
| `jvmti_agent` | `BreakpointsOnInstructions`, `NeverTooEarly`, `EventsReachTheirFunctions`, `EventuallyCovered` | 38 methods, 2 redefinitions, 2 events, structs of 35 and 39 members |
| `jdwp_transport` | `ImplementsSessions`, `NobodyWaitsInVain`, `EveryCommandIsAnswered`, `ListensAgain` | 2 debuggers, 3 commands each, both timeouts |

Two bridges on each side are enough for a newcomer to meet one peer that knows
it and one that does not; the liveness run needs no symmetry and is smaller.
In the event runs one JVM, which may be met before or after a callback is set, is
enough: an AT keeps the state of each JVM apart, and JVMs share nothing (the
proofs are for any number of them). FocusGained and PropertyDescriptionChange have the same bit in
different families, and so do MouseReleased and PropertyChildChange, which carry two and
four references. `MaxEvents` bounds the events of a JVM, so that references can be told
apart by the event's number; `MaxRequests` (2) only keeps an AT from setting, clearing
and calling while that many packages wait in a JVM's queue, which still leaves a
clear and a set of the same callback queued behind each other; releases and
registrations made by `Meet` are not restrained. Five links make three pages, so that edits fall before, into and behind a page
that is neither first nor last; a link that was removed does not come back, which
bounds the edits. Two threads are enough for one to take the other's report
and for a cycle of two locks; 1.3 is a version without the lock of the AWT, 9 one
with it. Five actions make three packages, the last one not full. The methods of
`jvmti_agent` are all 202 opcodes in 21 methods of ten and less, `tableswitch` and
`lookupswitch` at each of the four alignments with zero to two entries, and a
method to redefine to that has `wide`, `goto_w` and a switch; a second redefinition
comes while the agent clears or reads again after the first. The members
of both events come after reserved ones in the callback struct, and the smaller
struct ends before the second. Two debuggers are enough for a session
and the next one, three commands for one being served, one in the queue and one
unread when the session ends.

The rendezvous, event, layout and agent runs switch the deadlock check off: every
bridge and every JVM lives once (an agent ends with its JVM), and the pass over the header ends. In `older_at` the field is
read once.

Fairness: a bridge that stays alive reads its window's queue (a message loop),
but nothing makes it attach, detach or crash. An AT releases the references it was
given, which the header demands of it; nothing makes an event occur or an AT set a
callback, and a callback need not stay set. An AT goes on with an iteration it
has begun. A native thread goes on from Lock to Unlock and takes a lock that
stays free; which of two waiting threads gets a lock is left open, so nothing is
claimed of threads that wait for a surface others keep painting on. An AT goes on
with a plan it has begun and the JVM with a call, but nothing makes an AT try again. The
agent's threads run and `RedefineClasses` returns; nothing makes the JVM enter its
next phase, so that `EventuallyCovered` is about JVMs that stay live. The debugger
agent's threads run and a handshake timeout expires; debuggers owe nothing, except
that they notice a closed connection.

## Findings

- The unions are said to hold all package contents, and do not: `AllPackages`
  has no table package, and the Windows-initiated union has no hypertext
  package, although the calls exist and are numbered. `package_layout` shows that
  the omitted packages still fit.
- The bit field is said to be backwardly compatible, and is not: an older AT that
  tests the BOOL sees an AccessibleValue in every context that has any of the
  seven interfaces.
- Noted without a run: the comments behind the interface bits (`1 << 1` for 1 and
  so on) are one too high; `AccessBridge_JavaShutdownFP` is declared twice; two
  enumerators (`PropertyChange`, `GetSameTextAttributesInRange`) have no package;
  requestFocus, selectTextRange and setCaretPosition are said to return "whether
  successful" and have no field for it (`CallsTravel` counts them among the five
  exceptions); `SetPropertyChange` and `Windows_run` are in the table of functions and
  not declared, `getHWNDFromAccessibleContext` is declared in two spellings;
  `jawt.h` demands one thread per surface and says what to do when there are two.

## Proofs

Every safety invariant that a run checks on a module with constants is a theorem,
for every value of the constants that satisfies the module's assumptions, and so
are both refinements. Some theorems go beyond what the runs check: bounds, measures and
what a step may not do. Each proof has the same parts: an inductive invariant, that
`Init` has it, one lemma per action or kind of action that keeps it, and the
theorems that follow. An invariant was checked by TLC on the run's instance before
it was proved. The proofs rest on the named `ASSUME`s, which TLC evaluates for every
run; `QueuesStayShort` alone also assumes, in its statement, that the bridges are finitely many.

**`AccessBridgeRendezvous_proofs`**, from `BridgesAreDisjoint`.

- `TypeCorrect`, `NobodyIsMissed`. `NobodyMissed` is not inductive: a Destroyed
  package that names an attached bridge, or a bridge known before it had a window,
  would break it. `IInv` adds `NothingEarly`, which says that only detached bridges
  send Destroyed and that nothing is known of an unborn one. The proof takes the
  link that the invariant promises (a peer, or a package in one of two queues)
  through each action: the package that is read turns into the peer or into the
  answer that makes it one, and all others stay in their queue.
- `NobodyKeepsTheDeparted` (`NoStalePeer`), `OneFileForEachPair` (`OneFilePerPair`).
  Both depend on the order of packages in a queue. `OrderedInv` adds to `IInv`:
  `GoodbyeIsLast`, nothing of a bridge is queued behind its Destroyed, because it
  answers nothing after it; `GoneForGood`, who has read that package has nothing of
  the bridge again, as nobody introduces a bridge but itself; `FilesAreTold`, the
  file is announced once and only to a JVM the AT knows, and `MetBeforeFile`, the JVM
  has met the AT or will read the meeting first: otherwise two announcements,
  each in answer to one of the crossing packages, could be under way;
  and `AbsentHaveNothing`. The seven packages are treated as one: `Handles` is what
  all `Receive...` actions have in common.
- `RendezvousIsANeighbourhood` (`ImplementsNeighbourhood`), from `OrderedInv`. A view is a function
  of the peers, the life of both bridges and the queue (`View`); a life step maps to
  `Arrive`, `Settle` or `Leave`, and reading a package to a meeting, a parting or a
  stutter. That a parting is for good needs `GoneForGood`.
- `EachPackageIsQueuedOnce`, `QueuesStayShort`. A package is announced at a moment of a
  life that comes once: Created when a bridge attaches, Present when it reads the
  Created package of the newcomer. `AnsweredOnce` adds that a Present package in a queue
  excludes the Created package that it answers, so that no second one follows;
  Destroyed and the file come once by `GoodbyeIsLast` and `FilesAreTold`. A queue without
  repetitions is no longer than the set of packages that it can have: four for each AT in
  the queue of a JVM, three for each JVM in the queue of an AT. The bound assumes
  finitely many bridges and nothing about how fast they read.
- `LinksLast`. Two bridges that are linked stay so while both live: what is read late
  only adds peers and files, and a Destroyed package is of a bridge that has detached.

**`AccessBridgeEvents_proofs`**, from `TypesAreKnown` and `BoundsAreNumbers`.

- `TypeCorrect`, `NothingIsLost`. `NothingLost` says that a reference held by a
  running JVM is in an event under way, in an AT's hand or in a release under way;
  each step hands it from one of these places to the next, or leaves it. This fails
  where a release goes nowhere, or references are thrown away: at an AT that
  does not know the JVM, or that takes a running one to have shut down. `OwnObjects`
  excludes these. `OwnReferences` says that a reference is with the AT it was made
  for, which has met its JVM, so that the release is sent; `OwnEvents` that an event
  speaks of its own JVM and that only JVMs that have ended say JavaShutdown or
  Destroyed; `OwnRegistrations` that a JVM which was not met has nobody to post to.
  `IInv` is the conjunction.
- `LastEventsAreLast` (`ShutdownIsLast`). `GoodbyeIsLast` orders each queue: nothing of
  a JVM behind its Destroyed and nothing but Destroyed behind its JavaShutdown,
  and who has read Destroyed has nothing of the JVM queued.
- `ReferencesAreGood` (`NoUseAfterRelease`). `GivenOnce`: no reference is in two
  events, or in an event and in hand, and the next event of a JVM has new ones.
  `ReleasedOnce`: what an AT has or will get is held and not on its way back, and
  behind a release no release and no call of the same object is queued. Without
  `GivenOnce` the second receiver of a reference could use it after the release by the first.
- `ReferencesDoNotReturn`. From the same invariants, about steps: a reference moves from
  the queue to the hand or the way back, from the hand to the way back, and then to
  nowhere; the JVM lets an object go only for a release that was sent, and never
  holds it again. `ReferencesMove` says where references can be after a step: only Post
  makes new ones, and those have a number that none had before (`Fresh`).
- `RegistrationsFollowCallbacks` (`RegistrationsAddUp`). The mask of a JVM counts only
  through what is still queued: for each type the last registration of its
  family that names it (`LastRegistration`) tells whether the AT has a callback,
  and if none is queued the mask does.

**`HypertextPaging_proofs`**, from `PageIsNotEmpty`.
`TypeCorrect`, and from the inductive `PagesInv`: `PagesArePrefix` (`PrefixReceived`),
`LinksAreReceivedOnce` (`ReceivedOnce`), `NoLinkIsSkipped` (`NothingSkipped`).
`InStep` says that the AT has one link for each index it has passed and, without
an edit before the index, the document's own; `AheadIsNew` that links ahead have not been
received while nothing was inserted before the index, which a removal keeps because it
moves links backwards only; `FreshIsNew` that a link yet to be inserted has not been received.
`EveryPageCounts`, from `PagesInv`, is why an iteration ends: each call that succeeds goes on by a
full page or to the end of the document, keeps what was received, and leaves the count it goes by.

**`JawtSurface_proofs`**, from `NobodyIsNoThread`: `TypeCorrect` and
`EveryonePaintsWhatIsThere`. `PaintsWhatIsThere` speaks of the moment of painting;
`Reported` adds what makes it true later: whatever a kept info has wrong is in what
the next Lock of its thread will report. `Exclusive` ties the lock to the places
where its holder can be, so that the AWT changes nothing while anyone is about to paint.
`NobodyWaitsInACircle`: who waits for the lock of the surface may hold the lock of the AWT,
but who holds the surface waits for nothing, so that a chain of waiting threads has at most
two links; and who holds the AWT has not left yet. `UnlockComesNearer`: a measure of the steps
from Lock to Unlock, which only steps of the thread itself change, and always downwards.

**`AccessibleActions_proofs`**, from `RoomForActions` and `PlansAreBounded`:
`TypeCorrect` and `ActionsArePerformedAsPlanned`. `PerformedAsPlanned` ties what has
been performed to `next` and `at`, which change at different steps of a call. `Asked`
says that the list in the package is the chunk of the plan at `next`; `Answered` that the
answer tells how much of it was done, so that the AT goes on at the right action after a
success and after a failure. `EveryStepCounts`: while an AT carries out a plan, `StepsLeft`, at
most 4n + 2 for n actions, falls with each step but those of the application, which leave the
call alone; a chunk is never empty.

**`JdwpTransport_proofs`**, from `CommandsAreBounded` and `NobodyIsNoDebugger`:
`TypeCorrect` and `TransportImplementsSessions`, the refinement of DebugSessions. That a
reply answers a command which has no reply yet needs `Pipeline`: the ids on the network,
in the reader's hands, in the queue and in the loop's hands follow one another, and
everything answered lies before them. `Pipeline` speaks of one session; `OneSession` ends
it, as a closed connection leaves no packet, no reader and no queue for the next;
`NothingEarly` starts the next with a debugger that has not sent anything. `[Next]_vars`
then maps to a step of DebugSessions: `Send` to `Ask`, `HandshakeDone` to `Begin`, `Close` to
`End`, `WritePacket` to `Answer` unless the debugger has gone, and all others to a stutter.
`CommandsAreAnsweredInOrder` says more than DebugSessions of one session: as the places of
`Pipeline` follow one another up to what was sent, a debugger has the replies to its first
commands without a gap (`CaughtUp`), and each other command is in one of the places.

**`JvmtiAgent_proofs`**, from `CodesAreMethods`, `EventsExist` and `BoundIsNumber`.

- `EventsAreNotMixedUp` (`EventsReachTheirFunctions`): the struct has an event's
  member at the place that its number gives, for all numbers.
- `CallsAreForTheirPhase` (`NeverTooEarly`): the thread begins in the live phase, and
  no phase but the dead one follows (`LiveOnce`).
- `LengthsLeadOn`: for methods of any length, of any instructions, the table and the
  computed lengths lead from each instruction to the next one and nowhere else. First
  the table against the encoding: both are written by groups of opcodes, so each
  group of lengths is compared with its group of mnemonics and the groups are
  joined (`TableMatches`: all 202 entries are 1 and the operands, except 0 for wide and 99 for
  the switches). Then the four ways to get a length (`WideIsComputed`,
  `SwitchesAreComputed` at every alignment and for every number of entries,
  `OthersAreInTable`). Then the bytes of a method, by induction over its instructions: each
  stands behind those before it, and stays there.
- `TypeCorrect`, `WalkSetsBreakpoints` (`BreakpointsOnInstructions`), from `LengthsLeadOn`
  and `WalkInv`. `AtInstruction`: the walk is at the start of an instruction or at
  the end. `OwnBreakpoints`: the thread knows of every breakpoint there is, so that it
  clears also those that it sets in the new code while it still walks the old one.
  `UpToDate`: if it knows of every redefinition it walks the current code.
- `AgentComesToRest`, from `WalkInv`: each step of the agent's threads lowers what it may
  yet be told (`TellsLeft`), or else goes to a later stage of its work (`Stage`), or else
  clears a breakpoint or goes to the next instruction (`GoesByOne`, by `LengthsLeadOn`). When
  nothing is left, the current code has a breakpoint on each instruction.

Induction: the provers cannot use the library's induction theorems, which take a
predicate. `DataLemmas!SetInduction` is for sets of numbers instead, and follows
from the order of the numbers being well-founded; `BytesAreAdded` (the
recursion of `BytesUpTo` has the value it says) and `BytesStay` use it.

Only model-checked: liveness and ENABLED, which are out of the prover's reach (the safety half
of it is proved where it says something by itself: the measures `EveryStepCounts`,
`EveryPageCounts`, `UnlockComesNearer` and `AgentComesToRest`, and that what was reached stays,
`LinksLast` and `ReferencesDoNotReturn`; that a fair step is enabled until the end is
reached is left to TLC); and the invariants of
PackageLayout, which has no constants, so that its run is the complete check of all
packages, calls and ABIs. Neither is `UnionsAreComplete` nor `BackwardlyCompatible`
a matter for proof: their runs refute them.

## Plan

The modules of the first plan are written, and all of its theorems proved. What would come next:

1. What an AT that ends leaves behind (registrations and references), once a source
   says what the JVM does about it; `LastEventsAreLast` and `ReferencesAreGood` would have
   to be stated per life of an AT.
2. Measures for the message loops: the packages under way and those they lead to, which
   a step of a loop brings down unless an AT asks, a JVM posts or a debugger sends. The
   calls, the locks and the agent have theirs as theorems.

## Not modelled

- Access Bridge: what text, value, selection and hierarchy calls do to a component
  (Swing, not in the repository; their signatures are in `AccessBridgeCalls`); the
  contents of names, roles and states; the departure of an AT that has
  registrations, of which the headers say nothing; `getEventsWaiting`, which
  only counts; `PropertyChange`, which has no package.
- AWT: embedded frames and `GetComponent`.
- JDWP: `Attach` (the other end of `Accept`), `SetTransportConfiguration`,
  `IsOpen`, `GetLastError`, and the contents of packets.
- JNI: the function table and its inline wrappers, which forward. The rules of the
  invocation interface are in the specification of the JNI, and the header has the
  prototypes alone: a model would be of that text and not of this code.
- JVM tool interface: the other functions and events, for the same reason;
  raw monitors, which deadlock or not by the agent's own code; the records of
  `jvmticmlr.h`, which are data.
- Class file constants other than opcodes: numbers that nothing here computes with.
- Settings in `conf/`, which Java code outside the repository reads;
  `test/src/Main.java`, a sequential program of seven states; binaries and licences.
