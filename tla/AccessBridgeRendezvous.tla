----------------------- MODULE AccessBridgeRendezvous -----------------------
(***************************************************************************)
(* The initial rendezvous of the Java Access Bridge, as its IPC packages   *)
(* define it (include/win32/bridge/AccessBridgePackages.h).                *)
(*                                                                         *)
(* A JVM bridge and an assistive technology (AT) bridge run in different   *)
(* processes.  Each owns a bridge window; a package is a message posted to *)
(* the bridge window of another process.  A newcomer announces itself to   *)
(* the windows of the other side with a Created package, and whoever hears *)
(* of it answers with a Present package: "howdy, welcome to the            *)
(* neighborhood".  The AT side also sets up the memory-mapped file that    *)
(* every later call uses and tells the JVM its name.  A bridge that        *)
(* detaches sends a Destroyed package; one that crashes sends nothing.     *)
(*                                                                         *)
(* A member of JVMs or ATs stands for one life of a bridge, that is for    *)
(* the pair of its bridgeWindow handle and (for a JVM) its vmID: a process *)
(* that attaches again has a new window and is a new member.               *)
(***************************************************************************)
EXTENDS Naturals, Sequences, Functions

CONSTANTS JVMs,  \* the Java VMs that may attach, each named by its vmID
          ATs    \* the assistive technologies that may attach

ASSUME BridgesAreDisjoint == JVMs \cap ATs = {}

Bridges == JVMs \cup ATs

VARIABLES status,  \* status[p]: where bridge p is in its life
          inbox,   \* inbox[p]: packages posted to p's bridge window, oldest first
          peers,   \* peers[p]: the bridges of the other side that p has met
          mapped   \* mapped[j]: the ATs whose memory-mapped file JVM j has opened

vars == <<status, inbox, peers, mapped>>

-----------------------------------------------------------------------------
(***************************************************************************)
(* The rendezvous packages.  Every one names the window it comes from.     *)
(***************************************************************************)
JavaVMCreated(j)        == [type |-> "JavaVMCreated", from |-> j]
JavaVMDestroyed(j)      == [type |-> "JavaVMDestroyed", from |-> j]
JavaVMPresent(j)        == [type |-> "JavaVMPresent", from |-> j]
WindowsATCreated(a)     == [type |-> "WindowsATCreated", from |-> a]
WindowsATDestroyed(a)   == [type |-> "WindowsATDestroyed", from |-> a]
WindowsATPresent(a)     == [type |-> "WindowsATPresent", from |-> a]
MemoryMappedFileCreated(a) == [type |-> "MemoryMappedFileCreated", from |-> a]

\* What a JVM bridge sends, and what the Windows side sends: the first
\* members of the unions JavaInitiatedPackages and WindowsInitiatedPackages.
JavaRendezvous == [type : {"JavaVMCreated", "JavaVMDestroyed", "JavaVMPresent"},
                   from : JVMs]
WindowsRendezvous == [type : {"WindowsATCreated", "WindowsATDestroyed",
                              "WindowsATPresent", "MemoryMappedFileCreated"},
                      from : ATs]

Created(p)   == IF p \in JVMs THEN JavaVMCreated(p) ELSE WindowsATCreated(p)
Destroyed(p) == IF p \in JVMs THEN JavaVMDestroyed(p) ELSE WindowsATDestroyed(p)

PackagesTo(p) == IF p \in JVMs THEN WindowsRendezvous ELSE JavaRendezvous

OtherSide(p) == IF p \in JVMs THEN ATs ELSE JVMs

-----------------------------------------------------------------------------
HasWindow(p) == status[p] \in {"windowed", "attached"}

\* Posting to the windows of Q: a window that no longer exists takes nothing.
Broadcast(Q, m) ==
    [q \in Bridges |-> IF q \in Q /\ HasWindow(q) THEN Append(inbox[q], m)
                                                  ELSE inbox[q]]

\* p takes its oldest package and posts the packages ms, in order, to q.
Reply(p, q, ms) ==
    [x \in Bridges |-> IF x = p THEN Tail(inbox[x])
                       ELSE IF x = q /\ HasWindow(q) THEN inbox[x] \o ms
                       ELSE inbox[x]]

\* The oldest package in p's queue is m.
Receives(p, m) == HasWindow(p) /\ inbox[p] # <<>> /\ Head(inbox[p]) = m

\* Every bridge has a window, packages from the other side and peers there.
TypeOK ==
    /\ status \in [Bridges -> {"unborn", "windowed", "attached", "detached", "crashed"}]
    /\ DOMAIN inbox = Bridges
    /\ \A p \in Bridges : inbox[p] \in Seq(PackagesTo(p))
    /\ peers \in [Bridges -> SUBSET Bridges]
    /\ \A p \in Bridges : peers[p] \subseteq OtherSide(p)
    /\ mapped \in [JVMs -> SUBSET ATs]

Init ==
    /\ status = [p \in Bridges |-> "unborn"]
    /\ inbox = [p \in Bridges |-> <<>>]
    /\ peers = [p \in Bridges |-> {}]
    /\ mapped = [j \in JVMs |-> {}]

\* What a bridge knows goes with it.
Forget(p) ==
    /\ peers' = [peers EXCEPT ![p] = {}]
    /\ mapped' = IF p \in JVMs THEN [mapped EXCEPT ![p] = {}] ELSE mapped

-----------------------------------------------------------------------------
(***************************************************************************)
(* Variants of the actions with a bug each, used to see the properties     *)
(* fail.                                                                   *)
(***************************************************************************)
\* The newcomer is announced to its own side as well.
AnnounceToEveryone(p) ==
    /\ status[p] = "windowed"
    /\ status' = [status EXCEPT ![p] = "attached"]
    /\ inbox' = Broadcast(Bridges \ {p}, Created(p))
    /\ UNCHANGED <<peers, mapped>>

\* The JVM learns of the new AT and does not answer.
NoAnswer(j, a) ==
    /\ Receives(j, WindowsATCreated(a))
    /\ peers' = [peers EXCEPT ![j] = @ \cup {a}]
    /\ inbox' = Reply(j, a, <<>>)
    /\ UNCHANGED <<status, mapped>>

\* Only the peers met so far are told of the departure.
TellPeersOnly(p) ==
    /\ status[p] = "attached"
    /\ status' = [status EXCEPT ![p] = "detached"]
    /\ inbox' = [Broadcast(peers[p], Destroyed(p)) EXCEPT ![p] = <<>>]
    /\ Forget(p)

\* A second package about the same JVM sets up a second file.
FileEveryTime(a, j) == <<MemoryMappedFileCreated(a)>>

\* The Destroyed package is sent, not posted, and overtakes what is queued.
DestroyedOvertakes(p) ==
    /\ status[p] = "attached"
    /\ status' = [status EXCEPT ![p] = "detached"]
    /\ inbox' = [q \in Bridges |->
                   IF q = p THEN <<>>
                   ELSE IF q \in OtherSide(p) /\ HasWindow(q)
                        THEN <<Destroyed(p)>> \o inbox[q] ELSE inbox[q]]
    /\ Forget(p)

\* The file is set up for JVMs that announce themselves, not for those that
\* were present already.
NoFileForPresent(a, j) ==
    /\ Receives(a, JavaVMPresent(j))
    /\ peers' = [peers EXCEPT ![a] = @ \cup {j}]
    /\ inbox' = Reply(a, j, <<>>)
    /\ UNCHANGED <<status, mapped>>

\* The departed JVM stays in the AT's list.
KeepDestroyed(a, j) ==
    /\ Receives(a, JavaVMDestroyed(j))
    /\ inbox' = Reply(a, j, <<>>)
    /\ UNCHANGED <<status, peers, mapped>>
-----------------------------------------------------------------------------
(***************************************************************************)
(* Attaching: the bridge window comes first, because the Created package   *)
(* carries its handle; packages can reach the window before the bridge has *)
(* announced itself.                                                       *)
(***************************************************************************)
OpenWindow(p) ==
    /\ status[p] = "unborn"
    /\ status' = [status EXCEPT ![p] = "windowed"]
    /\ UNCHANGED <<inbox, peers, mapped>>

Announce(p) ==
    /\ status[p] = "windowed"
    /\ status' = [status EXCEPT ![p] = "attached"]
    /\ inbox' = Broadcast(OtherSide(p), Created(p))
    /\ UNCHANGED <<peers, mapped>>

(***************************************************************************)
(* Detaching: every window of the other side is told, not only the peers   *)
(* p has met, and p's own window goes away with what it had not read.      *)
(***************************************************************************)
Detach(p) ==
    /\ status[p] = "attached"
    /\ status' = [status EXCEPT ![p] = "detached"]
    /\ inbox' = [Broadcast(OtherSide(p), Destroyed(p)) EXCEPT ![p] = <<>>]
    /\ Forget(p)

\* The process ends without a word, at any point of its life.
Crash(p) ==
    /\ HasWindow(p)
    /\ status' = [status EXCEPT ![p] = "crashed"]
    /\ inbox' = [inbox EXCEPT ![p] = <<>>]
    /\ Forget(p)

-----------------------------------------------------------------------------
(***************************************************************************)
(* The AT side.  It sets up one memory-mapped file for each JVM it meets:  *)
(* a JVM it has met already keeps the file it has.                         *)
(***************************************************************************)
MappedFile(a, j) ==
    IF j \in peers[a] THEN <<>> ELSE <<MemoryMappedFileCreated(a)>>

ReceiveJavaVMCreated(a, j) ==
    /\ Receives(a, JavaVMCreated(j))
    /\ peers' = [peers EXCEPT ![a] = @ \cup {j}]
    /\ inbox' = Reply(a, j, <<WindowsATPresent(a)>> \o MappedFile(a, j))
    /\ UNCHANGED <<status, mapped>>

ReceiveJavaVMPresent(a, j) ==
    /\ Receives(a, JavaVMPresent(j))
    /\ peers' = [peers EXCEPT ![a] = @ \cup {j}]
    /\ inbox' = Reply(a, j, MappedFile(a, j))
    /\ UNCHANGED <<status, mapped>>

ReceiveJavaVMDestroyed(a, j) ==
    /\ Receives(a, JavaVMDestroyed(j))
    /\ peers' = [peers EXCEPT ![a] = @ \ {j}]
    /\ inbox' = Reply(a, j, <<>>)
    /\ UNCHANGED <<status, mapped>>

(***************************************************************************)
(* The JVM side.                                                           *)
(***************************************************************************)
ReceiveWindowsATCreated(j, a) ==
    /\ Receives(j, WindowsATCreated(a))
    /\ peers' = [peers EXCEPT ![j] = @ \cup {a}]
    /\ inbox' = Reply(j, a, <<JavaVMPresent(j)>>)
    /\ UNCHANGED <<status, mapped>>

ReceiveWindowsATPresent(j, a) ==
    /\ Receives(j, WindowsATPresent(a))
    /\ peers' = [peers EXCEPT ![j] = @ \cup {a}]
    /\ inbox' = Reply(j, a, <<>>)
    /\ UNCHANGED <<status, mapped>>

ReceiveMemoryMappedFileCreated(j, a) ==
    /\ Receives(j, MemoryMappedFileCreated(a))
    /\ mapped' = [mapped EXCEPT ![j] = @ \cup {a}]
    /\ inbox' = Reply(j, a, <<>>)
    /\ UNCHANGED <<status, peers>>

ReceiveWindowsATDestroyed(j, a) ==
    /\ Receives(j, WindowsATDestroyed(a))
    /\ peers' = [peers EXCEPT ![j] = @ \ {a}]
    /\ mapped' = [mapped EXCEPT ![j] = @ \ {a}]
    /\ inbox' = Reply(j, a, <<>>)
    /\ UNCHANGED status

ReceiveByAT(a) ==
    \E j \in JVMs : \/ ReceiveJavaVMCreated(a, j)
                    \/ ReceiveJavaVMPresent(a, j)
                    \/ ReceiveJavaVMDestroyed(a, j)

ReceiveByJVM(j) ==
    \E a \in ATs : \/ ReceiveWindowsATCreated(j, a)
                   \/ ReceiveWindowsATPresent(j, a)
                   \/ ReceiveMemoryMappedFileCreated(j, a)
                   \/ ReceiveWindowsATDestroyed(j, a)

Next ==
    \/ \E p \in Bridges : OpenWindow(p) \/ Announce(p) \/ Detach(p) \/ Crash(p)
    \/ \E a \in ATs : ReceiveByAT(a)
    \/ \E j \in JVMs : ReceiveByJVM(j)

\* The message loop of a process that stays alive reads its window's queue;
\* nothing obliges a process to attach, detach or crash.
Fairness == /\ \A a \in ATs : WF_vars(ReceiveByAT(a))
            /\ \A j \in JVMs : WF_vars(ReceiveByJVM(j))

Spec == Init /\ [][Next]_vars
FairSpec == Spec /\ Fairness

-----------------------------------------------------------------------------
(***************************************************************************)
(* Properties.                                                             *)
(***************************************************************************)
Posted(p) == Range(inbox[p])

\* The packages still on their way between a and j that make a meet j.
WillMeet(a, j) == \/ Posted(a) \cap {JavaVMCreated(j), JavaVMPresent(j)} # {}
                  \/ WindowsATCreated(a) \in Posted(j)

\* ... and that make j meet a.
WillBeMet(j, a) == \/ Posted(j) \cap {WindowsATCreated(a), WindowsATPresent(a)} # {}
                   \/ JavaVMCreated(j) \in Posted(a)

\* Two attached bridges never miss each other, in whatever order they attach
\* and however their Created packages cross: each has met the other, or a
\* package that will bring this about is in a queue.  And a JVM that an AT has
\* met has the AT's memory-mapped file or is about to hear of it.
NobodyMissed ==
    \A j \in JVMs, a \in ATs :
        /\ status[j] = "attached" /\ status[a] = "attached" =>
              /\ j \in peers[a] \/ WillMeet(a, j)
              /\ a \in peers[j] \/ WillBeMet(j, a)
        /\ HasWindow(j) /\ HasWindow(a) /\ j \in peers[a] =>
              a \in mapped[j] \/ MemoryMappedFileCreated(a) \in Posted(j)

\* What makes NobodyMissed inductive: nothing is known of a bridge before it
\* has a window, and only detached bridges send Destroyed.
NothingEarly ==
    /\ \A p \in Bridges : status[p] = "unborn" => peers[p] = {}
    /\ \A p, q \in Bridges : q \in peers[p] => status[q] # "unborn"
    /\ \A p \in Bridges : \A m \in Posted(p) : status[m.from] # "unborn"
    /\ \A p, q \in Bridges : Destroyed(q) \in Posted(p) => status[q] = "detached"

IInv == TypeOK /\ NothingEarly /\ NobodyMissed

\* Nobody keeps a bridge that has detached as a peer (or its memory-mapped
\* file open) unless the Destroyed package is still in the queue: a Present or
\* Created package read late never brings a detached bridge back.
NoStalePeer ==
    \A p, q \in Bridges : HasWindow(p) /\ status[q] = "detached" =>
        \/ Destroyed(q) \in Posted(p)
        \/ /\ q \notin peers[p]
           /\ p \in JVMs => q \notin mapped[p]

\* Both sides may hear of each other twice (Created packages that cross are
\* answered too); still a JVM is told of one memory-mapped file per AT.
OneFilePerPair ==
    \A j \in JVMs, a \in ATs :
        LET told == {i \in DOMAIN inbox[j] : inbox[j][i] = MemoryMappedFileCreated(a)}
        IN  /\ \A i, k \in told : i = k
            /\ a \in mapped[j] => told = {}

\* The rendezvous implements the neighbourhood: once p has learned that q
\* detached, p never meets q again, and nobody meets a bridge before it has
\* a window.
View(p, q) ==
    IF status[p] \in {"detached", "crashed"} THEN "gone"
    ELSE IF q \in peers[p] THEN "neighbour"
    ELSE IF /\ status[q] = "detached"
            /\ \A m \in Posted(p) : m.from = q => m = Destroyed(q)
         THEN "gone" ELSE "stranger"

Abstract == INSTANCE Neighbourhood
              WITH Left <- JVMs, Right <- ATs,
                   view <- [e \in (JVMs \X ATs) \cup (ATs \X JVMs) |-> View(e[1], e[2])]
ImplementsNeighbourhood == Abstract!Spec

\* Bridges that stay attached are eventually linked: each has met the other
\* and the JVM has opened the AT's memory-mapped file.
Linked(j, a) == j \in peers[a] /\ a \in peers[j] /\ a \in mapped[j]

EventuallyLinked ==
    \A j \in JVMs, a \in ATs :
        (status[j] = "attached" /\ status[a] = "attached")
            ~> (Linked(j, a) \/ status[j] # "attached" \/ status[a] # "attached")

\* A bridge that has detached is eventually forgotten by everyone, for good.
EventuallyForgotten ==
    \A p, q \in Bridges :
        (status[q] = "detached") ~> [](q \notin peers[p])

=============================================================================
