-------------------- MODULE AccessBridgeRendezvous_proofs --------------------
(***************************************************************************)
(* Theorems about the bridge rendezvous, for every number of JVMs and ATs. *)
(***************************************************************************)
EXTENDS AccessBridgeRendezvous, DataLemmas, FiniteSetTheorems, TLAPS

-----------------------------------------------------------------------------
(***************************************************************************)
(* The packages in the queues after each kind of step.                     *)
(***************************************************************************)
LEMMA Sides ==
    ASSUME NEW p \in Bridges, NEW q \in OtherSide(p)
    PROVE  /\ q \in Bridges /\ p # q /\ p \in OtherSide(q)
           /\ p \in JVMs => q \in ATs /\ q \notin JVMs
           /\ p \in ATs => q \in JVMs /\ p \notin JVMs
  BY BridgesAreDisjoint DEF Bridges, OtherSide

\* Reading a package and answering its sender.
LEMMA PostedByReply ==
    ASSUME TypeOK, NEW p \in Bridges, NEW q \in OtherSide(p), NEW m,
           Receives(p, m), NEW ms \in Seq(PackagesTo(q)), inbox' = Reply(p, q, ms)
    PROVE  /\ DOMAIN inbox' = Bridges
           /\ \A x \in Bridges : inbox'[x] \in Seq(PackagesTo(x))
           /\ m \in PackagesTo(p)
           /\ Posted(p) = {m} \cup Posted(p)'
           /\ Posted(q)' = Posted(q) \cup (IF HasWindow(q) THEN Range(ms) ELSE {})
           /\ \A x \in Bridges : x # p /\ x # q => Posted(x)' = Posted(x)
<1>1. q \in Bridges /\ p # q
  BY Sides
<1>2. /\ DOMAIN inbox' = Bridges
      /\ inbox'[p] = Tail(inbox[p])
      /\ inbox'[q] = IF HasWindow(q) THEN inbox[q] \o ms ELSE inbox[q]
      /\ \A x \in Bridges : x # p /\ x # q => inbox'[x] = inbox[x]
  BY <1>1 DEF Reply
<1>3. inbox[p] \in Seq(PackagesTo(p)) /\ inbox[q] \in Seq(PackagesTo(q))
  BY <1>1 DEF TypeOK
<1>4. /\ inbox'[p] \in Seq(PackagesTo(p))
      /\ Range(inbox[p]) = {m} \cup Range(inbox'[p])
      /\ m \in PackagesTo(p)
  BY <1>2, <1>3, RangeOfTail, HeadTailProperties DEF Receives
<1>5. /\ inbox[q] \o ms \in Seq(PackagesTo(q))
      /\ Range(inbox[q] \o ms) = Range(inbox[q]) \cup Range(ms)
  BY <1>3, ConcatProperties, RangeConcatenation
<1>6. \A x \in Bridges : inbox'[x] \in Seq(PackagesTo(x))
  BY <1>2, <1>4, <1>5 DEF TypeOK
<1> QED BY <1>2, <1>4, <1>5, <1>6 DEF Posted

\* Posting a package to every window of the other side.
LEMMA PostedByBroadcast ==
    ASSUME TypeOK, NEW p \in Bridges, NEW m, \A q \in OtherSide(p) : m \in PackagesTo(q)
    PROVE  /\ DOMAIN Broadcast(OtherSide(p), m) = Bridges
           /\ \A x \in Bridges :
                 /\ Broadcast(OtherSide(p), m)[x] \in Seq(PackagesTo(x))
                 /\ Range(Broadcast(OtherSide(p), m)[x]) =
                       Posted(x) \cup (IF x \in OtherSide(p) /\ HasWindow(x) THEN {m} ELSE {})
<1>1. DOMAIN Broadcast(OtherSide(p), m) = Bridges
  BY DEF Broadcast
<1>2. ASSUME NEW x \in Bridges
      PROVE  /\ Broadcast(OtherSide(p), m)[x] \in Seq(PackagesTo(x))
             /\ Range(Broadcast(OtherSide(p), m)[x]) =
                   Posted(x) \cup (IF x \in OtherSide(p) /\ HasWindow(x) THEN {m} ELSE {})
  <2>1. inbox[x] \in Seq(PackagesTo(x))
    BY DEF TypeOK
  <2>2. CASE x \in OtherSide(p) /\ HasWindow(x)
    <3>1. Broadcast(OtherSide(p), m)[x] = Append(inbox[x], m)
      BY <2>2 DEF Broadcast
    <3> QED BY <3>1, <2>1, <2>2, RangeOfAppend DEF Posted
  <2>3. CASE ~ (x \in OtherSide(p) /\ HasWindow(x))
    <3>1. Broadcast(OtherSide(p), m)[x] = inbox[x]
      BY <2>3 DEF Broadcast
    <3> QED BY <3>1, <2>1, <2>3 DEF Posted
  <2> QED BY <2>2, <2>3
<1> QED BY <1>1, <1>2

-----------------------------------------------------------------------------
(***************************************************************************)
(* Type correctness.                                                       *)
(***************************************************************************)
LEMMA RendezvousPackages ==
    ASSUME NEW j \in JVMs, NEW a \in ATs
    PROVE  /\ j \in Bridges /\ a \in Bridges
           /\ OtherSide(j) = ATs /\ OtherSide(a) = JVMs
           /\ PackagesTo(j) = WindowsRendezvous /\ PackagesTo(a) = JavaRendezvous
           /\ {JavaVMCreated(j), JavaVMDestroyed(j), JavaVMPresent(j)} \subseteq JavaRendezvous
           /\ {WindowsATCreated(a), WindowsATDestroyed(a), WindowsATPresent(a),
               MemoryMappedFileCreated(a)} \subseteq WindowsRendezvous
<1>1. a \notin JVMs
  BY BridgesAreDisjoint
<1>2. /\ j \in Bridges /\ a \in Bridges
      /\ OtherSide(j) = ATs /\ OtherSide(a) = JVMs
      /\ PackagesTo(j) = WindowsRendezvous /\ PackagesTo(a) = JavaRendezvous
  BY <1>1 DEF Bridges, OtherSide, PackagesTo
<1>3. {JavaVMCreated(j), JavaVMDestroyed(j), JavaVMPresent(j)} \subseteq JavaRendezvous
  BY DEF JavaVMCreated, JavaVMDestroyed, JavaVMPresent, JavaRendezvous
<1>4. {WindowsATCreated(a), WindowsATDestroyed(a), WindowsATPresent(a),
       MemoryMappedFileCreated(a)} \subseteq WindowsRendezvous
  BY DEF WindowsATCreated, WindowsATDestroyed, WindowsATPresent,
         MemoryMappedFileCreated, WindowsRendezvous
<1> QED BY <1>2, <1>3, <1>4

\* What a bridge announces is a package for the other side.
LEMMA AnnouncedPackages ==
    ASSUME NEW p \in Bridges, NEW q \in OtherSide(p)
    PROVE  Created(p) \in PackagesTo(q) /\ Destroyed(p) \in PackagesTo(q)
<1>1. CASE p \in JVMs
  <2>1. q \in ATs
    BY <1>1 DEF OtherSide
  <2> QED BY <1>1, <2>1, RendezvousPackages DEF Created, Destroyed
<1>2. CASE p \in ATs
  <2>1. q \in JVMs /\ p \notin JVMs
    BY <1>2, BridgesAreDisjoint DEF OtherSide
  <2> QED BY <1>2, <2>1, RendezvousPackages DEF Created, Destroyed
<1> QED BY <1>1, <1>2 DEF Bridges

\* The lists of packages that a handler posts in answer.
LEMMA Answers ==
    ASSUME NEW j \in JVMs, NEW a \in ATs
    PROVE  /\ <<JavaVMPresent(j)>> \in Seq(PackagesTo(a))
           /\ Range(<<JavaVMPresent(j)>>) = {JavaVMPresent(j)}
           /\ <<>> \in Seq(PackagesTo(a)) /\ <<>> \in Seq(PackagesTo(j))
           /\ MappedFile(a, j) \in Seq(PackagesTo(j))
           /\ Range(MappedFile(a, j)) =
                 IF j \in peers[a] THEN {} ELSE {MemoryMappedFileCreated(a)}
           /\ <<WindowsATPresent(a)>> \o MappedFile(a, j) \in Seq(PackagesTo(j))
           /\ Range(<<WindowsATPresent(a)>> \o MappedFile(a, j)) =
                 {WindowsATPresent(a)} \cup Range(MappedFile(a, j))
<1>1. /\ JavaVMPresent(j) \in PackagesTo(a)
      /\ WindowsATPresent(a) \in PackagesTo(j)
      /\ MemoryMappedFileCreated(a) \in PackagesTo(j)
  BY RendezvousPackages
<1>2. /\ <<JavaVMPresent(j)>> \in Seq(PackagesTo(a))
      /\ Range(<<JavaVMPresent(j)>>) = {JavaVMPresent(j)}
      /\ <<WindowsATPresent(a)>> \in Seq(PackagesTo(j))
      /\ Range(<<WindowsATPresent(a)>>) = {WindowsATPresent(a)}
      /\ <<MemoryMappedFileCreated(a)>> \in Seq(PackagesTo(j))
      /\ Range(<<MemoryMappedFileCreated(a)>>) = {MemoryMappedFileCreated(a)}
  BY <1>1, RangeOfOne
<1>3. <<>> \in Seq(PackagesTo(a)) /\ <<>> \in Seq(PackagesTo(j))
  BY EmptySeq
<1>4. /\ MappedFile(a, j) \in Seq(PackagesTo(j))
      /\ Range(MappedFile(a, j)) =
            IF j \in peers[a] THEN {} ELSE {MemoryMappedFileCreated(a)}
  BY <1>2, <1>3, RangeOfEmpty DEF MappedFile
<1> DEFINE present == <<WindowsATPresent(a)>>
<1>5. present \in Seq(PackagesTo(j))
  BY <1>2
<1> HIDE DEF present
<1>6. /\ present \o MappedFile(a, j) \in Seq(PackagesTo(j))
      /\ Range(present \o MappedFile(a, j)) = Range(present) \cup Range(MappedFile(a, j))
  BY <1>4, <1>5, ConcatProperties, RangeConcatenation
<1> QED BY <1>2, <1>3, <1>4, <1>6 DEF present

\* p reads m and the packages M are posted to q, from which m came.
Exchange(p, q, m, M) ==
    /\ HasWindow(p)
    /\ DOMAIN inbox' = Bridges
    /\ \A x \in Bridges : inbox'[x] \in Seq(PackagesTo(x))
    /\ Posted(p) = {m} \cup Posted(p)'
    /\ Posted(q)' = Posted(q) \cup (IF HasWindow(q) THEN M ELSE {})
    /\ \A x \in Bridges : x # p /\ x # q => Posted(x)' = Posted(x)

\* What each handler of the AT side does to its own queue and to the sender's.
LEMMA ReadByAT ==
    ASSUME TypeOK, NEW a \in ATs, NEW j \in JVMs
    PROVE  /\ ReceiveJavaVMCreated(a, j) =>
                 Exchange(a, j, JavaVMCreated(j),
                          {WindowsATPresent(a)} \cup Range(MappedFile(a, j)))
           /\ ReceiveJavaVMPresent(a, j) =>
                 Exchange(a, j, JavaVMPresent(j), Range(MappedFile(a, j)))
           /\ ReceiveJavaVMDestroyed(a, j) =>
                 Exchange(a, j, JavaVMDestroyed(j), {})
<1>1. a \in Bridges /\ j \in OtherSide(a)
  BY RendezvousPackages
<1>2. ASSUME NEW m, NEW ms \in Seq(PackagesTo(j)), Receives(a, m),
             inbox' = Reply(a, j, ms)
      PROVE  Exchange(a, j, m, Range(ms))
  BY <1>1, <1>2, PostedByReply DEF Exchange, Receives
<1>3. ASSUME ReceiveJavaVMCreated(a, j)
      PROVE  Exchange(a, j, JavaVMCreated(j),
                      {WindowsATPresent(a)} \cup Range(MappedFile(a, j)))
  <2> DEFINE ms == <<WindowsATPresent(a)>> \o MappedFile(a, j)
  <2>1. ms \in Seq(PackagesTo(j))
    BY Answers
  <2>2. Range(ms) = {WindowsATPresent(a)} \cup Range(MappedFile(a, j))
    BY Answers
  <2>3. Receives(a, JavaVMCreated(j)) /\ inbox' = Reply(a, j, ms)
    BY <1>3 DEF ReceiveJavaVMCreated
  <2> HIDE DEF ms
  <2>4. Exchange(a, j, JavaVMCreated(j), Range(ms))
    BY <1>2, <2>1, <2>3
  <2> QED BY <2>2, <2>4
<1>4. ASSUME ReceiveJavaVMPresent(a, j)
      PROVE  Exchange(a, j, JavaVMPresent(j), Range(MappedFile(a, j)))
  <2>1. MappedFile(a, j) \in Seq(PackagesTo(j))
    BY Answers
  <2>2. Receives(a, JavaVMPresent(j)) /\ inbox' = Reply(a, j, MappedFile(a, j))
    BY <1>4 DEF ReceiveJavaVMPresent
  <2> QED BY <1>2, <2>1, <2>2
<1>5. ASSUME ReceiveJavaVMDestroyed(a, j)
      PROVE  Exchange(a, j, JavaVMDestroyed(j), {})
  <2> DEFINE ms == <<>>
  <2>1. ms \in Seq(PackagesTo(j)) /\ Range(ms) = {}
    BY Answers, RangeOfEmpty
  <2>2. Receives(a, JavaVMDestroyed(j)) /\ inbox' = Reply(a, j, ms)
    BY <1>5 DEF ReceiveJavaVMDestroyed
  <2> HIDE DEF ms
  <2>3. Exchange(a, j, JavaVMDestroyed(j), Range(ms))
    BY <1>2, <2>1, <2>2
  <2> QED BY <2>1, <2>3
<1> QED BY <1>3, <1>4, <1>5

\* The same for the handlers of the JVM side.
LEMMA ReadByJVM ==
    ASSUME TypeOK, NEW j \in JVMs, NEW a \in ATs
    PROVE  /\ ReceiveWindowsATCreated(j, a) =>
                 Exchange(j, a, WindowsATCreated(a), {JavaVMPresent(j)})
           /\ ReceiveWindowsATPresent(j, a) =>
                 Exchange(j, a, WindowsATPresent(a), {})
           /\ ReceiveMemoryMappedFileCreated(j, a) =>
                 Exchange(j, a, MemoryMappedFileCreated(a), {})
           /\ ReceiveWindowsATDestroyed(j, a) =>
                 Exchange(j, a, WindowsATDestroyed(a), {})
<1>1. j \in Bridges /\ a \in OtherSide(j)
  BY RendezvousPackages
<1>2. ASSUME NEW m, NEW ms \in Seq(PackagesTo(a)), Receives(j, m),
             inbox' = Reply(j, a, ms)
      PROVE  Exchange(j, a, m, Range(ms))
  BY <1>1, <1>2, PostedByReply DEF Exchange, Receives
<1>3. ASSUME ReceiveWindowsATCreated(j, a)
      PROVE  Exchange(j, a, WindowsATCreated(a), {JavaVMPresent(j)})
  <2> DEFINE ms == <<JavaVMPresent(j)>>
  <2>1. ms \in Seq(PackagesTo(a)) /\ Range(ms) = {JavaVMPresent(j)}
    BY Answers
  <2>2. Receives(j, WindowsATCreated(a)) /\ inbox' = Reply(j, a, ms)
    BY <1>3 DEF ReceiveWindowsATCreated
  <2> HIDE DEF ms
  <2>3. Exchange(j, a, WindowsATCreated(a), Range(ms))
    BY <1>2, <2>1, <2>2
  <2> QED BY <2>1, <2>3
<1>4. ASSUME NEW m, Receives(j, m), inbox' = Reply(j, a, <<>>)
      PROVE  Exchange(j, a, m, {})
  <2> DEFINE ms == <<>>
  <2>1. ms \in Seq(PackagesTo(a)) /\ Range(ms) = {}
    BY Answers, RangeOfEmpty
  <2>2. inbox' = Reply(j, a, ms)
    BY <1>4
  <2> HIDE DEF ms
  <2>3. Exchange(j, a, m, Range(ms))
    BY <1>2, <1>4, <2>1, <2>2
  <2> QED BY <2>1, <2>3
<1>5. /\ ReceiveWindowsATPresent(j, a) =>
            Exchange(j, a, WindowsATPresent(a), {})
      /\ ReceiveMemoryMappedFileCreated(j, a) =>
            Exchange(j, a, MemoryMappedFileCreated(a), {})
      /\ ReceiveWindowsATDestroyed(j, a) =>
            Exchange(j, a, WindowsATDestroyed(a), {})
  BY <1>4 DEF ReceiveWindowsATPresent, ReceiveMemoryMappedFileCreated,
              ReceiveWindowsATDestroyed
<1> QED BY <1>3, <1>5

\* Meeting and forgetting a bridge of the other side.
LEMMA TypedPeers ==
    ASSUME TypeOK, NEW p \in Bridges, NEW q \in OtherSide(p),
           \/ peers' = [peers EXCEPT ![p] = @ \cup {q}]
           \/ peers' = [peers EXCEPT ![p] = @ \ {q}]
           \/ peers' = peers
    PROVE  /\ peers' \in [Bridges -> SUBSET Bridges]
           /\ \A x \in Bridges : peers'[x] \subseteq OtherSide(x)
<1>1. q \in Bridges
  BY Sides
<1>2. /\ peers \in [Bridges -> SUBSET Bridges]
      /\ \A x \in Bridges : peers[x] \subseteq OtherSide(x)
  BY DEF TypeOK
<1>3. peers' \in [Bridges -> SUBSET Bridges]
  BY <1>1, <1>2
<1>4. ASSUME NEW x \in Bridges
      PROVE  peers'[x] \subseteq peers[x] \cup (IF x = p THEN {q} ELSE {})
  BY <1>2
<1> QED BY <1>2, <1>3, <1>4

\* Initially every variable has its type,
LEMMA TypingInit == Init => TypeOK
  BY EmptySeq DEF Init, TypeOK

\* ... and every step keeps it.
LEMMA TypingStep == TypeOK /\ [Next]_vars => TypeOK'
<1> SUFFICES ASSUME TypeOK, [Next]_vars PROVE TypeOK'
  OBVIOUS
<1>1. ASSUME NEW p \in Bridges, OpenWindow(p) PROVE TypeOK'
  BY <1>1 DEF OpenWindow, TypeOK
<1>2. ASSUME NEW p \in Bridges, Announce(p) PROVE TypeOK'
  <2>1. \A q \in OtherSide(p) : Created(p) \in PackagesTo(q)
    BY AnnouncedPackages
  <2>2. /\ DOMAIN inbox' = Bridges
        /\ \A x \in Bridges : inbox'[x] \in Seq(PackagesTo(x))
    BY <1>2, <2>1, PostedByBroadcast DEF Announce
  <2> QED BY <1>2, <2>2 DEF Announce, TypeOK
<1>3. ASSUME NEW p \in Bridges, Detach(p) PROVE TypeOK'
  <2>1. \A q \in OtherSide(p) : Destroyed(p) \in PackagesTo(q)
    BY AnnouncedPackages
  <2> DEFINE b == Broadcast(OtherSide(p), Destroyed(p))
  <2>2. /\ DOMAIN b = Bridges
        /\ \A x \in Bridges : b[x] \in Seq(PackagesTo(x))
    BY <2>1, PostedByBroadcast
  <2>3. inbox' = [b EXCEPT ![p] = <<>>]
    BY <1>3 DEF Detach
  <2> HIDE DEF b
  <2>4. /\ DOMAIN inbox' = Bridges
        /\ \A x \in Bridges : inbox'[x] \in Seq(PackagesTo(x))
    BY <2>2, <2>3, EmptySeq
  <2> QED BY <1>3, <2>4 DEF Detach, Forget, TypeOK
<1>4. ASSUME NEW p \in Bridges, Crash(p) PROVE TypeOK'
  <2>1. /\ DOMAIN inbox' = Bridges
        /\ \A x \in Bridges : inbox'[x] \in Seq(PackagesTo(x))
    BY <1>4, EmptySeq DEF Crash, TypeOK
  <2> QED BY <1>4, <2>1 DEF Crash, Forget, TypeOK
<1>5. ASSUME NEW a \in ATs, ReceiveByAT(a) PROVE TypeOK'
  <2>1. PICK j \in JVMs : \/ ReceiveJavaVMCreated(a, j)
                          \/ ReceiveJavaVMPresent(a, j)
                          \/ ReceiveJavaVMDestroyed(a, j)
    BY <1>5 DEF ReceiveByAT
  <2>2. a \in Bridges /\ j \in OtherSide(a)
    BY RendezvousPackages
  <2>3. /\ DOMAIN inbox' = Bridges
        /\ \A x \in Bridges : inbox'[x] \in Seq(PackagesTo(x))
    BY <2>1, ReadByAT DEF Exchange
  <2>4. /\ peers' \in [Bridges -> SUBSET Bridges]
        /\ \A p \in Bridges : peers'[p] \subseteq OtherSide(p)
    BY <2>1, <2>2, TypedPeers
       DEF ReceiveJavaVMCreated, ReceiveJavaVMPresent, ReceiveJavaVMDestroyed
  <2>5. UNCHANGED <<status, mapped>>
    BY <2>1 DEF ReceiveJavaVMCreated, ReceiveJavaVMPresent, ReceiveJavaVMDestroyed
  <2> QED BY <2>3, <2>4, <2>5 DEF TypeOK
<1>6. ASSUME NEW j \in JVMs, ReceiveByJVM(j) PROVE TypeOK'
  <2>1. PICK a \in ATs : \/ ReceiveWindowsATCreated(j, a)
                         \/ ReceiveWindowsATPresent(j, a)
                         \/ ReceiveMemoryMappedFileCreated(j, a)
                         \/ ReceiveWindowsATDestroyed(j, a)
    BY <1>6 DEF ReceiveByJVM
  <2>2. j \in Bridges /\ a \in OtherSide(j)
    BY RendezvousPackages
  <2>3. /\ DOMAIN inbox' = Bridges
        /\ \A x \in Bridges : inbox'[x] \in Seq(PackagesTo(x))
    BY <2>1, ReadByJVM DEF Exchange
  <2>4. /\ peers' \in [Bridges -> SUBSET Bridges]
        /\ \A p \in Bridges : peers'[p] \subseteq OtherSide(p)
    BY <2>1, <2>2, TypedPeers
       DEF ReceiveWindowsATCreated, ReceiveWindowsATPresent,
           ReceiveMemoryMappedFileCreated, ReceiveWindowsATDestroyed
  <2>5. UNCHANGED status /\ mapped' \in [JVMs -> SUBSET ATs]
    BY <2>1 DEF ReceiveWindowsATCreated, ReceiveWindowsATPresent,
                ReceiveMemoryMappedFileCreated, ReceiveWindowsATDestroyed, TypeOK
  <2> QED BY <2>3, <2>4, <2>5 DEF TypeOK
<1>7. CASE UNCHANGED vars
  BY <1>7 DEF vars, TypeOK
<1> QED BY <1>1, <1>2, <1>3, <1>4, <1>5, <1>6, <1>7 DEF Next

\* Every bridge only ever has packages and peers of the other side, whatever
\* the order in which the bridges of AccessBridgePackages.h come and go.
THEOREM TypeCorrect == Spec => []TypeOK
  BY TypingInit, TypingStep, PTL DEF Spec

-----------------------------------------------------------------------------
(***************************************************************************)
(* Nobody is missed.                                                       *)
(***************************************************************************)
\* Packages with different types, or from different bridges, are different.
LEMMA DistinctPackages ==
    ASSUME NEW j, NEW k, NEW a, NEW b
    PROVE  /\ JavaVMCreated(j) = JavaVMCreated(k) => j = k
           /\ JavaVMPresent(j) = JavaVMPresent(k) => j = k
           /\ JavaVMDestroyed(j) = JavaVMDestroyed(k) => j = k
           /\ JavaVMCreated(j) # JavaVMPresent(k)
           /\ JavaVMCreated(j) # JavaVMDestroyed(k)
           /\ JavaVMPresent(j) # JavaVMDestroyed(k)
           /\ WindowsATCreated(a) = WindowsATCreated(b) => a = b
           /\ WindowsATPresent(a) = WindowsATPresent(b) => a = b
           /\ WindowsATDestroyed(a) = WindowsATDestroyed(b) => a = b
           /\ MemoryMappedFileCreated(a) = MemoryMappedFileCreated(b) => a = b
           /\ WindowsATCreated(a) # WindowsATPresent(b)
           /\ WindowsATCreated(a) # WindowsATDestroyed(b)
           /\ WindowsATCreated(a) # MemoryMappedFileCreated(b)
           /\ WindowsATPresent(a) # WindowsATDestroyed(b)
           /\ WindowsATPresent(a) # MemoryMappedFileCreated(b)
           /\ WindowsATDestroyed(a) # MemoryMappedFileCreated(b)
  BY DEF JavaVMCreated, JavaVMPresent, JavaVMDestroyed, WindowsATCreated,
         WindowsATPresent, WindowsATDestroyed, MemoryMappedFileCreated

\* Every package names the bridge that it comes from.
LEMMA Senders ==
    ASSUME NEW p \in Bridges
    PROVE  /\ Created(p).from = p /\ Destroyed(p).from = p
           /\ JavaVMPresent(p).from = p /\ WindowsATPresent(p).from = p
           /\ MemoryMappedFileCreated(p).from = p
  BY DEF Created, Destroyed, JavaVMCreated, JavaVMDestroyed, JavaVMPresent,
         WindowsATCreated, WindowsATDestroyed, WindowsATPresent,
         MemoryMappedFileCreated

\* A Destroyed package is none of the others.
LEMMA DestroyedIsAlone ==
    ASSUME NEW p \in Bridges, NEW q \in Bridges, NEW x
    PROVE  /\ Destroyed(q) # Created(p)
           /\ Destroyed(q) # JavaVMPresent(x)
           /\ Destroyed(q) # WindowsATPresent(x)
           /\ Destroyed(q) # MemoryMappedFileCreated(x)
           /\ Destroyed(q) = Destroyed(p) => q = p
<1>1. Created(p).type \in {"JavaVMCreated", "WindowsATCreated"}
  BY DEF Created, JavaVMCreated, WindowsATCreated
<1>2. Destroyed(q).type \in {"JavaVMDestroyed", "WindowsATDestroyed"}
  BY DEF Destroyed, JavaVMDestroyed, WindowsATDestroyed
<1>3. /\ JavaVMPresent(x).type = "JavaVMPresent"
      /\ WindowsATPresent(x).type = "WindowsATPresent"
      /\ MemoryMappedFileCreated(x).type = "MemoryMappedFileCreated"
  BY DEF JavaVMPresent, WindowsATPresent, MemoryMappedFileCreated
<1>4. Destroyed(q).from = q /\ Destroyed(p).from = p
  BY Senders
<1> QED BY <1>1, <1>2, <1>3, <1>4

\* Initially there is nothing to miss.
LEMMA MissedInit == Init => NothingEarly /\ NobodyMissed
<1> SUFFICES ASSUME Init PROVE NothingEarly /\ NobodyMissed
  OBVIOUS
<1>1. \A p \in Bridges : status[p] = "unborn" /\ peers[p] = {} /\ Posted(p) = {}
  BY RangeOfEmpty DEF Init, Posted
<1>2. NothingEarly
  BY <1>1 DEF NothingEarly
<1>3. NobodyMissed
  BY <1>1, RendezvousPackages DEF NobodyMissed, HasWindow
<1> QED BY <1>2, <1>3

\* Handling a package that came from q.
LEMMA EarlyExchange ==
    ASSUME TypeOK, NothingEarly, NEW p \in Bridges, NEW q \in OtherSide(p), NEW m, NEW M,
           Exchange(p, q, m, M), m.from = q,
           \A n \in M : n.from = p /\ \A x \in Bridges : n # Destroyed(x),
           UNCHANGED status,
           \/ peers' = [peers EXCEPT ![p] = @ \cup {q}]
           \/ peers' = [peers EXCEPT ![p] = @ \ {q}]
           \/ peers' = peers
    PROVE  NothingEarly'
<1>1. q \in Bridges /\ p # q
  BY Sides
<1>2. /\ status[p] # "unborn"
      /\ status[q] # "unborn"
  BY DEF Exchange, NothingEarly, HasWindow
<1>3. \A x \in Bridges : Posted(x)' \subseteq Posted(x) \cup (IF x = q THEN M ELSE {})
  BY <1>1 DEF Exchange
<1>4. \A x \in Bridges : peers'[x] \subseteq peers[x] \cup (IF x = p THEN {q} ELSE {})
  BY DEF TypeOK
<1>5. \A x \in Bridges : status'[x] = "unborn" => peers'[x] = {}
  BY <1>2, <1>4 DEF NothingEarly
<1>6. \A x, y \in Bridges : y \in peers'[x] => status'[y] # "unborn"
  BY <1>2, <1>4 DEF NothingEarly
<1>7. \A x \in Bridges : \A n \in Posted(x)' : status'[n.from] # "unborn"
  BY <1>2, <1>3 DEF NothingEarly
<1>8. \A x, y \in Bridges : Destroyed(y) \in Posted(x)' => status'[y] = "detached"
  BY <1>3 DEF NothingEarly
<1> QED BY <1>5, <1>6, <1>7, <1>8 DEF NothingEarly

\* No step brings a package or a peer of a bridge without a window.
LEMMA EarlyStep == TypeOK /\ NothingEarly /\ [Next]_vars => NothingEarly'
<1> SUFFICES ASSUME TypeOK, NothingEarly, [Next]_vars PROVE NothingEarly'
  OBVIOUS
<1>1. ASSUME NEW p \in Bridges, OpenWindow(p) PROVE NothingEarly'
  <2>1. \A x \in Bridges : /\ status'[x] = "unborn" => status[x] = "unborn"
                           /\ status[x] = "detached" => status'[x] = "detached"
                           /\ Posted(x)' = Posted(x)
    BY <1>1 DEF OpenWindow, TypeOK, Posted
  <2>2. \A x : status'[x] = "unborn" => status[x] = "unborn"
    BY <1>1 DEF OpenWindow, TypeOK
  <2> QED BY <1>1, <2>1, <2>2 DEF OpenWindow, NothingEarly
<1>2. ASSUME NEW p \in Bridges, Announce(p) PROVE NothingEarly'
  <2>1. \A q \in OtherSide(p) : Created(p) \in PackagesTo(q)
    BY AnnouncedPackages
  <2>2. \A x \in Bridges : Posted(x)' \subseteq Posted(x) \cup {Created(p)}
    <3> DEFINE told == Broadcast(OtherSide(p), Created(p))
    <3>1. \A x \in Bridges : Range(told[x]) =
              Posted(x) \cup (IF x \in OtherSide(p) /\ HasWindow(x) THEN {Created(p)} ELSE {})
      BY <2>1, PostedByBroadcast
    <3>2. \A x \in Bridges : Posted(x)' = Range(told[x])
      BY <1>2 DEF Announce, Posted
    <3> HIDE DEF told
    <3> QED BY <3>1, <3>2
  <2>3. \A x : status'[x] = "unborn" => status[x] = "unborn" /\ x # p
    BY <1>2 DEF Announce, TypeOK
  <2>4. \A x \in Bridges : status[x] = "detached" => status'[x] = "detached"
    BY <1>2 DEF Announce, TypeOK
  <2>5. Created(p).from = p /\ \A x \in Bridges : Destroyed(x) # Created(p)
    BY Senders, DestroyedIsAlone
  <2> QED BY <1>2, <2>2, <2>3, <2>4, <2>5 DEF Announce, NothingEarly
<1>3. ASSUME NEW p \in Bridges, Detach(p) PROVE NothingEarly'
  <2>1. \A q \in OtherSide(p) : Destroyed(p) \in PackagesTo(q)
    BY AnnouncedPackages
  <2>2. \A x \in Bridges : Posted(x)' \subseteq Posted(x) \cup {Destroyed(p)}
    <3> DEFINE b == Broadcast(OtherSide(p), Destroyed(p))
    <3>1. /\ DOMAIN b = Bridges
          /\ \A x \in Bridges : Range(b[x]) \subseteq Posted(x) \cup {Destroyed(p)}
      BY <2>1, PostedByBroadcast
    <3>2. inbox' = [b EXCEPT ![p] = <<>>]
      BY <1>3 DEF Detach
    <3> HIDE DEF b
    <3>3. \A x \in Bridges : inbox'[x] = IF x = p THEN <<>> ELSE b[x]
      BY <3>1, <3>2
    <3> QED BY <3>1, <3>3, RangeOfEmpty DEF Posted
  <2>3. \A x : status'[x] = "unborn" => status[x] = "unborn" /\ x # p
    BY <1>3 DEF Detach, TypeOK
  <2>4. \A x \in Bridges : status[x] = "detached" \/ x = p => status'[x] = "detached"
    BY <1>3 DEF Detach, TypeOK
  <2>5. Destroyed(p).from = p /\ \A x \in Bridges : Destroyed(x) = Destroyed(p) => x = p
    BY Senders, DestroyedIsAlone
  <2>6. \A x \in Bridges : peers'[x] \subseteq peers[x]
    BY <1>3 DEF Detach, Forget, TypeOK
  <2> QED BY <2>2, <2>3, <2>4, <2>5, <2>6 DEF NothingEarly
<1>4. ASSUME NEW p \in Bridges, Crash(p) PROVE NothingEarly'
  <2>1. \A x \in Bridges : Posted(x)' \subseteq Posted(x)
    <3>1. \A x \in Bridges : inbox'[x] = IF x = p THEN <<>> ELSE inbox[x]
      BY <1>4 DEF Crash, TypeOK
    <3> QED BY <3>1, RangeOfEmpty DEF Posted
  <2>2. \A x : status'[x] = "unborn" => status[x] = "unborn"
    BY <1>4 DEF Crash, TypeOK
  <2>3. \A x \in Bridges : status[x] = "detached" => status'[x] = "detached"
    BY <1>4 DEF Crash, TypeOK, HasWindow
  <2>4. \A x \in Bridges : peers'[x] \subseteq peers[x]
    BY <1>4 DEF Crash, Forget, TypeOK
  <2> QED BY <2>1, <2>2, <2>3, <2>4 DEF NothingEarly
<1>5. ASSUME NEW a \in ATs, NEW j \in JVMs,
             \/ ReceiveJavaVMCreated(a, j)
             \/ ReceiveJavaVMPresent(a, j)
             \/ ReceiveJavaVMDestroyed(a, j)
      PROVE  NothingEarly'
  <2>1. a \in Bridges /\ j \in OtherSide(a) /\ j \in Bridges
    BY RendezvousPackages
  <2>2. /\ JavaVMCreated(j).from = j /\ JavaVMPresent(j).from = j
        /\ JavaVMDestroyed(j).from = j
    BY DEF JavaVMCreated, JavaVMPresent, JavaVMDestroyed
  <2> DEFINE none == {}
  <2> DEFINE OwnNews(M) == \A n \in M : n.from = a /\ \A x \in Bridges : n # Destroyed(x)
  <2>3. /\ OwnNews(Range(MappedFile(a, j)))
        /\ OwnNews({WindowsATPresent(a)} \cup Range(MappedFile(a, j)))
        /\ OwnNews(none)
    <3>1. Range(MappedFile(a, j)) \subseteq {MemoryMappedFileCreated(a)}
      BY Answers
    <3>2. WindowsATPresent(a).from = a /\ MemoryMappedFileCreated(a).from = a
      BY <2>1, Senders
    <3>3. \A x \in Bridges : /\ WindowsATPresent(a) # Destroyed(x)
                            /\ MemoryMappedFileCreated(a) # Destroyed(x)
      BY <2>1, DestroyedIsAlone
    <3> QED BY <3>1, <3>2, <3>3
  <2> HIDE DEF none
  <2>4. CASE ReceiveJavaVMCreated(a, j)
    <3>1. Exchange(a, j, JavaVMCreated(j), {WindowsATPresent(a)} \cup Range(MappedFile(a, j)))
      BY <2>4, ReadByAT
    <3>2. UNCHANGED status /\ peers' = [peers EXCEPT ![a] = @ \cup {j}]
      BY <2>4 DEF ReceiveJavaVMCreated
    <3> QED BY <2>1, <2>2, <2>3, <3>1, <3>2, EarlyExchange
  <2>5. CASE ReceiveJavaVMPresent(a, j)
    <3>1. Exchange(a, j, JavaVMPresent(j), Range(MappedFile(a, j)))
      BY <2>5, ReadByAT
    <3>2. UNCHANGED status /\ peers' = [peers EXCEPT ![a] = @ \cup {j}]
      BY <2>5 DEF ReceiveJavaVMPresent
    <3> QED BY <2>1, <2>2, <2>3, <3>1, <3>2, EarlyExchange
  <2>6. CASE ReceiveJavaVMDestroyed(a, j)
    <3>1. Exchange(a, j, JavaVMDestroyed(j), none)
      BY <2>6, ReadByAT DEF none
    <3>2. UNCHANGED status /\ peers' = [peers EXCEPT ![a] = @ \ {j}]
      BY <2>6 DEF ReceiveJavaVMDestroyed
    <3> QED BY <2>1, <2>2, <2>3, <3>1, <3>2, EarlyExchange
  <2> QED BY <1>5, <2>4, <2>5, <2>6
<1>6. ASSUME NEW j \in JVMs, NEW a \in ATs,
             \/ ReceiveWindowsATCreated(j, a)
             \/ ReceiveWindowsATPresent(j, a)
             \/ ReceiveMemoryMappedFileCreated(j, a)
             \/ ReceiveWindowsATDestroyed(j, a)
      PROVE  NothingEarly'
  <2>1. j \in Bridges /\ a \in OtherSide(j) /\ a \in Bridges
    BY RendezvousPackages
  <2>2. /\ WindowsATCreated(a).from = a /\ WindowsATPresent(a).from = a
        /\ WindowsATDestroyed(a).from = a /\ MemoryMappedFileCreated(a).from = a
    BY DEF WindowsATCreated, WindowsATPresent, WindowsATDestroyed, MemoryMappedFileCreated
  <2> DEFINE none == {}
             hello == {JavaVMPresent(j)}
  <2> DEFINE OwnNews(M) == \A n \in M : n.from = j /\ \A x \in Bridges : n # Destroyed(x)
  <2>3. OwnNews(hello) /\ OwnNews(none)
    <3>1. JavaVMPresent(j).from = j
      BY <2>1, Senders
    <3>2. \A x \in Bridges : JavaVMPresent(j) # Destroyed(x)
      BY <2>1, DestroyedIsAlone
    <3> QED BY <3>1, <3>2
  <2> HIDE DEF none, hello
  <2>4. CASE ReceiveWindowsATCreated(j, a)
    <3>1. Exchange(j, a, WindowsATCreated(a), hello)
      BY <2>4, ReadByJVM DEF hello
    <3>2. UNCHANGED status /\ peers' = [peers EXCEPT ![j] = @ \cup {a}]
      BY <2>4 DEF ReceiveWindowsATCreated
    <3> QED BY <2>1, <2>2, <2>3, <3>1, <3>2, EarlyExchange
  <2>5. CASE ReceiveWindowsATPresent(j, a)
    <3>1. Exchange(j, a, WindowsATPresent(a), none)
      BY <2>5, ReadByJVM DEF none
    <3>2. UNCHANGED status /\ peers' = [peers EXCEPT ![j] = @ \cup {a}]
      BY <2>5 DEF ReceiveWindowsATPresent
    <3> QED BY <2>1, <2>2, <2>3, <3>1, <3>2, EarlyExchange
  <2>6. CASE ReceiveMemoryMappedFileCreated(j, a)
    <3>1. Exchange(j, a, MemoryMappedFileCreated(a), none)
      BY <2>6, ReadByJVM DEF none
    <3>2. UNCHANGED status /\ peers' = peers
      BY <2>6 DEF ReceiveMemoryMappedFileCreated
    <3> QED BY <2>1, <2>2, <2>3, <3>1, <3>2, EarlyExchange
  <2>7. CASE ReceiveWindowsATDestroyed(j, a)
    <3>1. Exchange(j, a, WindowsATDestroyed(a), none)
      BY <2>7, ReadByJVM DEF none
    <3>2. UNCHANGED status /\ peers' = [peers EXCEPT ![j] = @ \ {a}]
      BY <2>7 DEF ReceiveWindowsATDestroyed
    <3> QED BY <2>1, <2>2, <2>3, <3>1, <3>2, EarlyExchange
  <2> QED BY <1>6, <2>4, <2>5, <2>6, <2>7
<1>7. CASE UNCHANGED vars
  BY <1>7 DEF vars, NothingEarly, Posted
<1> QED BY <1>1, <1>2, <1>3, <1>4, <1>5, <1>6, <1>7 DEF Next, ReceiveByAT, ReceiveByJVM

\* What NobodyMissed says of one pair.
Acquainted(j, a) ==
    /\ status[j] = "attached" /\ status[a] = "attached" =>
          /\ j \in peers[a] \/ WillMeet(a, j)
          /\ a \in peers[j] \/ WillBeMet(j, a)
    /\ HasWindow(j) /\ HasWindow(a) /\ j \in peers[a] =>
          a \in mapped[j] \/ MemoryMappedFileCreated(a) \in Posted(j)

\* No step loses the last package that would link two attached bridges.
LEMMA MissedStep ==
    TypeOK /\ NothingEarly /\ NobodyMissed /\ [Next]_vars => NobodyMissed'
<1> SUFFICES ASSUME TypeOK, NothingEarly, NobodyMissed, [Next]_vars,
                    NEW k \in JVMs, NEW b \in ATs
             PROVE  Acquainted(k, b)'
  BY DEF NobodyMissed, Acquainted
<1>a. /\ k \in Bridges /\ b \in Bridges /\ k # b
      /\ k \in OtherSide(b) /\ b \in OtherSide(k) /\ k \notin OtherSide(k) /\ b \notin OtherSide(b)
  BY RendezvousPackages, BridgesAreDisjoint
<1>b. Acquainted(k, b)
  BY DEF NobodyMissed, Acquainted
<1>c. /\ status \in [Bridges -> {"unborn", "windowed", "attached", "detached", "crashed"}]
      /\ peers \in [Bridges -> SUBSET Bridges]
      /\ mapped \in [JVMs -> SUBSET ATs]
  BY DEF TypeOK
<1>d. Created(k) = JavaVMCreated(k) /\ Created(b) = WindowsATCreated(b)
  BY BridgesAreDisjoint DEF Created
<1>1. ASSUME NEW p \in Bridges, OpenWindow(p) PROVE Acquainted(k, b)'
  <2>1. /\ Posted(k)' = Posted(k) /\ Posted(b)' = Posted(b)
        /\ peers' = peers /\ mapped' = mapped
    BY <1>1 DEF OpenWindow, Posted
  <2>2. status'[k] = "attached" /\ status'[b] = "attached" =>
           status[k] = "attached" /\ status[b] = "attached"
    BY <1>1, <1>c, <1>a DEF OpenWindow
  <2>3. HasWindow(k)' /\ HasWindow(b)' /\ k \in peers[b] => HasWindow(k) /\ HasWindow(b)
    BY <1>1, <1>c, <1>a DEF OpenWindow, HasWindow, NothingEarly
  <2> QED BY <2>1, <2>2, <2>3, <1>b DEF Acquainted, WillMeet, WillBeMet
<1>2. ASSUME NEW p \in Bridges, Announce(p) PROVE Acquainted(k, b)'
  <2>1. \A q \in OtherSide(p) : Created(p) \in PackagesTo(q)
    BY AnnouncedPackages
  <2>2. \A x \in Bridges :
           Posted(x)' = Posted(x) \cup (IF x \in OtherSide(p) /\ HasWindow(x)
                                        THEN {Created(p)} ELSE {})
    <3> DEFINE told == Broadcast(OtherSide(p), Created(p))
    <3>1. \A x \in Bridges : Range(told[x]) =
              Posted(x) \cup (IF x \in OtherSide(p) /\ HasWindow(x) THEN {Created(p)} ELSE {})
      BY <2>1, PostedByBroadcast
    <3>2. \A x \in Bridges : Posted(x)' = Range(told[x])
      BY <1>2 DEF Announce, Posted
    <3> HIDE DEF told
    <3> QED BY <3>1, <3>2
  <2>3. /\ \A x \in Bridges : status'[x] = IF x = p THEN "attached" ELSE status[x]
        /\ status[p] = "windowed" /\ peers' = peers /\ mapped' = mapped
    BY <1>2, <1>c DEF Announce
  <2>4. /\ HasWindow(k)' <=> HasWindow(k)
        /\ HasWindow(b)' <=> HasWindow(b)
    BY <2>3, <1>a DEF HasWindow
  <2>5. CASE p = k
    <3>1. status'[b] = "attached" => JavaVMCreated(k) \in Posted(b)'
      BY <2>2, <2>3, <2>5, <1>a, <1>d DEF HasWindow
    <3> QED BY <3>1, <2>2, <2>3, <2>4, <1>a, <1>b DEF Acquainted, WillMeet, WillBeMet
  <2>6. CASE p = b
    <3>1. status'[k] = "attached" => WindowsATCreated(b) \in Posted(k)'
      BY <2>2, <2>3, <2>6, <1>a, <1>d DEF HasWindow
    <3> QED BY <3>1, <2>2, <2>3, <2>4, <1>a, <1>b DEF Acquainted, WillMeet, WillBeMet
  <2>7. CASE p # k /\ p # b
    BY <2>7, <2>2, <2>3, <2>4, <1>a, <1>b DEF Acquainted, WillMeet, WillBeMet
  <2> QED BY <2>5, <2>6, <2>7
<1>3. ASSUME NEW p \in Bridges, Detach(p) \/ Crash(p) PROVE Acquainted(k, b)'
  <2>1. CASE p = k \/ p = b
    <3>1. status'[p] \in {"detached", "crashed"}
      BY <1>3, <1>c DEF Detach, Crash
    <3> QED BY <2>1, <3>1 DEF Acquainted, HasWindow
  <2>2. CASE p # k /\ p # b
    <3>1. /\ status'[k] = status[k] /\ status'[b] = status[b]
          /\ peers'[k] = peers[k] /\ peers'[b] = peers[b]
          /\ mapped'[k] = mapped[k]
      BY <1>3, <1>a, <1>c, <2>2 DEF Detach, Crash, Forget
    <3>2. Posted(k) \subseteq Posted(k)' /\ Posted(b) \subseteq Posted(b)'
      <4>1. CASE Detach(p)
        <5>1. \A q \in OtherSide(p) : Destroyed(p) \in PackagesTo(q)
          BY AnnouncedPackages
        <5> DEFINE c == Broadcast(OtherSide(p), Destroyed(p))
        <5>2. /\ DOMAIN c = Bridges
              /\ \A x \in Bridges : Posted(x) \subseteq Range(c[x])
          BY <5>1, PostedByBroadcast
        <5>3. inbox' = [c EXCEPT ![p] = <<>>]
          BY <4>1 DEF Detach
        <5> HIDE DEF c
        <5>4. inbox'[k] = c[k] /\ inbox'[b] = c[b]
          BY <5>2, <5>3, <2>2, <1>a
        <5> QED BY <5>2, <5>4, <1>a DEF Posted
      <4>2. CASE Crash(p)
        <5>1. inbox'[k] = inbox[k] /\ inbox'[b] = inbox[b]
          BY <4>2, <2>2, <1>a DEF Crash, TypeOK
        <5> QED BY <5>1 DEF Posted
      <4> QED BY <1>3, <4>1, <4>2
    <3> QED BY <3>1, <3>2, <1>b DEF Acquainted, HasWindow, WillMeet, WillBeMet
  <2> QED BY <2>1, <2>2
<1>5. ASSUME NEW a \in ATs, NEW j \in JVMs,
             \/ ReceiveJavaVMCreated(a, j)
             \/ ReceiveJavaVMPresent(a, j)
             \/ ReceiveJavaVMDestroyed(a, j)
      PROVE  Acquainted(k, b)'
  <2>1. /\ a \in Bridges /\ j \in Bridges /\ j # a
        /\ k # a /\ b # j
    BY RendezvousPackages, BridgesAreDisjoint
  <2> DEFINE Heard(m, M) ==
        /\ Exchange(a, j, m, M)
        /\ m = JavaVMCreated(j) => WindowsATPresent(a) \in M
        /\ m # JavaVMDestroyed(j) =>
              /\ peers' = [peers EXCEPT ![a] = @ \cup {j}]
              /\ j \in peers[a] \/ MemoryMappedFileCreated(a) \in M
        /\ m = JavaVMDestroyed(j) => peers' = [peers EXCEPT ![a] = @ \ {j}]
  <2>10. PICK m \in {JavaVMCreated(j), JavaVMPresent(j), JavaVMDestroyed(j)} : \E M : Heard(m, M)
    <3>1. j \in peers[a] \/ MemoryMappedFileCreated(a) \in Range(MappedFile(a, j))
      <4>1. Range(MappedFile(a, j)) = IF j \in peers[a] THEN {} ELSE {MemoryMappedFileCreated(a)}
        BY Answers
      <4> QED BY <4>1
    <3>2. /\ JavaVMCreated(j) # JavaVMDestroyed(j)
          /\ JavaVMPresent(j) # JavaVMDestroyed(j)
          /\ JavaVMCreated(j) # JavaVMPresent(j)
      BY DistinctPackages
    <3>3. CASE ReceiveJavaVMCreated(a, j)
      BY <3>1, <3>2, <3>3, ReadByAT DEF ReceiveJavaVMCreated
    <3>4. CASE ReceiveJavaVMPresent(a, j)
      BY <3>1, <3>2, <3>4, ReadByAT DEF ReceiveJavaVMPresent
    <3>5. CASE ReceiveJavaVMDestroyed(a, j)
      BY <3>2, <3>5, ReadByAT DEF ReceiveJavaVMDestroyed
    <3> QED BY <1>5, <3>3, <3>4, <3>5
  <2>2. PICK M : Heard(m, M)
    BY <2>10
  <2>3. status' = status /\ mapped' = mapped
    BY <1>5 DEF ReceiveJavaVMCreated, ReceiveJavaVMPresent, ReceiveJavaVMDestroyed
  <2>4. (HasWindow(k)' <=> HasWindow(k)) /\ (HasWindow(b)' <=> HasWindow(b))
    BY <2>3 DEF HasWindow
  <2>5. /\ Posted(b) \subseteq Posted(b)' \cup {m}
        /\ Posted(k) \subseteq Posted(k)'
        /\ j = k /\ HasWindow(k) => M \subseteq Posted(k)'
    BY <2>1, <2>2, <1>a DEF Exchange
  <2>6. peers'[k] = peers[k] /\ (b # a => peers'[b] = peers[b] /\ Posted(b)' = Posted(b))
    BY <2>1, <2>2, <1>a, <1>c DEF Exchange
  <2>7. CASE b # a
    BY <2>3, <2>4, <2>5, <2>6, <2>7, <1>b DEF Acquainted, WillMeet, WillBeMet
  <2>8. CASE b = a /\ j # k
    <3>1. m # JavaVMCreated(k) /\ m # JavaVMPresent(k)
      BY <2>2, <2>8, DistinctPackages
    <3>2. k \in peers'[b] <=> k \in peers[b]
      BY <2>2, <2>8, <1>a, <1>c
    <3> QED BY <2>3, <2>4, <2>5, <2>6, <3>1, <3>2, <1>b DEF Acquainted, WillMeet, WillBeMet
  <2>9. CASE b = a /\ j = k
    <3>1. CASE m = JavaVMDestroyed(j)
      <4>1. status[j] = "detached"
        <5>1. Destroyed(j) = m /\ m \in Posted(a)
          BY <2>2, <3>1 DEF Destroyed, Exchange
        <5> QED BY <5>1, <2>1 DEF NothingEarly
      <4> QED BY <4>1, <2>3, <2>9 DEF Acquainted, HasWindow
    <3>2. CASE m # JavaVMDestroyed(j)
      <4>1. k \in peers'[b]
        BY <2>2, <2>9, <3>2, <1>a, <1>c
      <4>2. /\ HasWindow(k) /\ m = JavaVMCreated(j) => WindowsATPresent(b) \in Posted(k)'
            /\ HasWindow(k) => k \in peers[b] \/ MemoryMappedFileCreated(b) \in Posted(k)'
        BY <2>2, <2>5, <2>9, <3>2
      <4>3. status[k] = "attached" => HasWindow(k)
        BY DEF HasWindow
      <4>4. m # JavaVMCreated(j) => JavaVMCreated(k) # m
        BY <2>9
      <4> QED BY <4>1, <4>2, <4>3, <4>4, <2>3, <2>4, <2>5, <2>6, <1>b
              DEF Acquainted, WillMeet, WillBeMet
    <3> QED BY <3>1, <3>2
  <2> QED BY <2>7, <2>8, <2>9
<1>6. ASSUME NEW j \in JVMs, NEW a \in ATs,
             \/ ReceiveWindowsATCreated(j, a)
             \/ ReceiveWindowsATPresent(j, a)
             \/ ReceiveMemoryMappedFileCreated(j, a)
             \/ ReceiveWindowsATDestroyed(j, a)
      PROVE  Acquainted(k, b)'
  <2>1. /\ a \in Bridges /\ j \in Bridges /\ j # a
        /\ k # a /\ b # j
    BY RendezvousPackages, BridgesAreDisjoint
  <2> DEFINE Heard(m, M) ==
        /\ Exchange(j, a, m, M)
        /\ m = WindowsATCreated(a) => JavaVMPresent(j) \in M
        /\ m \in {WindowsATCreated(a), WindowsATPresent(a)} =>
              peers' = [peers EXCEPT ![j] = @ \cup {a}] /\ mapped' = mapped
        /\ m = MemoryMappedFileCreated(a) =>
              peers' = peers /\ mapped' = [mapped EXCEPT ![j] = @ \cup {a}]
        /\ m = WindowsATDestroyed(a) =>
              /\ peers' = [peers EXCEPT ![j] = @ \ {a}]
              /\ mapped' = [mapped EXCEPT ![j] = @ \ {a}]
  <2>10. PICK m \in {WindowsATCreated(a), WindowsATPresent(a),
                     MemoryMappedFileCreated(a), WindowsATDestroyed(a)} : \E M : Heard(m, M)
    <3>1. CASE ReceiveWindowsATCreated(j, a)
      BY <3>1, ReadByJVM, DistinctPackages DEF ReceiveWindowsATCreated
    <3>2. CASE ReceiveWindowsATPresent(j, a)
      BY <3>2, ReadByJVM, DistinctPackages DEF ReceiveWindowsATPresent
    <3>3. CASE ReceiveMemoryMappedFileCreated(j, a)
      BY <3>3, ReadByJVM, DistinctPackages DEF ReceiveMemoryMappedFileCreated
    <3>4. CASE ReceiveWindowsATDestroyed(j, a)
      BY <3>4, ReadByJVM, DistinctPackages DEF ReceiveWindowsATDestroyed
    <3> QED BY <1>6, <3>1, <3>2, <3>3, <3>4
  <2>2. PICK M : Heard(m, M)
    BY <2>10
  <2>3. status' = status
    BY <1>6 DEF ReceiveWindowsATCreated, ReceiveWindowsATPresent,
                ReceiveMemoryMappedFileCreated, ReceiveWindowsATDestroyed
  <2>4. (HasWindow(k)' <=> HasWindow(k)) /\ (HasWindow(b)' <=> HasWindow(b))
    BY <2>3 DEF HasWindow
  <2>5. /\ Posted(k) \subseteq Posted(k)' \cup {m}
        /\ Posted(b) \subseteq Posted(b)'
        /\ a = b /\ HasWindow(b) => M \subseteq Posted(b)'
        /\ k # j => Posted(k)' = Posted(k)
    BY <2>1, <2>2, <1>a DEF Exchange
  <2>6. /\ peers'[b] = peers[b]
        /\ k # j => peers'[k] = peers[k] /\ mapped'[k] = mapped[k]
    BY <2>1, <2>2, <1>a, <1>c
  <2>7. CASE k # j
    BY <2>3, <2>4, <2>5, <2>6, <2>7, <1>b DEF Acquainted, WillMeet, WillBeMet
  <2>8. CASE k = j /\ a # b
    <3>1. m \notin {WindowsATCreated(b), WindowsATPresent(b), MemoryMappedFileCreated(b)}
      BY <2>2, <2>8, DistinctPackages
    <3>2. (b \in peers'[k] <=> b \in peers[k]) /\ (b \in mapped'[k] <=> b \in mapped[k])
      BY <2>2, <2>8, <1>a, <1>c
    <3> QED BY <2>3, <2>4, <2>5, <2>6, <3>1, <3>2, <1>b DEF Acquainted, WillMeet, WillBeMet
  <2>9. CASE k = j /\ a = b
    <3>1. CASE m = WindowsATDestroyed(a)
      <4>1. status[a] = "detached"
        <5>1. Destroyed(a) = m /\ m \in Posted(j)
          BY <2>2, <3>1, BridgesAreDisjoint DEF Destroyed, Exchange
        <5> QED BY <5>1, <2>1 DEF NothingEarly
      <4> QED BY <4>1, <2>3, <2>9 DEF Acquainted, HasWindow
    <3>2. CASE m # WindowsATDestroyed(a)
      <4>1. /\ m \in {WindowsATCreated(b), WindowsATPresent(b)} => b \in peers'[k]
            /\ m = MemoryMappedFileCreated(b) => b \in mapped'[k]
            /\ b \in peers[k] => b \in peers'[k]
            /\ b \in mapped[k] => b \in mapped'[k]
        BY <2>2, <2>9, <3>2, <1>a, <1>c
      <4>2. HasWindow(b) /\ m = WindowsATCreated(a) => JavaVMPresent(k) \in Posted(b)'
        BY <2>2, <2>5, <2>9
      <4>3. status[b] = "attached" => HasWindow(b)
        BY DEF HasWindow
      <4> QED BY <4>1, <4>2, <4>3, <2>3, <2>4, <2>5, <2>6, <2>9, <1>b
              DEF Acquainted, WillMeet, WillBeMet
    <3> QED BY <3>1, <3>2
  <2> QED BY <2>7, <2>8, <2>9
<1>7. CASE UNCHANGED vars
  BY <1>7, <1>b DEF vars, Acquainted, WillMeet, WillBeMet, Posted, HasWindow
<1> QED BY <1>1, <1>2, <1>3, <1>5, <1>6, <1>7 DEF Next, ReceiveByAT, ReceiveByJVM

\* Whatever the number of JVMs and ATs and the order in which they attach,
\* answer, detach and crash, two attached bridges that have not met have a
\* Created or Present package on its way that will introduce them, and the
\* AT's memory-mapped file reaches every JVM the AT has met.
THEOREM NobodyIsMissed == Spec => []NobodyMissed
<1>1. Init => IInv
  BY TypingInit, MissedInit DEF IInv
<1>2. IInv /\ [Next]_vars => IInv'
  BY TypingStep, EarlyStep, MissedStep DEF IInv
<1>3. IInv => NobodyMissed
  BY DEF IInv
<1> QED BY <1>1, <1>2, <1>3, PTL DEF Spec

-----------------------------------------------------------------------------
(***************************************************************************)
(* What the other invariants need: the queues in order.                    *)
(***************************************************************************)
\* The packages that p can get from q, and the answer to a Created package.
From(p, q) == {m \in PackagesTo(p) : m.from = q}
Present(p) == IF p \in JVMs THEN JavaVMPresent(p) ELSE WindowsATPresent(p)

\* p reads m from q and posts ms in answer.
Reads(p, q, m, ms) ==
    /\ Receives(p, m) /\ m \in From(p, q)
    /\ ms \in Seq(PackagesTo(q)) /\ Range(ms) \subseteq From(q, p) \ {Destroyed(p)}
    /\ inbox' = Reply(p, q, ms) /\ status' = status

\* What p makes of m.
Learns(p, q, m) ==
    \/ /\ m \in {Created(q), Present(q)}
       /\ peers' = [peers EXCEPT ![p] = @ \cup {q}] /\ mapped' = mapped
    \/ /\ p \in JVMs /\ m = MemoryMappedFileCreated(q)
       /\ peers' = peers /\ mapped' = [mapped EXCEPT ![p] = @ \cup {q}]
    \/ /\ m = Destroyed(q)
       /\ peers' = [peers EXCEPT ![p] = @ \ {q}]
       /\ mapped' = IF p \in JVMs THEN [mapped EXCEPT ![p] = @ \ {q}] ELSE mapped

\* What p answers.
Says(p, q, m, ms) ==
    \/ p \in ATs /\ m = Created(q) /\ ms = <<WindowsATPresent(p)>> \o MappedFile(p, q)
    \/ p \in ATs /\ m = Present(q) /\ ms = MappedFile(p, q)
    \/ p \in JVMs /\ m = Created(q) /\ ms = <<JavaVMPresent(p)>>
    \/ ms = <<>>

Handles(p, q, m, ms) == Reads(p, q, m, ms) /\ Learns(p, q, m) /\ Says(p, q, m, ms)

\* The packages of each side by the names both sides share.
LEMMA SideNames ==
    ASSUME NEW j \in JVMs, NEW a \in ATs
    PROVE  /\ Created(j) = JavaVMCreated(j) /\ Created(a) = WindowsATCreated(a)
           /\ Present(j) = JavaVMPresent(j) /\ Present(a) = WindowsATPresent(a)
           /\ Destroyed(j) = JavaVMDestroyed(j) /\ Destroyed(a) = WindowsATDestroyed(a)
           /\ {Created(j), Present(j), Destroyed(j)} \subseteq From(a, j)
           /\ {Created(a), Present(a), Destroyed(a), MemoryMappedFileCreated(a)} \subseteq From(j, a)
           /\ a \notin JVMs /\ j \notin ATs
<1>1. a \notin JVMs /\ j \notin ATs
  BY BridgesAreDisjoint
<1>2. /\ Created(j) = JavaVMCreated(j) /\ Created(a) = WindowsATCreated(a)
      /\ Present(j) = JavaVMPresent(j) /\ Present(a) = WindowsATPresent(a)
      /\ Destroyed(j) = JavaVMDestroyed(j) /\ Destroyed(a) = WindowsATDestroyed(a)
  BY <1>1 DEF Created, Present, Destroyed
<1>3. j \in Bridges /\ a \in Bridges
  BY RendezvousPackages
<1>4. /\ Created(j).from = j /\ JavaVMPresent(j).from = j /\ Destroyed(j).from = j
      /\ Created(a).from = a /\ WindowsATPresent(a).from = a /\ Destroyed(a).from = a
      /\ MemoryMappedFileCreated(a).from = a
  BY <1>3, Senders
<1>5. {Created(j), Present(j), Destroyed(j)} \subseteq From(a, j)
  BY <1>2, <1>4, RendezvousPackages DEF From
<1>6. {Created(a), Present(a), Destroyed(a), MemoryMappedFileCreated(a)} \subseteq From(j, a)
  BY <1>2, <1>4, RendezvousPackages DEF From
<1> QED BY <1>1, <1>2, <1>5, <1>6

\* The packages of one bridge are four different ones.
LEMMA FourPackages ==
    ASSUME NEW p \in Bridges, NEW q \in Bridges
    PROVE  /\ Created(p) # Present(q) /\ Created(p) # Destroyed(q)
           /\ Created(p) # MemoryMappedFileCreated(q)
           /\ Present(p) # Destroyed(q) /\ Present(p) # MemoryMappedFileCreated(q)
           /\ Destroyed(p) # MemoryMappedFileCreated(q)
<1>1. Created(p).type \in {"JavaVMCreated", "WindowsATCreated"}
  BY DEF Created, JavaVMCreated, WindowsATCreated
<1>2. \A x \in {p, q} : Destroyed(x).type \in {"JavaVMDestroyed", "WindowsATDestroyed"}
  BY DEF Destroyed, JavaVMDestroyed, WindowsATDestroyed
<1>3. \A x \in {p, q} : Present(x).type \in {"JavaVMPresent", "WindowsATPresent"}
  BY DEF Present, JavaVMPresent, WindowsATPresent
<1>4. MemoryMappedFileCreated(q).type = "MemoryMappedFileCreated"
  BY DEF MemoryMappedFileCreated
<1> QED BY <1>1, <1>2, <1>3, <1>4

\* Every handler of the AT side reads a package, learns from it and answers,
LEMMA HandlesByAT ==
    ASSUME TypeOK, NEW a \in ATs, NEW j \in JVMs,
           \/ ReceiveJavaVMCreated(a, j)
           \/ ReceiveJavaVMPresent(a, j)
           \/ ReceiveJavaVMDestroyed(a, j)
    PROVE  \E m, ms : Handles(a, j, m, ms)
<1>1. /\ a \in Bridges /\ j \in Bridges /\ a \notin JVMs
      /\ Created(j) = JavaVMCreated(j) /\ Present(j) = JavaVMPresent(j)
      /\ Destroyed(j) = JavaVMDestroyed(j)
      /\ {Created(j), Present(j), Destroyed(j)} \subseteq From(a, j)
      /\ {WindowsATPresent(a), MemoryMappedFileCreated(a)} \subseteq From(j, a) \ {Destroyed(a)}
  BY SideNames, RendezvousPackages, FourPackages
<1>2. /\ MappedFile(a, j) \in Seq(PackagesTo(j)) /\ <<>> \in Seq(PackagesTo(j))
      /\ <<WindowsATPresent(a)>> \o MappedFile(a, j) \in Seq(PackagesTo(j))
      /\ Range(MappedFile(a, j)) \subseteq From(j, a) \ {Destroyed(a)}
      /\ Range(<<WindowsATPresent(a)>> \o MappedFile(a, j)) \subseteq From(j, a) \ {Destroyed(a)}
  <2>1. Range(MappedFile(a, j)) = IF j \in peers[a] THEN {} ELSE {MemoryMappedFileCreated(a)}
    BY Answers
  <2>2. /\ Range(<<WindowsATPresent(a)>> \o MappedFile(a, j)) =
              {WindowsATPresent(a)} \cup Range(MappedFile(a, j))
        /\ <<WindowsATPresent(a)>> \o MappedFile(a, j) \in Seq(PackagesTo(j))
        /\ MappedFile(a, j) \in Seq(PackagesTo(j))
    BY Answers
  <2>3. Range(MappedFile(a, j)) \subseteq From(j, a) \ {Destroyed(a)}
    BY <1>1, <2>1
  <2>4. <<>> \in Seq(PackagesTo(j))
    OBVIOUS
  <2> QED BY <1>1, <2>2, <2>3, <2>4
<1>3. CASE ReceiveJavaVMCreated(a, j)
  <2> DEFINE ms == <<WindowsATPresent(a)>> \o MappedFile(a, j)
  <2>1. Reads(a, j, Created(j), ms)
    BY <1>1, <1>2, <1>3 DEF ReceiveJavaVMCreated, Reads
  <2>2. Learns(a, j, Created(j)) /\ Says(a, j, Created(j), ms)
    BY <1>3 DEF ReceiveJavaVMCreated, Learns, Says
  <2> HIDE DEF ms
  <2> QED BY <2>1, <2>2 DEF Handles
<1>4. CASE ReceiveJavaVMPresent(a, j)
  <2> DEFINE ms == MappedFile(a, j)
  <2>1. Reads(a, j, Present(j), ms)
    BY <1>1, <1>2, <1>4 DEF ReceiveJavaVMPresent, Reads
  <2>2. Learns(a, j, Present(j)) /\ Says(a, j, Present(j), ms)
    BY <1>4 DEF ReceiveJavaVMPresent, Learns, Says
  <2> HIDE DEF ms
  <2> QED BY <2>1, <2>2 DEF Handles
<1>5. CASE ReceiveJavaVMDestroyed(a, j)
  <2> DEFINE ms == <<>>
  <2>1. Reads(a, j, Destroyed(j), ms)
    BY <1>1, <1>2, <1>5, RangeOfEmpty DEF ReceiveJavaVMDestroyed, Reads
  <2>2. Learns(a, j, Destroyed(j)) /\ Says(a, j, Destroyed(j), ms)
    BY <1>1, <1>5 DEF ReceiveJavaVMDestroyed, Learns, Says
  <2> HIDE DEF ms
  <2> QED BY <2>1, <2>2 DEF Handles
<1> QED BY <1>3, <1>4, <1>5

\* ... and so does every handler of the JVM side.
LEMMA HandlesByJVM ==
    ASSUME TypeOK, NEW j \in JVMs, NEW a \in ATs,
           \/ ReceiveWindowsATCreated(j, a)
           \/ ReceiveWindowsATPresent(j, a)
           \/ ReceiveMemoryMappedFileCreated(j, a)
           \/ ReceiveWindowsATDestroyed(j, a)
    PROVE  \E m, ms : Handles(j, a, m, ms)
<1>1. /\ a \in Bridges /\ j \in Bridges
      /\ Created(a) = WindowsATCreated(a) /\ Present(a) = WindowsATPresent(a)
      /\ Destroyed(a) = WindowsATDestroyed(a) /\ Present(j) = JavaVMPresent(j)
      /\ {Created(a), Present(a), Destroyed(a), MemoryMappedFileCreated(a)} \subseteq From(j, a)
      /\ JavaVMPresent(j) \in From(a, j) \ {Destroyed(j)}
  BY SideNames, RendezvousPackages, FourPackages
<1> DEFINE none == <<>>
<1>2. none \in Seq(PackagesTo(a)) /\ Range(none) \subseteq From(a, j) \ {Destroyed(j)}
  BY Answers, RangeOfEmpty
<1> HIDE DEF none
<1>3. CASE ReceiveWindowsATCreated(j, a)
  <2> DEFINE ms == <<JavaVMPresent(j)>>
  <2>1. Reads(j, a, Created(a), ms)
    BY <1>1, <1>3, Answers DEF ReceiveWindowsATCreated, Reads
  <2>2. Learns(j, a, Created(a)) /\ Says(j, a, Created(a), ms)
    BY <1>3 DEF ReceiveWindowsATCreated, Learns, Says
  <2> HIDE DEF ms
  <2> QED BY <2>1, <2>2 DEF Handles
<1>4. CASE ReceiveWindowsATPresent(j, a)
  <2>1. Reads(j, a, Present(a), none)
    BY <1>1, <1>2, <1>4 DEF ReceiveWindowsATPresent, Reads, none
  <2>2. Learns(j, a, Present(a)) /\ Says(j, a, Present(a), none)
    BY <1>4 DEF ReceiveWindowsATPresent, Learns, Says, none
  <2> QED BY <2>1, <2>2 DEF Handles
<1>5. CASE ReceiveMemoryMappedFileCreated(j, a)
  <2> DEFINE m == MemoryMappedFileCreated(a)
  <2>1. Reads(j, a, m, none)
    BY <1>1, <1>2, <1>5 DEF ReceiveMemoryMappedFileCreated, Reads, none
  <2>2. Learns(j, a, m) /\ Says(j, a, m, none)
    BY <1>5 DEF ReceiveMemoryMappedFileCreated, Learns, Says, none
  <2> HIDE DEF m
  <2> QED BY <2>1, <2>2 DEF Handles
<1>6. CASE ReceiveWindowsATDestroyed(j, a)
  <2>1. Reads(j, a, Destroyed(a), none)
    BY <1>1, <1>2, <1>6 DEF ReceiveWindowsATDestroyed, Reads, none
  <2>2. Learns(j, a, Destroyed(a)) /\ Says(j, a, Destroyed(a), none)
    BY <1>1, <1>6 DEF ReceiveWindowsATDestroyed, Learns, Says, none
  <2> QED BY <2>1, <2>2 DEF Handles
<1> QED BY <1>3, <1>4, <1>5, <1>6

\* A step is one of a bridge's life, or the handling of a package.
LEMMA RendezvousSteps ==
    ASSUME TypeOK, Next
    PROVE  \E p \in Bridges :
              \/ OpenWindow(p) \/ Announce(p) \/ Detach(p) \/ Crash(p)
              \/ \E q \in OtherSide(p) : \E m, ms : Handles(p, q, m, ms)
<1>1. ASSUME NEW a \in ATs, ReceiveByAT(a)
      PROVE  a \in Bridges /\ \E q \in OtherSide(a) : \E m, ms : Handles(a, q, m, ms)
  <2>1. PICK j \in JVMs : \/ ReceiveJavaVMCreated(a, j)
                          \/ ReceiveJavaVMPresent(a, j)
                          \/ ReceiveJavaVMDestroyed(a, j)
    BY <1>1 DEF ReceiveByAT
  <2> QED BY <2>1, HandlesByAT, RendezvousPackages
<1>2. ASSUME NEW j \in JVMs, ReceiveByJVM(j)
      PROVE  j \in Bridges /\ \E q \in OtherSide(j) : \E m, ms : Handles(j, q, m, ms)
  <2>1. PICK a \in ATs : \/ ReceiveWindowsATCreated(j, a)
                         \/ ReceiveWindowsATPresent(j, a)
                         \/ ReceiveMemoryMappedFileCreated(j, a)
                         \/ ReceiveWindowsATDestroyed(j, a)
    BY <1>2 DEF ReceiveByJVM
  <2> QED BY <2>1, HandlesByJVM, RendezvousPackages
<1> QED BY <1>1, <1>2 DEF Next

\* p's life goes on to s, and p posts ms to the other side.
Lives(p, s, ms) ==
    /\ \/ status[p] = "unborn" /\ s = "windowed" /\ ms = <<>>
       \/ status[p] = "windowed" /\ s = "attached" /\ ms = <<Created(p)>>
       \/ status[p] = "attached" /\ s = "detached" /\ ms = <<Destroyed(p)>>
       \/ HasWindow(p) /\ s = "crashed" /\ ms = <<>>
    /\ \A x \in Bridges : status'[x] = IF x = p THEN s ELSE status[x]
    /\ \A x \in Bridges :
          inbox'[x] = IF x = p /\ s \in {"detached", "crashed"} THEN <<>>
                      ELSE IF x \in OtherSide(p) /\ HasWindow(x) THEN inbox[x] \o ms
                      ELSE inbox[x]
    /\ \A x \in Bridges :
          peers'[x] = IF x = p /\ s \in {"detached", "crashed"} THEN {} ELSE peers[x]
    /\ \A j \in JVMs :
          mapped'[j] = IF j = p /\ s \in {"detached", "crashed"} THEN {} ELSE mapped[j]

\* Attaching, detaching and crashing are the steps of a life.
LEMMA LifeSteps ==
    ASSUME TypeOK, NEW p \in Bridges, OpenWindow(p) \/ Announce(p) \/ Detach(p) \/ Crash(p)
    PROVE  \E s, ms : Lives(p, s, ms)
<1> DEFINE none == <<>>
<1>1. \A x \in Bridges : inbox[x] \o none = inbox[x]
  BY ConcatEmptySeq DEF TypeOK
<1>2. p \notin OtherSide(p)
  BY BridgesAreDisjoint DEF Bridges, OtherSide
<1>3. \A x \in Bridges : \A m : Append(inbox[x], m) = inbox[x] \o <<m>>
  <2> TAKE x \in Bridges
  <2> TAKE m
  <2>1. inbox[x] \in Seq(PackagesTo(x) \cup {m}) /\ m \in PackagesTo(x) \cup {m}
    BY SeqMonotonic DEF TypeOK
  <2> QED BY <2>1, AppendIsConcat
<1>4. CASE OpenWindow(p)
  <2>1. \A x \in Bridges : inbox'[x] = inbox[x] /\ inbox'[x] = inbox[x] \o none
    BY <1>4, <1>1 DEF OpenWindow
  <2> HIDE DEF none
  <2>2. Lives(p, "windowed", none)
    BY <1>4, <2>1 DEF OpenWindow, TypeOK, Lives, none
  <2> QED BY <2>2
<1>5. CASE Announce(p)
  <2>1. \A x \in Bridges :
           inbox'[x] = IF x \in OtherSide(p) /\ HasWindow(x) THEN inbox[x] \o <<Created(p)>>
                       ELSE inbox[x]
    BY <1>5, <1>3 DEF Announce, Broadcast
  <2>2. Lives(p, "attached", <<Created(p)>>)
    BY <1>5, <2>1 DEF Announce, TypeOK, Lives
  <2> QED BY <2>2
<1>6. CASE Detach(p)
  <2>1. \A x \in Bridges :
           inbox'[x] = IF x = p THEN none
                       ELSE IF x \in OtherSide(p) /\ HasWindow(x) THEN inbox[x] \o <<Destroyed(p)>>
                       ELSE inbox[x]
    BY <1>6, <1>3 DEF Detach, Broadcast
  <2>2. /\ peers' = [peers EXCEPT ![p] = {}]
        /\ mapped' = IF p \in JVMs THEN [mapped EXCEPT ![p] = {}] ELSE mapped
        /\ status' = [status EXCEPT ![p] = "detached"] /\ status[p] = "attached"
    BY <1>6 DEF Detach, Forget
  <2>3. Lives(p, "detached", <<Destroyed(p)>>)
    BY <2>1, <2>2 DEF TypeOK, Lives
  <2> QED BY <2>3
<1>7. CASE Crash(p)
  <2>1. \A x \in Bridges :
           inbox'[x] = IF x = p THEN none
                       ELSE IF x \in OtherSide(p) /\ HasWindow(x) THEN inbox[x] \o none
                       ELSE inbox[x]
    BY <1>7, <1>1 DEF Crash, TypeOK
  <2>2. /\ peers' = [peers EXCEPT ![p] = {}]
        /\ mapped' = IF p \in JVMs THEN [mapped EXCEPT ![p] = {}] ELSE mapped
        /\ status' = [status EXCEPT ![p] = "crashed"] /\ HasWindow(p)
    BY <1>7 DEF Crash, Forget
  <2> HIDE DEF none
  <2>3. Lives(p, "crashed", none)
    BY <2>1, <2>2 DEF TypeOK, Lives, none
  <2> QED BY <2>3
<1> QED BY <1>4, <1>5, <1>6, <1>7

\* The queues, and who has a window, after a package was handled.
LEMMA QueuesAfterHandling ==
    ASSUME TypeOK, NEW p \in Bridges, NEW q \in OtherSide(p), NEW m, NEW ms,
           Handles(p, q, m, ms)
    PROVE  /\ q \in Bridges /\ p # q /\ p \in OtherSide(q)
           /\ HasWindow(p) /\ inbox[p] # <<>> /\ Head(inbox[p]) = m
           /\ inbox'[p] = Tail(inbox[p])
           /\ inbox'[q] = IF HasWindow(q) THEN inbox[q] \o ms ELSE inbox[q]
           /\ \A x \in Bridges : x # p /\ x # q => inbox'[x] = inbox[x]
           /\ \A x \in Bridges : HasWindow(x)' <=> HasWindow(x)
           /\ m \in Posted(p) /\ m \in From(p, q)
           /\ Posted(p) = {m} \cup Posted(p)'
           /\ Posted(q)' = Posted(q) \cup (IF HasWindow(q) THEN Range(ms) ELSE {})
           /\ \A x \in Bridges : x # p => peers'[x] = peers[x]
           /\ \A j \in JVMs : j # p => mapped'[j] = mapped[j]
           /\ p \in ATs => mapped' = mapped
<1>1. /\ Receives(p, m) /\ ms \in Seq(PackagesTo(q)) /\ inbox' = Reply(p, q, ms)
      /\ m \in From(p, q) /\ status' = status
  BY DEF Handles, Reads
<1>2. q \in Bridges /\ p # q /\ p \in OtherSide(q) /\ (p \in ATs => p \notin JVMs)
  BY Sides
<1>3. /\ inbox'[p] = Tail(inbox[p])
      /\ inbox'[q] = IF HasWindow(q) THEN inbox[q] \o ms ELSE inbox[q]
      /\ \A x \in Bridges : x # p /\ x # q => inbox'[x] = inbox[x]
  BY <1>1, <1>2 DEF Reply
<1>4. HasWindow(p) /\ inbox[p] # <<>> /\ Head(inbox[p]) = m
  BY <1>1 DEF Receives
<1>5. /\ Posted(p) = {m} \cup Posted(p)'
      /\ Posted(q)' = Posted(q) \cup (IF HasWindow(q) THEN Range(ms) ELSE {})
  BY <1>1, PostedByReply
<1>6. \A x \in Bridges : HasWindow(x)' <=> HasWindow(x)
  BY <1>1 DEF HasWindow
<1>7. /\ \A x \in Bridges : x # p => peers'[x] = peers[x]
      /\ \A j \in JVMs : j # p => mapped'[j] = mapped[j]
      /\ p \in ATs => mapped' = mapped
  BY <1>2 DEF Handles, Learns, TypeOK
<1> QED BY <1>1, <1>2, <1>3, <1>4, <1>5, <1>6, <1>7

-----------------------------------------------------------------------------
\* A bridge without a window has no packages, peers or files, and nobody has
\* a file of one that has not had a window yet.
AbsentHaveNothing ==
    /\ \A p \in Bridges : ~HasWindow(p) =>
          inbox[p] = <<>> /\ peers[p] = {} /\ (p \in JVMs => mapped[p] = {})
    /\ \A j \in JVMs : \A a \in mapped[j] : status[a] # "unborn"

\* Nothing of a bridge is queued behind its Destroyed package.
GoodbyeIsLast ==
    \A p \in Bridges : \A q \in OtherSide(p) :
        NeverBefore(inbox[p], {Destroyed(q)}, From(p, q))

\* Who has read the Destroyed package, or came after it was sent, has nothing
\* of the bridge any more.
GoneForGood ==
    \A p \in Bridges : \A q \in OtherSide(p) :
        HasWindow(p) /\ status[q] = "detached" /\ Destroyed(q) \notin Posted(p) =>
            /\ q \notin peers[p]
            /\ p \in JVMs => q \notin mapped[p]
            /\ Posted(p) \cap From(p, q) = {}

\* A bridge without a window gains nothing: what is posted to it is lost.
LEMMA AbsentStep ==
    TypeOK /\ NothingEarly /\ AbsentHaveNothing /\ [Next]_vars => AbsentHaveNothing'
<1> SUFFICES ASSUME TypeOK, NothingEarly, AbsentHaveNothing, [Next]_vars
             PROVE  AbsentHaveNothing'
  OBVIOUS
<1>1. ASSUME NEW p \in Bridges, NEW s, NEW ms, Lives(p, s, ms) PROVE AbsentHaveNothing'
  <2>1. ASSUME NEW x \in Bridges, ~HasWindow(x)'
        PROVE  inbox'[x] = <<>> /\ peers'[x] = {} /\ (x \in JVMs => mapped'[x] = {})
    <3>1. CASE x = p
      <4>1. s \in {"detached", "crashed"}
        BY <1>1, <2>1, <3>1 DEF Lives, HasWindow
      <4> QED BY <1>1, <3>1, <4>1 DEF Lives
    <3>2. CASE x # p
      <4>1. ~HasWindow(x)
        BY <1>1, <2>1, <3>2 DEF Lives, HasWindow
      <4> QED BY <1>1, <3>2, <4>1 DEF Lives, AbsentHaveNothing
    <3> QED BY <3>1, <3>2
  <2>2. ASSUME NEW j \in JVMs, NEW a \in mapped'[j] PROVE status'[a] # "unborn"
    <3>1. a \in mapped[j] /\ a \in Bridges
      BY <1>1, <2>2 DEF Lives, TypeOK, Bridges
    <3> QED BY <1>1, <3>1 DEF Lives, AbsentHaveNothing
  <2> QED BY <2>1, <2>2 DEF AbsentHaveNothing
<1>2. ASSUME NEW p \in Bridges, NEW q \in OtherSide(p), NEW m, NEW ms, Handles(p, q, m, ms)
      PROVE  AbsentHaveNothing'
  <2>1. ASSUME NEW x \in Bridges, ~HasWindow(x)'
        PROVE  inbox'[x] = <<>> /\ peers'[x] = {} /\ (x \in JVMs => mapped'[x] = {})
    <3>1. x # p /\ ~HasWindow(x) /\ inbox'[x] = inbox[x]
      BY <1>2, <2>1, QueuesAfterHandling
    <3> QED BY <1>2, <3>1, QueuesAfterHandling DEF AbsentHaveNothing
  <2>2. ASSUME NEW j \in JVMs, NEW a \in mapped'[j] PROVE status'[a] # "unborn"
    <3>1. status[q] # "unborn"
      BY <1>2, QueuesAfterHandling DEF NothingEarly, From
    <3>2. a \in mapped[j] \/ a = q
      <4>1. mapped \in [JVMs -> SUBSET ATs] /\ Learns(p, q, m)
        BY <1>2 DEF TypeOK, Handles
      <4>2. mapped'[j] \subseteq mapped[j] \cup {q}
        BY <4>1 DEF Learns
      <4> QED BY <2>2, <4>2
    <3> QED BY <1>2, <3>1, <3>2 DEF Handles, Reads, AbsentHaveNothing
  <2> QED BY <2>1, <2>2 DEF AbsentHaveNothing
<1>3. CASE UNCHANGED vars
  BY <1>3 DEF vars, AbsentHaveNothing, HasWindow
<1> QED BY <1>1, <1>2, <1>3, RendezvousSteps, LifeSteps

\* What p posts when its life goes on: at most one package, its own.
LEMMA Announcements ==
    ASSUME NEW p \in Bridges, NEW x \in OtherSide(p), NEW s, NEW ms, Lives(p, s, ms)
    PROVE  /\ ms \in Seq(PackagesTo(x)) /\ Range(ms) \subseteq From(x, p)
           /\ \A A, B : NeverBefore(ms, A, B)
           /\ s = "detached" => Range(ms) = {Destroyed(p)}
           /\ s # "detached" => Range(ms) \subseteq {Created(p)}
           /\ status[p] # "detached"
<1>1. Created(p) \in PackagesTo(x) /\ Destroyed(p) \in PackagesTo(x)
  BY AnnouncedPackages
<1>2. Created(p).from = p /\ Destroyed(p).from = p
  BY Senders
<1> DEFINE none == <<>>
           hello == <<Created(p)>>
           goodbye == <<Destroyed(p)>>
<1>3. /\ none \in Seq(PackagesTo(x)) /\ Range(none) = {}
      /\ \A A, B : NeverBefore(none, A, B)
  BY <1>1, EmptySeq, RangeOfEmpty, OrderOfFew
<1>4. /\ hello \in Seq(PackagesTo(x)) /\ Range(hello) = {Created(p)}
      /\ \A A, B : NeverBefore(hello, A, B)
  BY <1>1, RangeOfOne, OrderOfFew
<1>5. /\ goodbye \in Seq(PackagesTo(x)) /\ Range(goodbye) = {Destroyed(p)}
      /\ \A A, B : NeverBefore(goodbye, A, B)
  BY <1>1, RangeOfOne, OrderOfFew
<1>6. /\ ms \in {none, hello, goodbye}
      /\ s = "detached" <=> ms = goodbye
      /\ status[p] # "detached"
  <2>1. none # hello /\ none # goodbye /\ Range(hello) # Range(goodbye)
    <3>1. Len(none) = 0 /\ Len(hello) = 1 /\ Len(goodbye) = 1
      OBVIOUS
    <3>2. Created(p) # Destroyed(p)
      BY FourPackages
    <3> QED BY <3>1, <3>2, <1>4, <1>5
  <2> HIDE DEF none, hello, goodbye
  <2> QED BY <2>1 DEF Lives, HasWindow, none, hello, goodbye
<1> HIDE DEF none, hello, goodbye
<1> QED BY <1>1, <1>2, <1>3, <1>4, <1>5, <1>6 DEF From

\* Who posts has not detached yet, so nothing follows a Destroyed package.
LEMMA GoodbyeStep ==
    TypeOK /\ NothingEarly /\ GoodbyeIsLast /\ [Next]_vars => GoodbyeIsLast'
<1> SUFFICES ASSUME TypeOK, NothingEarly, GoodbyeIsLast, [Next]_vars,
                    NEW x \in Bridges, NEW y \in OtherSide(x)
             PROVE  NeverBefore(inbox'[x], {Destroyed(y)}, From(x, y))
  BY DEF GoodbyeIsLast
<1>1. /\ inbox[x] \in Seq(PackagesTo(x))
      /\ NeverBefore(inbox[x], {Destroyed(y)}, From(x, y))
      /\ y \in Bridges /\ x # y
  BY Sides DEF TypeOK, GoodbyeIsLast
\* Whoever posts has not said goodbye.
<1>2. ASSUME NEW ms \in Seq(PackagesTo(x)), NEW p \in Bridges, Range(ms) \subseteq From(x, p),
             status[p] # "detached",
             p = y => NeverBefore(ms, {Destroyed(y)}, From(x, y))
      PROVE  NeverBefore(inbox[x] \o ms, {Destroyed(y)}, From(x, y))
  <2>1. CASE p = y
    <3>1. Range(inbox[x]) \cap {Destroyed(y)} = {}
      BY <1>1, <1>2, <2>1 DEF NothingEarly, Posted
    <3> QED BY <1>1, <1>2, <2>1, <3>1, OrderAfterPost
  <2>2. CASE p # y
    <3>1. Range(ms) \cap From(x, y) = {}
      BY <1>2, <2>2 DEF From
    <3> QED BY <1>1, <1>2, <3>1, OrderVoid, OrderAfterPost
  <2> QED BY <2>1, <2>2
<1>3. ASSUME NEW p \in Bridges, NEW s, NEW ms, Lives(p, s, ms)
      PROVE  NeverBefore(inbox'[x], {Destroyed(y)}, From(x, y))
  <2>1. CASE x \in OtherSide(p) /\ HasWindow(x)
    <3>1. x # p
      BY <2>1, Sides
    <3>2. inbox'[x] = inbox[x] \o ms
      BY <1>3, <2>1, <3>1 DEF Lives
    <3> QED BY <1>2, <1>3, <2>1, <3>2, Announcements
  <2>2. CASE ~(x \in OtherSide(p) /\ HasWindow(x))
    <3> DEFINE none == <<>>
    <3>1. NeverBefore(none, {Destroyed(y)}, From(x, y))
      BY OrderOfFew
    <3>2. inbox'[x] = none \/ inbox'[x] = inbox[x]
      BY <1>3, <2>2 DEF Lives
    <3> HIDE DEF none
    <3> QED BY <1>1, <3>1, <3>2
  <2> QED BY <2>1, <2>2
<1>4. ASSUME NEW p \in Bridges, NEW q \in OtherSide(p), NEW m, NEW ms, Handles(p, q, m, ms)
      PROVE  NeverBefore(inbox'[x], {Destroyed(y)}, From(x, y))
  <2>1. CASE x = p
    <3>1. inbox[x] # <<>> /\ inbox'[x] = Tail(inbox[x])
      BY <1>4, <2>1, QueuesAfterHandling
    <3> QED BY <1>1, <3>1, OrderAfterRead
  <2>2. CASE x = q /\ HasWindow(q)
    <3>1. inbox'[x] = inbox[x] \o ms /\ status[p] # "detached"
      <4>1. inbox'[q] = (IF HasWindow(q) THEN inbox[q] \o ms ELSE inbox[q]) /\ HasWindow(p)
        BY <1>4, QueuesAfterHandling
      <4>2. inbox'[x] = inbox[x] \o ms
        BY <2>2, <4>1
      <4> QED BY <4>1, <4>2 DEF HasWindow
    <3>2. ms \in Seq(PackagesTo(x)) /\ Range(ms) \subseteq From(x, p) \ {Destroyed(p)}
      BY <1>4, <2>2 DEF Handles, Reads
    <3>3. p = y => NeverBefore(ms, {Destroyed(y)}, From(x, y))
      BY <3>2, OrderVoid
    <3> QED BY <1>2, <3>1, <3>2, <3>3
  <2>3. CASE x # p /\ ~(x = q /\ HasWindow(q))
    <3>1. inbox'[x] = inbox[x]
      BY <1>4, <2>3, QueuesAfterHandling
    <3> QED BY <1>1, <3>1
  <2> QED BY <2>1, <2>2, <2>3
<1>5. CASE UNCHANGED vars
  BY <1>5, <1>1 DEF vars
<1> QED BY <1>3, <1>4, <1>5, RendezvousSteps, LifeSteps

\* Reading the Destroyed package removes the last trace of a bridge.
LEMMA GoneStep ==
    TypeOK /\ NothingEarly /\ AbsentHaveNothing /\ GoodbyeIsLast /\ GoneForGood /\ [Next]_vars
        => GoneForGood'
<1> SUFFICES ASSUME TypeOK, NothingEarly, AbsentHaveNothing, GoodbyeIsLast, GoneForGood,
                    [Next]_vars, NEW x \in Bridges, NEW y \in OtherSide(x),
                    HasWindow(x)', status'[y] = "detached", Destroyed(y) \notin Posted(x)'
             PROVE  /\ y \notin peers'[x]
                    /\ x \in JVMs => y \notin mapped'[x]
                    /\ Posted(x)' \cap From(x, y) = {}
  BY DEF GoneForGood
<1>1. /\ inbox[x] \in Seq(PackagesTo(x))
      /\ y \in Bridges /\ x # y /\ x \in OtherSide(y)
  BY Sides DEF TypeOK
<1>2. ASSUME NEW p \in Bridges, NEW s, NEW ms, Lives(p, s, ms)
      PROVE  /\ y \notin peers'[x]
             /\ x \in JVMs => y \notin mapped'[x]
             /\ Posted(x)' \cap From(x, y) = {}
  <2>1. x \in OtherSide(p) /\ HasWindow(x) => Posted(x)' = Posted(x) \cup Range(ms)
    <3> SUFFICES ASSUME x \in OtherSide(p), HasWindow(x) PROVE Posted(x)' = Posted(x) \cup Range(ms)
      OBVIOUS
    <3>1. inbox'[x] = inbox[x] \o ms /\ ms \in Seq(PackagesTo(x))
      BY <1>2, Sides, Announcements DEF Lives
    <3> QED BY <1>1, <3>1, RangeOfPosted DEF Posted
  <2>2. CASE y = p
    <3>1. s = "detached" /\ HasWindow(x)
      BY <1>1, <1>2, <2>2 DEF Lives, HasWindow
    <3> QED BY <1>1, <1>2, <2>1, <2>2, <3>1, Announcements
  <2>3. CASE x = p
    <3>1. /\ status[y] = "detached" /\ s \notin {"detached", "crashed"}
          /\ inbox'[x] = inbox[x] /\ peers'[x] = peers[x] /\ (x \in JVMs => mapped'[x] = mapped[x])
      BY <1>1, <1>2, <2>3, Sides DEF Lives, HasWindow
    <3>2. CASE HasWindow(x)
      BY <3>1, <3>2 DEF GoneForGood, Posted
    <3>3. CASE ~HasWindow(x)
      BY <3>1, <3>3, RangeOfEmpty DEF AbsentHaveNothing, Posted
    <3> QED BY <3>2, <3>3
  <2>4. CASE x # p /\ y # p
    <3>1. /\ status[y] = "detached" /\ HasWindow(x) /\ peers'[x] = peers[x]
          /\ x \in JVMs => mapped'[x] = mapped[x]
      BY <1>1, <1>2, <2>4 DEF Lives, HasWindow
    <3>2. x \in OtherSide(p) => Range(ms) \cap From(x, y) = {}
      BY <1>2, <2>4, Announcements DEF From
    <3>3. x \notin OtherSide(p) => Posted(x)' = Posted(x)
      BY <1>2, <2>4 DEF Lives, Posted
    <3> QED BY <2>1, <3>1, <3>2, <3>3 DEF GoneForGood
  <2> QED BY <2>2, <2>3, <2>4
<1>3. ASSUME NEW p \in Bridges, NEW q \in OtherSide(p), NEW m, NEW ms, Handles(p, q, m, ms)
      PROVE  /\ y \notin peers'[x]
             /\ x \in JVMs => y \notin mapped'[x]
             /\ Posted(x)' \cap From(x, y) = {}
  <2>1. HasWindow(x) /\ status[y] = "detached" /\ y # p
    BY <1>3, QueuesAfterHandling DEF Handles, Reads, HasWindow
  <2>2. CASE x # p
    <3>1. Posted(x)' = Posted(x) \cup (IF x = q THEN Range(ms) ELSE {})
      BY <1>3, <2>1, <2>2, QueuesAfterHandling DEF Posted
    <3>2. x = q => Range(ms) \cap From(x, y) = {}
      BY <1>3, <2>1 DEF Handles, Reads, From
    <3> QED BY <1>3, <2>1, <2>2, <3>1, <3>2, QueuesAfterHandling DEF GoneForGood
  <2>3. CASE x = p /\ y # q
    <3>1. m # Destroyed(y) /\ Posted(x) = {m} \cup Posted(x)'
      <4>1. m.from = q /\ Destroyed(y).from = y
        BY <1>1, <1>3, <2>3, QueuesAfterHandling, Senders DEF From
      <4> QED BY <1>3, <2>3, <4>1, QueuesAfterHandling
    <3>2. /\ y \notin peers[x] /\ (x \in JVMs => y \notin mapped[x])
          /\ Posted(x) \cap From(x, y) = {}
      BY <2>1, <3>1 DEF GoneForGood
    <3>3. /\ y \in peers'[x] => y \in peers[x]
          /\ x \in JVMs => (y \in mapped'[x] => y \in mapped[x])
      <4>1. /\ peers \in [Bridges -> SUBSET Bridges] /\ mapped \in [JVMs -> SUBSET ATs]
            /\ Learns(p, q, m)
        BY <1>3 DEF TypeOK, Handles
      <4>2. y \in peers'[x] => y \in peers[x]
        BY <2>3, <4>1 DEF Learns
      <4>3. x \in JVMs => (y \in mapped'[x] => y \in mapped[x])
        BY <2>3, <4>1 DEF Learns
      <4> QED BY <4>2, <4>3
    <3> QED BY <3>1, <3>2, <3>3
  <2>4. CASE x = p /\ y = q
    <3>1. m = Destroyed(q)
      <4>1. Posted(x) = {m} \cup Posted(x)' /\ m \in From(x, y)
        BY <1>3, <2>4, QueuesAfterHandling
      <4> QED BY <2>1, <2>4, <4>1 DEF GoneForGood
    <3>2. Posted(x)' \cap From(x, y) = {}
      <4>1. /\ inbox[x] # <<>> /\ Head(inbox[x]) = Destroyed(y) /\ inbox'[x] = Tail(inbox[x])
            /\ NeverBefore(inbox[x], {Destroyed(y)}, From(x, y))
        BY <1>3, <2>4, <3>1, QueuesAfterHandling DEF GoodbyeIsLast
      <4> QED BY <1>1, <4>1, OrderAfterRead DEF Posted
    <3>3. y \notin peers'[x] /\ (x \in JVMs => y \notin mapped'[x])
      <4>1. /\ peers \in [Bridges -> SUBSET Bridges] /\ mapped \in [JVMs -> SUBSET ATs]
            /\ Learns(p, q, m) /\ q \in Bridges
            /\ m \notin {Created(q), Present(q), MemoryMappedFileCreated(q)}
        BY <1>1, <1>3, <2>4, <3>1, FourPackages DEF TypeOK, Handles
      <4> QED BY <2>4, <4>1 DEF Learns
    <3> QED BY <3>2, <3>3
  <2> QED BY <2>2, <2>3, <2>4
<1>4. CASE UNCHANGED vars
  BY <1>4 DEF vars, GoneForGood, HasWindow, Posted
<1> QED BY <1>2, <1>3, <1>4, RendezvousSteps, LifeSteps

\* An AT knows every JVM that it has told of its memory-mapped file, and tells
\* it once.
FilesAreTold ==
    \A j \in JVMs, a \in ATs :
        /\ HasWindow(a) /\ (a \in mapped[j] \/ MemoryMappedFileCreated(a) \in Posted(j)) =>
              j \in peers[a]
        /\ NeverBefore(inbox[j], {MemoryMappedFileCreated(a)}, {MemoryMappedFileCreated(a)})
        /\ a \in mapped[j] => MemoryMappedFileCreated(a) \notin Posted(j)

\* A JVM meets an AT no later than it hears of the AT's memory-mapped file.
MetBeforeFile ==
    \A j \in JVMs, a \in ATs :
        /\ HasWindow(j) /\ JavaVMPresent(j) \in Posted(a) => a \in peers[j]
        /\ a \in peers[j] \/ Preceded(inbox[j], {MemoryMappedFileCreated(a)}, {Created(a), Present(a)})

\* What an AT answers: the file last, after Present if there is a Present.
LEMMA FileAnswers ==
    ASSUME NEW a \in ATs, NEW j \in JVMs, NEW m, NEW ms, Says(a, j, m, ms)
    PROVE  LET F == {MemoryMappedFileCreated(a)} IN
           /\ ms \in Seq(PackagesTo(j))
           /\ NeverBefore(ms, F, F)
           /\ MemoryMappedFileCreated(a) \in Range(ms) =>
                 j \notin peers[a] /\ m \in {Created(j), Present(j)}
           /\ m # Present(j) => Preceded(ms, F, {Created(a), Present(a)})
<1> DEFINE F == {MemoryMappedFileCreated(a)}
           none == <<>>
           hello == <<WindowsATPresent(a)>>
           file == MappedFile(a, j)
<1>1. /\ WindowsATPresent(a) \in PackagesTo(j) /\ MemoryMappedFileCreated(a) \in PackagesTo(j)
      /\ a \notin JVMs /\ Present(a) = WindowsATPresent(a)
      /\ WindowsATPresent(a) # MemoryMappedFileCreated(a)
  BY RendezvousPackages, SideNames, FourPackages
<1>2. /\ none \in Seq(PackagesTo(j)) /\ Range(none) = {} /\ NeverBefore(none, F, F)
      /\ Preceded(none, F, {Created(a), Present(a)})
  BY <1>1, EmptySeq, RangeOfEmpty, OrderOfFew, PrecededVoid
<1>3. /\ hello \in Seq(PackagesTo(j)) /\ Range(hello) = {WindowsATPresent(a)}
      /\ NeverBefore(hello, F, F)
  BY <1>1, RangeOfOne, OrderOfFew
<1>4. /\ file \in Seq(PackagesTo(j)) /\ NeverBefore(file, F, F)
      /\ MemoryMappedFileCreated(a) \in Range(file) => j \notin peers[a]
  <2>1. NeverBefore(<<MemoryMappedFileCreated(a)>>, F, F)
    BY <1>1, OrderOfFew
  <2> QED BY <1>2, <2>1, Answers DEF MappedFile
<1>5. /\ hello \o file \in Seq(PackagesTo(j)) /\ NeverBefore(hello \o file, F, F)
      /\ Range(hello \o file) = Range(hello) \cup Range(file)
  <2> HIDE DEF hello, file, F
  <2>1. Range(hello) \cap F = {}
    BY <1>1, <1>3 DEF F
  <2> QED BY <1>3, <1>4, <2>1, OrderAfterPost, RangeOfPosted
<1>6. Preceded(hello \o file, F, {Created(a), Present(a)})
  <2> SUFFICES ASSUME NEW k \in DOMAIN (hello \o file), (hello \o file)[k] \in F
               PROVE  \E i \in DOMAIN (hello \o file) : /\ i < k
                                                        /\ (hello \o file)[i] \in {Created(a), Present(a)}
    BY DEF Preceded
  <2>1. 1 \in DOMAIN hello /\ hello[1] = Present(a) /\ Len(hello) = 1 /\ DOMAIN hello = {1}
    <3>1. Len(hello) = 1 /\ hello[1] = WindowsATPresent(a)
      OBVIOUS
    <3>2. DOMAIN hello = 1 .. 1
      BY <1>3, <3>1, LenProperties
    <3> QED BY <1>1, <3>1, <3>2
  <2> HIDE DEF hello, file, F
  <2>2. 1 \in DOMAIN (hello \o file) /\ (hello \o file)[1] = Present(a)
    BY <1>3, <1>4, <2>1, PlacesAfterPost
  <2>3. k \in Nat /\ k # 1 /\ k # 0
    <3>1. k # 1
      BY <1>1, <2>2 DEF F
    <3>2. k \in DOMAIN hello \/ k - 1 \in DOMAIN file
      BY <1>3, <1>4, <2>1, PlacesAfterPost
    <3>3. k \in Nat
      BY <1>3, <1>4, PlacesAfterPost
    <3>4. \A i \in DOMAIN file : i >= 1
      BY <1>3, <1>4, PlacesAfterPost
    <3> QED BY <2>1, <3>1, <3>2, <3>3, <3>4
  <2> QED BY <2>2, <2>3
<1>7. Created(j) # Present(j) /\ (a \in JVMs => FALSE)
  BY <1>1, FourPackages, RendezvousPackages
<1> HIDE DEF F, none, hello, file
<1>8. \/ m = Created(j) /\ ms = hello \o file
      \/ m = Present(j) /\ ms = file
      \/ ms = none
  BY <1>7 DEF Says, none, hello, file
<1>9. MemoryMappedFileCreated(a) \in Range(hello \o file) => j \notin peers[a]
  BY <1>1, <1>3, <1>4, <1>5
<1> QED BY <1>2, <1>3, <1>4, <1>5, <1>6, <1>7, <1>8, <1>9 DEF F

\* The AT tells a JVM of a file only when it meets it, and the JVM is gone
\* before the AT forgets it.
LEMMA FilesStep ==
    TypeOK /\ NothingEarly /\ AbsentHaveNothing /\ FilesAreTold /\ [Next]_vars => FilesAreTold'
<1> SUFFICES ASSUME TypeOK, NothingEarly, AbsentHaveNothing, FilesAreTold, [Next]_vars,
                    NEW k \in JVMs, NEW b \in ATs
             PROVE  /\ HasWindow(b)' /\ (b \in mapped'[k] \/ MemoryMappedFileCreated(b) \in Posted(k)') =>
                           k \in peers'[b]
                    /\ NeverBefore(inbox'[k], {MemoryMappedFileCreated(b)}, {MemoryMappedFileCreated(b)})
                    /\ b \in mapped'[k] => MemoryMappedFileCreated(b) \notin Posted(k)'
  BY DEF FilesAreTold
<1> DEFINE F == MemoryMappedFileCreated(b)
<1>1. /\ HasWindow(b) /\ (b \in mapped[k] \/ F \in Posted(k)) => k \in peers[b]
      /\ NeverBefore(inbox[k], {F}, {F})
      /\ b \in mapped[k] => F \notin Posted(k)
  BY DEF FilesAreTold
<1>2. /\ k \in Bridges /\ b \in Bridges /\ k # b /\ k \notin ATs /\ b \notin JVMs
      /\ inbox[k] \in Seq(PackagesTo(k)) /\ OtherSide(k) = ATs /\ OtherSide(b) = JVMs
      /\ F.from = b
  BY RendezvousPackages, BridgesAreDisjoint, Senders DEF TypeOK
<1>3. /\ peers \in [Bridges -> SUBSET Bridges] /\ mapped \in [JVMs -> SUBSET ATs]
  BY DEF TypeOK
<1> HIDE DEF F
\* Other packages than the file change nothing about it.
<1>4. ASSUME NEW ms \in Seq(PackagesTo(k)), F \notin Range(ms), inbox'[k] = inbox[k] \o ms
      PROVE  /\ NeverBefore(inbox'[k], {F}, {F})
             /\ F \in Posted(k)' <=> F \in Posted(k)
  <2>1. NeverBefore(ms, {F}, {F}) /\ Range(ms) \cap {F} = {}
    BY <1>4, OrderVoid
  <2> QED BY <1>1, <1>2, <1>4, <2>1, OrderAfterPost, RangeOfPosted DEF Posted
<1>5. ASSUME NEW p \in Bridges, NEW s, NEW ms, Lives(p, s, ms)
      PROVE  /\ HasWindow(b)' /\ (b \in mapped'[k] \/ F \in Posted(k)') => k \in peers'[b]
             /\ NeverBefore(inbox'[k], {F}, {F})
             /\ b \in mapped'[k] => F \notin Posted(k)'
  <2>1. /\ NeverBefore(inbox'[k], {F}, {F})
        /\ F \in Posted(k)' => F \in Posted(k)
    <3>1. CASE k \in OtherSide(p) /\ HasWindow(k)
      <4>1. k # p /\ inbox'[k] = inbox[k] \o ms
        BY <1>5, <3>1, Sides DEF Lives
      <4>2. ms \in Seq(PackagesTo(k)) /\ Range(ms) \subseteq {Created(p), Destroyed(p)}
        BY <1>5, <3>1, Announcements
      <4>3. F \notin Range(ms)
        BY <1>2, <4>2, FourPackages DEF F
      <4> QED BY <1>4, <4>1, <4>2, <4>3
    <3>2. CASE ~(k \in OtherSide(p) /\ HasWindow(k))
      <4> DEFINE none == <<>>
      <4>1. NeverBefore(none, {F}, {F}) /\ Range(none) = {}
        BY OrderOfFew, RangeOfEmpty
      <4>2. inbox'[k] = none \/ inbox'[k] = inbox[k]
        BY <1>2, <1>5, <3>2 DEF Lives
      <4> HIDE DEF none
      <4> QED BY <1>1, <4>1, <4>2 DEF Posted
    <3> QED BY <3>1, <3>2
  <2>2. mapped'[k] \subseteq mapped[k]
    BY <1>5 DEF Lives
  <2>3. ASSUME HasWindow(b)', b \in mapped[k] \/ F \in Posted(k) PROVE k \in peers'[b]
    <3>1. status[b] # "unborn"
      BY <1>2, <2>3 DEF AbsentHaveNothing, NothingEarly
    <3>2. HasWindow(b) /\ peers'[b] = peers[b]
      BY <1>2, <1>5, <2>3, <3>1 DEF Lives, HasWindow
    <3> QED BY <1>1, <2>3, <3>2
  <2> QED BY <1>1, <2>1, <2>2, <2>3
<1>6. ASSUME NEW p \in Bridges, NEW q \in OtherSide(p), NEW m, NEW ms, Handles(p, q, m, ms)
      PROVE  /\ HasWindow(b)' /\ (b \in mapped'[k] \/ F \in Posted(k)') => k \in peers'[b]
             /\ NeverBefore(inbox'[k], {F}, {F})
             /\ b \in mapped'[k] => F \notin Posted(k)'
  <2>1. /\ HasWindow(b)' <=> HasWindow(b)
        /\ Learns(p, q, m) /\ Says(p, q, m, ms) /\ HasWindow(p)
        /\ ms \in Seq(PackagesTo(q)) /\ Range(ms) \subseteq From(q, p) /\ q \in Bridges
    BY <1>2, <1>6, QueuesAfterHandling DEF Handles, Reads
  <2>2. CASE p = k
    <3>1. /\ inbox[k] # <<>> /\ inbox'[k] = Tail(inbox[k]) /\ Head(inbox[k]) = m
          /\ Posted(k) = {m} \cup Posted(k)'
          /\ peers'[b] = peers[b]
      BY <1>2, <1>6, <2>2, QueuesAfterHandling
    <3>2. NeverBefore(inbox'[k], {F}, {F}) /\ (m = F => F \notin Posted(k)')
      BY <1>1, <1>2, <3>1, OrderAfterRead DEF Posted
    <3>3. b \in mapped'[k] => b \in mapped[k] \/ m = F
      BY <1>3, <2>1, <2>2 DEF Learns, F
    <3> QED BY <1>1, <2>1, <3>1, <3>2, <3>3
  <2>3. CASE p = b
    <3>1. mapped' = mapped
      BY <1>6, <2>3, QueuesAfterHandling
    <3>2. CASE q # k
      <4>1. inbox'[k] = inbox[k]
        BY <1>2, <1>6, <2>3, <3>2, QueuesAfterHandling
      <4>2. k \in peers[b] => k \in peers'[b]
        BY <1>2, <1>3, <2>1, <2>3, <3>2 DEF Learns
      <4> QED BY <1>1, <2>1, <3>1, <4>1, <4>2 DEF Posted
    <3>3. CASE q = k /\ ~HasWindow(k)
      <4>1. inbox[k] = <<>> /\ mapped[k] = {}
        BY <1>2, <3>3 DEF AbsentHaveNothing
      <4>2. inbox'[k] = inbox[k]
        <5>1. inbox'[q] = IF HasWindow(q) THEN inbox[q] \o ms ELSE inbox[q]
          BY <1>6, QueuesAfterHandling
        <5> QED BY <3>3, <5>1
      <4>3. Posted(k)' = {}
        BY <4>1, <4>2, RangeOfEmpty DEF Posted
      <4> QED BY <1>1, <3>1, <4>1, <4>2, <4>3
    <3>4. CASE q = k /\ HasWindow(k)
      <4>1. inbox'[k] = inbox[k] \o ms
        <5>1. inbox'[q] = IF HasWindow(q) THEN inbox[q] \o ms ELSE inbox[q]
          BY <1>6, QueuesAfterHandling
        <5> QED BY <3>4, <5>1
      <4>2. /\ ms \in Seq(PackagesTo(k)) /\ NeverBefore(ms, {F}, {F})
            /\ F \in Range(ms) => k \notin peers[b] /\ m \in {Created(k), Present(k)}
        BY <2>1, <2>3, <3>4, FileAnswers DEF F
      <4>3. m # Destroyed(k)
        <5>1. m = Destroyed(k) => status[k] = "detached"
          BY <1>2, <1>6, <2>3, <3>4, QueuesAfterHandling DEF NothingEarly
        <5> QED BY <3>4, <5>1 DEF HasWindow
      <4>4. k \in peers'[b]
        BY <1>2, <1>3, <2>1, <2>3, <3>4, <4>3 DEF Learns
      <4>5. CASE F \notin Range(ms)
        BY <1>1, <1>4, <3>1, <4>1, <4>2, <4>4, <4>5
      <4>6. CASE F \in Range(ms)
        <5>1. b \notin mapped[k] /\ F \notin Posted(k)
          BY <1>1, <2>1, <2>3, <4>2, <4>6
        <5>2. NeverBefore(inbox'[k], {F}, {F})
          BY <1>1, <1>2, <4>1, <4>2, <5>1, OrderAfterPost DEF Posted
        <5> QED BY <3>1, <4>4, <5>1, <5>2
      <4> QED BY <4>5, <4>6
    <3> QED BY <3>2, <3>3, <3>4
  <2>4. CASE p # k /\ p # b
    <3>1. peers'[b] = peers[b] /\ mapped'[k] = mapped[k]
      BY <1>2, <1>6, <2>4, QueuesAfterHandling
    <3>2. CASE q = k /\ HasWindow(k)
      <4>1. inbox'[k] = inbox[k] \o ms
        <5>1. inbox'[q] = IF HasWindow(q) THEN inbox[q] \o ms ELSE inbox[q]
          BY <1>6, QueuesAfterHandling
        <5> QED BY <3>2, <5>1
      <4>2. F \notin Range(ms)
        BY <1>2, <2>1, <2>4 DEF From
      <4> QED BY <1>1, <1>4, <2>1, <3>1, <3>2, <4>1, <4>2
    <3>3. CASE ~(q = k /\ HasWindow(k))
      <4>1. inbox'[k] = inbox[k]
        BY <1>2, <1>6, <2>4, <3>3, QueuesAfterHandling
      <4> QED BY <1>1, <2>1, <3>1, <4>1 DEF Posted
    <3> QED BY <3>2, <3>3
  <2> QED BY <2>2, <2>3, <2>4
<1>7. CASE UNCHANGED vars
  BY <1>7, <1>1 DEF vars, HasWindow, Posted, F
<1>8. /\ HasWindow(b)' /\ (b \in mapped'[k] \/ F \in Posted(k)') => k \in peers'[b]
      /\ NeverBefore(inbox'[k], {F}, {F})
      /\ b \in mapped'[k] => F \notin Posted(k)'
  <2>1. CASE Next
    <3>1. PICK p \in Bridges :
             \/ OpenWindow(p) \/ Announce(p) \/ Detach(p) \/ Crash(p)
             \/ \E q \in OtherSide(p) : \E m, ms : Handles(p, q, m, ms)
      BY <2>1, RendezvousSteps
    <3>2. CASE OpenWindow(p) \/ Announce(p) \/ Detach(p) \/ Crash(p)
      <4>1. PICK s, ms : Lives(p, s, ms)
        BY <3>2, LifeSteps
      <4> QED BY <4>1, <1>5
    <3>3. CASE \E q \in OtherSide(p) : \E m, ms : Handles(p, q, m, ms)
      <4>1. PICK q \in OtherSide(p) : \E m, ms : Handles(p, q, m, ms)
        BY <3>3
      <4>2. PICK m, ms : Handles(p, q, m, ms)
        BY <4>1
      <4> QED BY <4>2, <1>6
    <3> QED BY <3>1, <3>2, <3>3
  <2> QED BY <2>1, <1>7 DEF F
<1> QED BY <1>8 DEF F

\* Before the AT answers a Present package it has itself been met.
LEMMA MeetingStep ==
    TypeOK /\ NothingEarly /\ AbsentHaveNothing /\ GoodbyeIsLast /\ MetBeforeFile /\ [Next]_vars
        => MetBeforeFile'
<1> SUFFICES ASSUME TypeOK, NothingEarly, AbsentHaveNothing, GoodbyeIsLast, MetBeforeFile,
                    [Next]_vars, NEW k \in JVMs, NEW b \in ATs
             PROVE  /\ HasWindow(k)' /\ JavaVMPresent(k) \in Posted(b)' => b \in peers'[k]
                    /\ \/ b \in peers'[k]
                       \/ Preceded(inbox'[k], {MemoryMappedFileCreated(b)}, {Created(b), Present(b)})
  BY DEF MetBeforeFile
<1> DEFINE F == MemoryMappedFileCreated(b)
           M == {Created(b), Present(b)}
           Met == /\ HasWindow(k)' /\ Present(k) \in Posted(b)' => b \in peers'[k]
                  /\ b \in peers'[k] \/ Preceded(inbox'[k], {F}, M)
<1>1. /\ HasWindow(k) /\ Present(k) \in Posted(b) => b \in peers[k]
      /\ b \in peers[k] \/ Preceded(inbox[k], {F}, M)
  BY SideNames DEF MetBeforeFile
<1>2. /\ k \in Bridges /\ b \in Bridges /\ k # b /\ k \notin ATs /\ b \notin JVMs
      /\ inbox[k] \in Seq(PackagesTo(k)) /\ inbox[b] \in Seq(PackagesTo(b))
      /\ OtherSide(k) = ATs /\ OtherSide(b) = JVMs
  BY RendezvousPackages, BridgesAreDisjoint DEF TypeOK
<1>3. peers \in [Bridges -> SUBSET Bridges]
  BY DEF TypeOK
<1>4. /\ F.from = b /\ Created(b).from = b /\ Present(b).from = b /\ Present(k).from = k
      /\ F \in From(k, b)
  BY SideNames DEF From
<1> HIDE DEF F, M
\* Other packages than the file leave it preceded.
<1>5. ASSUME NEW ms \in Seq(PackagesTo(k)), F \notin Range(ms), Preceded(inbox[k], {F}, M)
      PROVE  Preceded(inbox[k] \o ms, {F}, M)
  BY <1>2, <1>5, PrecededVoid, PrecededAfterPost
<1>6. ASSUME NEW p \in Bridges, NEW s, NEW ms, Lives(p, s, ms) PROVE Met
  <2>1. ASSUME HasWindow(k)', Present(k) \in Posted(b)' PROVE b \in peers'[k]
    <3>1. Present(k) \in Posted(b)
      <4>1. CASE b \in OtherSide(p) /\ HasWindow(b)
        <5>1. b # p /\ inbox'[b] = inbox[b] \o ms
          BY <1>6, <4>1, Sides DEF Lives
        <5>2. ms \in Seq(PackagesTo(b)) /\ Range(ms) \subseteq {Created(p), Destroyed(p)}
          BY <1>6, <4>1, Announcements
        <5>3. Present(k) \notin Range(ms)
          BY <1>2, <5>2, FourPackages
        <5> QED BY <1>2, <2>1, <5>1, <5>2, <5>3, RangeOfPosted DEF Posted
      <4>2. CASE ~(b \in OtherSide(p) /\ HasWindow(b))
        <5> DEFINE none == <<>>
        <5>1. inbox'[b] = none \/ inbox'[b] = inbox[b]
          BY <1>2, <1>6, <4>2 DEF Lives
        <5>2. Range(none) = {}
          BY RangeOfEmpty
        <5> HIDE DEF none
        <5> QED BY <2>1, <5>1, <5>2 DEF Posted
      <4> QED BY <4>1, <4>2
    <3>2. status[k] # "unborn"
      BY <1>2, <1>4, <3>1 DEF NothingEarly
    <3>3. HasWindow(k) /\ peers'[k] = peers[k]
      BY <1>2, <1>6, <2>1, <3>2 DEF Lives, HasWindow
    <3> QED BY <1>1, <3>1, <3>3
  <2>2. b \in peers'[k] \/ Preceded(inbox'[k], {F}, M)
    <3>1. CASE k = p /\ s \in {"detached", "crashed"}
      <4> DEFINE none == <<>>
      <4>1. inbox'[k] = none
        BY <1>6, <3>1 DEF Lives
      <4>2. none \in Seq(PackagesTo(k)) /\ Range(none) = {}
        BY RangeOfEmpty
      <4> HIDE DEF none
      <4> QED BY <4>1, <4>2, PrecededVoid
    <3>2. CASE ~(k = p /\ s \in {"detached", "crashed"})
      <4>1. peers'[k] = peers[k]
        BY <1>2, <1>6, <3>2 DEF Lives
      <4>2. CASE k \in OtherSide(p) /\ HasWindow(k)
        <5>1. inbox'[k] = inbox[k] \o ms
          BY <1>2, <1>6, <3>2, <4>2 DEF Lives
        <5>2. ms \in Seq(PackagesTo(k)) /\ Range(ms) \subseteq {Created(p), Destroyed(p)}
          BY <1>6, <4>2, Announcements
        <5>3. F \notin Range(ms)
          BY <1>2, <5>2, FourPackages DEF F
        <5> QED BY <1>1, <1>5, <4>1, <5>1, <5>2, <5>3
      <4>3. CASE ~(k \in OtherSide(p) /\ HasWindow(k))
        <5>1. inbox'[k] = inbox[k]
          BY <1>2, <1>6, <3>2, <4>3 DEF Lives
        <5> QED BY <1>1, <4>1, <5>1
      <4> QED BY <4>2, <4>3
    <3> QED BY <3>1, <3>2
  <2> QED BY <2>1, <2>2
<1>7. ASSUME NEW p \in Bridges, NEW q \in OtherSide(p), NEW m, NEW ms, Handles(p, q, m, ms)
      PROVE  Met
  <2>1. /\ HasWindow(k)' <=> HasWindow(k)
        /\ Learns(p, q, m) /\ Says(p, q, m, ms) /\ HasWindow(p)
        /\ ms \in Seq(PackagesTo(q)) /\ Range(ms) \subseteq From(q, p) /\ q \in Bridges
        /\ m \in From(p, q) /\ m.from = q
    BY <1>2, <1>7, QueuesAfterHandling DEF Handles, Reads, From
  <2>2. CASE p = k
    <3>1. /\ inbox[k] # <<>> /\ inbox'[k] = Tail(inbox[k]) /\ Head(inbox[k]) = m
          /\ m \in Posted(k)
          /\ Posted(b)' = Posted(b) \cup (IF b = q /\ HasWindow(q) THEN Range(ms) ELSE {})
      <4>1. b # q => Posted(b)' = Posted(b)
        BY <1>2, <1>7, <2>2, QueuesAfterHandling DEF Posted
      <4> QED BY <1>7, <2>2, <4>1, QueuesAfterHandling
    <3>2. CASE q = b /\ m \in {Created(b), Present(b)}
      <4>1. b \in peers'[k]
        <5>1. m # F /\ m # Destroyed(b)
          BY <1>2, <3>2, FourPackages DEF F
        <5> QED BY <1>2, <1>3, <2>1, <2>2, <3>2, <5>1 DEF Learns, F
      <4> QED BY <4>1
    <3>3. CASE q = b /\ m = F
      <4>1. b \in peers[k]
        BY <1>1, <1>2, <3>1, <3>3, PrecededAfterRead
      <4>2. m \notin {Created(b), Present(b), Destroyed(b)}
        BY <1>2, <3>3, FourPackages DEF F
      <4> QED BY <2>1, <2>2, <3>3, <4>1, <4>2 DEF Learns
    <3>4. CASE q = b /\ m = Destroyed(b)
      <4>1. ~HasWindow(b)
        BY <1>2, <3>1, <3>4 DEF NothingEarly, HasWindow
      <4>2. Posted(b) = {}
        BY <1>2, <4>1, RangeOfEmpty DEF AbsentHaveNothing, Posted
      <4>3. Posted(b)' = {}
        BY <3>1, <3>4, <4>1, <4>2
      <4>4. Range(Tail(inbox[k])) \cap From(k, b) = {} /\ Tail(inbox[k]) \in Seq(PackagesTo(k))
        <5>1. NeverBefore(inbox[k], {Destroyed(b)}, From(k, b))
          BY <1>2 DEF GoodbyeIsLast
        <5> QED BY <1>2, <3>1, <3>4, <5>1, OrderAfterRead, HeadTailProperties
      <4>5. Range(Tail(inbox[k])) \cap {F} = {}
        BY <1>4, <4>4
      <4> QED BY <3>1, <4>3, <4>4, <4>5, PrecededVoid
    <3>5. CASE q # b
      <4>1. peers'[k] \cap {b} = peers[k] \cap {b}
        BY <1>2, <1>3, <2>1, <2>2, <3>5 DEF Learns
      <4>2. m \notin M
        BY <1>4, <2>1, <3>5 DEF M
      <4>3. Preceded(inbox[k], {F}, M) => Preceded(inbox'[k], {F}, M)
        BY <1>2, <3>1, <4>2, PrecededAfterRead
      <4> QED BY <1>1, <2>1, <3>1, <3>5, <4>1, <4>3
    <3>6. m \in {Created(q), Present(q), MemoryMappedFileCreated(q), Destroyed(q)}
      BY <2>1 DEF Learns
    <3> QED BY <3>2, <3>3, <3>4, <3>5, <3>6 DEF F
  <2>3. CASE p = b
    <3>1. Posted(b)' \subseteq Posted(b) /\ peers'[k] = peers[k]
      BY <1>2, <1>7, <2>3, QueuesAfterHandling
    <3>2. CASE q = k /\ HasWindow(k)
      <4>1. inbox'[k] = inbox[k] \o ms
        <5>1. inbox'[q] = IF HasWindow(q) THEN inbox[q] \o ms ELSE inbox[q]
          BY <1>7, QueuesAfterHandling
        <5> QED BY <3>2, <5>1
      <4>2. m = Present(k) => b \in peers[k]
        BY <1>1, <1>7, <2>3, <3>2, QueuesAfterHandling
      <4>3. m # Present(k) => Preceded(ms, {F}, M)
        BY <2>1, <2>3, <3>2, FileAnswers DEF F, M
      <4>4. Preceded(inbox[k], {F}, M) /\ Preceded(ms, {F}, M) => Preceded(inbox'[k], {F}, M)
        BY <1>2, <2>1, <3>2, <4>1, PrecededAfterPost
      <4> QED BY <1>1, <2>1, <3>1, <4>2, <4>3, <4>4
    <3>3. CASE ~(q = k /\ HasWindow(k))
      <4>1. inbox'[k] = inbox[k]
        <5>1. CASE q = k
          <6>1. inbox'[q] = IF HasWindow(q) THEN inbox[q] \o ms ELSE inbox[q]
            BY <1>7, QueuesAfterHandling
          <6> QED BY <3>3, <5>1, <6>1
        <5>2. CASE q # k
          BY <1>2, <1>7, <2>3, <5>2, QueuesAfterHandling
        <5> QED BY <5>1, <5>2
      <4> QED BY <1>1, <2>1, <3>1, <4>1
    <3> QED BY <3>2, <3>3
  <2>4. CASE p # k /\ p # b
    <3>1. peers'[k] = peers[k]
      BY <1>2, <1>7, <2>4, QueuesAfterHandling
    <3>2. Present(k) \in Posted(b)' => Present(k) \in Posted(b)
      <4>1. q # b => Posted(b)' = Posted(b)
        BY <1>2, <1>7, <2>4, QueuesAfterHandling DEF Posted
      <4>2. q = b => Posted(b)' \subseteq Posted(b) \cup Range(ms)
        BY <1>7, QueuesAfterHandling
      <4>3. Present(k) \notin Range(ms)
        BY <1>4, <2>1, <2>4 DEF From
      <4> QED BY <4>1, <4>2, <4>3
    <3>3. CASE q = k /\ HasWindow(k)
      <4>1. inbox'[k] = inbox[k] \o ms
        <5>1. inbox'[q] = IF HasWindow(q) THEN inbox[q] \o ms ELSE inbox[q]
          BY <1>7, QueuesAfterHandling
        <5> QED BY <3>3, <5>1
      <4>2. F \notin Range(ms)
        BY <1>4, <2>1, <2>4 DEF From
      <4> QED BY <1>1, <1>5, <2>1, <3>1, <3>2, <3>3, <4>1, <4>2
    <3>4. CASE ~(q = k /\ HasWindow(k))
      <4>1. inbox'[k] = inbox[k]
        <5>1. CASE q = k
          <6>1. inbox'[q] = IF HasWindow(q) THEN inbox[q] \o ms ELSE inbox[q]
            BY <1>7, QueuesAfterHandling
          <6> QED BY <3>4, <5>1, <6>1
        <5>2. CASE q # k
          BY <1>2, <1>7, <2>4, <5>2, QueuesAfterHandling
        <5> QED BY <5>1, <5>2
      <4> QED BY <1>1, <2>1, <3>1, <3>2, <4>1
    <3> QED BY <3>3, <3>4
  <2> QED BY <2>2, <2>3, <2>4
<1>8. CASE UNCHANGED vars
  BY <1>8, <1>1, SideNames DEF vars, HasWindow, Posted, F, M
<1>9. CASE Next
  <2>1. PICK p \in Bridges :
           \/ OpenWindow(p) \/ Announce(p) \/ Detach(p) \/ Crash(p)
           \/ \E q \in OtherSide(p) : \E m, ms : Handles(p, q, m, ms)
    BY <1>9, RendezvousSteps
  <2>2. Met
    <3>1. CASE OpenWindow(p) \/ Announce(p) \/ Detach(p) \/ Crash(p)
      <4>1. PICK s, ms : Lives(p, s, ms)
        BY <3>1, LifeSteps
      <4> QED BY <4>1, <1>6
    <3>2. CASE \E q \in OtherSide(p) : \E m, ms : Handles(p, q, m, ms)
      <4>1. PICK q \in OtherSide(p) : \E m, ms : Handles(p, q, m, ms)
        BY <3>2
      <4>2. PICK m, ms : Handles(p, q, m, ms)
        BY <4>1
      <4> QED BY <4>2, <1>7
    <3> QED BY <2>1, <3>1, <3>2
  <2> QED BY <2>2, SideNames DEF F, M
<1> QED BY <1>8, <1>9

\* The inductive invariant: what is known, and in which order it is told.
OrderedInv == /\ IInv
              /\ AbsentHaveNothing
              /\ GoodbyeIsLast
              /\ GoneForGood
              /\ FilesAreTold
              /\ MetBeforeFile

\* Initially the queues are empty,
LEMMA OrderedInit == Init => OrderedInv
<1> SUFFICES ASSUME Init PROVE OrderedInv
  OBVIOUS
<1> DEFINE none == <<>>
<1>1. /\ none \in Seq({}) /\ Range(none) = {}
      /\ \A A, B : NeverBefore(none, A, B) /\ Preceded(none, A, B)
  BY EmptySeq, RangeOfEmpty, OrderOfFew, PrecededVoid
<1>2. /\ \A p \in Bridges : status[p] = "unborn" /\ inbox[p] = none /\ peers[p] = {}
      /\ \A j \in JVMs : mapped[j] = {}
      /\ \A j \in JVMs : j \in Bridges
      /\ \A a \in ATs : a \in Bridges
  BY DEF Init, Bridges
<1> HIDE DEF none
<1>3. \A p \in Bridges : ~HasWindow(p) /\ Posted(p) = {}
  BY <1>1, <1>2 DEF HasWindow, Posted
<1>4. AbsentHaveNothing
  BY <1>2, <1>3 DEF AbsentHaveNothing, none
<1>5. GoodbyeIsLast
  <2> SUFFICES ASSUME NEW p \in Bridges, NEW q \in OtherSide(p)
               PROVE  NeverBefore(inbox[p], {Destroyed(q)}, From(p, q))
    BY DEF GoodbyeIsLast
  <2>1. NeverBefore(none, {Destroyed(q)}, From(p, q))
    BY <1>1
  <2> QED BY <1>2, <2>1
<1>6. GoneForGood
  BY <1>3 DEF GoneForGood
<1>7. FilesAreTold
  <2> SUFFICES ASSUME NEW j \in JVMs, NEW a \in ATs
               PROVE  NeverBefore(inbox[j], {MemoryMappedFileCreated(a)}, {MemoryMappedFileCreated(a)})
    BY <1>2, <1>3 DEF FilesAreTold
  <2>1. NeverBefore(none, {MemoryMappedFileCreated(a)}, {MemoryMappedFileCreated(a)})
    BY <1>1
  <2> QED BY <1>2, <2>1
<1>8. MetBeforeFile
  <2> SUFFICES ASSUME NEW j \in JVMs, NEW a \in ATs
               PROVE  Preceded(inbox[j], {MemoryMappedFileCreated(a)}, {Created(a), Present(a)})
    BY <1>2, <1>3 DEF MetBeforeFile
  <2>1. Preceded(none, {MemoryMappedFileCreated(a)}, {Created(a), Present(a)})
    BY <1>1
  <2> QED BY <1>2, <2>1
<1>9. IInv
  BY TypingInit, MissedInit DEF IInv
<1> QED BY <1>4, <1>5, <1>6, <1>7, <1>8, <1>9 DEF OrderedInv

\* ... and every step keeps them in order.
LEMMA OrderedStep == OrderedInv /\ [Next]_vars => OrderedInv'
<1> SUFFICES ASSUME OrderedInv, [Next]_vars PROVE OrderedInv'
  OBVIOUS
<1>1. TypeOK /\ NothingEarly /\ NobodyMissed
  BY DEF OrderedInv, IInv
<1>2. IInv'
  BY <1>1, TypingStep, EarlyStep, MissedStep DEF IInv
<1> QED BY <1>1, <1>2, AbsentStep, GoodbyeStep, GoneStep, FilesStep, MeetingStep DEF OrderedInv

\* In every behaviour, with any number of JVMs and ATs, the queues are in order.
THEOREM QueuesInOrder == Spec => []OrderedInv
  BY OrderedInit, OrderedStep, PTL DEF Spec

\* NoStalePeer for every number of JVMs and ATs: what a bridge knows of one
\* that has detached is gone once it has read the Destroyed package.
THEOREM NobodyKeepsTheDeparted == Spec => []NoStalePeer
<1>1. OrderedInv => NoStalePeer
  <2> SUFFICES ASSUME OrderedInv, NEW p \in Bridges, NEW q \in Bridges,
                      HasWindow(p), status[q] = "detached", Destroyed(q) \notin Posted(p)
               PROVE  q \notin peers[p] /\ (p \in JVMs => q \notin mapped[p])
    BY DEF NoStalePeer
  <2>1. CASE q \in OtherSide(p)
    BY <2>1 DEF OrderedInv, GoneForGood
  <2>2. CASE q \notin OtherSide(p)
    BY <2>2 DEF OrderedInv, IInv, TypeOK, OtherSide
  <2> QED BY <2>1, <2>2
<1> QED BY <1>1, QueuesInOrder, PTL

\* OneFilePerPair for every number of JVMs and ATs: a JVM never has two
\* MemoryMappedFileCreated packages of an AT, nor one beside the open file.
THEOREM OneFileForEachPair == Spec => []OneFilePerPair
<1>1. OrderedInv => OneFilePerPair
  <2> SUFFICES ASSUME OrderedInv, NEW j \in JVMs, NEW a \in ATs
               PROVE  LET told == {i \in DOMAIN inbox[j] : inbox[j][i] = MemoryMappedFileCreated(a)}
                      IN  /\ \A i, k \in told : i = k
                          /\ a \in mapped[j] => told = {}
    BY DEF OneFilePerPair
  <2>1. /\ NeverBefore(inbox[j], {MemoryMappedFileCreated(a)}, {MemoryMappedFileCreated(a)})
        /\ a \in mapped[j] => MemoryMappedFileCreated(a) \notin Range(inbox[j])
    BY DEF OrderedInv, FilesAreTold, Posted
  <2>2. inbox[j] \in Seq(PackagesTo(j))
    BY DEF OrderedInv, IInv, TypeOK, Bridges
  <2>3. DOMAIN inbox[j] \subseteq Nat
    BY <2>2, LenProperties
  <2>4. \A i, k \in DOMAIN inbox[j] :
           inbox[j][i] = MemoryMappedFileCreated(a) /\ inbox[j][k] = MemoryMappedFileCreated(a) => i = k
    BY <2>1, <2>3 DEF NeverBefore
  <2>5. a \in mapped[j] => \A i \in DOMAIN inbox[j] : inbox[j][i] # MemoryMappedFileCreated(a)
    BY <2>1, <2>2, PlaceInQueue
  <2> QED BY <2>4, <2>5
<1> QED BY <1>1, QueuesInOrder, PTL

-----------------------------------------------------------------------------
(***************************************************************************)
(* How full a queue can be.                                                *)
(***************************************************************************)
\* Each package is announced at a point of a life that comes once: Created
\* when a bridge attaches, Present when it reads the one Created package of
\* the newcomer.
AnsweredOnce ==
    \A p \in Bridges : \A q \in OtherSide(p) :
        /\ NeverBefore(inbox[p], {Created(q)}, {Created(q)})
        /\ NeverBefore(inbox[p], {Present(q)}, {Present(q)})
        /\ Created(q) \in Posted(p) => status[q] \notin {"unborn", "windowed"}
        /\ Present(q) \in Posted(p) => /\ status[p] \notin {"unborn", "windowed"}
                                       /\ Created(p) \notin Posted(q)

\* What a handler answers has one Present package at most, and that only if
\* it has read Created.
LEMMA PresentAnswers ==
    ASSUME NEW p \in Bridges, NEW q \in OtherSide(p), NEW m, NEW ms, Says(p, q, m, ms)
    PROVE  /\ Created(p) \notin Range(ms)
           /\ Present(p) \in Range(ms) => m = Created(q)
           /\ NeverBefore(ms, {Present(p)}, {Present(p)})
<1> DEFINE none == <<>>
           hello == <<Present(p)>>
           file == MappedFile(p, q)
<1>1. q \in Bridges /\ Created(p) # Present(p) /\ Present(p) # MemoryMappedFileCreated(p)
      /\ Created(p) # MemoryMappedFileCreated(p)
  BY Sides, FourPackages
<1>2. Range(none) = {} /\ NeverBefore(none, {Present(p)}, {Present(p)})
  BY RangeOfEmpty, OrderOfFew
<1>3. Range(hello) = {Present(p)} /\ NeverBefore(hello, {Present(p)}, {Present(p)})
  BY RangeOfOne, OrderOfFew
<1>4. CASE /\ p \in ATs
           /\ \/ m = Created(q) /\ ms = hello \o file
              \/ m = Present(q) /\ ms = file
  <2>1. q \in JVMs /\ p \notin JVMs /\ Present(p) = WindowsATPresent(p)
    BY <1>4, Sides DEF Present
  <2>2. /\ file \in Seq(PackagesTo(q)) /\ Range(file) \subseteq {MemoryMappedFileCreated(p)}
        /\ hello \in Seq(PackagesTo(q))
    <3>1. /\ file \in Seq(PackagesTo(q))
          /\ Range(file) = IF q \in peers[p] THEN {} ELSE {MemoryMappedFileCreated(p)}
      BY <1>4, <2>1, Answers
    <3>2. Present(p) \in PackagesTo(q)
      BY <1>4, <2>1, RendezvousPackages
    <3> QED BY <3>1, <3>2, RangeOfOne
  <2> HIDE DEF hello, file
  <2>3. Range(file) \cap {Present(p)} = {} /\ Created(p) \notin Range(file)
    BY <1>1, <2>2
  <2>4. NeverBefore(file, {Present(p)}, {Present(p)})
    BY <2>2, <2>3, OrderVoid
  <2>5. /\ NeverBefore(hello \o file, {Present(p)}, {Present(p)})
        /\ Range(hello \o file) = Range(hello) \cup Range(file)
    BY <1>3, <2>2, <2>3, <2>4, OrderAfterPost, RangeOfPosted
  <2>6. Created(p) \notin Range(hello \o file)
    BY <1>1, <1>3, <2>3, <2>5
  <2> QED BY <1>4, <2>3, <2>4, <2>5, <2>6
<1>5. CASE p \in JVMs /\ m = Created(q) /\ ms = hello
  BY <1>1, <1>3, <1>5
<1>6. CASE ms = none
  BY <1>2, <1>6
<1>7. /\ p \in ATs => Present(p) = WindowsATPresent(p)
      /\ p \in JVMs => Present(p) = JavaVMPresent(p)
  BY BridgesAreDisjoint DEF Present
<1>8. \/ p \in ATs /\ m = Created(q) /\ ms = hello \o file
      \/ p \in ATs /\ m = Present(q) /\ ms = file
      \/ p \in JVMs /\ m = Created(q) /\ ms = hello
      \/ ms = none
  BY <1>7 DEF Says
<1> HIDE DEF none, hello, file
<1> QED BY <1>4, <1>5, <1>6, <1>8

\* Who posts Created or Present has not done so before.
LEMMA OnceStep ==
    TypeOK /\ AnsweredOnce /\ [Next]_vars => AnsweredOnce'
<1> SUFFICES ASSUME TypeOK, AnsweredOnce, [Next]_vars, NEW x \in Bridges, NEW y \in OtherSide(x)
             PROVE  /\ NeverBefore(inbox'[x], {Created(y)}, {Created(y)})
                    /\ NeverBefore(inbox'[x], {Present(y)}, {Present(y)})
                    /\ Created(y) \in Posted(x)' => status'[y] \notin {"unborn", "windowed"}
                    /\ Present(y) \in Posted(x)' => /\ status'[x] \notin {"unborn", "windowed"}
                                                    /\ Created(x) \notin Posted(y)'
  BY DEF AnsweredOnce
<1> DEFINE Once == /\ NeverBefore(inbox'[x], {Created(y)}, {Created(y)})
                   /\ NeverBefore(inbox'[x], {Present(y)}, {Present(y)})
                   /\ Created(y) \in Posted(x)' => status'[y] \notin {"unborn", "windowed"}
                   /\ Present(y) \in Posted(x)' => /\ status'[x] \notin {"unborn", "windowed"}
                                                   /\ Created(x) \notin Posted(y)'
<1>1. /\ y \in Bridges /\ x # y /\ x \in OtherSide(y)
      /\ inbox[x] \in Seq(PackagesTo(x)) /\ inbox[y] \in Seq(PackagesTo(y))
  BY Sides DEF TypeOK
<1>2. /\ NeverBefore(inbox[x], {Created(y)}, {Created(y)})
      /\ NeverBefore(inbox[x], {Present(y)}, {Present(y)})
      /\ Created(y) \in Posted(x) => status[y] \notin {"unborn", "windowed"}
      /\ Present(y) \in Posted(x) => /\ status[x] \notin {"unborn", "windowed"}
                                     /\ Created(x) \notin Posted(y)
      /\ NeverBefore(inbox[y], {Created(x)}, {Created(x)})
      /\ Created(x) \in Posted(y) => status[x] \notin {"unborn", "windowed"}
  BY <1>1 DEF AnsweredOnce
<1>3. /\ Created(x) # Created(y) /\ Created(x) # Present(y) /\ Created(y) # Present(y)
      /\ \A z \in Bridges : Created(z).from = z /\ Present(z).from = z /\ Destroyed(z).from = z
      /\ \A z \in Bridges : Destroyed(z) # Created(y) /\ Destroyed(z) # Present(y)
  BY <1>1, Senders, FourPackages DEF Present
\* Posting what x does not have yet.
<1>4. ASSUME NEW m, NEW ms \in Seq(PackagesTo(x)), inbox'[x] = inbox[x] \o ms,
             NeverBefore(inbox[x], {m}, {m}), NeverBefore(ms, {m}, {m}),
             m \in Range(ms) => m \notin Posted(x)
      PROVE  NeverBefore(inbox'[x], {m}, {m})
  <2>1. Range(inbox[x]) \cap {m} = {} \/ Range(ms) \cap {m} = {}
    BY <1>4 DEF Posted
  <2> QED BY <1>1, <1>4, <2>1, OrderAfterPost
<1>5. ASSUME NEW p \in Bridges, NEW s, NEW ms, Lives(p, s, ms) PROVE Once
  <2>1. \A z \in {x, y} : z \in OtherSide(p) =>
           /\ ms \in Seq(PackagesTo(z)) /\ Range(ms) \subseteq {Created(p), Destroyed(p)}
           /\ \A A, B : NeverBefore(ms, A, B)
    BY <1>1, <1>5, Announcements
  <2>2. ASSUME NEW z \in {x, y}, z \in OtherSide(p), HasWindow(z), z # p
        PROVE  inbox'[z] = inbox[z] \o ms /\ Posted(z)' = Posted(z) \cup Range(ms)
    <3>1. inbox'[z] = inbox[z] \o ms
      BY <1>1, <1>5, <2>2 DEF Lives
    <3>2. inbox[z] \in Seq(PackagesTo(z)) /\ ms \in Seq(PackagesTo(z))
      BY <1>1, <2>1, <2>2
    <3> QED BY <3>1, <3>2, RangeOfPosted DEF Posted
  <2>3. \A z \in {x, y} : ~(z \in OtherSide(p) /\ HasWindow(z)) /\ ~(z = p /\ s \in {"detached", "crashed"}) =>
           inbox'[z] = inbox[z] /\ Posted(z)' = Posted(z)
    BY <1>1, <1>5 DEF Lives, Posted
  <2>4. p \notin OtherSide(p)
    BY Sides
  <2>5. CASE x = p /\ s \in {"detached", "crashed"}
    <3> DEFINE none == <<>>
    <3>1. \A A, B : NeverBefore(none, A, B)
      BY OrderOfFew
    <3>2. inbox'[x] = none /\ Range(none) = {}
      BY <1>5, <2>5, RangeOfEmpty DEF Lives
    <3> HIDE DEF none
    <3> QED BY <3>1, <3>2 DEF Posted
  <2>6. CASE x = p /\ s \notin {"detached", "crashed"}
    <3>1. /\ inbox'[x] = inbox[x] /\ Posted(x)' = Posted(x)
          /\ status[x] \in {"unborn", "windowed"} /\ status'[y] = status[y]
      BY <1>1, <1>5, <2>3, <2>4, <2>6 DEF Lives
    <3> QED BY <1>2, <3>1
  <2>7. CASE y = p
    <3>1. status'[x] = status[x] /\ status'[y] = s
      BY <1>1, <1>5, <2>7 DEF Lives
    <3>2. Created(x) \in Posted(y)' => Created(x) \in Posted(y)
      <4>1. CASE s \in {"detached", "crashed"}
        <5>1. inbox'[y] = <<>>
          BY <1>1, <1>5, <2>7, <4>1 DEF Lives
        <5> QED BY <5>1, RangeOfEmpty DEF Posted
      <4>2. CASE s \notin {"detached", "crashed"}
        BY <2>3, <2>4, <2>7, <4>2
      <4> QED BY <4>1, <4>2
    <3>3. CASE HasWindow(x)
      <4>1. /\ inbox'[x] = inbox[x] \o ms /\ Posted(x)' = Posted(x) \cup Range(ms)
            /\ ms \in Seq(PackagesTo(x)) /\ Present(y) \notin Range(ms)
            /\ \A A, B : NeverBefore(ms, A, B)
        BY <1>1, <1>3, <2>1, <2>2, <2>7, <3>3
      <4>2. Created(y) \in Range(ms) => status[y] = "windowed" /\ s = "attached"
        <5>1. Created(y) \notin Range(<<>>) /\ Created(y) \notin Range(<<Destroyed(y)>>)
          BY <1>1, <1>3, RangeOfEmpty, RangeOfOne
        <5> QED BY <1>5, <2>7, <5>1 DEF Lives
      <4>3. Created(y) \in Posted(x) => s \notin {"unborn", "windowed"}
        BY <1>2, <1>5, <2>7 DEF Lives
      <4>4. /\ NeverBefore(inbox'[x], {Created(y)}, {Created(y)})
            /\ NeverBefore(inbox'[x], {Present(y)}, {Present(y)})
        BY <1>2, <1>4, <4>1, <4>2
      <4> QED BY <1>2, <3>1, <3>2, <4>1, <4>2, <4>3, <4>4
    <3>4. CASE ~HasWindow(x)
      <4>1. inbox'[x] = inbox[x] /\ Posted(x)' = Posted(x)
        BY <1>1, <2>3, <2>7, <3>4
      <4>2. Created(y) \in Posted(x) => s \notin {"unborn", "windowed"}
        BY <1>2, <1>5, <2>7 DEF Lives
      <4> QED BY <1>2, <3>1, <3>2, <4>1, <4>2
    <3> QED BY <3>3, <3>4
  <2>8. CASE x # p /\ y # p
    <3>1. status'[x] = status[x] /\ status'[y] = status[y]
      BY <1>1, <1>5, <2>8 DEF Lives
    <3>2. {Created(p), Destroyed(p)} \cap {Created(x), Created(y), Present(y)} = {}
      BY <1>1, <1>3, <2>8
    <3>3. Created(x) \in Posted(y)' => Created(x) \in Posted(y)
      BY <2>1, <2>2, <2>3, <2>8, <3>2
    <3>4. CASE x \in OtherSide(p) /\ HasWindow(x)
      BY <1>2, <1>4, <2>1, <2>2, <2>8, <3>1, <3>2, <3>3, <3>4
    <3>5. CASE ~(x \in OtherSide(p) /\ HasWindow(x))
      BY <1>2, <2>3, <2>8, <3>1, <3>3, <3>5
    <3> QED BY <3>4, <3>5
  <2> QED BY <2>5, <2>6, <2>7, <2>8
<1>6. ASSUME NEW p \in Bridges, NEW q \in OtherSide(p), NEW m, NEW ms, Handles(p, q, m, ms)
      PROVE  Once
  <2>1. /\ q \in Bridges /\ p # q /\ status' = status
        /\ inbox[p] # <<>> /\ Head(inbox[p]) = m /\ inbox'[p] = Tail(inbox[p])
        /\ m \in Posted(p) /\ Posted(p)' \subseteq Posted(p)
        /\ inbox'[q] = IF HasWindow(q) THEN inbox[q] \o ms ELSE inbox[q]
        /\ Posted(q)' = Posted(q) \cup (IF HasWindow(q) THEN Range(ms) ELSE {})
        /\ \A z \in Bridges : z # p /\ z # q => inbox'[z] = inbox[z]
        /\ ms \in Seq(PackagesTo(q)) /\ \A n \in Range(ms) : n.from = p
    BY <1>6, QueuesAfterHandling DEF Handles, Reads, From
  <2>2. /\ Created(p) \notin Range(ms)
        /\ Present(p) \in Range(ms) => m = Created(q)
        /\ NeverBefore(ms, {Present(p)}, {Present(p)})
    BY <1>6, PresentAnswers DEF Handles
  <2>3. Created(x) \in Posted(y)' => Created(x) \in Posted(y)
    <3>1. Created(x) \notin Range(ms)
      BY <1>3, <2>1, <2>2
    <3>2. y = p \/ y = q \/ Posted(y)' = Posted(y)
      BY <1>1, <2>1 DEF Posted
    <3> QED BY <2>1, <3>1, <3>2
  <2>4. CASE x = p
    <3>1. /\ NeverBefore(inbox'[x], {Created(y)}, {Created(y)})
          /\ NeverBefore(inbox'[x], {Present(y)}, {Present(y)})
      BY <1>1, <1>2, <2>1, <2>4, OrderAfterRead
    <3> QED BY <1>2, <2>1, <2>3, <2>4, <3>1
  <2>5. CASE x = q /\ HasWindow(q)
    <3>1. /\ inbox'[x] = inbox[x] \o ms /\ Posted(x)' = Posted(x) \cup Range(ms)
          /\ ms \in Seq(PackagesTo(x))
      BY <2>1, <2>5
    <3>2. Created(y) \notin Range(ms)
      BY <1>1, <1>3, <2>1, <2>2
    <3>3. NeverBefore(inbox'[x], {Created(y)}, {Created(y)})
      <4>1. NeverBefore(ms, {Created(y)}, {Created(y)})
        BY <3>1, <3>2, OrderVoid
      <4> QED BY <1>2, <1>4, <3>1, <3>2, <4>1
    <3>4. CASE p = y
      <4>1. Present(y) \in Range(ms) =>
               /\ Created(x) \in Posted(y) /\ Created(x) \notin Posted(y)'
        <5> SUFFICES ASSUME Present(y) \in Range(ms)
                     PROVE  Created(x) \in Posted(y) /\ Created(x) \notin Posted(y)'
          OBVIOUS
        <5>1. m = Created(x)
          BY <2>2, <2>5, <3>4
        <5>2. Range(Tail(inbox[y])) \cap {Created(x)} = {}
          BY <1>1, <1>2, <2>1, <3>4, <5>1, OrderAfterRead
        <5> QED BY <2>1, <3>4, <5>1, <5>2 DEF Posted
      <4>2. NeverBefore(inbox'[x], {Present(y)}, {Present(y)})
        BY <1>2, <1>4, <2>2, <3>1, <3>4, <4>1
      <4> QED BY <1>2, <2>1, <2>3, <3>1, <3>2, <3>3, <4>1, <4>2
    <3>5. CASE p # y
      <4>1. Present(y) \notin Range(ms)
        BY <1>1, <1>3, <2>1, <3>5
      <4>2. NeverBefore(ms, {Present(y)}, {Present(y)})
        BY <3>1, <4>1, OrderVoid
      <4>3. NeverBefore(inbox'[x], {Present(y)}, {Present(y)})
        BY <1>2, <1>4, <3>1, <4>1, <4>2
      <4> QED BY <1>2, <2>1, <2>3, <3>1, <3>2, <3>3, <4>1, <4>3
    <3> QED BY <3>4, <3>5
  <2>6. CASE x # p /\ ~(x = q /\ HasWindow(q))
    <3>1. inbox'[x] = inbox[x]
      BY <2>1, <2>6
    <3> QED BY <1>2, <2>1, <2>3, <3>1 DEF Posted
  <2> QED BY <2>4, <2>5, <2>6
<1>7. CASE UNCHANGED vars
  BY <1>2, <1>7 DEF vars, Posted
<1>8. Once
  <2>1. CASE Next
    <3>1. PICK p \in Bridges :
             \/ OpenWindow(p) \/ Announce(p) \/ Detach(p) \/ Crash(p)
             \/ \E q \in OtherSide(p) : \E m, ms : Handles(p, q, m, ms)
      BY <2>1, RendezvousSteps
    <3>2. CASE OpenWindow(p) \/ Announce(p) \/ Detach(p) \/ Crash(p)
      <4>1. PICK s, ms : Lives(p, s, ms)
        BY <3>2, LifeSteps
      <4> QED BY <4>1, <1>5
    <3>3. CASE \E q \in OtherSide(p) : \E m, ms : Handles(p, q, m, ms)
      <4>1. PICK q \in OtherSide(p) : \E m, ms : Handles(p, q, m, ms)
        BY <3>3
      <4>2. PICK m, ms : Handles(p, q, m, ms)
        BY <4>1
      <4> QED BY <4>2, <1>6
    <3> QED BY <3>1, <3>2, <3>3
  <2> QED BY <2>1, <1>7
<1> QED BY <1>8

\* No package is in a queue twice.
EachPackageOnce ==
    \A p \in Bridges : \A i, k \in DOMAIN inbox[p] : inbox[p][i] = inbox[p][k] => i = k

\* Bridges post nothing but the packages of the rendezvous.
LEMMA PackagesOfBridges ==
    ASSUME NEW p \in Bridges, NEW m \in PackagesTo(p)
    PROVE  \E q \in OtherSide(p) :
              \/ m \in {Created(q), Present(q), Destroyed(q)}
              \/ p \in JVMs /\ q \in ATs /\ m = MemoryMappedFileCreated(q)
<1>1. CASE p \in JVMs
  <2>1. PICK q \in ATs : m \in {WindowsATCreated(q), WindowsATPresent(q), WindowsATDestroyed(q),
                                MemoryMappedFileCreated(q)}
    BY <1>1 DEF PackagesTo, WindowsRendezvous, WindowsATCreated, WindowsATPresent,
                WindowsATDestroyed, MemoryMappedFileCreated
  <2>2. q \in OtherSide(p)
    BY <1>1 DEF OtherSide
  <2> QED BY <1>1, <2>1, <2>2, SideNames
<1>2. CASE p \notin JVMs
  <2>1. PICK q \in JVMs : m \in {JavaVMCreated(q), JavaVMPresent(q), JavaVMDestroyed(q)}
    BY <1>2 DEF PackagesTo, JavaRendezvous, JavaVMCreated, JavaVMPresent, JavaVMDestroyed
  <2>2. q \in OtherSide(p) /\ p \in ATs
    BY <1>2 DEF OtherSide, Bridges
  <2> QED BY <2>1, <2>2, SideNames
<1> QED BY <1>1, <1>2

\* In every behaviour, with any number of JVMs and ATs, no package is queued
\* twice, however the Created and Present packages cross: a bridge that reads
\* nothing has at most four packages of each AT, or three of each JVM, queued (the
\* rendezvous packages of AccessBridgePackages.h).
THEOREM EachPackageIsQueuedOnce == Spec => []EachPackageOnce
<1>1. Init => AnsweredOnce
  <2> SUFFICES ASSUME Init, NEW p \in Bridges, NEW q \in OtherSide(p)
               PROVE  /\ NeverBefore(inbox[p], {Created(q)}, {Created(q)})
                      /\ NeverBefore(inbox[p], {Present(q)}, {Present(q)})
                      /\ Posted(p) = {}
    BY DEF AnsweredOnce
  <2> DEFINE none == <<>>
  <2>1. inbox[p] = none /\ Range(none) = {}
    BY RangeOfEmpty DEF Init
  <2>2. \A A, B : NeverBefore(none, A, B)
    BY OrderOfFew
  <2> HIDE DEF none
  <2> QED BY <2>1, <2>2 DEF Posted
<1>2. OrderedInv /\ AnsweredOnce /\ [Next]_vars => AnsweredOnce'
  BY OnceStep DEF OrderedInv, IInv
<1>3. OrderedInv /\ AnsweredOnce => EachPackageOnce
  <2> SUFFICES ASSUME OrderedInv, AnsweredOnce, NEW p \in Bridges
               PROVE  \A i, k \in DOMAIN inbox[p] : inbox[p][i] = inbox[p][k] => i = k
    BY DEF EachPackageOnce
  <2>1. inbox[p] \in Seq(PackagesTo(p))
    BY DEF OrderedInv, IInv, TypeOK
  <2>2. ASSUME NEW m \in PackagesTo(p) PROVE NeverBefore(inbox[p], {m}, {m})
    <3>1. PICK q \in OtherSide(p) :
              \/ m \in {Created(q), Present(q), Destroyed(q)}
              \/ p \in JVMs /\ q \in ATs /\ m = MemoryMappedFileCreated(q)
      BY PackagesOfBridges
    <3>2. CASE m \in {Created(q), Present(q)}
      BY <3>2 DEF AnsweredOnce
    <3>3. CASE m = Destroyed(q)
      <4>1. Destroyed(q) \in From(p, q)
        BY Sides, AnnouncedPackages, Senders DEF From
      <4>2. NeverBefore(inbox[p], {Destroyed(q)}, From(p, q))
        BY DEF OrderedInv, GoodbyeIsLast
      <4> QED BY <3>3, <4>1, <4>2 DEF NeverBefore
    <3>4. CASE p \in JVMs /\ q \in ATs /\ m = MemoryMappedFileCreated(q)
      BY <3>4 DEF OrderedInv, FilesAreTold
    <3> QED BY <3>1, <3>2, <3>3, <3>4
  <2> SUFFICES ASSUME NEW i \in DOMAIN inbox[p], NEW k \in DOMAIN inbox[p],
                      inbox[p][i] = inbox[p][k]
               PROVE  i = k
    OBVIOUS
  <2>3. i \in Nat /\ k \in Nat /\ inbox[p][i] \in PackagesTo(p)
    BY <2>1, PlaceInQueue, LenProperties
  <2>4. NeverBefore(inbox[p], {inbox[p][i]}, {inbox[p][i]})
    BY <2>2, <2>3
  <2>5. ~(i < k) /\ ~(k < i)
    BY <2>4 DEF NeverBefore
  <2> QED BY <2>3, <2>5
<1> QED BY <1>1, <1>2, <1>3, QueuesInOrder, PTL DEF Spec

\* A queue without duplicates is no longer than there are different packages.
LEMMA ShortQueue ==
    ASSUME NEW T, IsFiniteSet(T), NEW n \in Nat, NEW Kinds,
           NEW code \in [Kinds -> 1 .. n], \A x, y \in Kinds : code[x] = code[y] => x = y,
           NEW s \in Seq([type : Kinds, from : T]),
           \A i, k \in DOMAIN s : s[i] = s[k] => i = k
    PROVE  Len(s) <= n * Cardinality(T)
<1> DEFINE place == [i \in DOMAIN s |-> <<code[s[i].type], s[i].from>>]
           packages == [type : Kinds, from : T]
<1>1. DOMAIN s = 1 .. Len(s) /\ Len(s) \in Nat
  BY LenProperties
<1>2. \A i \in DOMAIN s : s[i] \in packages
  <2>1. s \in Seq(packages)
    OBVIOUS
  <2> HIDE DEF packages
  <2> QED BY <2>1, LenProperties
<1>3. \A i \in DOMAIN s : code[s[i].type] \in 1 .. n /\ s[i].from \in T
  BY <1>2
<1>4. place \in [DOMAIN s -> (1 .. n) \X T]
  BY <1>3
<1>5. \A i, k \in DOMAIN s : place[i] = place[k] => i = k
  <2> SUFFICES ASSUME NEW i \in DOMAIN s, NEW k \in DOMAIN s, place[i] = place[k] PROVE i = k
    OBVIOUS
  <2>1. s[i].type = s[k].type /\ s[i].from = s[k].from
    BY <1>2
  <2>2. s[i] = s[k]
    BY <1>2, <2>1
  <2> QED BY <2>2
<1> HIDE DEF place
<1>6. place \in Injection(DOMAIN s, (1 .. n) \X T)
  BY <1>4, <1>5 DEF Injection, IsInjective
<1>7. /\ IsFiniteSet(1 .. n) /\ Cardinality(1 .. n) = n
      /\ IsFiniteSet((1 .. n) \X T) /\ Cardinality((1 .. n) \X T) = n * Cardinality(T)
  <2>1. IsFiniteSet(1 .. n) /\ Cardinality(1 .. n) = n
    BY FS_Interval
  <2> QED BY <2>1, FS_Product
<1>8. Cardinality(DOMAIN s) <= n * Cardinality(T)
  BY <1>6, <1>7, FS_Injection
<1>9. Cardinality(DOMAIN s) = Len(s)
  <2>1. \A k \in Nat : Cardinality(1 .. k) = k
    BY FS_Interval
  <2> HIDE DEF packages
  <2> QED BY <1>1, <2>1
<1> QED BY <1>8, <1>9

\* The longest queues there can be.
QueuesAreShort ==
    /\ \A j \in JVMs : Len(inbox[j]) <= 4 * Cardinality(ATs)
    /\ \A a \in ATs : Len(inbox[a]) <= 3 * Cardinality(JVMs)

\* With finitely many bridges the queue of rendezvous packages
\* (AccessBridgePackages.h) is bounded: a JVM that reads nothing has
\* at most four packages of each AT, an AT three of each JVM.
THEOREM QueuesStayShort ==
    ASSUME IsFiniteSet(JVMs), IsFiniteSet(ATs)
    PROVE  Spec => []QueuesAreShort
<1>1. TypeOK /\ EachPackageOnce => QueuesAreShort
  <2> SUFFICES ASSUME TypeOK, EachPackageOnce PROVE QueuesAreShort
    OBVIOUS
  <2>1. ASSUME NEW j \in JVMs PROVE Len(inbox[j]) <= 4 * Cardinality(ATs)
    <3> DEFINE kinds == {"WindowsATCreated", "WindowsATDestroyed", "WindowsATPresent",
                         "MemoryMappedFileCreated"}
               code == [t \in kinds |-> IF t = "WindowsATCreated" THEN 1
                                        ELSE IF t = "WindowsATDestroyed" THEN 2
                                        ELSE IF t = "WindowsATPresent" THEN 3 ELSE 4]
    <3>1. code \in [kinds -> 1 .. 4] /\ \A x, y \in kinds : code[x] = code[y] => x = y
      OBVIOUS
    <3>2. inbox[j] \in Seq([type : kinds, from : ATs])
      BY DEF TypeOK, Bridges, PackagesTo, WindowsRendezvous
    <3>3. \A i, k \in DOMAIN inbox[j] : inbox[j][i] = inbox[j][k] => i = k
      BY DEF EachPackageOnce, Bridges
    <3> HIDE DEF kinds, code
    <3> QED BY <3>1, <3>2, <3>3, ShortQueue
  <2>2. ASSUME NEW a \in ATs PROVE Len(inbox[a]) <= 3 * Cardinality(JVMs)
    <3> DEFINE kinds == {"JavaVMCreated", "JavaVMDestroyed", "JavaVMPresent"}
               code == [t \in kinds |-> IF t = "JavaVMCreated" THEN 1
                                        ELSE IF t = "JavaVMDestroyed" THEN 2 ELSE 3]
    <3>1. code \in [kinds -> 1 .. 3] /\ \A x, y \in kinds : code[x] = code[y] => x = y
      OBVIOUS
    <3>2. inbox[a] \in Seq([type : kinds, from : JVMs])
      BY BridgesAreDisjoint DEF TypeOK, Bridges, PackagesTo, JavaRendezvous
    <3>3. \A i, k \in DOMAIN inbox[a] : inbox[a][i] = inbox[a][k] => i = k
      BY DEF EachPackageOnce, Bridges
    <3> HIDE DEF kinds, code
    <3> QED BY <3>1, <3>2, <3>3, ShortQueue
  <2> QED BY <2>1, <2>2 DEF QueuesAreShort
<1> QED BY <1>1, TypeCorrect, EachPackageIsQueuedOnce, PTL

\* Two bridges that have met, the JVM with the AT's file, stay linked for as
\* long as both live: no package that is read late undoes it.
LinkLasts ==
    \A j \in JVMs, a \in ATs :
        Linked(j, a) => Linked(j, a)' \/ ~HasWindow(j)' \/ ~HasWindow(a)'

\* In every behaviour, with any number of JVMs and ATs, links end with the life
\* of one of the two only: what EventuallyLinked reaches is not lost again by a
\* Present or memory-mapped-file package of AccessBridgePackages.h that is read late.
THEOREM LinksLast == Spec => [][LinkLasts]_vars
<1>1. TypeOK /\ NothingEarly /\ [Next]_vars => [LinkLasts]_vars
  <2> SUFFICES ASSUME TypeOK, NothingEarly, Next, NEW j \in JVMs, NEW a \in ATs,
                      Linked(j, a), HasWindow(j)', HasWindow(a)'
               PROVE  Linked(j, a)'
    BY DEF LinkLasts
  <2>1. /\ j \in Bridges /\ a \in Bridges /\ j # a /\ a \notin JVMs
        /\ peers \in [Bridges -> SUBSET Bridges] /\ mapped \in [JVMs -> SUBSET ATs]
    BY RendezvousPackages, BridgesAreDisjoint DEF TypeOK
  <2>2. j \in peers[a] /\ a \in peers[j] /\ a \in mapped[j]
    BY DEF Linked
  <2>3. ASSUME NEW p \in Bridges, NEW s, NEW ms, Lives(p, s, ms) PROVE Linked(j, a)'
    <3>1. p \in {j, a} => s \notin {"detached", "crashed"}
      BY <2>1, <2>3 DEF Lives, HasWindow
    <3>2. peers'[a] = peers[a] /\ peers'[j] = peers[j] /\ mapped'[j] = mapped[j]
      BY <2>1, <2>3, <3>1 DEF Lives
    <3> QED BY <2>2, <3>2 DEF Linked
  <2>4. ASSUME NEW p \in Bridges, NEW q \in OtherSide(p), NEW m, NEW ms, Handles(p, q, m, ms)
        PROVE  Linked(j, a)'
    <3>1. /\ q \in Bridges /\ Learns(p, q, m) /\ m \in Posted(p)
          /\ HasWindow(j) /\ HasWindow(a)
      BY <2>1, <2>4, QueuesAfterHandling DEF Handles
    <3>2. q \in {j, a} => m # Destroyed(q)
      BY <2>1, <3>1 DEF NothingEarly, HasWindow
    <3>3. /\ j \in peers'[a] /\ a \in peers'[j]
      BY <2>1, <2>2, <3>1, <3>2 DEF Learns
    <3>4. a \in mapped'[j]
      BY <2>1, <2>2, <3>1, <3>2 DEF Learns
    <3> QED BY <3>3, <3>4 DEF Linked
  <2> QED BY <2>3, <2>4, RendezvousSteps, LifeSteps
<1> QED BY <1>1, TypeCorrect, QueuesInOrder, PTL DEF Spec, OrderedInv, IInv

-----------------------------------------------------------------------------
(***************************************************************************)
(* The rendezvous implements the neighbourhood.                            *)
(***************************************************************************)
\* What every bridge thinks of every other.
Views == [e \in (JVMs \X ATs) \cup (ATs \X JVMs) |-> View(e[1], e[2])]

\* x is not there any more; y has said goodbye and x has nothing else of it.
Gone(x, y) == status[x] \in {"detached", "crashed"}
Parted(x, y) == status[y] = "detached" /\ \A m \in Posted(x) : m.from = y => m = Destroyed(y)

\* A view, by whether the bridges are gone or have said goodbye.
LEMMA ViewValue ==
    ASSUME NEW x, NEW y
    PROVE  /\ View(x, y) = IF Gone(x, y) THEN "gone" ELSE IF y \in peers[x] THEN "neighbour"
                           ELSE IF Parted(x, y) THEN "gone" ELSE "stranger"
           /\ View(x, y)' = IF Gone(x, y)' THEN "gone" ELSE IF y \in peers'[x] THEN "neighbour"
                            ELSE IF Parted(x, y)' THEN "gone" ELSE "stranger"
  BY DEF View, Gone, Parted

\* What x thinks of y after p's life went on.
LEMMA ViewAfterLife ==
    ASSUME TypeOK, NEW p \in Bridges, NEW s, NEW ms, Lives(p, s, ms),
           NEW x \in Bridges, NEW y \in OtherSide(x)
    PROVE  IF x = p /\ s \in {"detached", "crashed"} THEN View(x, y)' = "gone"
           ELSE \/ View(x, y)' = View(x, y)
                \/ y = p /\ s = "detached" /\ View(x, y) = "stranger" /\ View(x, y)' = "gone"
<1>1. /\ y \in Bridges /\ x # y /\ x \in OtherSide(y)
      /\ inbox[x] \in Seq(PackagesTo(x)) /\ Created(p).from = p /\ Destroyed(p).from = p
  BY Sides, Senders DEF TypeOK
<1>2. /\ status[p] \in {"unborn", "windowed", "attached"} /\ status'[p] = s
      /\ s \in {"windowed", "attached", "detached", "crashed"}
      /\ \A z \in Bridges : z # p => status'[z] = status[z]
  BY DEF Lives, HasWindow
<1>3. CASE x = p /\ s \in {"detached", "crashed"}
  BY <1>2, <1>3 DEF View
<1>4. CASE ~(x = p /\ s \in {"detached", "crashed"})
  <2>1. peers'[x] = peers[x] /\ (Gone(x, y)' <=> Gone(x, y))
    BY <1>2, <1>4 DEF Lives, Gone
  <2>2. CASE y # p
    <3>1. \A m : m.from = y => (m \in Posted(x)' <=> m \in Posted(x))
      <4>1. CASE x \in OtherSide(p) /\ HasWindow(x)
        <5>1. inbox'[x] = inbox[x] \o ms
          BY <1>4, <4>1 DEF Lives
        <5>2. ms \in Seq(PackagesTo(x)) /\ Range(ms) \subseteq From(x, p)
          BY <4>1, Announcements
        <5>3. Posted(x)' = Posted(x) \cup Range(ms)
          BY <1>1, <5>1, <5>2, RangeOfPosted DEF Posted
        <5> QED BY <2>2, <5>2, <5>3 DEF From
      <4>2. CASE ~(x \in OtherSide(p) /\ HasWindow(x))
        <5>1. inbox'[x] = inbox[x]
          BY <1>4, <4>2 DEF Lives
        <5> QED BY <5>1 DEF Posted
      <4> QED BY <4>1, <4>2
    <3>2. Parted(x, y)' <=> Parted(x, y)
      BY <1>1, <1>2, <2>2, <3>1 DEF Parted
    <3> QED BY <1>4, <2>1, <3>2, ViewValue
  <2>3. CASE y = p
    <3>1. ~Parted(x, y) /\ (s # "detached" => ~Parted(x, y)')
      BY <1>2, <2>3 DEF Parted
    <3> QED BY <1>4, <2>1, <2>3, <3>1, ViewValue
  <2> QED BY <2>2, <2>3
<1> QED BY <1>3, <1>4

\* Handling a package changes at most what the reader thinks of its sender.
LEMMA ViewAfterHandling ==
    ASSUME TypeOK, NEW p \in Bridges, NEW q \in OtherSide(p), NEW m, NEW ms,
           Handles(p, q, m, ms),
           NEW x \in Bridges, NEW y \in OtherSide(x), ~(x = p /\ y = q)
    PROVE  View(x, y)' = View(x, y)
<1>1. /\ y \in Bridges /\ x # y /\ q \in Bridges /\ p # q
      /\ status' = status /\ HasWindow(p) /\ Learns(p, q, m)
      /\ Range(ms) \subseteq From(q, p) /\ m.from = q
  BY Sides DEF Handles, Reads, Receives, From
<1>2. (Gone(x, y)' <=> Gone(x, y)) /\ (status'[y] = status[y])
  BY <1>1 DEF Gone
<1>3. CASE x = p
  <2>1. peers'[x] \cap {y} = peers[x] \cap {y}
    <3>1. peers \in [Bridges -> SUBSET Bridges] /\ y # q
      BY <1>3 DEF TypeOK
    <3> QED BY <1>1, <1>3, <3>1 DEF Learns
  <2>2. Posted(x) = {m} \cup Posted(x)' /\ m.from # y
    BY <1>1, <1>3, QueuesAfterHandling
  <2>3. Parted(x, y)' <=> Parted(x, y)
    BY <1>2, <2>2 DEF Parted
  <2> QED BY <1>2, <2>1, <2>3, ViewValue
<1>4. CASE x = q
  <2>1. peers'[x] = peers[x]
    BY <1>1, <1>4, QueuesAfterHandling
  <2>2. CASE y = p
    <3>1. ~Parted(x, y) /\ ~Parted(x, y)'
      BY <1>1, <2>2 DEF Parted, HasWindow
    <3> QED BY <1>2, <2>1, <3>1, ViewValue
  <2>3. CASE y # p
    <3>1. \A n : n.from = y => (n \in Posted(x)' <=> n \in Posted(x))
      BY <1>1, <1>4, <2>3, QueuesAfterHandling DEF From
    <3>2. Parted(x, y)' <=> Parted(x, y)
      BY <1>2, <3>1 DEF Parted
    <3> QED BY <1>2, <2>1, <3>2, ViewValue
  <2> QED BY <2>2, <2>3
<1>5. CASE x # p /\ x # q
  <2>1. peers'[x] = peers[x] /\ Posted(x)' = Posted(x)
    BY <1>1, <1>5, QueuesAfterHandling DEF Posted
  <2>2. Parted(x, y)' <=> Parted(x, y)
    BY <1>2, <2>1 DEF Parted
  <2> QED BY <1>2, <2>1, <2>2, ViewValue
<1> QED BY <1>3, <1>4, <1>5

\* What the reader thinks of the sender: it meets it, parts from it, or knew.
LEMMA ViewOfTheSender ==
    ASSUME OrderedInv, NEW p \in Bridges, NEW q \in OtherSide(p), NEW m, NEW ms,
           Handles(p, q, m, ms)
    PROVE  \/ View(p, q)' = View(p, q)
           \/ /\ status[q] # "unborn" /\ View(p, q) = "stranger" /\ View(p, q)' = "neighbour"
           \/ /\ status[q] = "detached" /\ View(p, q) = "neighbour" /\ View(p, q)' = "gone"
<1> USE DEF OrderedInv, IInv
<1>1. /\ q \in Bridges /\ p # q /\ HasWindow(p) /\ Learns(p, q, m) /\ status' = status
      /\ m \in Posted(p) /\ m \in From(p, q) /\ m.from = q
      /\ Posted(p) = {m} \cup Posted(p)' /\ status[q] # "unborn"
      /\ inbox[p] # <<>> /\ Head(inbox[p]) = m /\ inbox'[p] = Tail(inbox[p])
      /\ inbox[p] \in Seq(PackagesTo(p))
  BY QueuesAfterHandling DEF Handles, Reads, From, NothingEarly, TypeOK
<1>2. ~Gone(p, q) /\ ~Gone(p, q)' /\ peers \in [Bridges -> SUBSET Bridges]
  BY <1>1 DEF Gone, HasWindow, TypeOK
<1>3. CASE m \in {Created(q), Present(q)}
  <2>1. m # Destroyed(q) /\ m # MemoryMappedFileCreated(q)
    BY <1>1, <1>3, FourPackages
  <2>2. q \in peers'[p] /\ ~Parted(p, q)
    BY <1>1, <1>2, <1>3, <2>1 DEF Learns, Parted
  <2> QED BY <1>1, <1>2, <2>2, ViewValue
<1>4. CASE m = Destroyed(q)
  <2>1. m # Created(q) /\ m # Present(q) /\ m # MemoryMappedFileCreated(q)
    BY <1>1, <1>4, FourPackages
  <2>2. q \notin peers'[p] /\ status[q] = "detached"
    BY <1>1, <1>2, <1>4, <2>1 DEF Learns, NothingEarly
  <2>3. Posted(p)' \cap From(p, q) = {}
    <3>1. NeverBefore(inbox[p], {Destroyed(q)}, From(p, q))
      BY DEF GoodbyeIsLast
    <3> QED BY <1>1, <1>4, <3>1, OrderAfterRead DEF Posted
  <2>4. Posted(p)' \subseteq PackagesTo(p)
    <3>1. Tail(inbox[p]) \in Seq(PackagesTo(p))
      BY <1>1, HeadTailProperties
    <3> QED BY <1>1, <3>1, RangeEquality, ElementOfSeq DEF Posted
  <2>5. Parted(p, q)' /\ Parted(p, q)
    <3>1. \A n \in Posted(p)' : n.from # q
      BY <2>3, <2>4 DEF From
    <3> QED BY <1>1, <1>4, <2>2, <3>1 DEF Parted
  <2> QED BY <1>2, <2>2, <2>5, ViewValue
<1>5. CASE p \in JVMs /\ m = MemoryMappedFileCreated(q)
  <2>1. q \in ATs
    BY <1>5, Sides
  <2>2. q \in peers[p]
    <3>1. q \in peers[p] \/ Preceded(inbox[p], {MemoryMappedFileCreated(q)}, {Created(q), Present(q)})
      BY <1>5, <2>1 DEF MetBeforeFile
    <3> QED BY <1>1, <1>5, <3>1, PrecededAfterRead
  <2>3. peers'[p] = peers[p]
    <3>1. m \notin {Created(q), Present(q), Destroyed(q)}
      BY <1>1, <1>5, FourPackages
    <3> QED BY <1>1, <3>1 DEF Learns
  <2> QED BY <1>2, <2>2, <2>3, ViewValue
<1> QED BY <1>1, <1>3, <1>4, <1>5 DEF Learns

\* The pairs of the abstract specification are those of a bridge and one of
\* the other side.
LEMMA ViewsOfPairs ==
    /\ Abstract!Pairs = (JVMs \X ATs) \cup (ATs \X JVMs)
    /\ Abstract!Members = Bridges
    /\ \A e \in Abstract!Pairs :
          /\ e[1] \in Bridges /\ e[2] \in OtherSide(e[1]) /\ e[2] \in Bridges /\ e = <<e[1], e[2]>>
          /\ Views[e] = View(e[1], e[2])
          /\ Views'[e] = View(e[1], e[2])'
    /\ \A x \in Bridges : \A y \in OtherSide(x) : <<x, y>> \in Abstract!Pairs
    /\ Views = [e \in Abstract!Pairs |-> Views[e]]
    /\ Views' = [e \in Abstract!Pairs |-> Views'[e]]
<1>1. /\ Abstract!Pairs = (JVMs \X ATs) \cup (ATs \X JVMs)
      /\ Abstract!Members = Bridges
  BY DEF Abstract!Pairs, Abstract!Members, Bridges
<1>2. ASSUME NEW e \in Abstract!Pairs
      PROVE  /\ e[1] \in Bridges /\ e[2] \in OtherSide(e[1]) /\ e[2] \in Bridges
             /\ e = <<e[1], e[2]>>
  BY <1>1, BridgesAreDisjoint DEF Bridges, OtherSide
<1>3. \A x \in Bridges : \A y \in OtherSide(x) : <<x, y>> \in Abstract!Pairs
  BY <1>1, BridgesAreDisjoint DEF Bridges, OtherSide
<1>4. ASSUME NEW e \in Abstract!Pairs
      PROVE  Views[e] = View(e[1], e[2]) /\ Views'[e] = View(e[1], e[2])'
  BY <1>1 DEF Views
<1>5. /\ Views = [e \in Abstract!Pairs |-> Views[e]]
      /\ Views' = [e \in Abstract!Pairs |-> Views'[e]]
  BY <1>1 DEF Views
<1> QED BY <1>1, <1>2, <1>3, <1>4, <1>5

\* The view of one pair, and of the same pair after a step.
LEMMA ViewOfPair ==
    ASSUME NEW x \in Bridges, NEW y \in OtherSide(x)
    PROVE  /\ <<x, y>> \in Abstract!Pairs
           /\ Views[<<x, y>>] = View(x, y)
           /\ Views'[<<x, y>>] = View(x, y)'
<1>1. <<x, y>> \in (JVMs \X ATs) \cup (ATs \X JVMs)
  BY BridgesAreDisjoint DEF Bridges, OtherSide
<1> QED BY <1>1, ViewsOfPairs DEF Views

\* Initially everybody is unborn and a stranger to everybody.
LEMMA AbstractInit == Init => Abstract!Init
<1> SUFFICES ASSUME Init PROVE Abstract!Init
  OBVIOUS
<1>1. \A x, y \in Bridges : View(x, y) = "stranger"
  BY DEF Init, View
<1>2. Views = [e \in Abstract!Pairs |-> "stranger"]
  <2>1. \A e \in Abstract!Pairs : Views[e] = "stranger"
    BY <1>1, ViewsOfPairs
  <2>2. Views = [e \in Abstract!Pairs |-> Views[e]]
    BY ViewsOfPairs
  <2> QED BY <2>1, <2>2
<1>3. status = [p \in Abstract!Members |-> "unborn"]
  BY ViewsOfPairs DEF Init
<1> QED BY <1>2, <1>3 DEF Abstract!Init, Views

\* Handling a package is meeting its sender, parting from it, or nothing new.
LEMMA AbstractHandling ==
    ASSUME OrderedInv, NEW p \in Bridges, NEW q \in OtherSide(p), NEW m, NEW ms,
           Handles(p, q, m, ms)
    PROVE  \/ status' = status /\ Views' = Views
           \/ Abstract!Next
<1> DEFINE e == <<p, q>>
<1>1. /\ status' = status /\ status[p] \in {"windowed", "attached"}
      /\ TypeOK /\ e \in Abstract!Pairs /\ e[1] = p /\ e[2] = q
  BY ViewsOfPairs DEF Handles, Reads, Receives, HasWindow, OrderedInv, IInv
<1> HIDE DEF e
<1>2. \A d \in Abstract!Pairs : d # e => Views'[d] = Views[d]
  <2> SUFFICES ASSUME NEW d \in Abstract!Pairs, d # e PROVE Views'[d] = Views[d]
    OBVIOUS
  <2>1. PICK x, y : x \in Bridges /\ y \in OtherSide(x) /\ d = <<x, y>>
    <3>1. d[1] \in Bridges /\ d[2] \in OtherSide(d[1]) /\ d = <<d[1], d[2]>>
      BY ViewsOfPairs
    <3> QED BY <3>1
  <2>2. ~(x = p /\ y = q)
    BY <2>1 DEF e
  <2>3. View(x, y)' = View(x, y)
    BY <1>1, <2>1, <2>2, ViewAfterHandling
  <2> QED BY <2>1, <2>3, ViewOfPair
<1>3. CASE Views'[e] = Views[e]
  <2>1. Views' = Views
    BY <1>2, <1>3, ViewsOfPairs
  <2> QED BY <1>1, <2>1
<1>4. CASE status[q] # "unborn" /\ Views[e] = "stranger" /\ Views'[e] = "neighbour"
  <2>1. Views' = [Views EXCEPT ![e] = "neighbour"]
    BY <1>1, <1>2, <1>4, ViewsOfPairs
  <2>2. Abstract!Meet(e)
    BY <1>1, <1>4, <2>1 DEF Abstract!Meet, Views
  <2> QED BY <1>1, <2>2 DEF Abstract!Next
<1>5. CASE status[q] = "detached" /\ Views[e] = "neighbour" /\ Views'[e] = "gone"
  <2>1. Views' = [Views EXCEPT ![e] = "gone"]
    BY <1>1, <1>2, <1>5, ViewsOfPairs
  <2>2. Abstract!Part(e)
    BY <1>1, <1>5, <2>1 DEF Abstract!Part, Views
  <2> QED BY <1>1, <2>2 DEF Abstract!Next
<1>6. Views[e] = View(p, q) /\ Views'[e] = View(p, q)'
  BY <1>1, ViewOfPair DEF e
<1> QED BY <1>3, <1>4, <1>5, <1>6, ViewOfTheSender

\* A bridge that attaches arrives and settles; one that detaches or crashes leaves.
LEMMA AbstractLife ==
    ASSUME TypeOK, NEW p \in Bridges, OpenWindow(p) \/ Announce(p) \/ Detach(p) \/ Crash(p)
    PROVE  Abstract!Next
<1>1. PICK s, ms : Lives(p, s, ms)
  BY LifeSteps
<1>2. /\ status' = [status EXCEPT ![p] = s] /\ p \in Abstract!Members
      /\ \/ status[p] = "unborn" /\ s = "windowed"
         \/ status[p] = "windowed" /\ s = "attached"
         \/ status[p] = "attached" /\ s = "detached"
         \/ status[p] \in {"windowed", "attached"} /\ s = "crashed"
  <2>1. status' = [status EXCEPT ![p] = status'[p]] /\ status'[p] = s
    BY <1>1 DEF OpenWindow, Announce, Detach, Crash, TypeOK, Lives
  <2> QED BY <1>1, <2>1, ViewsOfPairs DEF Lives, HasWindow
<1>3. \A e \in Abstract!Pairs :
         IF e[1] = p /\ s \in {"detached", "crashed"} THEN Views'[e] = "gone"
         ELSE \/ Views'[e] = Views[e]
              \/ e[2] = p /\ s = "detached" /\ Views[e] = "stranger" /\ Views'[e] = "gone"
  <2> SUFFICES ASSUME NEW e \in Abstract!Pairs
               PROVE  IF e[1] = p /\ s \in {"detached", "crashed"} THEN Views'[e] = "gone"
                      ELSE \/ Views'[e] = Views[e]
                           \/ /\ e[2] = p /\ s = "detached"
                              /\ Views[e] = "stranger" /\ Views'[e] = "gone"
    OBVIOUS
  <2>1. PICK x, y : x \in Bridges /\ y \in OtherSide(x) /\ e = <<x, y>>
    <3>1. e[1] \in Bridges /\ e[2] \in OtherSide(e[1]) /\ e = <<e[1], e[2]>>
      BY ViewsOfPairs
    <3> QED BY <3>1
  <2>2. IF x = p /\ s \in {"detached", "crashed"} THEN View(x, y)' = "gone"
        ELSE \/ View(x, y)' = View(x, y)
             \/ y = p /\ s = "detached" /\ View(x, y) = "stranger" /\ View(x, y)' = "gone"
    BY <1>1, <2>1, ViewAfterLife
  <2>3. Views[e] = View(x, y) /\ Views'[e] = View(x, y)' /\ e[1] = x /\ e[2] = y
    BY <2>1, ViewOfPair
  <2> QED BY <2>2, <2>3
<1>4. CASE s \in {"windowed", "attached"}
  <2>1. Views' = Views
    <3>1. \A e \in Abstract!Pairs : Views'[e] = Views[e]
      BY <1>3, <1>4
    <3>2. /\ Views = [e \in Abstract!Pairs |-> Views[e]]
          /\ Views' = [e \in Abstract!Pairs |-> Views'[e]]
      BY ViewsOfPairs
    <3> QED BY <3>1, <3>2
  <2>2. Abstract!Arrive(p) \/ Abstract!Settle(p)
    <3>1. CASE s = "windowed"
      BY <1>2, <2>1, <3>1 DEF Abstract!Arrive, Views
    <3>2. CASE s = "attached"
      BY <1>2, <2>1, <3>2 DEF Abstract!Settle, Views
    <3> QED BY <1>4, <3>1, <3>2
  <2> QED BY <1>2, <2>2 DEF Abstract!Next
<1>5. CASE s \in {"detached", "crashed"}
  <2> DEFINE H == {e \in Abstract!Pairs : /\ e[2] = p /\ s = "detached"
                                          /\ Views[e] = "stranger" /\ Views'[e] = "gone"}
  <2>1. /\ H \in SUBSET {e \in Abstract!Pairs : e[2] = p /\ Views[e] = "stranger"}
        /\ s = "crashed" => H = {}
    OBVIOUS
  <2>2. \A e \in Abstract!Pairs : Views'[e] = IF e[1] = p \/ e \in H THEN "gone" ELSE Views[e]
    BY <1>3, <1>5
  <2> HIDE DEF H
  <2>3. Views' = [e \in Abstract!Pairs |-> IF e[1] = p \/ e \in H THEN "gone" ELSE Views[e]]
    BY <2>2, ViewsOfPairs
  <2>4. status'[p] = s
    BY <1>1 DEF Lives
  <2>5. Abstract!Leave(p)
    BY <1>2, <1>5, <2>1, <2>3, <2>4 DEF Abstract!Leave, Views
  <2> QED BY <1>2, <2>5 DEF Abstract!Next
<1> QED BY <1>2, <1>4, <1>5

\* Every behaviour of the rendezvous is one of the neighbourhood: whoever has
\* read a goodbye never meets that bridge again, and nobody meets a bridge
\* that has no window yet, whatever crossed on the way.
THEOREM RendezvousIsANeighbourhood == Spec => ImplementsNeighbourhood
<1>1. Init => Abstract!Init
  BY AbstractInit
<1>2. OrderedInv /\ [Next]_vars => [Abstract!Next]_<<status, Views>>
  <2> SUFFICES ASSUME OrderedInv, [Next]_vars
               PROVE  Abstract!Next \/ (status' = status /\ Views' = Views)
    OBVIOUS
  <2>1. CASE Next
    <3>1. PICK p \in Bridges :
             \/ OpenWindow(p) \/ Announce(p) \/ Detach(p) \/ Crash(p)
             \/ \E q \in OtherSide(p) : \E m, ms : Handles(p, q, m, ms)
      BY <2>1, RendezvousSteps DEF OrderedInv, IInv
    <3>2. CASE OpenWindow(p) \/ Announce(p) \/ Detach(p) \/ Crash(p)
      BY <3>2, AbstractLife DEF OrderedInv, IInv
    <3>3. CASE \E q \in OtherSide(p) : \E m, ms : Handles(p, q, m, ms)
      BY <3>3, AbstractHandling
    <3> QED BY <3>1, <3>2, <3>3
  <2>2. CASE UNCHANGED vars
    <3>1. \A e \in Abstract!Pairs : Views'[e] = Views[e]
      <4>1. \A x, y : View(x, y)' = View(x, y)
        BY <2>2 DEF vars, View, Posted
      <4> QED BY <4>1, ViewsOfPairs
    <3>2. Views' = Views
      BY <3>1, ViewsOfPairs
    <3> QED BY <2>2, <3>2 DEF vars
  <2> QED BY <2>1, <2>2
<1>3. [Abstract!Next]_<<status, Views>> =>
         [Abstract!Next]_<<status, [e \in (JVMs \X ATs) \cup (ATs \X JVMs) |-> View(e[1], e[2])]>>
  BY DEF Views
<1> QED BY <1>1, <1>2, <1>3, QueuesInOrder, PTL DEF Spec, ImplementsNeighbourhood, Abstract!Spec

=============================================================================
