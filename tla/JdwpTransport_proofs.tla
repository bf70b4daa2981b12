------------------------- MODULE JdwpTransport_proofs -------------------------
(***************************************************************************)
(* JdwpTransport for any debuggers and any number of commands: it is type  *)
(* correct and implements DebugSessions.                                   *)
(*                                                                         *)
(* The step that matters is WritePacket: the command has to be one of the  *)
(* debugger at the other end, and not answered yet.  A command goes from   *)
(* the network through the reader's hands and the queue to the loop.       *)
(* Pipeline says where the ids end that are in each of these places, and   *)
(* that those answered are below them all.  It begins empty with each      *)
(* session, because OneSession has all of it empty in between.  As the     *)
(* places follow one another, replies also come in the order of commands.  *)
(***************************************************************************)
EXTENDS JdwpTransport, SequenceTheorems, TLAPS

\* What the debugger at the other end has sent is Unread up to sent[peer], then
\* (going back) in the reader's hands, in the queue, and with the loop.
Unread   == sent[peer] - Len(toJVM)
Unqueued == Unread - (IF reader = "read" THEN 1 ELSE 0)
Waiting  == Unqueued - Len(cmdQueue)
Served   == Waiting - (IF loop = "replying" THEN 1 ELSE 0)

Pipeline ==
    /\ \A i \in 1 .. Len(toJVM) : toJVM[i].id = Unread + i
    /\ reader = "read" => packet.id = Unread
    /\ \A i \in 1 .. Len(cmdQueue) : cmdQueue[i].id = Waiting + i
    /\ loop = "replying" => command.id = Waiting
    /\ \A id \in answered[peer] : id <= Served

\* The places of a connection, of the loop and of the reader fit together.
OneSession ==
    /\ connection = "closed" => peer = NobodyElse
    /\ connection # "closed" => peer \in Debuggers
    /\ connection = "handshake" => loop = "accepting"
    /\ connection = "open" <=> loop \in {"accepted", "serving", "replying", "closing"}
    /\ connection # "open" => toJVM = <<>>
    /\ loop \in {"idle", "accepting", "accepted", "failed"} => reader = "none" /\ cmdQueue = <<>>

\* A debugger sends its first command in its session; before, it waits once.
NothingEarly ==
    \A d \in Debuggers :
        /\ debugger[d] \in {"away", "connecting", "greeting"} => sent[d] = 0 /\ answered[d] = {}
        /\ d \in backlog => debugger[d] \in {"connecting", "greeting"} /\ peer # d
        /\ peer = d => debugger[d] # "away"
        /\ peer = d /\ debugger[d] = "attached" => connection = "open"

IInv == TypeOK /\ OneSession /\ NothingEarly /\ (connection = "open" => Pipeline)

LEMMA Start == Init => IInv
<1> SUFFICES ASSUME Init PROVE IInv
  OBVIOUS
<1>1. TypeOK
  <2>1. <<>> \in Seq(jdwpCmdPacket)
    BY EmptySeq
  <2>2. sent \in [Debuggers -> 0 .. MaxCommands] /\ NoCommand \in jdwpCmdPacket
    BY CommandsAreBounded DEF Init, NoCommand, jdwpCmdPacket, Ids
  <2>3. QED
    BY <2>1, <2>2 DEF Init, TypeOK
<1>2. QED
  BY <1>1, NobodyIsNoDebugger DEF Init, IInv, OneSession, NothingEarly

\* Every step is one of these.
LEMMA Steps ==
    ASSUME [Next]_vars
    PROVE  \/ \E d \in Debuggers :
                Connect(d) \/ Greet(d) \/ Send(d) \/ Leave(d) \/ HangUp(d) \/ Accept(d)
           \/ StartListening \/ AcceptTimeout \/ HandshakeDone \/ HandshakeTimeout
           \/ StopListening
           \/ ReadPacket \/ ReadError \/ Enqueue
           \/ Dequeue \/ WritePacket \/ SessionOver \/ Close \/ Reset
           \/ UNCHANGED vars
  BY DEF Next, Debugger, Reader, Loop

\* What a packet put in or taken out of a queue of them leaves.
LEMMA Queues ==
    ASSUME NEW q \in Seq(jdwpCmdPacket), NEW p \in jdwpCmdPacket
    PROVE  /\ Append(q, p) \in Seq(jdwpCmdPacket)
           /\ Len(q) \in Nat
           /\ Len(Append(q, p)) = Len(q) + 1
           /\ \A i \in 1 .. Len(q) : Append(q, p)[i] = q[i]
           /\ Append(q, p)[Len(q) + 1] = p
           /\ q # <<>> => /\ Head(q) = q[1] /\ Head(q) \in jdwpCmdPacket
                          /\ Tail(q) \in Seq(jdwpCmdPacket)
                          /\ Len(q) > 0 /\ Len(Tail(q)) = Len(q) - 1
                          /\ \A i \in 1 .. Len(q) - 1 : Tail(q)[i] = q[i + 1]
           /\ <<>> \in Seq(jdwpCmdPacket) /\ Len(<<>>) = 0
  BY AppendProperties, HeadTailProperties, EmptySeq

\* The command that Send puts on the network.
LEMMA NewCommand ==
    ASSUME TypeOK, NEW d \in Debuggers, sent[d] < MaxCommands, NEW cmd \in {"Dispose", "other"}
    PROVE  /\ NextId(d) = sent[d] + 1
           /\ sent[d] + 1 \in Ids /\ sent[d] + 1 \in 0 .. MaxCommands
           /\ [id |-> NextId(d), cmd |-> cmd] \in jdwpCmdPacket
  BY CommandsAreBounded DEF TypeOK, NextId, Ids, jdwpCmdPacket

-----------------------------------------------------------------------------
LEMMA TypeStep ==
    ASSUME IInv, [Next]_vars
    PROVE  TypeOK'
<1> USE DEF IInv, network, env, agent
<1>1. ASSUME NEW d \in Debuggers, Send(d) PROVE TypeOK'
  <2>1. toJVM' \in Seq(jdwpCmdPacket)
    <3>1. CASE peer = d
      <4>1. PICK cmd \in {"Dispose", "other"} :
                    toJVM' = Append(toJVM, [id |-> NextId(d), cmd |-> cmd])
        BY <1>1, <3>1 DEF Send
      <4>2. [id |-> NextId(d), cmd |-> cmd] \in jdwpCmdPacket
        BY <1>1, NewCommand DEF Send
      <4>3. QED
        BY <4>1, <4>2, Queues DEF TypeOK
    <3>2. CASE peer # d
      BY <1>1, <3>2 DEF Send, TypeOK
    <3>3. QED
      BY <3>1, <3>2
  <2>2. sent' \in [Debuggers -> 0 .. MaxCommands]
    BY <1>1, NewCommand DEF Send, TypeOK
  <2>3. QED
    BY <1>1, <2>1, <2>2 DEF Send, TypeOK
<1>2. ASSUME NEW d \in Debuggers, Connect(d) \/ Greet(d) \/ Leave(d) \/ HangUp(d) \/ Accept(d)
      PROVE  TypeOK'
  <2>1. CASE Connect(d) \/ Greet(d)
    BY <2>1 DEF Connect, Greet, TypeOK
  <2>2. CASE Leave(d) \/ HangUp(d)
    BY <2>2 DEF Leave, HangUp, TypeOK
  <2>3. CASE Accept(d)
    BY <2>3 DEF Accept, TypeOK
  <2>4. QED
    BY <1>2, <2>1, <2>2, <2>3
<1>3. CASE StartListening \/ AcceptTimeout \/ SessionOver \/ StopListening
  BY <1>3 DEF StartListening, AcceptTimeout, SessionOver, StopListening, TypeOK
<1>4. CASE HandshakeDone \/ HandshakeTimeout \/ Close \/ Reset
  <2>1. <<>> \in Seq(jdwpCmdPacket)
    BY EmptySeq
  <2>2. QED
    BY <1>4, <2>1 DEF HandshakeDone, HandshakeTimeout, HandshakeFails, Close, Reset,
                      Disconnected, TypeOK
<1>5. CASE ReadPacket \/ Dequeue \/ Enqueue
  <2>1. CASE ReadPacket
    <3>1. Head(toJVM) \in jdwpCmdPacket /\ Tail(toJVM) \in Seq(jdwpCmdPacket)
      BY <2>1, Queues DEF ReadPacket, TypeOK
    <3>2. QED
      BY <2>1, <3>1 DEF ReadPacket, TypeOK
  <2>2. CASE Dequeue
    <3>1. Head(cmdQueue) \in jdwpCmdPacket /\ Tail(cmdQueue) \in Seq(jdwpCmdPacket)
      BY <2>2, Queues DEF Dequeue, TypeOK
    <3>2. QED
      BY <2>2, <3>1 DEF Dequeue, TypeOK
  <2>3. CASE Enqueue
    <3>1. Append(cmdQueue, packet) \in Seq(jdwpCmdPacket)
      BY Queues DEF TypeOK
    <3>2. QED
      BY <2>3, <3>1 DEF Enqueue, TypeOK
  <2>4. QED
    BY <1>5, <2>1, <2>2, <2>3
<1>6. CASE ReadError
  BY <1>6 DEF ReadError, TypeOK
<1>7. CASE WritePacket
  <2>1. answered' \in [Debuggers -> SUBSET Ids]
    BY <1>7 DEF WritePacket, TypeOK, jdwpCmdPacket
  <2>2. QED
    BY <1>7, <2>1 DEF WritePacket, TypeOK
<1>8. CASE UNCHANGED vars
  BY <1>8 DEF vars, TypeOK
<1>9. QED
  BY <1>1, <1>2, <1>3, <1>4, <1>5, <1>6, <1>7, <1>8, Steps

LEMMA SessionStep ==
    ASSUME IInv, [Next]_vars
    PROVE  OneSession'
<1> USE DEF IInv, OneSession, network, env, agent
<1>1. ASSUME NEW d \in Debuggers, Send(d) PROVE OneSession'
  <2>1. toJVM' # <<>> => connection = "open"
    BY <1>1, NobodyIsNoDebugger DEF Send, NothingEarly
  <2>2. QED
    BY <1>1, <2>1 DEF Send
<1>2. ASSUME NEW d \in Debuggers, Connect(d) \/ Greet(d) \/ Leave(d) \/ HangUp(d) \/ Accept(d)
      PROVE  OneSession'
  BY <1>2 DEF Connect, Greet, Leave, HangUp, Accept
<1>3. CASE StartListening \/ AcceptTimeout \/ SessionOver \/ StopListening
  BY <1>3 DEF StartListening, AcceptTimeout, SessionOver, StopListening
<1>4. CASE HandshakeDone \/ HandshakeTimeout \/ Close \/ Reset
  BY <1>4 DEF HandshakeDone, HandshakeTimeout, HandshakeFails, Close, Reset, Disconnected
<1>5. CASE ReadPacket \/ ReadError \/ Dequeue \/ WritePacket \/ Enqueue
  BY <1>5 DEF ReadPacket, ReadError, Dequeue, WritePacket, Enqueue
<1>6. CASE UNCHANGED vars
  BY <1>6 DEF vars
<1>7. QED
  BY <1>1, <1>2, <1>3, <1>4, <1>5, <1>6, Steps

LEMMA EarlyStep ==
    ASSUME IInv, [Next]_vars
    PROVE  NothingEarly'
<1> USE DEF IInv, NothingEarly, network, env, agent
<1>1. ASSUME NEW d \in Debuggers, Connect(d) \/ Greet(d) \/ Leave(d) \/ HangUp(d)
      PROVE  NothingEarly'
  BY <1>1 DEF Connect, Greet, Leave, HangUp, TypeOK
<1>9. ASSUME NEW d \in Debuggers, Send(d) PROVE NothingEarly'
  <2>1. /\ debugger[d] = "attached"
        /\ UNCHANGED <<debugger, answered, connection, peer, backlog>>
        /\ \A e \in Debuggers : e # d => sent'[e] = sent[e]
    BY <1>9 DEF Send, TypeOK
  <2>2. QED
    BY <2>1
<1>2. ASSUME NEW d \in Debuggers, Accept(d) PROVE NothingEarly'
  BY <1>2 DEF Accept, OneSession
<1>3. CASE HandshakeDone
  <2>1. peer \in Debuggers /\ connection' = "open" /\ UNCHANGED <<sent, answered, peer, backlog>>
    BY <1>3 DEF HandshakeDone, OneSession
  <2>2. \A e \in Debuggers : debugger'[e] = (IF e = peer THEN "attached" ELSE debugger[e])
    BY <1>3, <2>1 DEF HandshakeDone, TypeOK
  <2>3. QED
    BY <2>1, <2>2
<1>4. CASE WritePacket
  <2>1. debugger[peer] \notin {"away", "connecting", "greeting"} \/ answered' = answered
    BY <1>4 DEF WritePacket
  <2>2. QED
    BY <1>4, <2>1 DEF WritePacket, TypeOK
<1>5. CASE HandshakeTimeout \/ Close
  BY <1>5, NobodyIsNoDebugger DEF HandshakeTimeout, Close, Disconnected, TypeOK
<1>6. CASE StopListening
  BY <1>6 DEF StopListening, TypeOK
<1>7. CASE StartListening \/ AcceptTimeout \/ SessionOver \/ Reset
           \/ ReadPacket \/ ReadError \/ Enqueue \/ Dequeue
  BY <1>7 DEF StartListening, AcceptTimeout, SessionOver, Reset,
              ReadPacket, ReadError, Enqueue, Dequeue
<1>8. CASE UNCHANGED vars
  BY <1>8 DEF vars
<1>10. QED
  BY <1>1, <1>2, <1>3, <1>4, <1>5, <1>6, <1>7, <1>8, <1>9, Steps

-----------------------------------------------------------------------------
\* The numbers that Pipeline is about.
LEMMA Numbers ==
    ASSUME IInv, connection = "open"
    PROVE  /\ peer \in Debuggers /\ sent[peer] \in Nat
           /\ toJVM \in Seq(jdwpCmdPacket) /\ Len(toJVM) \in Nat
           /\ cmdQueue \in Seq(jdwpCmdPacket) /\ Len(cmdQueue) \in Nat
           /\ packet \in jdwpCmdPacket /\ command \in jdwpCmdPacket
           /\ command.id \in Nat \ {0} /\ packet.id \in Nat
           /\ Unread \in Int /\ Unqueued \in Int /\ Waiting \in Int /\ Served \in Int
           /\ answered[peer] \subseteq Nat
<1>1. peer \in Debuggers
  BY DEF IInv, OneSession
<1>2. QED
  BY <1>1, CommandsAreBounded
  DEF IInv, TypeOK, jdwpCmdPacket, Ids, Unread, Unqueued, Waiting, Served

\* Steps that leave alone what a session is about.
LEMMA SameSession ==
    ASSUME IInv, connection = "open" => Pipeline,
           connection' = "open" => connection = "open",
           UNCHANGED <<peer, toJVM, cmdQueue, packet, command>>,
           peer \in Debuggers => UNCHANGED <<sent[peer], answered[peer]>>,
           reader' = "read" <=> reader = "read",
           loop' = "replying" <=> loop = "replying"
    PROVE  connection' = "open" => Pipeline'
<1> SUFFICES ASSUME connection' = "open" PROVE Pipeline'
  OBVIOUS
<1>1. peer \in Debuggers /\ Pipeline
  BY Numbers
<1>2. UNCHANGED <<Unread, Unqueued, Waiting, Served>>
  BY <1>1 DEF Unread, Unqueued, Waiting, Served
<1>3. QED
  BY <1>1, <1>2 DEF Pipeline

LEMMA PipelineStep ==
    ASSUME IInv, [Next]_vars
    PROVE  connection' = "open" => Pipeline'
<1> DEFINE Goal == connection' = "open" => Pipeline'
<1> SUFFICES Goal
  OBVIOUS
<1> USE DEF network, env, agent
<1>1. connection = "open" => Pipeline
  BY DEF IInv
<1>2. ASSUME NEW d \in Debuggers, Send(d) PROVE Goal
  <2>1. CASE peer = d
    <3>1. connection = "open" /\ Pipeline
      BY <1>1, <1>2, <2>1 DEF Send, IInv, NothingEarly
    <3>2. PICK cmd \in {"Dispose", "other"} :
                  toJVM' = Append(toJVM, [id |-> NextId(d), cmd |-> cmd])
      BY <1>2, <2>1 DEF Send
    <3> DEFINE p == [id |-> NextId(d), cmd |-> cmd]
    <3>3. p \in jdwpCmdPacket /\ p.id = sent[d] + 1
      BY <1>2, NewCommand DEF Send, IInv
    <3>4. sent'[peer] = sent[peer] + 1
      BY <1>2, <2>1 DEF Send, IInv, TypeOK
    <3>5. /\ Len(toJVM') = Len(toJVM) + 1
          /\ \A i \in 1 .. Len(toJVM) : toJVM'[i] = toJVM[i]
          /\ toJVM'[Len(toJVM) + 1] = p
      BY <3>1, <3>2, <3>3, Numbers, Queues, SMTT(20)
    <3> HIDE DEF p
    <3>6. UNCHANGED <<peer, cmdQueue, packet, command, reader, loop, answered>>
      BY <1>2 DEF Send
    <3>7. Unread' = Unread
      <4>1. sent[peer] \in Nat /\ Len(toJVM) \in Nat
        BY <3>1, Numbers
      <4>2. Unread' = (sent[peer] + 1) - (Len(toJVM) + 1)
        BY <3>4, <3>5, <3>6 DEF Unread
      <4>3. QED
        BY <4>1, <4>2 DEF Unread
    <3>8. UNCHANGED <<Unqueued, Waiting, Served>>
      BY <3>6, <3>7 DEF Unqueued, Waiting, Served
    <3>9. \A i \in 1 .. Len(toJVM') : toJVM'[i].id = Unread + i
      <4>1. TAKE i \in 1 .. Len(toJVM')
      <4>2. CASE i \in 1 .. Len(toJVM)
        BY <3>1, <3>5, <4>2 DEF Pipeline
      <4>3. CASE i = Len(toJVM) + 1
        <5>1. toJVM'[i] = p /\ p.id = Unread + i
          <6>1. sent[peer] \in Nat /\ Len(toJVM) \in Nat
            BY <3>1, Numbers
          <6>2. Unread = sent[peer] - Len(toJVM) /\ p.id = sent[peer] + 1
            BY <2>1, <3>3 DEF Unread
          <6>3. QED
            BY <3>5, <4>3, <6>1, <6>2
        <5>2. QED
          BY <5>1
      <4>4. QED
        BY <3>1, <3>5, <4>2, <4>3, Numbers
    <3>10. QED
      BY <3>1, <3>6, <3>7, <3>8, <3>9 DEF Pipeline
  <2>2. CASE peer # d
    BY <1>1, <1>2, <2>2, SameSession DEF Send, IInv, TypeOK
  <2>3. QED
    BY <2>1, <2>2
<1>3. ASSUME NEW d \in Debuggers, Connect(d) \/ Greet(d) \/ Leave(d) \/ HangUp(d) PROVE Goal
  BY <1>1, <1>3, SameSession DEF Connect, Greet, Leave, HangUp
<1>4. ASSUME NEW d \in Debuggers, Accept(d) PROVE Goal
  BY <1>4 DEF Accept
<1>5. CASE StartListening \/ AcceptTimeout \/ SessionOver \/ StopListening \/ ReadError
  BY <1>1, <1>5, SameSession
  DEF StartListening, AcceptTimeout, SessionOver, StopListening, ReadError, IInv, OneSession
<1>6. CASE HandshakeTimeout \/ Close
  BY <1>6 DEF HandshakeTimeout, Close, Disconnected
<1>7. CASE Reset
  BY <1>7 DEF Reset, IInv, OneSession
<1>8. CASE HandshakeDone
  <2>1. /\ peer \in Debuggers /\ sent[peer] = 0 /\ answered[peer] = {}
        /\ toJVM = <<>> /\ cmdQueue = <<>> /\ reader = "none"
    BY <1>8 DEF HandshakeDone, IInv, OneSession, NothingEarly
  <2>2. /\ UNCHANGED <<peer, sent, answered, toJVM, cmdQueue, reader>>
        /\ loop' = "accepted"
    BY <1>8 DEF HandshakeDone
  <2>3. Unread' = 0 /\ Unqueued' = 0 /\ Waiting' = 0 /\ Served' = 0
    BY <2>1, <2>2 DEF Unread, Unqueued, Waiting, Served
  <2>4. QED
    BY <2>1, <2>2, <2>3 DEF Pipeline
<1>9. CASE ReadPacket
  <2>1. connection = "open" /\ Pipeline
    BY <1>1, <1>9 DEF ReadPacket
  <2>2. /\ packet' = toJVM[1] /\ Len(toJVM) > 0 /\ Len(toJVM') = Len(toJVM) - 1
        /\ \A i \in 1 .. Len(toJVM') : toJVM'[i] = toJVM[i + 1]
    BY <1>9, <2>1, Numbers, Queues DEF ReadPacket
  <2>3. /\ UNCHANGED <<peer, sent, answered, cmdQueue, command, loop>>
        /\ reader = "reading" /\ reader' = "read"
    BY <1>9 DEF ReadPacket
  <2>4. Unread' = Unread + 1 /\ Unqueued' = Unqueued
    BY <2>1, <2>2, <2>3, Numbers DEF Unread, Unqueued
  <2>5. UNCHANGED <<Waiting, Served>>
    BY <2>3, <2>4 DEF Waiting, Served
  <2>6. \A i \in 1 .. Len(toJVM') : toJVM'[i].id = Unread' + i
    <3>1. TAKE i \in 1 .. Len(toJVM')
    <3>2. i + 1 \in 1 .. Len(toJVM) /\ i \in Nat
      BY <2>1, <2>2, Numbers
    <3>3. toJVM[i + 1].id = Unread + (i + 1)
      BY <2>1, <3>2 DEF Pipeline
    <3>4. toJVM'[i] = toJVM[i + 1] /\ Unread' = Unread + 1
      BY <2>2, <2>4
    <3>5. Unread \in Int
      BY <2>1, Numbers
    <3>6. QED
      BY <3>2, <3>3, <3>4, <3>5
  <2>7. packet'.id = Unread'
    BY <2>1, <2>2, <2>4, Numbers DEF Pipeline
  <2>8. QED
    BY <2>1, <2>3, <2>5, <2>6, <2>7 DEF Pipeline
<1>10. CASE Enqueue
  <2>1. SUFFICES ASSUME connection' = "open" PROVE Pipeline'
    OBVIOUS
  <2>2. connection = "open" /\ Pipeline
    BY <1>1, <1>10, <2>1 DEF Enqueue
  <2>3. /\ UNCHANGED <<peer, sent, answered, toJVM, packet, command, loop>>
        /\ reader = "read" /\ reader' = "reading"
    BY <1>10 DEF Enqueue
  <2>4. /\ Len(cmdQueue') = Len(cmdQueue) + 1
        /\ \A i \in 1 .. Len(cmdQueue) : cmdQueue'[i] = cmdQueue[i]
        /\ cmdQueue'[Len(cmdQueue) + 1] = packet
    BY <1>10, <2>2, Numbers, Queues DEF Enqueue
  <2>5. Unread' = Unread /\ Unqueued' = Unread /\ Waiting' = Waiting /\ Served' = Served
    <3>1. Unread' = Unread
      BY <2>3 DEF Unread
    <3>2. Unqueued' = Unread /\ Unqueued = Unread - 1
      BY <2>2, <2>3, <3>1, Numbers DEF Unqueued
    <3>3. Waiting' = Unread - (Len(cmdQueue) + 1) /\ Waiting = (Unread - 1) - Len(cmdQueue)
      BY <2>4, <3>2 DEF Waiting
    <3>4. Waiting' = Waiting
      BY <2>2, <3>3, Numbers
    <3>5. QED
      BY <2>3, <3>1, <3>2, <3>4 DEF Served
  <2>6. \A i \in 1 .. Len(cmdQueue') : cmdQueue'[i].id = Waiting + i
    <3>1. TAKE i \in 1 .. Len(cmdQueue')
    <3>2. CASE i \in 1 .. Len(cmdQueue)
      BY <2>2, <2>4, <3>2 DEF Pipeline
    <3>3. CASE i = Len(cmdQueue) + 1
      <4>1. packet.id = Unread
        BY <2>2, <2>3 DEF Pipeline
      <4>2. Unread = Waiting + i
        <5>1. Unread \in Int /\ Len(cmdQueue) \in Nat
          BY <2>2, Numbers
        <5>2. Waiting = (Unread - 1) - Len(cmdQueue)
          BY <2>3 DEF Waiting, Unqueued
        <5>3. QED
          BY <3>3, <5>1, <5>2
      <4>3. QED
        BY <2>4, <3>3, <4>1, <4>2
    <3>4. QED
      BY <2>2, <2>4, <3>2, <3>3, Numbers
  <2>7. QED
    BY <2>2, <2>3, <2>5, <2>6 DEF Pipeline
<1>11. CASE Dequeue
  <2>1. connection = "open" /\ Pipeline
    BY <1>1, <1>11 DEF Dequeue, IInv, OneSession
  <2>2. /\ command' = cmdQueue[1] /\ Len(cmdQueue) > 0 /\ Len(cmdQueue') = Len(cmdQueue) - 1
        /\ \A i \in 1 .. Len(cmdQueue') : cmdQueue'[i] = cmdQueue[i + 1]
    BY <1>11, <2>1, Numbers, Queues DEF Dequeue
  <2>3. /\ UNCHANGED <<peer, sent, answered, toJVM, packet, reader>>
        /\ loop = "serving" /\ loop' = "replying"
    BY <1>11 DEF Dequeue
  <2>4. UNCHANGED <<Unread, Unqueued>>
    BY <2>3 DEF Unread, Unqueued
  <2>5. Waiting' = Waiting + 1 /\ Served' = Served
    BY <2>1, <2>2, <2>3, <2>4, Numbers DEF Waiting, Served
  <2>6. /\ \A i \in 1 .. Len(cmdQueue') : cmdQueue'[i].id = Waiting' + i
        /\ command'.id = Waiting'
    <3>1. command'.id = Waiting'
      BY <2>1, <2>2, <2>5, Numbers DEF Pipeline
    <3>2. ASSUME NEW i \in 1 .. Len(cmdQueue') PROVE cmdQueue'[i].id = Waiting' + i
      <4>1. i + 1 \in 1 .. Len(cmdQueue) /\ i \in Nat
        BY <2>1, <2>2, Numbers
      <4>2. cmdQueue[i + 1].id = Waiting + (i + 1)
        BY <2>1, <4>1 DEF Pipeline
      <4>3. QED
        <5>1. cmdQueue'[i] = cmdQueue[i + 1] /\ Waiting' = Waiting + 1
          BY <2>2, <2>5
        <5>2. Waiting \in Int
          BY <2>1, Numbers
        <5>3. QED
          BY <4>1, <4>2, <5>1, <5>2
    <3>3. QED
      BY <3>1, <3>2
  <2>7. QED
    BY <2>1, <2>3, <2>4, <2>5, <2>6 DEF Pipeline
<1>12. CASE WritePacket
  <2>1. connection = "open" /\ Pipeline
    BY <1>1, <1>12 DEF WritePacket, IInv, OneSession
  <2>2. /\ UNCHANGED <<peer, sent, toJVM, cmdQueue, packet, reader>>
        /\ loop = "replying" /\ loop' # "replying"
    BY <1>12 DEF WritePacket
  <2>3. UNCHANGED <<Unread, Unqueued, Waiting>> /\ Served' = Waiting /\ Served = Waiting - 1
    BY <2>1, <2>2, Numbers DEF Unread, Unqueued, Waiting, Served
  <2>4. answered'[peer] \subseteq answered[peer] \cup {Waiting}
    BY <1>12, <2>1, <2>2, Numbers DEF WritePacket, Pipeline, IInv, TypeOK
  <2>5. \A id \in answered'[peer] : id <= Waiting
    <3>1. \A id \in answered[peer] : id \in Nat /\ id <= Waiting - 1
      BY <2>1, <2>3, Numbers DEF Pipeline
    <3>2. Waiting \in Int
      BY <2>1, Numbers
    <3>3. QED
      BY <2>4, <3>1, <3>2
  <2>6. QED
    BY <2>1, <2>2, <2>3, <2>5 DEF Pipeline
<1>13. CASE UNCHANGED vars
  BY <1>1, <1>13, SameSession DEF vars
<1>14. QED
  BY <1>2, <1>3, <1>4, <1>5, <1>6, <1>7, <1>8, <1>9, <1>10, <1>11, <1>12, <1>13, Steps

LEMMA Invariance == Spec => []IInv
<1>1. ASSUME IInv, [Next]_vars PROVE IInv'
  BY <1>1, TypeStep, SessionStep, EarlyStep, PipelineStep DEF IInv
<1>2. QED
  BY <1>1, Start, PTL DEF Spec

\* Every place of the agent and of its connection holds what belongs there.
THEOREM TypeCorrect == Spec => []TypeOK
<1>1. IInv => TypeOK
  BY DEF IInv
<1>2. QED
  BY <1>1, Invariance, PTL

-----------------------------------------------------------------------------
Session == IF connection = "open" THEN peer ELSE "nobody"
Asked   == [d \in Debuggers |-> 1 .. sent[d]]

LEMMA InitialSession == Init => Sessions!Init
<1> SUFFICES ASSUME Init PROVE Sessions!Init
  OBVIOUS
<1>1. connection = "closed" /\ answered = [d \in Debuggers |-> {}]
  BY DEF Init
<1>2. \A d \in Debuggers : 1 .. sent[d] = {}
  <2>1. \A d \in Debuggers : sent[d] = 0
    BY DEF Init
  <2>2. 1 .. 0 = {}
    OBVIOUS
  <2>3. QED
    BY <2>1, <2>2
<1>3. QED
  BY <1>1, <1>2 DEF Sessions!Init, Sessions!Nobody

\* A step that is no step of a session.
LEMMA Stutter ==
    ASSUME UNCHANGED <<Session, sent, answered>>
    PROVE  UNCHANGED Sessions!vars
  BY DEF Sessions!vars, Session

LEMMA SessionsStep ==
    ASSUME IInv, [Next]_vars
    PROVE  [Sessions!Next]_(Sessions!vars)
<1> USE DEF network, env, agent
<1>1. ASSUME NEW d \in Debuggers, Send(d) PROVE Sessions!Next
  <2>1. sent[d] + 1 \in Ids /\ sent[d] \in Nat
    BY <1>1, NewCommand, CommandsAreBounded DEF Send, IInv, TypeOK
  <2>2. /\ \A e \in Debuggers : sent'[e] = (IF e = d THEN sent[d] + 1 ELSE sent[e])
        /\ UNCHANGED <<Session, answered>>
    BY <1>1 DEF Send, IInv, TypeOK, Session
  <2>3. Asked' = [Asked EXCEPT ![d] = @ \cup {sent[d] + 1}] /\ sent[d] + 1 \notin Asked[d]
    <3>1. 1 .. sent[d] + 1 = (1 .. sent[d]) \cup {sent[d] + 1}
      BY <2>1
    <3>2. sent[d] + 1 \notin 1 .. sent[d]
      BY <2>1
    <3>3. QED
      BY <2>2, <3>1, <3>2 DEF Asked
  <2>4. PICK id \in Ids : id = sent[d] + 1
    BY <2>1
  <2>5. Sessions!Ask(d, id)
    BY <2>2, <2>3, <2>4 DEF Sessions!Ask, Session, Asked
  <2>6. QED
    BY <2>5, Zenon DEF Sessions!Next
<1>2. CASE HandshakeDone
  <2>1. peer \in Debuggers /\ Session = "nobody" /\ Session' = peer /\ UNCHANGED <<sent, answered>>
    BY <1>2 DEF HandshakeDone, Session, IInv, OneSession
  <2>2. Sessions!Begin(peer)
    BY <2>1 DEF Sessions!Begin, Sessions!Nobody, Session
  <2>3. QED
    BY <2>1, <2>2 DEF Sessions!Next
<1>3. CASE Close
  <2>1. Session' = "nobody" /\ UNCHANGED <<sent, answered>>
    BY <1>3 DEF Close, Disconnected, Session
  <2>2. Sessions!End
    BY <2>1 DEF Sessions!End, Sessions!Nobody, Session
  <2>3. QED
    BY <2>2 DEF Sessions!Next
<1>4. CASE WritePacket
  <2>1. connection = "open" /\ Pipeline /\ UNCHANGED <<Session, sent>>
    BY <1>4 DEF WritePacket, IInv, OneSession, Session
  <2>2. CASE debugger[peer] = "attached"
    <3>1. answered' = [answered EXCEPT ![peer] = @ \cup {command.id}]
      BY <1>4, <2>2 DEF WritePacket
    <3>2. command.id = Waiting /\ \A id \in answered[peer] : id <= Waiting - 1
      BY <1>4, <2>1, Numbers DEF WritePacket, Pipeline, Served
    <3>3. Waiting <= sent[peer] /\ Waiting \in Nat \ {0}
      BY <2>1, <3>2, Numbers DEF Waiting, Unqueued, Unread
    <3>4. command.id \in Asked[peer] \ answered[peer]
      BY <2>1, <3>2, <3>3, Numbers DEF Asked
    <3>5. peer \in Debuggers /\ command.id \in Ids
      BY <2>1, Numbers DEF IInv, TypeOK, jdwpCmdPacket
    <3>6. Sessions!Answer(peer, command.id)
      BY <2>1, <3>1, <3>4 DEF Sessions!Answer, Session, Asked
    <3>7. QED
      BY <3>5, <3>6 DEF Sessions!Next
  <2>3. CASE debugger[peer] # "attached"
    BY <1>4, <2>1, <2>3, Stutter DEF WritePacket
  <2>4. QED
    BY <2>2, <2>3
<1>5. ASSUME NEW d \in Debuggers, Connect(d) \/ Greet(d) \/ Leave(d) \/ HangUp(d) \/ Accept(d)
      PROVE  UNCHANGED Sessions!vars
  <2>1. UNCHANGED <<Session, sent, answered>>
    BY <1>5 DEF Connect, Greet, Leave, HangUp, Accept, Session
  <2>2. QED
    BY <2>1, Stutter
<1>6. CASE \/ StartListening \/ AcceptTimeout \/ HandshakeTimeout \/ SessionOver \/ StopListening
           \/ ReadPacket \/ ReadError \/ Enqueue \/ Dequeue \/ Reset
  <2>1. UNCHANGED <<Session, sent, answered>>
    BY <1>6 DEF StartListening, AcceptTimeout, HandshakeTimeout, HandshakeFails, Disconnected,
                SessionOver, StopListening, ReadPacket, ReadError, Enqueue, Dequeue, Reset,
                Session
  <2>2. QED
    BY <2>1, Stutter
<1>7. CASE UNCHANGED vars
  BY <1>7, Stutter DEF vars, Session
<1>8. QED
  BY <1>1, <1>2, <1>3, <1>4, <1>5, <1>6, <1>7, Steps

\* The agent serves one debugger at a time, and a reply answers a command of the
\* debugger it is sent to that has not been answered: the transport implements
\* DebugSessions, whatever a session leaves unread, queued or unanswered.
THEOREM TransportImplementsSessions == Spec => ImplementsSessions
<1>1. ASSUME IInv, [Next]_vars PROVE [Sessions!Next]_(Sessions!vars)
  BY <1>1, SessionsStep
<1>2. QED
  BY <1>1, InitialSession, Invariance, PTL DEF Spec, ImplementsSessions, Sessions!Spec

-----------------------------------------------------------------------------
\* The debugger at the other end of an open connection is still there.
InSession == connection = "open" /\ debugger[peer] = "attached"

\* It has the replies to what has been served, and to nothing else.
CaughtUp == InSession => answered[peer] = 1 .. Served

\* The replies a debugger has got are to its first commands, without a gap.
RepliesInOrder == \A d \in Debuggers : \E n \in 0 .. sent[d] : answered[d] = 1 .. n

\* Every command of the debugger is answered, with the loop, in the queue, in
\* the reader's hands or on the network.
NothingForgotten ==
    InSession =>
        \A id \in 1 .. sent[peer] :
            \/ id \in answered[peer]
            \/ loop = "replying" /\ command.id = id
            \/ \E i \in 1 .. Len(cmdQueue) : cmdQueue[i].id = id
            \/ reader = "read" /\ packet.id = id
            \/ \E i \in 1 .. Len(toJVM) : toJVM[i].id = id

\* Served is as far as the replies go: only WritePacket takes it on, by one.
LEMMA ServedStep ==
    ASSUME IInv, [Next]_vars, InSession'
    PROVE  \/ Served' = 0 /\ answered'[peer'] = {}
           \/ /\ InSession /\ UNCHANGED <<peer, Served>>
              /\ answered'[peer] = answered[peer]
           \/ /\ InSession /\ UNCHANGED peer /\ Served' = Served + 1
              /\ answered'[peer] = answered[peer] \cup {Served + 1}
              /\ Served + 1 \in 1 .. sent[peer]
<1> DEFINE Goal == \/ Served' = 0 /\ answered'[peer'] = {}
                   \/ /\ InSession /\ UNCHANGED <<peer, Served>>
                      /\ answered'[peer] = answered[peer]
                   \/ /\ InSession /\ UNCHANGED peer /\ Served' = Served + 1
                      /\ answered'[peer] = answered[peer] \cup {Served + 1}
                      /\ Served + 1 \in 1 .. sent[peer]
<1> USE DEF network, env, agent
<1>1. connection = "open" => Pipeline
  BY DEF IInv
<1>2. connection' = "open" /\ debugger'[peer'] = "attached"
  BY DEF InSession
\* Steps that leave alone what Served is made of.
<1>3. ASSUME InSession, UNCHANGED <<peer, sent, answered, toJVM, cmdQueue>>,
             reader' = "read" <=> reader = "read",
             loop' = "replying" <=> loop = "replying"
      PROVE  Goal
  BY <1>3 DEF Served, Waiting, Unqueued, Unread
<1>4. ASSUME NEW d \in Debuggers, Send(d) PROVE Goal
  <2>1. InSession /\ UNCHANGED <<peer, answered, cmdQueue, reader, loop>>
    BY <1>2, <1>4 DEF Send, InSession
  <2>2. /\ peer \in Debuggers /\ sent[peer] \in Nat /\ Len(toJVM) \in Nat
        /\ toJVM \in Seq(jdwpCmdPacket)
    BY <2>1, Numbers DEF InSession
  <2>3. CASE peer = d
    <3>1. PICK cmd \in {"Dispose", "other"} :
                  toJVM' = Append(toJVM, [id |-> NextId(d), cmd |-> cmd])
      BY <1>4, <2>3 DEF Send
    <3> DEFINE p == [id |-> NextId(d), cmd |-> cmd]
    <3>2. p \in jdwpCmdPacket
      BY <1>4, NewCommand DEF Send, IInv
    <3>3. toJVM' = Append(toJVM, p)
      BY <3>1
    <3> HIDE DEF p
    <3>4. Len(toJVM') = Len(toJVM) + 1
      BY <2>2, <3>2, <3>3, Queues
    <3>5. sent'[peer] = sent[peer] + 1
      BY <1>4, <2>3 DEF Send, IInv, TypeOK
    <3>6. Unread' = Unread
      BY <2>1, <2>2, <3>4, <3>5 DEF Unread
    <3>7. QED
      BY <2>1, <3>6 DEF Served, Waiting, Unqueued
  <2>4. CASE peer # d
    <3>1. sent'[peer] = sent[peer] /\ toJVM' = toJVM
      BY <1>4, <2>2, <2>4 DEF Send, IInv, TypeOK
    <3>2. QED
      BY <2>1, <3>1 DEF Served, Waiting, Unqueued, Unread
  <2>5. QED
    BY <2>3, <2>4
<1>5. ASSUME NEW d \in Debuggers, Connect(d) \/ Greet(d) \/ Leave(d) \/ HangUp(d) PROVE Goal
  <2>1. /\ UNCHANGED <<connection, peer, sent, answered, toJVM, cmdQueue, reader, loop>>
        /\ debugger'[peer] = "attached" => debugger[peer] = "attached"
    BY <1>2, <1>5, Numbers DEF Connect, Greet, Leave, HangUp, IInv, TypeOK
  <2>2. InSession
    BY <1>2, <2>1 DEF InSession
  <2>3. QED
    BY <1>3, <2>1, <2>2
<1>6. ASSUME NEW d \in Debuggers, Accept(d) PROVE Goal
  BY <1>2, <1>6 DEF Accept
<1>7. CASE StartListening \/ AcceptTimeout \/ SessionOver \/ ReadError
  BY <1>2, <1>3, <1>7
  DEF StartListening, AcceptTimeout, SessionOver, ReadError, InSession, IInv, OneSession
<1>8. CASE StopListening
  <2>1. UNCHANGED <<connection, peer, sent, answered, toJVM, cmdQueue>>
    BY <1>8 DEF StopListening
  <2>2. /\ reader' = "read" <=> reader = "read"
        /\ loop' = "replying" <=> loop = "replying"
    BY <1>8 DEF StopListening, IInv, OneSession
  <2>3. InSession
    <3>1. peer \in Debuggers
      BY <1>2, <2>1, Numbers
    <3>2. debugger[peer] = "attached"
      BY <1>2, <1>8, <2>1, <3>1 DEF StopListening
    <3>3. QED
      BY <1>2, <2>1, <3>2 DEF InSession
  <2>4. QED
    BY <1>3, <2>1, <2>2, <2>3
<1>9. CASE HandshakeTimeout \/ Close
  BY <1>2, <1>9 DEF HandshakeTimeout, Close, Disconnected
<1>10. CASE Reset
  BY <1>2, <1>10 DEF Reset, IInv, OneSession
<1>11. CASE HandshakeDone
  <2>1. /\ peer \in Debuggers /\ sent[peer] = 0 /\ answered[peer] = {}
        /\ toJVM = <<>> /\ cmdQueue = <<>> /\ reader = "none"
    BY <1>11 DEF HandshakeDone, IInv, OneSession, NothingEarly
  <2>2. /\ UNCHANGED <<peer, sent, answered, toJVM, cmdQueue, reader>>
        /\ loop' = "accepted"
    BY <1>11 DEF HandshakeDone
  <2>3. QED
    BY <2>1, <2>2 DEF Unread, Unqueued, Waiting, Served
<1>12. CASE ReadPacket
  <2>1. InSession /\ UNCHANGED <<peer, sent, answered, cmdQueue, loop>>
    BY <1>2, <1>12 DEF ReadPacket, InSession
  <2>2. Len(toJVM') = Len(toJVM) - 1 /\ reader = "reading" /\ reader' = "read"
    BY <1>12, <2>1, Numbers, Queues DEF ReadPacket, InSession
  <2>3. sent[peer] \in Nat /\ Len(toJVM) \in Nat
    BY <2>1, Numbers DEF InSession
  <2>4. Unread = sent[peer] - Len(toJVM) /\ Unread' = sent[peer] - (Len(toJVM) - 1)
    BY <2>1, <2>2 DEF Unread
  <2>5. Unqueued' = Unqueued
    BY <2>2, <2>3, <2>4 DEF Unqueued
  <2>6. QED
    BY <2>1, <2>5 DEF Waiting, Served
<1>13. CASE Enqueue
  <2>1. InSession /\ UNCHANGED <<peer, sent, answered, toJVM, loop>>
    BY <1>2, <1>13 DEF Enqueue, InSession
  <2>2. Len(cmdQueue') = Len(cmdQueue) + 1 /\ reader = "read" /\ reader' = "reading"
    BY <1>13, <2>1, Numbers, Queues DEF Enqueue, InSession
  <2>3. Unread' = Unread /\ Unread \in Int /\ Len(cmdQueue) \in Nat
    BY <2>1, Numbers DEF Unread, InSession
  <2>4. Waiting' = Waiting
    BY <2>2, <2>3 DEF Waiting, Unqueued
  <2>5. QED
    BY <2>1, <2>4 DEF Served
<1>14. CASE Dequeue
  <2>1. InSession /\ UNCHANGED <<peer, sent, answered, toJVM, reader>>
    BY <1>2, <1>14 DEF Dequeue, InSession
  <2>2. Len(cmdQueue') = Len(cmdQueue) - 1 /\ loop = "serving" /\ loop' = "replying"
    BY <1>14, <2>1, Numbers, Queues DEF Dequeue, InSession
  <2>3. Unqueued' = Unqueued /\ Unqueued \in Int /\ Len(cmdQueue) \in Nat
    BY <2>1, Numbers DEF Unread, Unqueued, InSession
  <2>4. Served' = Served
    BY <2>2, <2>3 DEF Waiting, Served
  <2>5. QED
    BY <2>1, <2>4
<1>15. CASE WritePacket
  <2>1. InSession /\ UNCHANGED <<peer, sent, toJVM, cmdQueue, reader>>
    BY <1>2, <1>15 DEF WritePacket, InSession
  <2>2. loop = "replying" /\ loop' # "replying"
    BY <1>15 DEF WritePacket
  <2>3. Served' = Waiting /\ Served = Waiting - 1 /\ Waiting \in Int
    BY <2>1, <2>2, Numbers DEF Unread, Unqueued, Waiting, Served, InSession
  <2>4. command.id = Waiting
    BY <1>1, <2>1, <2>2 DEF Pipeline, InSession
  <2>5. answered'[peer] = answered[peer] \cup {command.id}
    BY <1>15, <2>1, Numbers DEF WritePacket, InSession, IInv, TypeOK
  <2>6. Served' = Served + 1 /\ command.id = Served + 1 /\ Served + 1 \in 1 .. sent[peer]
    <3>1. Waiting <= sent[peer]
      <4>1. sent[peer] \in Nat /\ Len(toJVM) \in Nat /\ Len(cmdQueue) \in Nat
        BY <2>1, Numbers DEF InSession
      <4>2. Waiting = ((sent[peer] - Len(toJVM)) - (IF reader = "read" THEN 1 ELSE 0)) - Len(cmdQueue)
        BY DEF Unread, Unqueued, Waiting
      <4>3. QED
        BY <4>1, <4>2
    <3>2. Waiting \in Nat \ {0} /\ sent[peer] \in Nat
      BY <2>1, <2>4, Numbers DEF InSession
    <3>3. QED
      BY <2>3, <2>4, <3>1, <3>2
  <2>7. QED
    BY <2>1, <2>5, <2>6
<1>16. CASE UNCHANGED vars
  BY <1>2, <1>3, <1>16 DEF vars, InSession
<1>17. QED
  BY <1>4, <1>5, <1>6, <1>7, <1>8, <1>9, <1>10, <1>11, <1>12, <1>13, <1>14, <1>15, <1>16, Steps

\* Every step keeps the replies in order.
LEMMA RepliesStep ==
    ASSUME IInv, CaughtUp, RepliesInOrder, [Next]_vars
    PROVE  CaughtUp' /\ RepliesInOrder'
<1>1. CaughtUp'
  <2> SUFFICES ASSUME InSession' PROVE answered'[peer'] = 1 .. Served'
    BY DEF CaughtUp
  <2>1. CASE Served' = 0 /\ answered'[peer'] = {}
    BY <2>1
  <2>2. CASE InSession /\ UNCHANGED <<peer, Served>> /\ answered'[peer] = answered[peer]
    BY <2>2 DEF CaughtUp
  <2>3. CASE /\ InSession /\ UNCHANGED peer /\ Served' = Served + 1
             /\ answered'[peer] = answered[peer] \cup {Served + 1}
             /\ Served + 1 \in 1 .. sent[peer]
    <3>1. answered[peer] = 1 .. Served
      BY <2>3 DEF CaughtUp
    <3>2. Served \in Int
      BY <2>3, Numbers DEF InSession
    <3>3. QED
      BY <2>3, <3>1, <3>2
  <2>4. QED
    BY <2>1, <2>2, <2>3, ServedStep
<1>2. RepliesInOrder'
  <2> SUFFICES ASSUME NEW d \in Debuggers
               PROVE  \E n \in 0 .. sent'[d] : answered'[d] = 1 .. n
    BY DEF RepliesInOrder
  <2>1. PICK n \in 0 .. sent[d] : answered[d] = 1 .. n
    BY DEF RepliesInOrder
  <2>2. sent[d] \in Nat /\ sent'[d] \in Nat /\ sent[d] <= sent'[d]
    <3>1. sent'[d] = sent[d] \/ sent'[d] = sent[d] + 1
      BY Steps DEF Connect, Greet, Send, Leave, HangUp, Accept, StartListening, AcceptTimeout,
                   HandshakeDone, HandshakeTimeout, StopListening, ReadPacket, ReadError, Enqueue,
                   Dequeue, WritePacket, SessionOver, Close, Reset, vars, network, env, agent,
                   IInv, TypeOK
    <3>2. QED
      BY <3>1, CommandsAreBounded DEF IInv, TypeOK
  <2>3. CASE answered'[d] = answered[d]
    BY <2>1, <2>2, <2>3
  <2>4. CASE answered'[d] # answered[d]
    <3>1. WritePacket
      BY <2>4, Steps DEF Connect, Greet, Send, Leave, HangUp, Accept, StartListening, AcceptTimeout,
                   HandshakeDone, HandshakeTimeout, StopListening, ReadPacket, ReadError, Enqueue,
                   Dequeue, SessionOver, Close, Reset, vars, network, env, agent
    <3>2. InSession' /\ d = peer /\ peer' = peer
      BY <2>4, <3>1 DEF WritePacket, InSession, IInv, OneSession, TypeOK, env
    <3>3. answered'[d] = 1 .. Served'
      BY <1>1, <3>2 DEF CaughtUp
    <3>4. Served' \in 0 .. sent[d]
      <4>1. Served' = 0 \/ (Served' = Served + 1 /\ Served + 1 \in 1 .. sent[d])
        BY <2>4, <3>2, ServedStep
      <4>2. QED
        BY <2>2, <4>1
    <3>5. QED
      BY <2>2, <3>3, <3>4
  <2>5. QED
    BY <2>3, <2>4
<1>3. QED
  BY <1>1, <1>2

\* A number above a and not above a + n is at one of n places.
LEMMA Between ==
    ASSUME NEW a \in Int, NEW n \in Nat, NEW id \in Nat, id > a, id <= a + n
    PROVE  \E i \in 1 .. n : id = a + i
<1>1. id - a \in 1 .. n /\ id = a + (id - a)
  OBVIOUS
<1>2. QED
  BY <1>1

\* ... and the one place there may be before a.
LEMMA LastPlace ==
    ASSUME NEW a \in Int, NEW h \in {0, 1}, NEW id \in Nat, id <= a, ~(id <= a - h)
    PROVE  id = a /\ h = 1
  OBVIOUS

\* What has not been served is in one of the four places.
LEMMA CommandsHavePlaces ==
    ASSUME IInv, InSession, CaughtUp, NEW id \in 1 .. sent[peer]
    PROVE  \/ id \in answered[peer]
           \/ loop = "replying" /\ command.id = id
           \/ \E i \in 1 .. Len(cmdQueue) : cmdQueue[i].id = id
           \/ reader = "read" /\ packet.id = id
           \/ \E i \in 1 .. Len(toJVM) : toJVM[i].id = id
<1> DEFINE h == IF reader = "read" THEN 1 ELSE 0
           l == IF loop = "replying" THEN 1 ELSE 0
<1>1. Pipeline /\ answered[peer] = 1 .. Served
  BY DEF InSession, CaughtUp, IInv
<1>2. /\ sent[peer] \in Nat /\ Len(toJVM) \in Nat /\ Len(cmdQueue) \in Nat
      /\ Unread \in Int /\ Unqueued \in Int /\ Waiting \in Int /\ Served \in Int
  BY Numbers DEF InSession
<1>3. /\ Unqueued = Unread - h /\ Waiting = Unqueued - Len(cmdQueue) /\ Served = Waiting - l
  BY DEF Unread, Unqueued, Waiting, Served
<1>4. h \in {0, 1} /\ l \in {0, 1} /\ (h = 1 => reader = "read") /\ (l = 1 => loop = "replying")
  OBVIOUS
<1>5. id \in Nat /\ 1 <= id /\ id <= Unread + Len(toJVM)
  <2>1. id \in Nat /\ 1 <= id /\ id <= sent[peer]
    BY <1>2
  <2>2. Unread = sent[peer] - Len(toJVM)
    BY DEF Unread
  <2>3. Unread + Len(toJVM) = sent[peer]
    BY <1>2, <2>2
  <2>4. id <= Unread + Len(toJVM)
    BY <2>1, <2>3
  <2>5. QED
    BY <2>1, <2>4
<1> HIDE DEF h, l
<1>6. \/ id \in 1 .. Served
      \/ id = Waiting /\ l = 1
      \/ \E i \in 1 .. Len(cmdQueue) : id = Waiting + i
      \/ id = Unread /\ h = 1
      \/ \E i \in 1 .. Len(toJVM) : id = Unread + i
  <2>1. id > Unread => \E i \in 1 .. Len(toJVM) : id = Unread + i
    BY <1>2, <1>5, Between
  <2>2. id <= Unread /\ ~(id <= Unqueued) => id = Unread /\ h = 1
    BY <1>2, <1>3, <1>4, <1>5, LastPlace
  <2>3. id <= Unqueued /\ id > Waiting => \E i \in 1 .. Len(cmdQueue) : id = Waiting + i
    <3>1. Unqueued = Waiting + Len(cmdQueue)
      BY <1>2, <1>3
    <3>2. QED
      BY <1>2, <1>5, <3>1, Between
  <2>4. id <= Waiting /\ ~(id <= Served) => id = Waiting /\ l = 1
    BY <1>2, <1>3, <1>4, <1>5, LastPlace
  <2>5. id <= Served => id \in 1 .. Served
    BY <1>2, <1>5
  <2>6. /\ id <= Unread \/ id > Unread
        /\ id <= Waiting \/ id > Waiting
    BY <1>2, <1>5
  <2>7. QED
    BY <2>1, <2>2, <2>3, <2>4, <2>5, <2>6
<1>7. QED
  BY <1>1, <1>4, <1>6 DEF Pipeline

\* A debugger gets the replies to its commands in the order it sent them, none
\* left out, and while it is there no command of it is lost, though the reader
\* and the loop hand it over and the session may be closing (ReadPacket, WritePacket
\* and Close of jdwpTransport.h).
THEOREM CommandsAreAnsweredInOrder == Spec => [](RepliesInOrder /\ NothingForgotten)
<1>1. Init => CaughtUp /\ RepliesInOrder
  <2>1. ASSUME Init PROVE CaughtUp
    BY <2>1 DEF Init, CaughtUp, InSession
  <2>2. ASSUME Init, NEW d \in Debuggers PROVE \E n \in 0 .. sent[d] : answered[d] = 1 .. n
    <3>1. 0 \in 0 .. sent[d] /\ answered[d] = 1 .. 0
      BY <2>2 DEF Init
    <3>2. QED
      BY <3>1
  <2>3. QED
    BY <2>1, <2>2 DEF RepliesInOrder
<1>2. IInv /\ CaughtUp /\ RepliesInOrder /\ [Next]_vars => CaughtUp' /\ RepliesInOrder'
  BY RepliesStep
<1>3. IInv /\ CaughtUp => NothingForgotten
  BY CommandsHavePlaces DEF NothingForgotten
<1>4. QED
  BY <1>1, <1>2, <1>3, Invariance, PTL DEF Spec
=============================================================================
