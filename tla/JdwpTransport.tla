---------------------------- MODULE JdwpTransport ----------------------------
(***************************************************************************)
(* The debugger agent of a JVM and the transport it talks to debuggers by  *)
(* (include/jdwpTransport.h): it listens, accepts a connection, which      *)
(* begins with a handshake, stops listening, and serves the commands of    *)
(* the debugger until the session ends; then it listens again.             *)
(*                                                                         *)
(* One thread of the agent, the reader, is blocked in ReadPacket and puts  *)
(* the commands in a queue; the other, the loop, takes them from there and *)
(* writes the replies.  A session ends when the debugger leaves, which the *)
(* reader finds out, or by the command Dispose, after which the loop       *)
(* closes the connection under the reader.  Debuggers connect and leave    *)
(* whenever they like, and one may connect and say nothing.                *)
(***************************************************************************)
EXTENDS Naturals, Sequences

CONSTANTS Debuggers,              \* debuggers; each connects once
          MaxCommands,            \* bound: commands of a debugger
          can_timeout_accept,     \* capabilities of the transport
          can_timeout_handshake

ASSUME CommandsAreBounded == MaxCommands \in Nat \ {0}
ASSUME CapabilitiesAreBits == {can_timeout_accept, can_timeout_handshake} \subseteq BOOLEAN

Ids == 1 .. MaxCommands
NobodyElse == "nobody"

ASSUME NobodyIsNoDebugger == NobodyElse \notin Debuggers

\* A command packet: every debugger numbers its commands from 1.
jdwpCmdPacket == [id : Ids, cmd : {"Dispose", "other"}]

VARIABLES debugger,     \* per debugger: "away", "connecting", "greeting",
                        \* "attached" or "gone"
          sent,         \* per debugger: how many commands it has sent
          answered,     \* per debugger: the ids of the replies written to it
          backlog,      \* the debuggers that wait to be accepted
          listening,    \* the transport listens
          connection,   \* the transport's connection: "closed", "handshake" or "open"
          peer,         \* the debugger at its other end
          toJVM,        \* what that debugger sent and nobody has read
          loop,         \* the loop: "idle", "accepting", "accepted", "failed",
                        \* "serving", "replying", "closing" or "closed"
          command,      \* the command it serves
          reader,       \* the reader: "none", "reading", "read" or "ended"
          packet,       \* the packet it has read
          cmdQueue      \* the commands between the two

network == <<debugger, sent, answered, backlog, toJVM>>
env     == <<listening, connection, peer>>
agent   == <<loop, command, reader, packet, cmdQueue>>
vars    == <<network, env, agent>>

NoCommand == [id |-> 1, cmd |-> "other"]

TypeOK ==
    /\ debugger \in [Debuggers -> {"away", "connecting", "greeting", "attached", "gone"}]
    /\ sent \in [Debuggers -> 0 .. MaxCommands]
    /\ answered \in [Debuggers -> SUBSET Ids]
    /\ backlog \subseteq Debuggers
    /\ listening \in BOOLEAN
    /\ connection \in {"closed", "handshake", "open"}
    /\ peer \in Debuggers \cup {NobodyElse}
    /\ toJVM \in Seq(jdwpCmdPacket)
    /\ loop \in {"idle", "accepting", "accepted", "failed",
                 "serving", "replying", "closing", "closed"}
    /\ command \in jdwpCmdPacket
    /\ reader \in {"none", "reading", "read", "ended"}
    /\ packet \in jdwpCmdPacket
    /\ cmdQueue \in Seq(jdwpCmdPacket)

Init ==
    /\ debugger = [d \in Debuggers |-> "away"]
    /\ sent = [d \in Debuggers |-> 0]
    /\ answered = [d \in Debuggers |-> {}]
    /\ backlog = {}
    /\ listening = FALSE
    /\ connection = "closed"
    /\ peer = NobodyElse
    /\ toJVM = <<>>
    /\ loop = "idle"
    /\ command = NoCommand
    /\ reader = "none"
    /\ packet = NoCommand
    /\ cmdQueue = <<>>

-----------------------------------------------------------------------------
(***************************************************************************)
(* The debuggers.                                                          *)
(***************************************************************************)
Connect(d) ==
    /\ debugger[d] = "away"
    /\ listening
    /\ debugger' = [debugger EXCEPT ![d] = "connecting"]
    /\ backlog' = backlog \cup {d}
    /\ UNCHANGED <<sent, answered, toJVM, env, agent>>

Greet(d) ==
    /\ debugger[d] = "connecting"
    /\ debugger' = [debugger EXCEPT ![d] = "greeting"]
    /\ UNCHANGED <<sent, answered, backlog, toJVM, env, agent>>

\* Variant with a bug: the number of the command before.
PreviousId(d) == sent[d]

NextId(d) == sent[d] + 1

\* A command may be on its way when the connection is closed: it is lost.
Send(d) ==
    /\ debugger[d] = "attached"
    /\ sent[d] < MaxCommands
    /\ sent' = [sent EXCEPT ![d] = @ + 1]
    /\ IF peer = d
       THEN \E cmd \in {"Dispose", "other"} :
               toJVM' = Append(toJVM, [id |-> NextId(d), cmd |-> cmd])
       ELSE UNCHANGED toJVM
    /\ UNCHANGED <<debugger, answered, backlog, env, agent>>

Leave(d) ==
    /\ debugger[d] \in {"connecting", "greeting", "attached"}
    /\ debugger' = [debugger EXCEPT ![d] = "gone"]
    /\ backlog' = backlog \ {d}
    /\ UNCHANGED <<sent, answered, toJVM, env, agent>>

\* The debugger finds that the JVM has closed the connection.
HangUp(d) ==
    /\ debugger[d] = "attached"
    /\ peer # d
    /\ debugger' = [debugger EXCEPT ![d] = "gone"]
    /\ UNCHANGED <<sent, answered, backlog, toJVM, env, agent>>

-----------------------------------------------------------------------------
(***************************************************************************)
(* Listening and accepting.                                                *)
(***************************************************************************)
StartListening ==
    /\ loop = "idle"
    /\ loop' = "accepting"
    /\ listening' = TRUE
    /\ UNCHANGED <<network, connection, peer, command, reader, packet, cmdQueue>>

Accept(d) ==
    /\ loop = "accepting" /\ connection = "closed"
    /\ d \in backlog
    /\ backlog' = backlog \ {d}
    /\ connection' = "handshake"
    /\ peer' = d
    /\ UNCHANGED <<debugger, sent, answered, toJVM, listening, agent>>

\* No debugger has connected in time; one may still, until StopListening.
AcceptTimeout ==
    /\ can_timeout_accept
    /\ loop = "accepting" /\ connection = "closed"
    /\ backlog = {}
    /\ loop' = "failed"
    /\ UNCHANGED <<network, env, command, reader, packet, cmdQueue>>

\* Accept returns with an open connection.
HandshakeDone ==
    /\ connection = "handshake" /\ debugger[peer] = "greeting"
    /\ connection' = "open"
    /\ debugger' = [debugger EXCEPT ![peer] = "attached"]
    /\ loop' = "accepted"
    /\ UNCHANGED <<sent, answered, backlog, listening, peer, toJVM,
                   command, reader, packet, cmdQueue>>

\* The debugger at the other end has left.
PeerGone == \E d \in Debuggers : peer = d /\ debugger[d] = "gone"

\* The end of a connection, as both sides see it.
Disconnected ==
    /\ connection' = "closed"
    /\ peer' = NobodyElse
    /\ toJVM' = <<>>

\* Variant with a bug: the transport waits for the handshake without a limit.
HandshakeWaits == connection = "handshake" /\ PeerGone

\* The debugger has said nothing in time, or it has gone.
HandshakeFails ==
    /\ connection = "handshake"
    /\ PeerGone \/ can_timeout_handshake

\* The handshake fails in Accept, which closes the connection that it began with.
HandshakeTimeout ==
    /\ HandshakeFails
    /\ Disconnected
    /\ debugger' = [debugger EXCEPT ![peer] = "gone"]
    /\ loop' = "failed"
    /\ UNCHANGED <<sent, answered, backlog, listening, command, reader, packet, cmdQueue>>

\* The connections that wait are refused.  The session, if there is one, begins.
StopListening ==
    /\ loop \in {"accepted", "failed"}
    /\ listening' = FALSE
    /\ backlog' = {}
    /\ debugger' = [d \in Debuggers |-> IF d \in backlog THEN "gone" ELSE debugger[d]]
    /\ IF loop = "accepted" THEN loop' = "serving" /\ reader' = "reading"
                            ELSE loop' = "idle" /\ UNCHANGED reader
    /\ UNCHANGED <<sent, answered, connection, peer, toJVM, command, packet, cmdQueue>>

-----------------------------------------------------------------------------
(***************************************************************************)
(* The reader.                                                             *)
(***************************************************************************)
ReadPacket ==
    /\ reader = "reading"
    /\ connection = "open" /\ toJVM # <<>>
    /\ reader' = "read"
    /\ packet' = Head(toJVM)
    /\ toJVM' = Tail(toJVM)
    /\ UNCHANGED <<debugger, sent, answered, backlog, env, loop, command, cmdQueue>>

\* Variant with a bug: only an own call of Close ends ReadPacket.
ReadErrorAfterClose ==
    /\ reader = "reading"
    /\ connection = "closed"
    /\ reader' = "ended"
    /\ UNCHANGED <<network, env, loop, command, packet, cmdQueue>>

\* ReadPacket returns an error: the debugger has left, or the loop has closed
\* the connection.
ReadError ==
    /\ reader = "reading"
    /\ connection = "closed" \/ (PeerGone /\ toJVM = <<>>)
    /\ reader' = "ended"
    /\ UNCHANGED <<network, env, loop, command, packet, cmdQueue>>

Enqueue ==
    /\ reader = "read"
    /\ reader' = "reading"
    /\ cmdQueue' = Append(cmdQueue, packet)
    /\ UNCHANGED <<network, env, loop, command, packet>>

-----------------------------------------------------------------------------
(***************************************************************************)
(* The loop, in a session.                                                 *)
(***************************************************************************)
Dequeue ==
    /\ loop = "serving"
    /\ cmdQueue # <<>>
    /\ loop' = "replying"
    /\ command' = Head(cmdQueue)
    /\ cmdQueue' = Tail(cmdQueue)
    /\ UNCHANGED <<network, env, reader, packet>>

\* The reply has the id of the command.  When the debugger has gone, WritePacket
\* returns an error, and the reader will too.
WritePacket ==
    /\ loop = "replying"
    /\ loop' = IF command.cmd = "Dispose" THEN "closing" ELSE "serving"
    /\ answered' = IF debugger[peer] = "attached"
                   THEN [answered EXCEPT ![peer] = @ \cup {command.id}]
                   ELSE answered
    /\ UNCHANGED <<debugger, sent, backlog, toJVM, env, command, reader, packet, cmdQueue>>

\* The reader has ended, and what it has left is served.
SessionOver ==
    /\ loop = "serving"
    /\ reader = "ended" /\ cmdQueue = <<>>
    /\ loop' = "closing"
    /\ UNCHANGED <<network, env, command, reader, packet, cmdQueue>>

\* Variant with a bug: the loop closes when the reader is through.
CloseAfterReader ==
    /\ loop = "closing" /\ reader = "ended"
    /\ loop' = "closed"
    /\ Disconnected
    /\ UNCHANGED <<debugger, sent, answered, backlog, listening,
                   command, reader, packet, cmdQueue>>

\* The reader may be in ReadPacket, which Close ends.
Close ==
    /\ loop = "closing"
    /\ loop' = "closed"
    /\ Disconnected
    /\ UNCHANGED <<debugger, sent, answered, backlog, listening,
                   command, reader, packet, cmdQueue>>

\* Variant with a bug: what the reader has left stays in the queue.
KeepQueue ==
    /\ loop = "closed"
    /\ reader = "ended"
    /\ loop' = "idle"
    /\ reader' = "none"
    /\ UNCHANGED <<network, env, command, packet, cmdQueue>>

\* What the reader has read after Dispose is thrown away, when it has ended.
Reset ==
    /\ loop = "closed"
    /\ reader = "ended"
    /\ loop' = "idle"
    /\ reader' = "none"
    /\ cmdQueue' = <<>>
    /\ UNCHANGED <<network, env, command, packet>>

-----------------------------------------------------------------------------
Debugger(d) == Connect(d) \/ Greet(d) \/ Send(d) \/ Leave(d) \/ HangUp(d)

Reader == ReadPacket \/ ReadError \/ Enqueue

Loop ==
    \/ StartListening \/ (\E d \in Debuggers : Accept(d)) \/ HandshakeDone
    \/ StopListening
    \/ Dequeue \/ WritePacket \/ SessionOver \/ Close \/ Reset

Next ==
    \/ \E d \in Debuggers : Debugger(d)
    \/ AcceptTimeout
    \/ HandshakeTimeout
    \/ Reader
    \/ Loop

\* The agent's threads run; a handshake is not waited for longer than its time;
\* a debugger finds out that its connection was closed.
Fairness ==
    /\ WF_vars(Reader)
    /\ WF_vars(Loop)
    /\ WF_vars(HandshakeTimeout)
    /\ \A d \in Debuggers : WF_vars(HangUp(d))

Spec == Init /\ [][Next]_vars
FairSpec == Spec /\ Fairness

-----------------------------------------------------------------------------
(***************************************************************************)
(* Properties.                                                             *)
(***************************************************************************)
Sessions == INSTANCE DebugSessions WITH
    session <- IF connection = "open" THEN peer ELSE "nobody",
    asked   <- [d \in Debuggers |-> 1 .. sent[d]]

\* Although every debugger numbers its commands from 1, and a session may end
\* with commands unread, in the reader's hands, in the queue or being served: a
\* reply answers a command of the debugger it is sent to, and each only once.
ImplementsSessions == Sessions!Spec

\* A debugger that connects is accepted or refused, also when the one that the
\* JVM has just accepted says nothing.
NobodyWaitsInVain ==
    \A d \in Debuggers :
        debugger[d] \in {"connecting", "greeting"} ~> debugger[d] \in {"attached", "gone"}

\* Every command is answered, or its debugger has gone or finds the connection
\* closed; in particular Close gets through although the reader is in ReadPacket.
EveryCommandIsAnswered ==
    \A d \in Debuggers, id \in Ids :
        sent[d] >= id ~> id \in answered[d] \/ debugger[d] = "gone"

\* When a debugger leaves in the middle of a session, the JVM comes to listen for
\* the next one.
ListensAgain ==
    \A d \in Debuggers : peer = d /\ debugger[d] = "gone" ~> listening
=============================================================================
