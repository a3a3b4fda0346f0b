------------------------------ MODULE ArqClose ------------------------------
(***************************************************************************)
(* How a tunnelled stream ends (internal/arq/arq.go): the close handshake  *)
(* of the client's and the server's ARQ over a network that loses and      *)
(* reorders, with the data still in the buffers.                           *)
(*                                                                         *)
(*   close_read   the local application sent EOF, the peer should drain    *)
(*   close_write  the local application takes no more, the peer should     *)
(*                stop sending                                             *)
(*   rst          both directions are dropped                              *)
(*                                                                         *)
(* The state of an endpoint is a record and a handler is an operator from  *)
(* records to records, so that a chain of calls (ReceiveControlAck ->      *)
(* Close -> settleTerminalDrain -> emitTerminalPacket -> ...) reads as it  *)
(* does in the code.  A handler is one step.  Separate steps are the gaps  *)
(* of the goroutines: ioLoop between its check, its read and the insertion;*)
(* writeLoop between emptying rcvBuf, writing, and the look that finds     *)
(* nothing to write; a packet between rxChan and rcvBuf.                   *)
(*                                                                         *)
(* ArqData shows how chunks travel; here a chunk is in sndBuf until its    *)
(* ACK arrives and may be sent again at any time.                          *)
(***************************************************************************)
EXTENDS Integers, FiniteSets

CONSTANTS
    Client, Server,
    Scenes      \* the environments a behaviour may have:
                \*   chunks    how many chunks each application sends at most
                \*   fragile   endpoints whose local connection may fail
                \*   timers    the timers that may expire
                \*   losses    how many packets the network loses at most

Ends == {Client, Server}
TimerNames == {"drain", "ack", "grace", "inactivity", "retries"}

ASSUME EndsAssumption ==
    /\ Client # Server
    /\ Scenes \subseteq [chunks : [Ends -> Nat], fragile : SUBSET Ends,
                         timers : SUBSET TimerNames, losses : Nat]

Peer(e) == CHOOSE p \in Ends : p # e

Closings == {"close_read", "close_write", "rst"}

VARIABLES
    scene,      \* the environment of this behaviour
    ends,       \* the ARQ of each endpoint
    net,        \* packets under way
    lost,       \* how many packets were lost
    early,      \* history: chunks read before the endpoint sent close_read
    written     \* history: chunks written to the endpoint's local connection

vars == <<scene, ends, net, lost, early, written>>

Packet(e, type, n) == [to |-> e, type |-> type, n |-> n]
AckOf(type)        == CASE type = "close_read"  -> "close_read_ack"
                        [] type = "close_write" -> "close_write_ack"
                        [] type = "rst"         -> "rst_ack"

NewARQ(e) ==
    [self |-> e, closed |-> FALSE, how |-> "open", stopLocalRead |-> FALSE,
     readSent |-> FALSE, readReceived |-> FALSE, readAcked |-> FALSE,
     writeSent |-> FALSE, writeReceived |-> FALSE, writeAcked |-> FALSE,
     rstSent |-> FALSE, rstReceived |-> FALSE,
     waitingFor |-> "none",    \* waitingAckFor, "none" when not waitingAck
     deferred |-> "none",      \* deferredPacket, "none" when not deferredClose
     tracked |-> {},           \* controlSndBuf
     localWriterBroken |-> FALSE, localWriteClosed |-> FALSE,
     shut |-> FALSE,           \* CloseWrite was called on the connection
     eofSeen |-> FALSE,        \* clientEOFAt is set
     sndNxt |-> 1, sndBuf |-> {},
     inbound |-> {},           \* rxChan; pendingInbound is its size
     rcvNxt |-> 1, rcvBuf |-> {},
     writing |-> {},           \* localWritePending when not empty
     flush |-> FALSE,          \* flushSignal
     io |-> "check", writer |-> "loop",
     out |-> {}]               \* what the handler pushes to the transmit queue

Init ==
    /\ scene \in Scenes
    /\ ends = [e \in Ends |-> NewARQ(e)]
    /\ net = {}
    /\ lost = 0
    /\ early = [e \in Ends |-> {}]
    /\ written = [e \in Ends |-> {}]

----------------------------------------------------------------------------
(* Finalizing. *)

clearAllQueues(s) == [s EXCEPT !.sndBuf = {}, !.rcvBuf = {}, !.tracked = {}]

(* The context ends the workers; rxLoop drains rxChan on its way out. *)
finalizeClose(s, how) ==
    IF s.closed THEN s
    ELSE [clearAllQueues(s) EXCEPT !.closed = TRUE, !.how = how, !.deferred = "none",
                                   !.waitingFor = "none", !.inbound = {}]

ReceiveDrained(s) == (s.rcvBuf = {} /\ s.inbound = {}) \/ s.localWriterBroken

NoWritePending_Ignored(s) == TRUE
NoWritePending(s)         == s.writing = {} \/ s.localWriterBroken

WriteSideSettled(s) ==
    \/ ~s.localWriterBroken /\ (~s.writeSent \/ s.writeAcked)
    \/ s.localWriterBroken /\ (s.writeAcked \/ s.writeReceived)

HandshakeDone(s) ==
    /\ s.readReceived
    /\ ReceiveDrained(s)
    /\ NoWritePending(s)
    /\ s.readAcked \/ (s.readSent /\ s.waitingFor # "close_read")
    /\ WriteSideSettled(s)

LocalDisconnectDone(s) ==
    /\ s.self = Client
    /\ s.localWriterBroken /\ s.writeAcked /\ s.readSent /\ s.readAcked
    /\ s.sndBuf = {} /\ s.rcvBuf = {} /\ s.inbound = {} /\ s.writing = {}
    /\ s.waitingFor = "none" /\ s.deferred = "none"

tryFinalizeRemoteEOF(s) ==
    IF ~s.closed /\ (HandshakeDone(s) \/ LocalDisconnectDone(s))
    THEN finalizeClose(s, "handshake")
    ELSE s

----------------------------------------------------------------------------
(* Sending the packets that end a stream. *)

SendControlPacket(s, type) ==
    IF s.closed \/ type \in s.tracked THEN s
    ELSE [s EXCEPT !.tracked = @ \cup {type},
                   !.out = @ \cup {Packet(Peer(s.self), type, 0)}]

(* Every emission stops the reader and drops whatever close was deferred,  *)
(* before it looks whether there is anything to emit.                      *)
Emitting(s) == [s EXCEPT !.stopLocalRead = TRUE, !.deferred = "none"]

EmitCloseRead(s) ==
    IF s.closed THEN s
    ELSE IF s.waitingFor = "close_read" \/ s.rstSent \/ s.rstReceived \/ s.readSent
         THEN Emitting(s)
         ELSE SendControlPacket(
                tryFinalizeRemoteEOF(
                  [Emitting(s) EXCEPT !.waitingFor = "close_read", !.readSent = TRUE]),
                "close_read")

EmitCloseWrite(s) ==
    IF s.closed THEN s
    ELSE IF s.waitingFor = "close_write" \/ s.rstSent \/ s.rstReceived \/ s.writeSent
         THEN Emitting(s)
         ELSE SendControlPacket(
                [Emitting(s) EXCEPT !.waitingFor = "close_write", !.writeSent = TRUE,
                                    !.localWriterBroken = TRUE,
                                    !.localWriteClosed = TRUE, !.rcvBuf = {}],
                "close_write")

EmitRst(s) ==
    IF s.closed THEN s
    ELSE IF s.waitingFor = "rst" \/ s.rstSent \/ s.rstReceived
         THEN Emitting(s)
         ELSE SendControlPacket(
                clearAllQueues([Emitting(s) EXCEPT !.waitingFor = "rst", !.rstSent = TRUE]),
                "rst")

(* Close with SendRST; what to send first is drained if drain says so. *)
Reset(s, drain) ==
    IF s.closed \/ s.rstSent \/ s.rstReceived \/ s.waitingFor = "rst" \/ s.deferred = "rst"
    THEN s
    ELSE IF drain /\ s.sndBuf # {}
         THEN [s EXCEPT !.deferred = "rst", !.stopLocalRead = TRUE]
         ELSE EmitRst([s EXCEPT !.deferred = "none"])

(* settleTerminalDrain; late: the drain deadline has passed *)
settleTerminalDrain(s, late) ==
    IF s.closed \/ s.deferred = "none" \/ (s.sndBuf # {} /\ ~late) THEN s
    ELSE LET t == [s EXCEPT !.deferred = "none"]
         IN  IF s.sndBuf = {} /\ s.deferred = "close_read"
             THEN EmitCloseRead(t)
             ELSE Reset(t, FALSE)

(* Close with SendCloseRead and AfterDrain: deferTerminalPacket *)
CloseReadAfterDrain(s) ==
    IF s.closed THEN s
    ELSE settleTerminalDrain([s EXCEPT !.stopLocalRead = TRUE, !.deferred = "close_read"], FALSE)

maybeInitiateClientCloseRead(s) ==
    IF /\ s.self = Client /\ s.localWriterBroken /\ ~s.closed
       /\ ~s.rstSent /\ ~s.rstReceived /\ ~s.readSent /\ ~s.readReceived
    THEN CloseReadAfterDrain(s)
    ELSE s

----------------------------------------------------------------------------
(* Steps of one endpoint. *)

(* The new record of the endpoint, its pushes put on the network. *)
Becomes(e, s, packets) ==
    /\ ends' = [ends EXCEPT ![e] = [s EXCEPT !.out = {}]]
    /\ net' = packets \cup s.out

Unwritten == UNCHANGED <<lost, early, written>>

IoCheck(e) ==
    LET s == ends[e]
    IN  /\ \/ s.io = "check"
           \/ s.io = "reading" /\ s.closed
        /\ Becomes(e, [s EXCEPT !.io = IF s.stopLocalRead \/ s.closed
                                       THEN "done" ELSE "reading"], net)
        /\ Unwritten

Reading(e) == ends[e].io = "reading" /\ ~ends[e].closed

(* The chunk enters sndBuf whatever happened while Read was blocked. *)
WithChunk(s) == [s EXCEPT !.sndNxt = @ + 1, !.sndBuf = @ \cup {s.sndNxt},
                          !.out = @ \cup {Packet(Peer(s.self), "data", s.sndNxt)}]

IoRead(e) ==
    LET s == ends[e]
    IN  /\ Reading(e)
        /\ s.sndNxt <= scene.chunks[e]
        /\ Becomes(e, [WithChunk(s) EXCEPT !.io = "check"], net)
        /\ early' = IF s.readSent THEN early
                    ELSE [early EXCEPT ![e] = @ \cup {s.sndNxt}]
        /\ UNCHANGED <<lost, written>>

(* The read deadline of 500 ms *)
IoTimeout(e) ==
    /\ Reading(e)
    /\ Becomes(e, [ends[e] EXCEPT !.io = "check"], net)
    /\ Unwritten

IoEOF(e) ==
    LET s == ends[e]
    IN  /\ Reading(e)
        /\ Becomes(e, CloseReadAfterDrain([s EXCEPT !.io = "done", !.eofSeen = (e = Client)]), net)
        /\ Unwritten

isGracefulCloseInProgress(s) ==
    \/ s.closed
    \/ s.waitingFor \in {"close_read", "close_write"}
    \/ s.deferred = "close_read"
    \/ s.readSent \/ s.readReceived \/ s.writeSent \/ s.writeReceived

(* A closed connection during a graceful close is left to it; any other    *)
(* failure resets the stream.                                              *)
IoFail(e) ==
    LET s == [ends[e] EXCEPT !.io = "done"]
    IN  /\ Reading(e) /\ e \in scene.fragile
        /\ \/ isGracefulCloseInProgress(s) /\ Becomes(e, s, net)
           \/ Becomes(e, Reset(s, FALSE), net)
           \/ s.sndNxt <= scene.chunks[e] /\ Becomes(e, Reset(WithChunk(s), TRUE), net)
        /\ Unwritten

(* The chunks writeLoop can take: the contiguous ones from rcvNxt on. *)
Ready(s) == {n \in s.rcvBuf : s.rcvNxt .. n \subseteq s.rcvBuf}

Take(e) ==
    LET s == ends[e]
    IN  /\ s.writer \in {"loop", "again"} /\ ~s.closed /\ s.writing = {} /\ Ready(s) # {}
        /\ Becomes(e, [s EXCEPT !.writing = Ready(s), !.rcvBuf = @ \ Ready(s),
                                !.rcvNxt = @ + Cardinality(Ready(s))], net)
        /\ Unwritten

Write(e) ==
    LET s == ends[e]
    IN  /\ s.writing # {} /\ ~s.closed /\ ~s.shut
        /\ written' = [written EXCEPT ![e] = @ \cup s.writing]
        /\ Becomes(e, tryFinalizeRemoteEOF([s EXCEPT !.writing = {}, !.writer = "again"]), net)
        /\ UNCHANGED <<lost, early>>

WriteFail(e) ==
    LET s == ends[e]
    IN  /\ s.writing # {} /\ ~s.closed
        /\ e \in scene.fragile \/ s.shut
        /\ Becomes(e, EmitCloseWrite([s EXCEPT !.localWriterBroken = TRUE, !.writing = {},
                                               !.rcvBuf = {}, !.writer = "done"]), net)
        /\ Unwritten

(* After a write or a flush signal, writeLoop takes the lock, finds        *)
(* nothing to write, and releases it ...                                   *)
Look(e) ==
    LET s == ends[e]
    IN  /\ ~s.closed /\ s.writing = {} /\ Ready(s) = {}
        /\ \/ s.writer = "again" /\ Becomes(e, [s EXCEPT !.writer = "empty"], net)
           \/ s.writer = "loop" /\ s.flush
              /\ Becomes(e, [s EXCEPT !.flush = FALSE, !.writer = "empty"], net)
        /\ Unwritten

MayShut(s) == s.readReceived /\ s.inbound = {}

(* ... and takes it again to ask whether the local writer can be closed. *)
Idle(e) ==
    LET s == ends[e]
        t == IF MayShut(s) /\ ~s.localWriteClosed /\ ~s.closed
             THEN [s EXCEPT !.localWriteClosed = TRUE, !.shut = TRUE] ELSE s
    IN  /\ s.writer = "empty"
        /\ Becomes(e, tryFinalizeRemoteEOF([t EXCEPT !.writer = "loop"]), net)
        /\ Unwritten

----------------------------------------------------------------------------
(* Packets.  A closed stream is no longer registered: preprocessInbound-   *)
(* Packet answers for it, data with a reset and closings with their ACK.   *)

Data_AfterBreak(s) ==
    IF ~s.writeSent /\ s.waitingFor # "close_write" /\ ~s.rstSent THEN EmitCloseWrite(s) ELSE s

ReceiveData(s, n) ==
    CASE s.closed -> [s EXCEPT !.out = {Packet(Peer(s.self), "rst", 0)}]
      [] ~s.closed /\ (s.rstSent \/ s.rstReceived) -> s
      [] ~s.closed /\ ~s.rstSent /\ ~s.rstReceived /\ s.localWriterBroken -> Data_AfterBreak(s)
      [] OTHER -> [s EXCEPT !.inbound = @ \cup {n}]

ReceiveAck(s, n) ==
    IF n \notin s.sndBuf THEN s
    ELSE LET t == [s EXCEPT !.sndBuf = @ \ {n}]
         IN  settleTerminalDrain(IF t.readReceived THEN tryFinalizeRemoteEOF(t) ELSE t, FALSE)

MarkCloseReadReceived(s) ==
    tryFinalizeRemoteEOF([s EXCEPT !.readReceived = TRUE, !.flush = TRUE])

MarkCloseWriteReceived(s) ==
    tryFinalizeRemoteEOF(settleTerminalDrain(
        [s EXCEPT !.writeReceived = TRUE, !.stopLocalRead = TRUE, !.sndBuf = {}], FALSE))

MarkRstReceived_StillOpen(s) == clearAllQueues([s EXCEPT !.rstReceived = TRUE])
MarkRstReceived(s) ==
    finalizeClose(clearAllQueues([s EXCEPT !.rstReceived = TRUE]), "reset")

Acknowledging(s, type) == [s EXCEPT !.out = @ \cup {Packet(Peer(s.self), AckOf(type), 0)}]

ReceiveClosing(s, type) ==
    IF s.closed THEN Acknowledging(s, type)
    ELSE Acknowledging(CASE type = "close_read"  -> MarkCloseReadReceived(s)
                         [] type = "close_write" -> MarkCloseWriteReceived(s)
                         [] type = "rst"         -> MarkRstReceived(s), type)

clearWaitingAck(s, type) ==
    IF s.waitingFor = type THEN [s EXCEPT !.waitingFor = "none"] ELSE s

(* ReceiveControlAck: both ways to recognise the ACK, by the tracked       *)
(* packet and by the awaited type, have the same effect.                   *)
ReceiveControlAck_NoRecheck(s, type) ==
    LET t == clearWaitingAck([s EXCEPT !.tracked = @ \ {type}], type)
    IN  IF type \notin s.tracked /\ s.waitingFor # type THEN s
        ELSE CASE type = "close_read" -> [t EXCEPT !.readAcked = TRUE]
               [] type = "close_write" ->
                    maybeInitiateClientCloseRead(
                        [t EXCEPT !.writeAcked = TRUE, !.localWriterBroken = TRUE,
                                  !.localWriteClosed = TRUE])
               [] type = "rst" -> finalizeClose(clearAllQueues(s), "reset")
ReceiveControlAck(s, type) ==
    LET t == clearWaitingAck([s EXCEPT !.tracked = @ \ {type}], type)
    IN  IF type \notin s.tracked /\ s.waitingFor # type THEN s
        ELSE CASE type = "close_read" ->
                    tryFinalizeRemoteEOF([t EXCEPT !.readAcked = TRUE])
               [] type = "close_write" ->
                    tryFinalizeRemoteEOF(maybeInitiateClientCloseRead(
                        [t EXCEPT !.writeAcked = TRUE, !.localWriterBroken = TRUE,
                                  !.localWriteClosed = TRUE]))
               [] type = "rst" -> finalizeClose(clearAllQueues(s), "reset")

Handled(s, m) ==
    CASE m.type = "data"             -> ReceiveData(s, m.n)
      [] m.type = "data_ack"         -> ReceiveAck(s, m.n)
      [] m.type \in Closings         -> ReceiveClosing(s, m.type)
      [] OTHER -> ReceiveControlAck(s, CHOOSE c \in Closings : m.type = AckOf(c))

Deliver(m) ==
    /\ Becomes(m.to, Handled(ends[m.to], m), net \ {m})
    /\ Unwritten

(* rxLoop: the packet is buffered and acknowledged, or dropped if the      *)
(* local writer is gone.                                                   *)
Process(e, n) ==
    LET s == [ends[e] EXCEPT !.inbound = @ \ {n}]
    IN  /\ n \in ends[e].inbound
        /\ Becomes(e, IF s.localWriterBroken \/ s.writeSent \/ s.writeAcked
                      THEN IF s.localWriterBroken THEN Data_AfterBreak(s) ELSE s
                      ELSE [s EXCEPT !.rcvBuf = IF n >= s.rcvNxt THEN @ \cup {n} ELSE @,
                                     !.out = {Packet(Peer(e), "data_ack", n)},
                                     !.flush = TRUE], net)
        /\ Unwritten

(* The network loses a packet, or the endpoint's dispatcher drops it when  *)
(* the stream is closed.                                                   *)
Lose(m) ==
    /\ lost < scene.losses
    /\ lost' = lost + 1
    /\ net' = net \ {m}
    /\ UNCHANGED <<ends, early, written>>

----------------------------------------------------------------------------
(* The retransmit loop: handleTerminalRetransmitState, then the data and   *)
(* the tracked packets.                                                    *)

Resendable(e) == {Packet(Peer(e), "data", n) : n \in ends[e].sndBuf}
                   \cup {Packet(Peer(e), type, 0) : type \in ends[e].tracked}

Resend(e) ==
    /\ ~ends[e].closed
    /\ \E m \in Resendable(e) \ net : net' = net \cup {m}
    /\ UNCHANGED <<ends, lost, early, written>>

Expires(e, timer, s) ==
    /\ timer \in scene.timers
    /\ ~ends[e].closed
    /\ Becomes(e, s, net)
    /\ Unwritten

(* At the deadline, and in any round that finds sndBuf empty. *)
DrainTimeout(e) ==
    LET s == ends[e]
    IN  /\ s.deferred # "none" /\ ~s.closed
        /\ "drain" \in scene.timers \/ s.sndBuf = {}
        /\ Becomes(e, settleTerminalDrain(s, TRUE), net)
        /\ Unwritten

AckTimeout(e) ==
    LET s == ends[e]
    IN  /\ s.deferred = "none" /\ s.waitingFor # "none"
        /\ Expires(e, "ack", IF s.waitingFor = "rst" THEN finalizeClose(s, "reset")
                                                     ELSE Reset(s, FALSE))

(* Two seconds after its EOF, or after its close_read was acknowledged, a  *)
(* client gives up the other direction as well.                            *)
GraceElapsed(e) ==
    LET s == ends[e]
    IN  /\ e = Client /\ ~s.closed /\ s.deferred = "none"
        /\ "grace" \in scene.timers
        /\ s.readSent /\ s.readAcked /\ ~s.rstSent /\ ~s.rstReceived
        /\ ~s.writeSent /\ ~s.writeAcked /\ ~s.writeReceived
        /\ s.waitingFor # "close_write"
        /\ Becomes(e, EmitCloseWrite(s), net)
        /\ Unwritten

Inactive(e) ==
    LET s == ends[e]
    IN  /\ s.deferred = "none" /\ s.sndBuf = {} /\ s.tracked = {}
        /\ Expires(e, "inactivity", Reset(s, FALSE))

(* A tracked packet or a chunk is given up after its retries. *)
GiveUp(e) ==
    LET s == ends[e]
    IN  \/ \E type \in s.tracked :
              LET t == [s EXCEPT !.tracked = @ \ {type}]
              IN  Expires(e, "retries", IF type = "rst" THEN finalizeClose(t, "reset")
                                                        ELSE Reset(t, FALSE))
        \/ s.sndBuf # {} /\ Expires(e, "retries", Reset(s, FALSE))

----------------------------------------------------------------------------
Io(e)     == IoCheck(e) \/ IoRead(e) \/ IoTimeout(e) \/ IoEOF(e) \/ IoFail(e)
Writer(e) == Take(e) \/ Write(e) \/ WriteFail(e) \/ Look(e) \/ Idle(e)
Timer(e)  == DrainTimeout(e) \/ AckTimeout(e) \/ GraceElapsed(e) \/ Inactive(e) \/ GiveUp(e)

Next == /\ \/ \E e \in Ends : \/ Io(e) \/ Writer(e) \/ Timer(e) \/ Resend(e)
                              \/ \E n \in ends[e].inbound : Process(e, n)
           \/ \E m \in net : Deliver(m) \/ Lose(m)
        /\ UNCHANGED scene

Spec == Init /\ [][Next]_vars

Numbers == UNION {1 .. sc.chunks[e] : sc \in Scenes, e \in Ends}
Packets ==
    {Packet(e, type, n) : e \in Ends, type \in {"data", "data_ack"}, n \in Numbers}
        \cup {Packet(e, type, 0) : e \in Ends, type \in Closings \cup {AckOf(c) : c \in Closings}}

(* Time passes at every endpoint, whatever else happens.                   *)
Timed     == \A e \in Ends : WF_vars(Timer(e) /\ UNCHANGED scene)
TimedSpec == Spec /\ Timed

(* Every goroutine keeps running: Read returns at its deadline, the writer *)
(* takes, writes and looks, rxLoop empties rxChan, what waits for an       *)
(* answer is sent again; and a packet that is not lost arrives.            *)
Fairness ==
    /\ Timed
    /\ \A e \in Ends :
          /\ WF_vars((IoCheck(e) \/ IoTimeout(e)) /\ UNCHANGED scene)
          /\ WF_vars(Writer(e) /\ UNCHANGED scene)
          /\ WF_vars(Resend(e) /\ UNCHANGED scene)
          /\ \A n \in Numbers :
                WF_vars(n \in ends[e].inbound /\ Process(e, n) /\ UNCHANGED scene)
    /\ \A m \in Packets : WF_vars(m \in net /\ Deliver(m) /\ UNCHANGED scene)

FairSpec == Spec /\ Fairness
----------------------------------------------------------------------------
(* Properties. *)

Chunks(e) == 1 .. scene.chunks[e]

(* The fields stay in their ranges; a close is deferred only on an open    *)
(* stream that has stopped reading.                                        *)
TypeOK ==
    /\ scene \in Scenes
    /\ \A e \in Ends :
          LET s == ends[e]
          IN  /\ s.how \in {"open", "handshake", "reset"} /\ s.closed = (s.how # "open")
              /\ s.waitingFor \in Closings \cup {"none"}
              /\ s.deferred \in {"close_read", "rst", "none"}
              /\ s.deferred # "none" => s.stopLocalRead /\ ~s.closed
              /\ s.tracked \subseteq Closings
              /\ s.sndBuf \subseteq Chunks(e)
              /\ s.inbound \cup s.rcvBuf \cup s.writing \subseteq Chunks(Peer(e))
              /\ s.io \in {"check", "reading", "done"}
              /\ s.writer \in {"loop", "again", "empty", "done"}
              /\ s.out = {}
    /\ \A m \in net : m.to \in Ends

(* A stream that ends by the handshake lost nothing: every chunk the       *)
(* peer's application sent before the peer's close_read was written here,  *)
(* unless the local writer is broken or the endpoint had asked for a reset.*)
HandshakeLosesNothing ==
    \A e \in Ends :
        ends[e].how = "handshake" /\ ~ends[e].localWriterBroken /\ ~ends[e].rstSent
            => early[Peer(e)] \subseteq written[e]

(* close_read is sent only when the peer holds everything that was read    *)
(* before it, or has given up on it.                                       *)
CloseReadAfterData ==
    \A e \in Ends :
        LET p == ends[Peer(e)]
        IN  ends[e].readSent /\ ~ends[e].rstSent /\ ~ends[e].rstReceived /\ ~p.closed =>
                \/ early[e] \subseteq written[Peer(e)] \cup p.rcvBuf \cup p.writing
                \/ p.localWriterBroken \/ p.rstSent

(* The peer of an endpoint that sent close_read finishes draining before   *)
(* it closes, when nothing fails and no timer expires.                     *)
DrainsBeforeClosing ==
    \A e \in Ends :
        LET p == Peer(e)
        IN  ends[p].closed /\ ends[p].readReceived /\ ~ends[p].localWriterBroken
                => early[e] \subseteq written[p]

(* ... and before it closes the writing side of its local connection.      *)
DrainsBeforeShutting ==
    \A e \in Ends : ends[e].shut => early[Peer(e)] \subseteq written[e]

(* When both applications have finished, both ends close, with no help     *)
(* from a timer.                                                           *)
CleanClose ==
    (\A e \in Ends : ends[e].io = "done") ~> (\A e \in Ends : ends[e].closed)

(* No endpoint outlives its peer for ever, whatever was lost or failed:    *)
(* its timers alone bring it down.                                         *)
NoSurvivor ==
    \A e \in Ends : (scene.timers = TimerNames /\ ends[e].closed) ~> ends[Peer(e)].closed

(* The close handshake cuts nothing short at either end.                   *)
NothingCutShort == TypeOK /\ HandshakeLosesNothing /\ CloseReadAfterData

----------------------------------------------------------------------------
(* Instances for TLC: how much each application sends, which local         *)
(* connections fail, which timers expire and how much the network loses.   *)

Sends(c, s) == [e \in Ends |-> IF e = Client THEN c ELSE s]
Scene(chunks, fragile, timers, losses) ==
    [chunks |-> chunks, fragile |-> fragile, timers |-> timers, losses |-> losses]

(* The client's writer breaks while it sends, then its grace ends.         *)
Grace     == Scene(Sends(1, 0), {Client}, {"grace"}, 0)
(* The server's drain deadline passes, or not, before its chunk arrives.   *)
Deadline  == Scene(Sends(0, 1), {}, {"drain"}, 0)
(* A local connection fails and any timer may expire.                      *)
Abandoned == Scene(Sends(0, 0), {Server}, TimerNames, 0)
Failing   == {Grace, Deadline, Abandoned}

(* Nothing fails and no timer helps.                                       *)
Calm(c, s)     == Scene(Sends(c, s), {}, {}, 0)
Losing(c, s)   == Scene(Sends(c, s), {}, {}, 1)
Ending         == {Losing(1, 0)}
OneEach        == {Calm(1, 1)}
TwoFromClient  == {Calm(2, 0)}
=============================================================================
