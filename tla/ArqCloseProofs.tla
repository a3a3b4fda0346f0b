--------------------------- MODULE ArqCloseProofs ---------------------------
(***************************************************************************)
(* Why the close handshake of ArqClose cuts nothing short, for every       *)
(* number of chunks, and whatever fails, expires or is lost on the way.    *)
(*                                                                         *)
(* A handler is an operator on records, so most of the proof is about      *)
(* records: Fine says what is true of an endpoint's record given what can  *)
(* be seen of its peer (a view), one lemma shows for each operator that it *)
(* leaves a fine record fine, and handlers compose.  IInv says that both   *)
(* records are fine and every packet under way is honest; StepKeeps lifts  *)
(* a step of one endpoint to it, since its peer's view only gains.         *)
(***************************************************************************)
EXTENDS ArqClose, FiniteSetTheorems, TLAPS

----------------------------------------------------------------------------
(* The record of an endpoint.                                              *)
Types == {"data", "data_ack"} \cup Closings \cup {AckOf(c) : c \in Closings}

PacketSet == [to : Ends, type : Types, n : Nat]

ARQ == [self : Ends, closed : BOOLEAN, how : {"open", "handshake", "reset"}, stopLocalRead : BOOLEAN,
        readSent : BOOLEAN, readReceived : BOOLEAN, readAcked : BOOLEAN,
        writeSent : BOOLEAN, writeReceived : BOOLEAN, writeAcked : BOOLEAN,
        rstSent : BOOLEAN, rstReceived : BOOLEAN,
        waitingFor : Closings \cup {"none"}, deferred : {"close_read", "rst", "none"},
        tracked : SUBSET Closings,
        localWriterBroken : BOOLEAN, localWriteClosed : BOOLEAN, shut : BOOLEAN, eofSeen : BOOLEAN,
        sndNxt : Nat \ {0}, sndBuf : SUBSET Nat, inbound : SUBSET Nat,
        rcvNxt : Nat \ {0}, rcvBuf : SUBSET Nat, writing : SUBSET Nat,
        flush : BOOLEAN, io : {"check", "reading", "done"},
        writer : {"loop", "again", "empty", "done"}, out : SUBSET PacketSet]

(* An endpoint that no longer answers for the chunks it was sent. *)
Gone(s) == s.localWriterBroken \/ s.rstSent \/ s.how = "reset"

(* The chunks that need not be sent to s again; w is what it has written. *)
Safe(s, w) == {n \in Nat : Gone(s) \/ n \in w \cup s.rcvBuf \cup s.writing}

(* A packet that s may have sent, when its chunks are own and w is written. *)
Honest(m, s, w, own) ==
    /\ m \in PacketSet /\ m.to # s.self
    /\ m.type = "data" => m.n \in own
    /\ m.type = "data_ack" => m.n \in Safe(s, w)
    /\ m.type = "close_read" => s.readSent
    /\ m.type = "close_write" => Nat \subseteq Safe(s, w)

(* What is true of the record s of an endpoint in the view v:              *)
(*   self, own, theirs   the endpoint, the chunks of it and of its peer    *)
(*   held                the chunks its peer is safe with                  *)
(*   before              those it read before it sent close_read           *)
(*   w                   those it has written                              *)
(*   kept, began         what it was safe with, and whether it had sent    *)
(*                       close_read, when the step began                   *)
(*   asked               whether its peer has sent close_read              *)
Fields(s, v) ==
    /\ s \in ARQ /\ s.self = v.self
    /\ s.closed = (s.how # "open")
    /\ s.deferred # "none" => s.stopLocalRead /\ ~s.closed
    /\ s.sndBuf \subseteq v.own
    /\ s.inbound \cup s.rcvBuf \cup s.writing \subseteq v.theirs

Sender(s, v) ==
    /\ s.rstSent \/ s.rstReceived \/ s.closed \/ 1 .. s.sndNxt - 1 \subseteq s.sndBuf \cup v.held
    /\ v.before \subseteq 1 .. s.sndNxt - 1
    /\ s.readSent => v.before \subseteq v.held
    /\ v.began => s.readSent
    /\ "close_read" \in s.tracked => s.readSent
    /\ "close_write" \in s.tracked => s.localWriterBroken

Receiver(s, v) ==
    /\ v.kept \subseteq Safe(s, v.w)
    /\ Gone(s) \/ 1 .. s.rcvNxt - 1 \subseteq v.w \cup s.writing
    /\ \A n \in s.rcvBuf : n >= s.rcvNxt
    /\ s.closed => s.inbound = {} /\ s.rcvBuf = {}
    /\ s.how = "handshake" /\ ~s.localWriterBroken /\ ~s.rstSent => s.readReceived /\ s.writing = {}
    /\ s.readReceived => v.asked

Fine(s, v) ==
    /\ Fields(s, v) /\ Sender(s, v) /\ Receiver(s, v)
    /\ v.self \in Ends /\ v.theirs \subseteq Nat \ {0}
    /\ \A m \in s.out : Honest(m, s, v.w, v.own)

----------------------------------------------------------------------------
(* Of two endpoints, one is the other's peer.                              *)
LEMMA Peers ==
    /\ \A e \in Ends : Peer(e) \in Ends /\ Peer(e) # e /\ Peer(Peer(e)) = e
    /\ \A e, p \in Ends : p # e => p = Peer(e)
BY EndsAssumption DEF Ends, Peer

LEMMA PacketTypes ==
    ASSUME NEW e \in Ends, NEW type \in Types, NEW n \in Nat
    PROVE  /\ Packet(e, type, n) \in PacketSet
           /\ Packet(e, type, n).to = e /\ Packet(e, type, n).type = type /\ Packet(e, type, n).n = n
BY DEF Packet, PacketSet

LEMMA SendFine ==
    ASSUME NEW v, NEW s, Fine(s, v), NEW type \in Closings,
           type = "close_read" => s.readSent, type = "close_write" => s.localWriterBroken
    PROVE  Fine(SendControlPacket(s, type), v)
<1>1. CASE s.closed \/ type \in s.tracked
  BY <1>1 DEF SendControlPacket
<1>2. CASE ~(s.closed \/ type \in s.tracked)
  <2> DEFINE m == Packet(Peer(s.self), type, 0)
             t == [s EXCEPT !.tracked = @ \cup {type}, !.out = @ \cup {m}]
  <2>1. SendControlPacket(s, type) = t
    BY <1>2 DEF SendControlPacket
  <2>2. s \in ARQ /\ s.self \in Ends
    BY DEF Fine, Fields
  <2>3. Peer(s.self) \in Ends /\ Peer(s.self) # s.self /\ type \in Types /\ 0 \in Nat
    BY <2>2, Peers DEF Types
  <2>4. m \in PacketSet /\ m.to # s.self /\ m.type = type
    BY <2>3, PacketTypes
  <2> HIDE DEF m
  <2>5. t \in ARQ
    BY <2>2, <2>4 DEF ARQ
  <2>6. Fields(t, v)
    BY <2>2, <2>5 DEF Fine, Fields, ARQ
  <2>7. Sender(t, v)
    BY <2>2, <2>5 DEF Fine, Sender, ARQ
  <2>8. Receiver(t, v)
    BY <2>2, <2>5 DEF Fine, Receiver, ARQ, Safe, Gone
  <2>9. \A p \in t.out : Honest(p, t, v.w, v.own)
    BY <2>2, <2>4, <2>5 DEF Fine, Honest, ARQ, Safe, Gone, Closings
  <2> QED
    BY <2>1, <2>6, <2>7, <2>8, <2>9 DEF Fine
<1> QED
  BY <1>1, <1>2

(* Ending the stream by the handshake forgets nothing that is owed.        *)
LEMMA FinalizeFine ==
    ASSUME NEW v, NEW s, Fine(s, v), NEW how \in {"handshake", "reset"},
           how = "handshake" => \/ s.localWriterBroken
                                \/ s.readReceived /\ s.rcvBuf = {} /\ s.writing = {}
    PROVE  Fine(finalizeClose(s, how), v)
<1> DEFINE t == [s EXCEPT !.sndBuf = {}, !.rcvBuf = {}, !.tracked = {}, !.closed = TRUE, !.how = how,
                          !.deferred = "none", !.waitingFor = "none", !.inbound = {}]
<1>1. ~s.closed => finalizeClose(s, how) = t
  BY DEF finalizeClose, clearAllQueues, ARQ, Fine, Fields
<1>2. s.closed => finalizeClose(s, how) = s
  BY DEF finalizeClose
<1>3. ASSUME ~s.closed PROVE Fine(t, v)
  <2>1. s \in ARQ
    BY DEF Fine, Fields
  <2>2. t \in ARQ
    BY <2>1 DEF ARQ
  <2>3. Fields(t, v)
    BY <1>3, <2>1, <2>2 DEF Fine, Fields, ARQ
  <2>4. Sender(t, v)
    BY <1>3, <2>1, <2>2 DEF Fine, Sender, ARQ
  <2>5. Gone(t) \/ (~Gone(s) /\ s.rcvBuf = {} /\ s.writing = {} /\ s.readReceived)
    BY <1>3, <2>1, <2>2 DEF Gone, Fine, Fields, ARQ
  <2>6. t.rcvBuf = {} /\ t.inbound = {} /\ t.writing = s.writing /\ t.rcvNxt = s.rcvNxt
        /\ t.readReceived = s.readReceived /\ t.out = s.out /\ t.readSent = s.readSent /\ t.self = s.self
        /\ t.localWriterBroken = s.localWriterBroken
    BY <2>1, <2>2 DEF ARQ
  <2>7. Safe(s, v.w) \subseteq Safe(t, v.w)
    BY <2>5, <2>6 DEF Safe
  <2>8. Receiver(t, v)
    BY <2>5, <2>6, <2>7 DEF Fine, Receiver, Gone
  <2>9. \A m \in t.out : Honest(m, t, v.w, v.own)
    BY <2>6, <2>7 DEF Fine, Honest
  <2> QED
    BY <2>3, <2>4, <2>8, <2>9 DEF Fine
<1> QED
  BY <1>1, <1>2, <1>3

LEMMA TryFine ==
    ASSUME NEW v, NEW s, Fine(s, v)
    PROVE  Fine(tryFinalizeRemoteEOF(s), v)
<1>1. ASSUME HandshakeDone(s) \/ LocalDisconnectDone(s)
      PROVE  s.localWriterBroken \/ (s.readReceived /\ s.rcvBuf = {} /\ s.writing = {})
  BY <1>1 DEF HandshakeDone, LocalDisconnectDone, ReceiveDrained, NoWritePending
<1> QED
  BY <1>1, FinalizeFine DEF tryFinalizeRemoteEOF

LEMMA EmittingFine ==
    ASSUME NEW v, NEW s, Fine(s, v)
    PROVE  Fine(Emitting(s), v)
<1> DEFINE t == [s EXCEPT !.stopLocalRead = TRUE, !.deferred = "none"]
<1>1. Fine(t, v)
  <2>1. s \in ARQ
    BY DEF Fine, Fields
  <2>2. t \in ARQ
    BY <2>1 DEF ARQ, Closings
  <2>3. Fields(t, v)
    BY <2>1, <2>2 DEF Fine, Fields, ARQ
  <2>4. Sender(t, v)
    BY <2>1, <2>2 DEF Fine, Sender, ARQ
  <2>5. Receiver(t, v)
    BY <2>1, <2>2 DEF Fine, Receiver, Safe, Gone, ARQ
  <2>6. \A m \in t.out : Honest(m, t, v.w, v.own)
    BY <2>1, <2>2 DEF Fine, Honest, Safe, Gone, ARQ
  <2> QED
    BY <2>3, <2>4, <2>5, <2>6 DEF Fine
<1> QED
  BY <1>1 DEF Emitting

(* close_read is sent when the peer holds what was read before it.         *)
LEMMA CloseReadFine ==
    ASSUME NEW v, NEW s, Fine(s, v), s.sndBuf = {}
    PROVE  Fine(EmitCloseRead(s), v)
<1> DEFINE t == [s EXCEPT !.stopLocalRead = TRUE, !.deferred = "none", !.waitingFor = "close_read",
                          !.readSent = TRUE]
           f == tryFinalizeRemoteEOF(t)
           idle == s.waitingFor = "close_read" \/ s.rstSent \/ s.rstReceived \/ s.readSent
<1>1. CASE s.closed
  BY <1>1 DEF EmitCloseRead
<1>2. CASE ~s.closed /\ idle
  BY <1>2, EmittingFine DEF EmitCloseRead
<1>3. CASE ~s.closed /\ ~idle
  <2>1. EmitCloseRead(s) = SendControlPacket(f, "close_read")
    BY <1>3 DEF EmitCloseRead, Emitting, Fine, Fields, ARQ
  <2>2. Fine(t, v)
    <3>1. s \in ARQ
      BY DEF Fine, Fields
    <3>2. t \in ARQ
      BY <1>3, <3>1 DEF ARQ, Closings
    <3>3. Fields(t, v)
      BY <1>3, <3>1, <3>2 DEF Fine, Fields, ARQ
    <3>4. Sender(t, v)
      BY <1>3, <3>1, <3>2 DEF Fine, Sender, ARQ
    <3>5. Receiver(t, v)
      BY <1>3, <3>1, <3>2 DEF Fine, Receiver, Safe, Gone, ARQ
    <3>6. \A m \in t.out : Honest(m, t, v.w, v.own)
      BY <1>3, <3>1, <3>2 DEF Fine, Honest, Safe, Gone, ARQ
    <3> QED
      BY <3>3, <3>4, <3>5, <3>6 DEF Fine
  <2>3. Fine(f, v)
    BY <2>2, TryFine
  <2>4. t \in ARQ /\ t.readSent
    BY <2>2 DEF Fine, Fields, ARQ
  <2> HIDE DEF t
  <2>5. f.readSent
    BY <2>4 DEF tryFinalizeRemoteEOF, finalizeClose, clearAllQueues, ARQ
  <2> HIDE DEF f
  <2> QED
    BY <2>1, <2>3, <2>5, SendFine DEF Closings
<1> QED
  BY <1>1, <1>2, <1>3

LEMMA CloseWriteFine ==
    ASSUME NEW v, NEW s, Fine(s, v)
    PROVE  Fine(EmitCloseWrite(s), v)
<1> DEFINE t == [s EXCEPT !.stopLocalRead = TRUE, !.deferred = "none", !.waitingFor = "close_write",
                          !.writeSent = TRUE, !.localWriterBroken = TRUE, !.localWriteClosed = TRUE,
                          !.rcvBuf = {}]
           idle == s.waitingFor = "close_write" \/ s.rstSent \/ s.rstReceived \/ s.writeSent
<1>1. CASE s.closed
  BY <1>1 DEF EmitCloseWrite
<1>2. CASE ~s.closed /\ idle
  BY <1>2, EmittingFine DEF EmitCloseWrite
<1>3. CASE ~s.closed /\ ~idle
  <2>1. EmitCloseWrite(s) = SendControlPacket(t, "close_write")
    BY <1>3 DEF EmitCloseWrite, Emitting, Fine, Fields, ARQ
  <2>2. Fine(t, v)
    <3>1. s \in ARQ
      BY DEF Fine, Fields
    <3>2. t \in ARQ
      BY <1>3, <3>1 DEF ARQ, Closings
    <3>3. Fields(t, v)
      BY <1>3, <3>1, <3>2 DEF Fine, Fields, ARQ
    <3>4. Sender(t, v)
      BY <1>3, <3>1, <3>2 DEF Fine, Sender, ARQ
    <3>5. Receiver(t, v)
      BY <1>3, <3>1, <3>2 DEF Fine, Receiver, Safe, Gone, ARQ
    <3>6. \A m \in t.out : Honest(m, t, v.w, v.own)
      BY <1>3, <3>1, <3>2 DEF Fine, Honest, Safe, Gone, ARQ
    <3> QED
      BY <3>3, <3>4, <3>5, <3>6 DEF Fine
  <2>3. t.localWriterBroken
    BY DEF Fine, Fields, ARQ
  <2> HIDE DEF t
  <2> QED
    BY <2>1, <2>2, <2>3, SendFine DEF Closings
<1> QED
  BY <1>1, <1>2, <1>3

LEMMA RstFine ==
    ASSUME NEW v, NEW s, Fine(s, v)
    PROVE  Fine(EmitRst(s), v)
<1> DEFINE t == [s EXCEPT !.stopLocalRead = TRUE, !.deferred = "none", !.waitingFor = "rst",
                          !.rstSent = TRUE, !.sndBuf = {}, !.rcvBuf = {}, !.tracked = {}]
           idle == s.waitingFor = "rst" \/ s.rstSent \/ s.rstReceived
<1>1. CASE s.closed
  BY <1>1 DEF EmitRst
<1>2. CASE ~s.closed /\ idle
  BY <1>2, EmittingFine DEF EmitRst
<1>3. CASE ~s.closed /\ ~idle
  <2>1. EmitRst(s) = SendControlPacket(t, "rst")
    BY <1>3 DEF EmitRst, Emitting, clearAllQueues, Fine, Fields, ARQ
  <2>2. Fine(t, v)
    <3>1. s \in ARQ
      BY DEF Fine, Fields
    <3>2. t \in ARQ
      BY <1>3, <3>1 DEF ARQ, Closings
    <3>3. Fields(t, v)
      BY <1>3, <3>1, <3>2 DEF Fine, Fields, ARQ
    <3>4. Sender(t, v)
      BY <1>3, <3>1, <3>2 DEF Fine, Sender, ARQ
    <3>5. Receiver(t, v)
      BY <1>3, <3>1, <3>2 DEF Fine, Receiver, Safe, Gone, ARQ
    <3>6. \A m \in t.out : Honest(m, t, v.w, v.own)
      BY <1>3, <3>1, <3>2 DEF Fine, Honest, Safe, Gone, ARQ
    <3> QED
      BY <3>3, <3>4, <3>5, <3>6 DEF Fine
  <2> HIDE DEF t
  <2> QED
    BY <2>1, <2>2, SendFine DEF Closings
<1> QED
  BY <1>1, <1>2, <1>3

LEMMA UndeferredFine ==
    ASSUME NEW v, NEW s, Fine(s, v)
    PROVE  Fine([s EXCEPT !.deferred = "none"], v)
<1> DEFINE t == [s EXCEPT !.deferred = "none"]
<1>1. s \in ARQ
  BY DEF Fine, Fields
<1>2. t \in ARQ
  BY <1>1 DEF ARQ, Closings
<1>3. Fields(t, v)
  BY <1>1, <1>2 DEF Fine, Fields, ARQ
<1>4. Sender(t, v)
  BY <1>1, <1>2 DEF Fine, Sender, ARQ
<1>5. Receiver(t, v)
  BY <1>1, <1>2 DEF Fine, Receiver, Safe, Gone, ARQ
<1>6. \A m \in t.out : Honest(m, t, v.w, v.own)
  BY <1>1, <1>2 DEF Fine, Honest, Safe, Gone, ARQ
<1> QED
  BY <1>3, <1>4, <1>5, <1>6 DEF Fine

LEMMA DeferringFine ==
    ASSUME NEW v, NEW s, Fine(s, v), ~s.closed, NEW type \in {"close_read", "rst"}
    PROVE  Fine([s EXCEPT !.stopLocalRead = TRUE, !.deferred = type], v)
<1> DEFINE t == [s EXCEPT !.stopLocalRead = TRUE, !.deferred = type]
<1>1. s \in ARQ
  BY DEF Fine, Fields
<1>2. t \in ARQ
  BY <1>1 DEF ARQ, Closings
<1>3. Fields(t, v)
  BY <1>1, <1>2 DEF Fine, Fields, ARQ
<1>4. Sender(t, v)
  BY <1>1, <1>2 DEF Fine, Sender, ARQ
<1>5. Receiver(t, v)
  BY <1>1, <1>2 DEF Fine, Receiver, Safe, Gone, ARQ
<1>6. \A m \in t.out : Honest(m, t, v.w, v.own)
  BY <1>1, <1>2 DEF Fine, Honest, Safe, Gone, ARQ
<1> QED
  BY <1>3, <1>4, <1>5, <1>6 DEF Fine

LEMMA ResetFine ==
    ASSUME NEW v, NEW s, Fine(s, v), NEW drain \in BOOLEAN
    PROVE  Fine(Reset(s, drain), v)
<1> DEFINE t == [s EXCEPT !.stopLocalRead = TRUE, !.deferred = "rst"]
           u == [s EXCEPT !.deferred = "none"]
<1>1. [s EXCEPT !.deferred = "rst", !.stopLocalRead = TRUE] = t
  BY DEF Fine, Fields, ARQ
<1>2. \/ Reset(s, drain) \in {s, EmitRst(u)}
      \/ ~s.closed /\ Reset(s, drain) = t
  BY <1>1 DEF Reset
<1>3. ~s.closed => Fine(t, v)
  BY DeferringFine
<1>4. Fine(u, v)
  BY UndeferredFine
<1> HIDE DEF t, u
<1> QED
  BY <1>2, <1>3, <1>4, RstFine

LEMMA SettleFine ==
    ASSUME NEW v, NEW s, Fine(s, v), NEW late \in BOOLEAN
    PROVE  Fine(settleTerminalDrain(s, late), v)
<1> DEFINE u == [s EXCEPT !.deferred = "none"]
<1>1. \/ settleTerminalDrain(s, late) \in {s, Reset(u, FALSE)}
      \/ s.sndBuf = {} /\ settleTerminalDrain(s, late) = EmitCloseRead(u)
  BY DEF settleTerminalDrain
<1>2. Fine(u, v)
  BY UndeferredFine
<1>3. u.sndBuf = s.sndBuf
  BY DEF Fine, Fields, ARQ
<1> HIDE DEF u
<1>4. Fine(Reset(u, FALSE), v)
  BY <1>2, ResetFine
<1> QED
  BY <1>1, <1>2, <1>3, <1>4, CloseReadFine

LEMMA AfterDrainFine ==
    ASSUME NEW v, NEW s, Fine(s, v)
    PROVE  Fine(CloseReadAfterDrain(s), v)
<1> DEFINE t == [s EXCEPT !.stopLocalRead = TRUE, !.deferred = "close_read"]
<1>1. CloseReadAfterDrain(s) = IF s.closed THEN s ELSE settleTerminalDrain(t, FALSE)
  BY DEF CloseReadAfterDrain
<1>2. ~s.closed => Fine(t, v)
  BY DeferringFine
<1> HIDE DEF t
<1>3. Fine(t, v) => Fine(settleTerminalDrain(t, FALSE), v)
  BY SettleFine
<1> QED
  BY <1>1, <1>2, <1>3

LEMMA InitiateFine ==
    ASSUME NEW v, NEW s, Fine(s, v)
    PROVE  Fine(maybeInitiateClientCloseRead(s), v)
BY AfterDrainFine DEF maybeInitiateClientCloseRead

----------------------------------------------------------------------------
(* Records that differ only in fields that Fine does not look at.          *)
Alike(s, t) ==
    /\ t \in ARQ
    /\ t.self = s.self /\ t.closed = s.closed /\ t.how = s.how /\ t.deferred = s.deferred
    /\ t.stopLocalRead = s.stopLocalRead /\ t.sndBuf = s.sndBuf /\ t.inbound = s.inbound
    /\ t.rcvBuf = s.rcvBuf /\ t.writing = s.writing /\ t.rstSent = s.rstSent
    /\ t.rstReceived = s.rstReceived /\ t.sndNxt = s.sndNxt /\ t.readSent = s.readSent
    /\ t.tracked = s.tracked /\ t.localWriterBroken = s.localWriterBroken
    /\ t.rcvNxt = s.rcvNxt /\ t.readReceived = s.readReceived /\ t.out = s.out

LEMMA AlikeFine ==
    ASSUME NEW v, NEW s, Fine(s, v), NEW t, Alike(s, t)
    PROVE  Fine(t, v)
<1>1. Fields(t, v)
  BY DEF Alike, Fine, Fields
<1>2. Sender(t, v)
  BY DEF Alike, Fine, Sender
<1>3. Safe(t, v.w) = Safe(s, v.w) /\ Gone(t) = Gone(s)
  BY DEF Alike, Safe, Gone
<1>4. Receiver(t, v)
  BY <1>3 DEF Alike, Fine, Receiver
<1>5. \A m \in t.out : Honest(m, t, v.w, v.own)
  BY <1>3 DEF Alike, Fine, Honest
<1> QED
  BY <1>1, <1>2, <1>4, <1>5 DEF Fine

LEMMA IoFine ==
    ASSUME NEW v, NEW s, Fine(s, v), NEW io \in {"check", "reading", "done"}, NEW eof \in BOOLEAN
    PROVE  Fine([s EXCEPT !.io = io], v) /\ Fine([s EXCEPT !.io = io, !.eofSeen = eof], v)
<1>1. s \in ARQ
  BY DEF Fine, Fields
<1>2. Alike(s, [s EXCEPT !.io = io])
  BY <1>1 DEF Alike, ARQ
<1>3. Alike(s, [s EXCEPT !.io = io, !.eofSeen = eof])
  BY <1>1 DEF Alike, ARQ
<1> QED
  BY <1>2, <1>3, AlikeFine

LEMMA WriterFine ==
    ASSUME NEW v, NEW s, Fine(s, v), NEW writer \in {"loop", "again", "empty", "done"}, NEW flush \in BOOLEAN
    PROVE  Fine([s EXCEPT !.writer = writer], v) /\ Fine([s EXCEPT !.flush = flush, !.writer = writer], v)
<1>1. s \in ARQ
  BY DEF Fine, Fields
<1>2. Alike(s, [s EXCEPT !.writer = writer])
  BY <1>1 DEF Alike, ARQ
<1>3. Alike(s, [s EXCEPT !.flush = flush, !.writer = writer])
  BY <1>1 DEF Alike, ARQ
<1> QED
  BY <1>2, <1>3, AlikeFine

LEMMA ShutFine ==
    ASSUME NEW v, NEW s, Fine(s, v)
    PROVE  Fine([s EXCEPT !.localWriteClosed = TRUE, !.shut = TRUE], v)
<1>1. s \in ARQ
  BY DEF Fine, Fields
<1>2. Alike(s, [s EXCEPT !.localWriteClosed = TRUE, !.shut = TRUE])
  BY <1>1 DEF Alike, ARQ
<1> QED
  BY <1>2, AlikeFine

(* The local connection failed while it was written to.                    *)
LEMMA BrokenFine ==
    ASSUME NEW v, NEW s, Fine(s, v), ~s.closed
    PROVE  Fine([s EXCEPT !.localWriterBroken = TRUE, !.writing = {}, !.rcvBuf = {}, !.writer = "done"], v)
<1> DEFINE t == [s EXCEPT !.localWriterBroken = TRUE, !.writing = {}, !.rcvBuf = {}, !.writer = "done"]
<1>1. s \in ARQ
  BY DEF Fine, Fields
<1>2. t \in ARQ
  BY <1>1 DEF ARQ, Closings
<1>3. Fields(t, v)
  BY <1>1, <1>2 DEF Fine, Fields, ARQ
<1>4. Sender(t, v)
  BY <1>1, <1>2 DEF Fine, Sender, ARQ
<1>5. Receiver(t, v)
  BY <1>1, <1>2 DEF Fine, Receiver, Safe, Gone, ARQ
<1>6. \A m \in t.out : Honest(m, t, v.w, v.own)
  BY <1>1, <1>2 DEF Fine, Honest, Safe, Gone, ARQ
<1> QED
  BY <1>3, <1>4, <1>5, <1>6 DEF Fine

----------------------------------------------------------------------------
(* What packets do.                                                        *)
LEMMA AckTypes ==
    \A c \in Closings : AckOf(c) \in Types /\ AckOf(c) \notin {"data", "data_ack"} \cup Closings
BY DEF Types, AckOf, Closings

(* What an endpoint may send at any time: answers and resets.              *)
LEMMA AnswerFine ==
    ASSUME NEW v, NEW s, Fine(s, v), NEW type \in Types,
           type \notin {"data", "data_ack", "close_read", "close_write"}
    PROVE  /\ Fine([s EXCEPT !.out = {Packet(Peer(s.self), type, 0)}], v)
           /\ Fine([s EXCEPT !.out = @ \cup {Packet(Peer(s.self), type, 0)}], v)
<1> DEFINE m == Packet(Peer(s.self), type, 0)
<1>1. s \in ARQ /\ s.self \in Ends
  BY DEF Fine, Fields
<1>2. Peer(s.self) \in Ends /\ Peer(s.self) # s.self /\ 0 \in Nat
  BY <1>1, Peers
<1>3. m \in PacketSet /\ m.to # s.self /\ m.type = type
  BY <1>2, PacketTypes
<1> HIDE DEF m
<1>4. ASSUME NEW out \in SUBSET PacketSet, out \subseteq s.out \cup {m}
      PROVE  Fine([s EXCEPT !.out = out], v)
  <2> DEFINE t == [s EXCEPT !.out = out]
  <2>1. t \in ARQ
    BY <1>1 DEF ARQ
  <2>2. Fields(t, v)
    BY <1>1, <2>1 DEF Fine, Fields, ARQ
  <2>3. Sender(t, v)
    BY <1>1, <2>1 DEF Fine, Sender, ARQ
  <2>4. Receiver(t, v)
    BY <1>1, <2>1 DEF Fine, Receiver, Safe, Gone, ARQ
  <2>5. t.out = out /\ t.self = s.self /\ t.readSent = s.readSent /\ Safe(t, v.w) = Safe(s, v.w)
    BY <1>1, <2>1 DEF Safe, Gone, ARQ
  <2>6. \A p \in t.out : Honest(p, t, v.w, v.own)
    BY <1>3, <1>4, <2>5 DEF Fine, Honest
  <2> QED
    BY <2>2, <2>3, <2>4, <2>6 DEF Fine
<1>5. {m} \in SUBSET PacketSet /\ s.out \cup {m} \in SUBSET PacketSet
  BY <1>1, <1>3 DEF ARQ
<1>6. Fine([s EXCEPT !.out = {m}], v) /\ Fine([s EXCEPT !.out = s.out \cup {m}], v)
  BY <1>4, <1>5
<1> QED
  BY <1>6 DEF m

LEMMA DataFine ==
    ASSUME NEW v, NEW s, Fine(s, v), NEW n \in Nat, n \in v.theirs
    PROVE  Fine(ReceiveData(s, n), v)
<1> DEFINE t == [s EXCEPT !.inbound = @ \cup {n}]
<1>1. CASE s.closed
  <2>1. "rst" \in Types
    BY DEF Types, Closings
  <2> QED
    BY <1>1, <2>1, AnswerFine DEF ReceiveData
<1>2. CASE ~s.closed
  <2>1. ReceiveData(s, n) \in {s, Data_AfterBreak(s), t}
    BY <1>2 DEF ReceiveData
  <2>2. Fine(Data_AfterBreak(s), v)
    BY CloseWriteFine DEF Data_AfterBreak
  <2>3. Fine(t, v)
    <3>1. s \in ARQ
      BY DEF Fine, Fields
    <3>2. t \in ARQ
      BY <1>2, <3>1 DEF ARQ, Closings
    <3>3. Fields(t, v)
      BY <1>2, <3>1, <3>2 DEF Fine, Fields, ARQ
    <3>4. Sender(t, v)
      BY <1>2, <3>1, <3>2 DEF Fine, Sender, ARQ
    <3>5. Receiver(t, v)
      BY <1>2, <3>1, <3>2 DEF Fine, Receiver, Safe, Gone, ARQ
    <3>6. \A m \in t.out : Honest(m, t, v.w, v.own)
      BY <1>2, <3>1, <3>2 DEF Fine, Honest, Safe, Gone, ARQ
    <3> QED
      BY <3>3, <3>4, <3>5, <3>6 DEF Fine
  <2> HIDE DEF t
  <2> QED
    BY <2>1, <2>2, <2>3
<1> QED
  BY <1>1, <1>2

(* An acknowledged chunk is one the peer is safe with.                     *)
LEMMA AckFine ==
    ASSUME NEW v, NEW s, Fine(s, v), NEW n \in v.held
    PROVE  Fine(ReceiveAck(s, n), v)
<1> DEFINE t == [s EXCEPT !.sndBuf = @ \ {n}]
           u == IF t.readReceived THEN tryFinalizeRemoteEOF(t) ELSE t
<1>1. ReceiveAck(s, n) = IF n \notin s.sndBuf THEN s ELSE settleTerminalDrain(u, FALSE)
  BY DEF ReceiveAck
<1>2. Fine(t, v)
  <2>1. s \in ARQ
    BY DEF Fine, Fields
  <2>2. t \in ARQ
    BY <2>1 DEF ARQ, Closings
  <2>3. Fields(t, v)
    BY <2>1, <2>2 DEF Fine, Fields, ARQ
  <2>4. Sender(t, v)
    BY <2>1, <2>2 DEF Fine, Sender, ARQ
  <2>5. Receiver(t, v)
    BY <2>1, <2>2 DEF Fine, Receiver, Safe, Gone, ARQ
  <2>6. \A m \in t.out : Honest(m, t, v.w, v.own)
    BY <2>1, <2>2 DEF Fine, Honest, Safe, Gone, ARQ
  <2> QED
    BY <2>3, <2>4, <2>5, <2>6 DEF Fine
<1> HIDE DEF t
<1>3. Fine(u, v)
  BY <1>2, TryFine
<1> HIDE DEF u
<1>4. Fine(settleTerminalDrain(u, FALSE), v)
  BY <1>3, SettleFine
<1> QED
  BY <1>1, <1>4

(* close_read is received only when the peer sent it.                      *)
LEMMA GotCloseReadFine ==
    ASSUME NEW v, NEW s, Fine(s, v), v.asked
    PROVE  Fine(MarkCloseReadReceived(s), v)
<1> DEFINE t == [s EXCEPT !.readReceived = TRUE, !.flush = TRUE]
<1>1. Fine(t, v)
  <2>1. s \in ARQ
    BY DEF Fine, Fields
  <2>2. t \in ARQ
    BY <2>1 DEF ARQ, Closings
  <2>3. Fields(t, v)
    BY <2>1, <2>2 DEF Fine, Fields, ARQ
  <2>4. Sender(t, v)
    BY <2>1, <2>2 DEF Fine, Sender, ARQ
  <2>5. Receiver(t, v)
    BY <2>1, <2>2 DEF Fine, Receiver, Safe, Gone, ARQ
  <2>6. \A m \in t.out : Honest(m, t, v.w, v.own)
    BY <2>1, <2>2 DEF Fine, Honest, Safe, Gone, ARQ
  <2> QED
    BY <2>3, <2>4, <2>5, <2>6 DEF Fine
<1> QED
  BY <1>1, TryFine DEF MarkCloseReadReceived

(* After close_write the peer wants no chunk any more.                     *)
LEMMA GotCloseWriteFine ==
    ASSUME NEW v, NEW s, Fine(s, v), Nat \subseteq v.held
    PROVE  Fine(MarkCloseWriteReceived(s), v)
<1> DEFINE t == [s EXCEPT !.writeReceived = TRUE, !.stopLocalRead = TRUE, !.sndBuf = {}]
<1>1. Fine(t, v)
  <2>1. s \in ARQ
    BY DEF Fine, Fields
  <2>2. t \in ARQ
    BY <2>1 DEF ARQ, Closings
  <2>3. Fields(t, v)
    BY <2>1, <2>2 DEF Fine, Fields, ARQ
  <2>4. Sender(t, v)
    BY <2>1, <2>2 DEF Fine, Sender, ARQ
  <2>5. Receiver(t, v)
    BY <2>1, <2>2 DEF Fine, Receiver, Safe, Gone, ARQ
  <2>6. \A m \in t.out : Honest(m, t, v.w, v.own)
    BY <2>1, <2>2 DEF Fine, Honest, Safe, Gone, ARQ
  <2> QED
    BY <2>3, <2>4, <2>5, <2>6 DEF Fine
<1> HIDE DEF t
<1>2. Fine(settleTerminalDrain(t, FALSE), v)
  BY <1>1, SettleFine
<1> QED
  BY <1>2, TryFine DEF MarkCloseWriteReceived, t

LEMMA ClearedFine ==
    ASSUME NEW v, NEW s, Fine(s, v)
    PROVE  Fine(finalizeClose(clearAllQueues(s), "reset"), v)
<1> DEFINE t == [s EXCEPT !.sndBuf = {}, !.rcvBuf = {}, !.tracked = {}]
<1>1. CASE ~s.closed
  <2>1. finalizeClose(clearAllQueues(s), "reset") = finalizeClose(s, "reset")
    BY <1>1 DEF finalizeClose, clearAllQueues, ARQ, Fine, Fields
  <2> QED
    BY <2>1, FinalizeFine
<1>2. CASE s.closed
  <2>1. finalizeClose(clearAllQueues(s), "reset") = t
    BY <1>2 DEF finalizeClose, clearAllQueues, ARQ, Fine, Fields
  <2>2. s.rcvBuf = {}
    BY <1>2 DEF Fine, Receiver
  <2>3. Fine(t, v)
    <3>1. s \in ARQ
      BY DEF Fine, Fields
    <3>2. t \in ARQ
      BY <1>2, <2>2, <3>1 DEF ARQ, Closings
    <3>3. Fields(t, v)
      BY <1>2, <2>2, <3>1, <3>2 DEF Fine, Fields, ARQ
    <3>4. Sender(t, v)
      BY <1>2, <2>2, <3>1, <3>2 DEF Fine, Sender, ARQ
    <3>5. Receiver(t, v)
      BY <1>2, <2>2, <3>1, <3>2 DEF Fine, Receiver, Safe, Gone, ARQ
    <3>6. \A m \in t.out : Honest(m, t, v.w, v.own)
      BY <1>2, <2>2, <3>1, <3>2 DEF Fine, Honest, Safe, Gone, ARQ
    <3> QED
      BY <3>3, <3>4, <3>5, <3>6 DEF Fine
  <2> QED
    BY <2>1, <2>3
<1> QED
  BY <1>1, <1>2

LEMMA GotRstFine ==
    ASSUME NEW v, NEW s, Fine(s, v)
    PROVE  Fine(MarkRstReceived(s), v)
<1> DEFINE t == [s EXCEPT !.rstReceived = TRUE]
<1>1. Fine(t, v)
  <2>1. s \in ARQ
    BY DEF Fine, Fields
  <2>2. t \in ARQ
    BY <2>1 DEF ARQ, Closings
  <2>3. Fields(t, v)
    BY <2>1, <2>2 DEF Fine, Fields, ARQ
  <2>4. Sender(t, v)
    BY <2>1, <2>2 DEF Fine, Sender, ARQ
  <2>5. Receiver(t, v)
    BY <2>1, <2>2 DEF Fine, Receiver, Safe, Gone, ARQ
  <2>6. \A m \in t.out : Honest(m, t, v.w, v.own)
    BY <2>1, <2>2 DEF Fine, Honest, Safe, Gone, ARQ
  <2> QED
    BY <2>3, <2>4, <2>5, <2>6 DEF Fine
<1> QED
  BY <1>1, ClearedFine DEF MarkRstReceived

LEMMA ClosingFine ==
    ASSUME NEW v, NEW s, Fine(s, v), NEW type \in Closings,
           type = "close_read" => v.asked, type = "close_write" => Nat \subseteq v.held
    PROVE  Fine(ReceiveClosing(s, type), v)
<1>1. \A t : Fine(t, v) => Fine(Acknowledging(t, type), v)
  BY AckTypes, AnswerFine DEF Acknowledging, Closings
<1>2. type = "close_read" => Fine(MarkCloseReadReceived(s), v)
  BY GotCloseReadFine
<1>3. type = "close_write" => Fine(MarkCloseWriteReceived(s), v)
  BY GotCloseWriteFine
<1>4. type = "rst" => Fine(MarkRstReceived(s), v)
  BY GotRstFine
<1> QED
  BY <1>1, <1>2, <1>3, <1>4 DEF ReceiveClosing, Closings

LEMMA ControlAckFine ==
    ASSUME NEW v, NEW s, Fine(s, v), NEW type \in Closings
    PROVE  Fine(ReceiveControlAck(s, type), v)
<1> DEFINE u == [s EXCEPT !.tracked = @ \ {type}]
           t == clearWaitingAck(u, type)
           read == [t EXCEPT !.readAcked = TRUE]
           write == [t EXCEPT !.writeAcked = TRUE, !.localWriterBroken = TRUE, !.localWriteClosed = TRUE]
<1>1. ReceiveControlAck(s, type) \in
        {s, tryFinalizeRemoteEOF(read), tryFinalizeRemoteEOF(maybeInitiateClientCloseRead(write)),
         finalizeClose(clearAllQueues(s), "reset")}
  BY DEF ReceiveControlAck, Closings
<1>2. Fine(t, v)
  <2>1. Fine(u, v)
    <3>1. s \in ARQ
      BY DEF Fine, Fields
    <3>2. u \in ARQ
      BY <3>1 DEF ARQ, Closings
    <3>3. Fields(u, v)
      BY <3>1, <3>2 DEF Fine, Fields, ARQ
    <3>4. Sender(u, v)
      BY <3>1, <3>2 DEF Fine, Sender, ARQ
    <3>5. Receiver(u, v)
      BY <3>1, <3>2 DEF Fine, Receiver, Safe, Gone, ARQ
    <3>6. \A m \in u.out : Honest(m, u, v.w, v.own)
      BY <3>1, <3>2 DEF Fine, Honest, Safe, Gone, ARQ
    <3> QED
      BY <3>3, <3>4, <3>5, <3>6 DEF Fine
  <2> HIDE DEF u
  <2>2. u \in ARQ
    BY <2>1 DEF Fine, Fields
  <2>3. Alike(u, [u EXCEPT !.waitingFor = "none"])
    BY <2>2 DEF Alike, ARQ
  <2> QED
    BY <2>1, <2>3, AlikeFine DEF clearWaitingAck
<1> HIDE DEF t
<1>3. t \in ARQ
  BY <1>2 DEF Fine, Fields
<1>4. Fine(read, v)
  <2>1. Alike(t, read)
    BY <1>3 DEF Alike, ARQ
  <2> QED
    BY <1>2, <2>1, AlikeFine
<1>5. Fine(write, v)
  <2>1. write \in ARQ
    BY <1>3 DEF ARQ
  <2>2. Fields(write, v)
    BY <1>2, <1>3, <2>1 DEF Fine, Fields, ARQ
  <2>3. Sender(write, v)
    BY <1>2, <1>3, <2>1 DEF Fine, Sender, ARQ
  <2>4. Receiver(write, v)
    BY <1>2, <1>3, <2>1 DEF Fine, Receiver, Safe, Gone, ARQ
  <2>5. \A m \in write.out : Honest(m, write, v.w, v.own)
    BY <1>2, <1>3, <2>1 DEF Fine, Honest, Safe, Gone, ARQ
  <2> QED
    BY <1>2, <2>2, <2>3, <2>4, <2>5 DEF Fine
<1> HIDE DEF read, write
<1>6. Fine(tryFinalizeRemoteEOF(read), v)
  BY <1>4, TryFine
<1>7. Fine(tryFinalizeRemoteEOF(maybeInitiateClientCloseRead(write)), v)
  BY <1>5, InitiateFine, TryFine
<1> QED
  BY <1>1, <1>6, <1>7, ClearedFine

LEMMA HandledFine ==
    ASSUME NEW v, NEW s, Fine(s, v), NEW m \in PacketSet,
           m.type = "data" => m.n \in v.theirs,
           m.type = "data_ack" => m.n \in v.held,
           m.type = "close_read" => v.asked,
           m.type = "close_write" => Nat \subseteq v.held
    PROVE  Fine(Handled(s, m), v)
<1>1. m.n \in Nat /\ m.type \in Types
  BY DEF PacketSet
<1>2. CASE m.type = "data"
  BY <1>1, <1>2, DataFine DEF Handled, Closings
<1>3. CASE m.type = "data_ack"
  BY <1>1, <1>3, AckFine DEF Handled, Closings
<1>4. CASE m.type \in Closings
  BY <1>1, <1>4, ClosingFine DEF Handled, Closings
<1>5. CASE m.type \notin {"data", "data_ack"} \cup Closings
  <2>1. PICK c \in Closings : c = CHOOSE k \in Closings : m.type = AckOf(k)
    BY <1>1, <1>5 DEF Types
  <2>2. Handled(s, m) = ReceiveControlAck(s, c)
    BY <1>5, <2>1 DEF Handled
  <2> QED
    BY <2>2, ControlAckFine
<1> QED
  BY <1>2, <1>3, <1>4, <1>5

----------------------------------------------------------------------------
(* What the goroutines do with chunks.                                     *)

(* rxLoop answers for a chunk only when it is buffered or was written.     *)
LEMMA ProcessFine ==
    ASSUME NEW v, NEW s, Fine(s, v), NEW n \in s.inbound, s.out = {},
           NEW e, e = s.self,
           NEW t, t = [s EXCEPT !.inbound = @ \ {n}]
    PROVE  /\ Fine(t, v) /\ Fine(Data_AfterBreak(t), v)
           /\ ~t.localWriterBroken =>
                Fine([t EXCEPT !.rcvBuf = IF n >= t.rcvNxt THEN @ \cup {n} ELSE @,
                               !.out = {Packet(Peer(e), "data_ack", n)}, !.flush = TRUE], v)
<1>1. s \in ARQ /\ e \in Ends /\ n \in Nat
  BY DEF Fine, Fields, ARQ
<1>2. ~s.closed
  BY DEF Fine, Receiver
<1>3. Fine(t, v)
  <2>1. s \in ARQ
    BY DEF Fine, Fields
  <2>2. t \in ARQ
    BY <1>2, <2>1 DEF ARQ, Closings
  <2>3. Fields(t, v)
    BY <1>2, <2>1, <2>2 DEF Fine, Fields, ARQ
  <2>4. Sender(t, v)
    BY <1>2, <2>1, <2>2 DEF Fine, Sender, ARQ
  <2>5. Receiver(t, v)
    BY <1>2, <2>1, <2>2 DEF Fine, Receiver, Safe, Gone, ARQ
  <2>6. \A m \in t.out : Honest(m, t, v.w, v.own)
    BY <1>2, <2>1, <2>2 DEF Fine, Honest, Safe, Gone, ARQ
  <2> QED
    BY <2>3, <2>4, <2>5, <2>6 DEF Fine
<1>4. Fine(Data_AfterBreak(t), v)
  BY <1>3, CloseWriteFine DEF Data_AfterBreak
<1>5. ASSUME ~t.localWriterBroken
      PROVE  Fine([t EXCEPT !.rcvBuf = IF n >= t.rcvNxt THEN @ \cup {n} ELSE @,
                            !.out = {Packet(Peer(e), "data_ack", n)}, !.flush = TRUE], v)
  <2> DEFINE m == Packet(Peer(e), "data_ack", n)
             buffered == IF n >= t.rcvNxt THEN t.rcvBuf \cup {n} ELSE t.rcvBuf
             u == [t EXCEPT !.rcvBuf = buffered, !.out = {m}, !.flush = TRUE]
  <2>1. Peer(e) \in Ends /\ Peer(e) # e /\ "data_ack" \in Types
    BY <1>1, Peers DEF Types
  <2>2. m \in PacketSet /\ m.to # s.self /\ m.type = "data_ack" /\ m.n = n
    BY <1>1, <2>1, PacketTypes
  <2> HIDE DEF m
  <2>3. t \in ARQ /\ t.self = s.self /\ t.closed = FALSE /\ t.out = {}
    BY <1>1, <1>2, <1>3 DEF ARQ
  <2>4. buffered \in SUBSET Nat
    BY <1>1, <2>3 DEF ARQ
  <2>5. n \in v.theirs
    BY DEF Fine, Fields
  <2>6. n \in buffered \/ n \in 1 .. t.rcvNxt - 1
    BY <1>1, <2>3, <2>5 DEF Fine, ARQ
  <2>7. t.rcvBuf \subseteq buffered /\ buffered \subseteq t.rcvBuf \cup {n}
        /\ (n \in buffered => n \in t.rcvBuf \/ n >= t.rcvNxt)
    OBVIOUS
  <2> HIDE DEF buffered
  <2>8. u \in ARQ
    <3>1. {m} \in SUBSET PacketSet
      BY <2>2
    <3>2. ASSUME NEW x \in ARQ, NEW b \in SUBSET Nat, NEW o \in SUBSET PacketSet
          PROVE  [x EXCEPT !.rcvBuf = b, !.out = o, !.flush = TRUE] \in ARQ
      BY DEF ARQ
    <3> QED
      BY <2>3, <2>4, <3>1, <3>2
  <2>9. Fields(u, v)
    BY <1>3, <2>3, <2>5, <2>7, <2>8 DEF Fine, Fields, ARQ
  <2>10. Sender(u, v)
    BY <1>3, <2>3, <2>8 DEF Fine, Sender, ARQ
  <2>11. Receiver(u, v)
    BY <1>1, <1>3, <2>3, <2>4, <2>7, <2>8 DEF Fine, Receiver, Safe, Gone, ARQ
  <2>12. n \in Safe(u, v.w)
    BY <1>1, <1>3, <2>3, <2>6, <2>8 DEF Fine, Receiver, Safe, Gone, ARQ
  <2>13. \A p \in u.out : Honest(p, u, v.w, v.own)
    BY <2>2, <2>3, <2>8, <2>12 DEF Honest, ARQ
  <2>14. Fine(u, v)
    BY <1>3, <2>9, <2>10, <2>11, <2>13 DEF Fine
  <2> QED
    BY <2>14 DEF buffered, m
<1> QED
  BY <1>3, <1>4, <1>5

(* The chunks writeLoop takes are the next ones, without a gap.            *)
LEMMA ReadyIsNext ==
    ASSUME NEW s \in ARQ, NEW top \in Nat, s.rcvBuf \subseteq 1 .. top,
           \A n \in s.rcvBuf : n >= s.rcvNxt
    PROVE  /\ Cardinality(Ready(s)) \in Nat
           /\ Ready(s) = s.rcvNxt .. (s.rcvNxt + Cardinality(Ready(s)) - 1)
<1> DEFINE R == Ready(s)
           a == s.rcvNxt
<1>1. a \in Int /\ R \subseteq 1 .. top /\ \A n \in R : n >= a
  BY DEF ARQ, Ready
<1>2. IsFiniteSet(R) /\ Cardinality(R) \in Nat
  <2>1. IsFiniteSet(1 .. top)
    BY FS_Interval
  <2>2. IsFiniteSet(R)
    BY <1>1, <2>1, FS_Subset
  <2> QED
    BY <2>2, FS_CardinalityType
<1>3. \A n \in R : a .. n \subseteq R
  <2> SUFFICES ASSUME NEW n \in R, NEW m \in a .. n PROVE m \in R
    OBVIOUS
  <2>1. m \in s.rcvBuf /\ a .. m \subseteq a .. n
    BY <1>1 DEF Ready
  <2> QED
    BY <2>1 DEF Ready
<1> HIDE DEF R, a
<1>4. PICK k \in Nat : k = Cardinality(R)
  BY <1>2
<1>5. PICK b \in Int : b = a + k - 1
  BY <1>1
<1>6. \A n \in R : n <= b
  <2> SUFFICES ASSUME NEW n \in R PROVE n <= b
    OBVIOUS
  <2>1. a .. n \subseteq R /\ n \in Int /\ n >= a
    BY <1>1, <1>3
  <2>2. Cardinality(a .. n) = n - a + 1
    BY <1>1, <2>1, FS_Interval
  <2>3. Cardinality(a .. n) <= k
    BY <1>2, <1>4, <2>1, FS_Subset
  <2> QED
    BY <1>1, <1>5, <2>1, <2>2, <2>3
<1>7. R \subseteq a .. b
  BY <1>1, <1>6
<1>8. IsFiniteSet(a .. b) /\ Cardinality(a .. b) = k
  BY <1>1, <1>5, FS_Interval
<1>9. R = a .. b
  BY <1>4, <1>7, <1>8, FS_Subset
<1> QED
  BY <1>4, <1>5, <1>9 DEF R, a

LEMMA TakeFine ==
    ASSUME NEW v, NEW s, Fine(s, v), ~s.closed, s.writing = {}, NEW top \in Nat, v.theirs = 1 .. top
    PROVE  Fine([s EXCEPT !.writing = Ready(s), !.rcvBuf = @ \ Ready(s),
                          !.rcvNxt = @ + Cardinality(Ready(s))], v)
<1> DEFINE k == Cardinality(Ready(s))
           t == [s EXCEPT !.writing = Ready(s), !.rcvBuf = @ \ Ready(s), !.rcvNxt = @ + k]
<1>1. s \in ARQ
  BY DEF Fine, Fields
<1>2. s.rcvBuf \subseteq 1 .. top /\ \A n \in s.rcvBuf : n >= s.rcvNxt
  BY DEF Fine, Fields, Receiver
<1>3. k \in Nat /\ Ready(s) = s.rcvNxt .. (s.rcvNxt + k - 1)
  BY <1>1, <1>2, ReadyIsNext
<1>4. Ready(s) \subseteq s.rcvBuf
  BY DEF Ready
<1> HIDE DEF k
<1>5. PICK R : R = Ready(s)
  OBVIOUS
<1>6. t = [s EXCEPT !.writing = R, !.rcvBuf = @ \ R, !.rcvNxt = @ + k]
  BY <1>5
<1> HIDE DEF t
<1>7. t \in ARQ
  <2>1. s.rcvNxt + k \in Nat \ {0} /\ R \in SUBSET Nat /\ s.rcvBuf \ R \in SUBSET Nat
    BY <1>1, <1>3, <1>4, <1>5 DEF ARQ
  <2> QED
    BY <1>1, <1>6, <2>1 DEF ARQ
<1>8. Fields(t, v)
  BY <1>1, <1>4, <1>5, <1>6, <1>7 DEF Fine, Fields, ARQ
<1>9. Sender(t, v)
  BY <1>1, <1>6, <1>7 DEF Fine, Sender, ARQ
<1>10. Receiver(t, v)
  <2>1. /\ t.rcvNxt = s.rcvNxt + k /\ t.writing = R /\ t.rcvBuf = s.rcvBuf \ R
        /\ Gone(t) = Gone(s) /\ ~t.closed /\ t.how = s.how /\ t.readReceived = s.readReceived
    BY <1>1, <1>6 DEF ARQ, Gone
  <2>2. s.rcvNxt \in Nat /\ s.rcvBuf \subseteq Nat
    BY <1>1 DEF ARQ
  <2>3. Safe(t, v.w) = Safe(s, v.w)
    BY <1>4, <1>5, <2>1 DEF Safe
  <2>4. Gone(s) \/ 1 .. s.rcvNxt - 1 \subseteq v.w
    BY DEF Fine, Receiver
  <2>5. Gone(t) \/ 1 .. t.rcvNxt - 1 \subseteq v.w \cup t.writing
    BY <1>3, <1>5, <2>1, <2>2, <2>4
  <2>6. \A n \in t.rcvBuf : n >= t.rcvNxt
    BY <1>2, <1>3, <1>5, <2>1, <2>2
  <2>7. s.how = "open"
    BY DEF Fine, Fields
  <2> QED
    BY <2>1, <2>3, <2>5, <2>6, <2>7 DEF Fine, Receiver
<1>11. \A m \in t.out : Honest(m, t, v.w, v.own)
  BY <1>1, <1>4, <1>5, <1>6, <1>7 DEF Fine, Honest, Safe, Gone, ARQ
<1>12. Fine(t, v)
  BY <1>8, <1>9, <1>10, <1>11 DEF Fine
<1> QED
  BY <1>12 DEF t, k

----------------------------------------------------------------------------
(* The inductive invariant                                                 *)

(* The view of e, were b what it read before close_read and w what it has  *)
(* written.                                                                *)
Seen(e, b, w) ==
    [self |-> e, own |-> Chunks(e), theirs |-> Chunks(Peer(e)),
     held |-> Safe(ends[Peer(e)], written[Peer(e)]), before |-> b, w |-> w,
     kept |-> Safe(ends[e], written[e]), began |-> ends[e].readSent,
     asked |-> ends[Peer(e)].readSent]

View(e) == Seen(e, early[e], written[e])

IInv ==
    /\ scene \in Scenes
    /\ ends \in [Ends -> ARQ]
    /\ early \in [Ends -> SUBSET Nat] /\ written \in [Ends -> SUBSET Nat]
    /\ \A e \in Ends : ends[e].out = {} /\ Fine(ends[e], View(e))
    /\ \A m \in net : LET p == Peer(m.to) IN Honest(m, ends[p], written[p], Chunks(p))

LEMMA ViewFine ==
    ASSUME NEW v, NEW u, NEW s, Fine(s, v),
           u.self = v.self, u.own = v.own, u.theirs = v.theirs, u.before = v.before, u.w = v.w,
           v.held \subseteq u.held, u.kept \subseteq Safe(s, u.w), u.began => s.readSent,
           v.asked => u.asked
    PROVE  Fine(s, u)
<1>1. Fields(s, u)
  BY DEF Fine, Fields
<1>2. Sender(s, u)
  BY DEF Fine, Sender
<1>3. Receiver(s, u)
  BY DEF Fine, Receiver
<1> QED
  BY <1>1, <1>2, <1>3 DEF Fine

LEMMA SentFine ==
    ASSUME NEW v, NEW s, Fine(s, v)
    PROVE  Fine([s EXCEPT !.out = {}], v)
<1> DEFINE t == [s EXCEPT !.out = {}]
<1>1. s \in ARQ
  BY DEF Fine, Fields
<1>2. t \in ARQ
  BY <1>1 DEF ARQ, Closings
<1>3. Fields(t, v)
  BY <1>1, <1>2 DEF Fine, Fields, ARQ
<1>4. Sender(t, v)
  BY <1>1, <1>2 DEF Fine, Sender, ARQ
<1>5. Receiver(t, v)
  BY <1>1, <1>2 DEF Fine, Receiver, Safe, Gone, ARQ
<1>6. \A m \in t.out : Honest(m, t, v.w, v.own)
  BY <1>1, <1>2 DEF Fine, Honest, Safe, Gone, ARQ
<1> QED
  BY <1>3, <1>4, <1>5, <1>6 DEF Fine

LEMMA SceneChunks ==
    ASSUME scene \in Scenes, NEW e \in Ends
    PROVE  scene.chunks[e] \in Nat
BY EndsAssumption

(* What one endpoint does keeps the invariant, if its own record is fine:  *)
(* its peer's view only gains.                                             *)
LEMMA StepKeeps ==
    ASSUME IInv, UNCHANGED scene, NEW e \in Ends, NEW t, NEW b \in SUBSET Nat, NEW w \in SUBSET Nat,
           Fine(t, Seen(e, b, w)),
           NEW packets \in SUBSET net, Becomes(e, t, packets),
           early' = [early EXCEPT ![e] = b], written' = [written EXCEPT ![e] = w]
    PROVE  IInv'
<1> DEFINE p == Peer(e)
           u == [t EXCEPT !.out = {}]
<1>1. p \in Ends /\ p # e /\ Peer(p) = e /\ \A x \in Ends : x \in {e, p}
  BY Peers
<1>2. Fine(u, Seen(e, b, w))
  BY SentFine
<1>3. t \in ARQ /\ u \in ARQ
  BY <1>2 DEF Fine, Fields
<1>4. u.out = {} /\ u.self = t.self /\ u.readSent = t.readSent /\ Safe(u, w) = Safe(t, w)
  BY <1>3 DEF ARQ, Safe, Gone
<1>5. ends' = [ends EXCEPT ![e] = u] /\ net' = packets \cup t.out
  BY DEF Becomes
<1> HIDE DEF u
<1>6. /\ ends' \in [Ends -> ARQ] /\ ends'[e] = u /\ ends'[p] = ends[p]
      /\ early' \in [Ends -> SUBSET Nat] /\ early'[e] = b /\ early'[p] = early[p]
      /\ written' \in [Ends -> SUBSET Nat] /\ written'[e] = w /\ written'[p] = written[p]
  BY <1>1, <1>3, <1>5 DEF IInv
<1>7. \A x \in Ends : Chunks(x)' = Chunks(x)
  BY DEF Chunks
<1>8. Safe(ends[e], written[e]) \subseteq Safe(u, w) /\ (ends[e].readSent => u.readSent)
  BY <1>2 DEF Fine, Receiver, Sender, Seen
<1>9. Fine(ends'[e], View(e)')
  <2>1. PICK z : z = View(e)'
    OBVIOUS
  <2>2. PICK v : v = Seen(e, b, w)
    OBVIOUS
  <2>3. z.self = v.self /\ z.own = v.own /\ z.theirs = v.theirs /\ z.before = v.before /\ z.w = v.w
    BY <1>1, <1>6, <1>7, <2>1, <2>2 DEF View, Seen
  <2>4. z.w = w /\ z.held = v.held /\ z.kept = Safe(u, w) /\ z.began = u.readSent /\ z.asked = v.asked
    BY <1>1, <1>6, <1>7, <2>1, <2>2 DEF View, Seen
  <2> QED
    BY <1>2, <1>6, <2>1, <2>2, <2>3, <2>4, ViewFine
<1>10. Fine(ends'[p], View(p)')
  <2>1. PICK z : z = View(p)'
    OBVIOUS
  <2>2. PICK v : v = View(p)
    OBVIOUS
  <2>3. z.self = v.self /\ z.own = v.own /\ z.theirs = v.theirs /\ z.before = v.before /\ z.w = v.w
    BY <1>1, <1>6, <1>7, <2>1, <2>2 DEF View, Seen
  <2>4. /\ z.held = Safe(u, w) /\ v.held = Safe(ends[e], written[e])
        /\ z.asked = u.readSent /\ v.asked = ends[e].readSent
        /\ z.kept = Safe(ends[p], v.w) /\ z.began = ends[p].readSent
    BY <1>1, <1>6, <1>7, <2>1, <2>2 DEF View, Seen
  <2>5. Fine(ends[p], v)
    BY <1>1, <2>2 DEF IInv
  <2> QED
    BY <1>6, <1>8, <2>1, <2>3, <2>4, <2>5, ViewFine
<1>11. ASSUME NEW m \in net'
       PROVE  LET q == Peer(m.to) IN Honest(m, ends'[q], written'[q], Chunks(q)')
  <2>1. CASE m \in t.out
    <3>1. Honest(m, t, w, Chunks(e)) /\ t.self = e
      BY <2>1 DEF Fine, Fields, Seen
    <3>2. m.to = p
      BY <1>1, <3>1 DEF Honest, PacketSet
    <3> QED
      BY <1>1, <1>4, <1>6, <1>7, <3>1, <3>2 DEF Honest
  <2>2. CASE m \in net
    <3>1. LET q == Peer(m.to) IN Honest(m, ends[q], written[q], Chunks(q))
      BY <2>2 DEF IInv
    <3>2. m.to \in Ends /\ \A x \in Ends : ends[x].self = x
      BY <3>1 DEF Honest, PacketSet, IInv, Fine, Fields, View, Seen
    <3>3. CASE m.to = e
      BY <1>1, <1>6, <1>7, <3>1, <3>3
    <3>4. CASE m.to = p
      BY <1>1, <1>2, <1>6, <1>7, <1>8, <3>1, <3>2, <3>4 DEF Honest, Fine, Fields, Seen
    <3> QED
      BY <1>1, <3>2, <3>3, <3>4
  <2> QED
    BY <1>5, <2>1, <2>2
<1>12. scene' \in Scenes /\ \A x \in Ends : ends'[x].out = {}
  BY <1>1, <1>4, <1>6 DEF IInv
<1> QED
  BY <1>1, <1>6, <1>9, <1>10, <1>11, <1>12 DEF IInv

(* ... and for a step that reads and writes nothing.                       *)
LEMMA QuietStepKeeps ==
    ASSUME IInv, UNCHANGED scene, NEW e \in Ends, NEW t, Fine(t, View(e)),
           NEW packets \in SUBSET net, Becomes(e, t, packets), Unwritten
    PROVE  IInv'
<1>1. early[e] \in SUBSET Nat /\ written[e] \in SUBSET Nat
  BY DEF IInv
<1>2. early' = [early EXCEPT ![e] = early[e]] /\ written' = [written EXCEPT ![e] = written[e]]
  BY DEF IInv, Unwritten
<1> QED
  BY <1>1, <1>2, StepKeeps DEF View

(* What each lemma about a step starts from.                               *)
LEMMA Start ==
    ASSUME IInv, NEW e \in Ends
    PROVE  /\ Fine(ends[e], View(e)) /\ ends[e].out = {} /\ ends[e] \in ARQ /\ ends[e].self = e
           /\ net \in SUBSET net
           /\ View(e).self = e /\ View(e).own = Chunks(e) /\ View(e).theirs = Chunks(Peer(e))
           /\ View(e).held = Safe(ends[Peer(e)], written[Peer(e)]) /\ View(e).before = early[e]
           /\ View(e).w = written[e] /\ View(e).kept = Safe(ends[e], written[e])
           /\ View(e).began = ends[e].readSent /\ View(e).asked = ends[Peer(e)].readSent
<1>1. Fine(ends[e], View(e)) /\ ends[e].out = {}
  BY DEF IInv
<1> QED
  BY <1>1 DEF Fine, Fields, View, Seen

LEMMA IoCheckKeeps ==
    ASSUME IInv, UNCHANGED scene, NEW e \in Ends, IoCheck(e)
    PROVE  IInv'
BY Start, IoFine, QuietStepKeeps DEF IoCheck

LEMMA IoTimeoutKeeps ==
    ASSUME IInv, UNCHANGED scene, NEW e \in Ends, IoTimeout(e)
    PROVE  IInv'
BY Start, IoFine, QuietStepKeeps DEF IoTimeout

(* A chunk that is read is in sndBuf; it counts as read before close_read  *)
(* only when that was not sent.                                            *)
LEMMA ChunkFine ==
    ASSUME IInv, NEW e \in Ends, ends[e].sndNxt <= scene.chunks[e], Reading(e)
    PROVE  LET s == ends[e]
               b == IF s.readSent THEN early[e] ELSE early[e] \cup {s.sndNxt}
           IN  /\ Fine(WithChunk(s), View(e)) /\ Fine(WithChunk(s), Seen(e, b, written[e]))
               /\ b \in SUBSET Nat
<1> DEFINE s == ends[e]
           b == IF s.readSent THEN early[e] ELSE early[e] \cup {s.sndNxt}
           m == Packet(Peer(e), "data", s.sndNxt)
           t == [s EXCEPT !.sndNxt = @ + 1, !.sndBuf = @ \cup {s.sndNxt}, !.out = {m}]
<1>1. /\ Fine(s, View(e)) /\ s.out = {} /\ s \in ARQ /\ s.self = e /\ ~s.closed
  BY Start DEF Reading
<1>2. s.sndNxt \in Nat \ {0} /\ s.sndNxt \in Chunks(e)
  <2>1. s.sndNxt \in Nat \ {0}
    BY <1>1 DEF ARQ
  <2>2. scene.chunks[e] \in Nat
    BY SceneChunks DEF IInv
  <2> QED
    BY <2>1, <2>2 DEF Chunks
<1>3. Peer(e) \in Ends /\ Peer(e) # e /\ "data" \in Types
  BY Peers DEF Types
<1>4. m \in PacketSet /\ m.to # s.self /\ m.type = "data" /\ m.n = s.sndNxt
  BY <1>1, <1>2, <1>3, PacketTypes
<1>5. WithChunk(s) = t
  <2>1. s.out \cup {m} = {m}
    BY <1>1
  <2> QED
    BY <1>1, <2>1 DEF WithChunk
<1> HIDE DEF m
<1>6. early[e] \in SUBSET Nat
  BY DEF IInv
<1>7. b \in SUBSET Nat /\ early[e] \subseteq b
  BY <1>2, <1>6
<1>8. ASSUME NEW v, Fine(s, v), v.own = Chunks(e), NEW a, a \subseteq b, NEW u,
             u.self = v.self, u.own = v.own, u.theirs = v.theirs, u.held = v.held, u.before = a,
             u.w = v.w, u.kept = v.kept, u.began = v.began, u.asked = v.asked, v.before = early[e]
      PROVE  Fine(t, u)
  <2>1. PICK n \in Nat \ {0} : n = s.sndNxt
    BY <1>2
  <2>2. n + 1 \in Nat \ {0} /\ s.sndBuf \cup {n} \in SUBSET Nat /\ {m} \in SUBSET PacketSet
    BY <1>1, <1>4, <2>1 DEF ARQ
  <2>3. t = [s EXCEPT !.sndNxt = n + 1, !.sndBuf = s.sndBuf \cup {n}, !.out = {m}]
    BY <2>1
  <2> HIDE DEF t
  <2>4. t \in ARQ
    BY <1>1, <2>2, <2>3 DEF ARQ
  <2>5. Fields(t, u)
    <3>1. /\ t.self = s.self /\ t.closed = s.closed /\ t.how = s.how /\ t.deferred = s.deferred
          /\ t.stopLocalRead = s.stopLocalRead /\ t.sndBuf = s.sndBuf \cup {n}
          /\ t.inbound = s.inbound /\ t.rcvBuf = s.rcvBuf /\ t.writing = s.writing
      BY <1>1, <2>3, <2>4 DEF ARQ
    <3>2. Fields(s, v) /\ n \in u.own
      BY <1>2, <1>8, <2>1 DEF Fine
    <3> QED
      BY <1>8, <2>4, <3>1, <3>2 DEF Fields
  <2>6. /\ t.rstSent = s.rstSent /\ t.rstReceived = s.rstReceived /\ t.closed = s.closed
        /\ t.sndNxt = n + 1 /\ t.sndBuf = s.sndBuf \cup {n} /\ t.readSent = s.readSent
        /\ t.tracked = s.tracked /\ t.localWriterBroken = s.localWriterBroken
    BY <1>1, <2>3, <2>4 DEF ARQ
  <2>7. 1 .. n = (1 .. n - 1) \cup {n}
    BY <2>1
  <2>8. Sender(s, v)
    BY <1>8 DEF Fine
  <2>9. a \subseteq 1 .. n /\ (s.readSent => a \subseteq early[e])
    BY <1>8, <2>1, <2>7, <2>8 DEF Sender
  <2>10. (n + 1) - 1 = n
    BY <2>1
  <2>11. Sender(t, u)
    BY <1>8, <2>1, <2>6, <2>7, <2>8, <2>9, <2>10 DEF Sender
  <2>12. Receiver(t, u)
    BY <1>1, <1>8, <2>3, <2>4 DEF Fine, Receiver, Safe, Gone, ARQ
  <2>13. t.out = {m} /\ t.self = s.self
    BY <1>1, <2>3, <2>4 DEF ARQ
  <2>14. \A p \in t.out : Honest(p, t, u.w, u.own)
    BY <1>2, <1>4, <1>8, <2>13 DEF Honest
  <2> QED
    BY <1>8, <2>5, <2>11, <2>12, <2>14 DEF Fine
<1>9. Fine(t, View(e))
  BY <1>1, <1>7, <1>8, Start
<1>10. Fine(t, Seen(e, b, written[e]))
  <2>1. PICK u : u = Seen(e, b, written[e])
    OBVIOUS
  <2>2. PICK v : v = View(e)
    OBVIOUS
  <2>3. /\ u.self = v.self /\ u.own = v.own /\ u.theirs = v.theirs /\ u.held = v.held /\ u.before = b
        /\ u.w = v.w /\ u.kept = v.kept /\ u.began = v.began /\ u.asked = v.asked
    BY <2>1, <2>2 DEF View, Seen
  <2>4. v.before = early[e] /\ v.own = Chunks(e) /\ Fine(s, v)
    BY <2>2, Start
  <2> HIDE DEF t, b
  <2>5. b \subseteq b
    OBVIOUS
  <2> QED
    BY <1>8, <2>1, <2>3, <2>4, <2>5
<1> QED
  BY <1>5, <1>7, <1>9, <1>10

LEMMA IoReadKeeps ==
    ASSUME IInv, UNCHANGED scene, NEW e \in Ends, IoRead(e)
    PROVE  IInv'
<1> DEFINE s == ends[e]
           b == IF s.readSent THEN early[e] ELSE early[e] \cup {s.sndNxt}
           t == WithChunk(s)
<1>1. Fine(t, Seen(e, b, written[e])) /\ b \in SUBSET Nat
  BY ChunkFine DEF IoRead
<1>2. early' = [early EXCEPT ![e] = b] /\ written' = [written EXCEPT ![e] = written[e]]
      /\ written[e] \in SUBSET Nat
  BY DEF IoRead, IInv
<1>3. Becomes(e, [t EXCEPT !.io = "check"], net)
  BY DEF IoRead
<1> HIDE DEF t, b
<1>4. Fine([t EXCEPT !.io = "check"], Seen(e, b, written[e]))
  BY <1>1, IoFine
<1> QED
  BY <1>1, <1>2, <1>3, <1>4, StepKeeps

LEMMA IoEOFKeeps ==
    ASSUME IInv, UNCHANGED scene, NEW e \in Ends, IoEOF(e)
    PROVE  IInv'
<1> DEFINE t == [ends[e] EXCEPT !.io = "done", !.eofSeen = (e = Client)]
<1>1. Fine(t, View(e))
  BY Start, IoFine
<1> HIDE DEF t
<1>2. Fine(CloseReadAfterDrain(t), View(e))
  BY <1>1, AfterDrainFine
<1> QED
  BY <1>2, Start, QuietStepKeeps DEF IoEOF, t

LEMMA IoFailKeeps ==
    ASSUME IInv, UNCHANGED scene, NEW e \in Ends, IoFail(e)
    PROVE  IInv'
<1> DEFINE s == [ends[e] EXCEPT !.io = "done"]
           t == [WithChunk(ends[e]) EXCEPT !.io = "done"]
<1>1. Fine(s, View(e))
  BY Start, IoFine
<1>2. s.sndNxt = ends[e].sndNxt /\ WithChunk(s) = t
  <2>1. ASSUME NEW x \in ARQ
        PROVE  /\ [x EXCEPT !.io = "done"].sndNxt = x.sndNxt
               /\ WithChunk([x EXCEPT !.io = "done"]) = [WithChunk(x) EXCEPT !.io = "done"]
    <3> DEFINE y == [x EXCEPT !.io = "done"]
    <3>1. y.sndNxt = x.sndNxt /\ y.self = x.self /\ y.sndBuf = x.sndBuf /\ y.out = x.out
      BY DEF ARQ
    <3>2. PICK n : n = x.sndNxt + 1
      OBVIOUS
    <3>3. PICK B : B = x.sndBuf \cup {x.sndNxt}
      OBVIOUS
    <3>4. PICK O : O = x.out \cup {Packet(Peer(x.self), "data", x.sndNxt)}
      OBVIOUS
    <3>5. WithChunk(x) = [x EXCEPT !.sndNxt = n, !.sndBuf = B, !.out = O]
      BY <3>2, <3>3, <3>4 DEF WithChunk
    <3>6. WithChunk(y) = [y EXCEPT !.sndNxt = n, !.sndBuf = B, !.out = O]
      BY <3>1, <3>2, <3>3, <3>4 DEF WithChunk
    <3>7. [y EXCEPT !.sndNxt = n, !.sndBuf = B, !.out = O]
            = [[x EXCEPT !.sndNxt = n, !.sndBuf = B, !.out = O] EXCEPT !.io = "done"]
      BY DEF ARQ
    <3> QED
      BY <3>1, <3>5, <3>6, <3>7
  <2> QED
    BY <2>1, Start
<1>3. s.sndNxt <= scene.chunks[e] => Fine(t, View(e))
  BY <1>2, ChunkFine, IoFine DEF IoFail
<1>4. /\ Unwritten
      /\ \/ Becomes(e, s, net) \/ Becomes(e, Reset(s, FALSE), net)
         \/ s.sndNxt <= scene.chunks[e] /\ Becomes(e, Reset(t, TRUE), net)
  BY <1>2 DEF IoFail
<1> HIDE DEF s, t
<1>5. Fine(Reset(s, FALSE), View(e))
  BY <1>1, ResetFine
<1>6. Fine(t, View(e)) => Fine(Reset(t, TRUE), View(e))
  BY ResetFine
<1> QED
  BY <1>1, <1>3, <1>4, <1>5, <1>6, Start, QuietStepKeeps

LEMMA TakeKeeps ==
    ASSUME IInv, UNCHANGED scene, NEW e \in Ends, Take(e)
    PROVE  IInv'
<1>1. PICK top \in Nat : View(e).theirs = 1 .. top
  BY Start, Peers, SceneChunks DEF Chunks, IInv
<1>2. PICK v : v = View(e)
  OBVIOUS
<1>3. PICK s : s = ends[e]
  OBVIOUS
<1>4. Fine(s, v) /\ v.theirs = 1 .. top
  BY <1>1, <1>2, <1>3, Start
<1>5. ~s.closed /\ s.writing = {}
  BY <1>3 DEF Take
<1>6. Fine([s EXCEPT !.writing = Ready(s), !.rcvBuf = @ \ Ready(s),
                     !.rcvNxt = @ + Cardinality(Ready(s))], v)
  BY <1>4, <1>5, TakeFine
<1> QED
  BY <1>2, <1>3, <1>6, Start, QuietStepKeeps DEF Take

(* What was taken is written.                                              *)
LEMMA WriteKeeps ==
    ASSUME IInv, UNCHANGED scene, NEW e \in Ends, Write(e)
    PROVE  IInv'
<1> DEFINE s == ends[e]
           t == [s EXCEPT !.writing = {}, !.writer = "again"]
           w == written[e] \cup s.writing
<1>1. /\ Fine(s, View(e)) /\ s \in ARQ /\ s.self = e /\ ~s.closed /\ s.out = {}
  BY Start DEF Write
<1>2. /\ early' = [early EXCEPT ![e] = early[e]] /\ written' = [written EXCEPT ![e] = w]
      /\ early[e] \in SUBSET Nat /\ w \in SUBSET Nat
  BY <1>1 DEF Write, IInv, ARQ
<1>3. t \in ARQ
  BY <1>1 DEF ARQ
<1>4. PICK v : v = View(e)
  OBVIOUS
<1>5. PICK u : u = Seen(e, early[e], w)
  OBVIOUS
<1>6. /\ u.self = v.self /\ u.own = v.own /\ u.theirs = v.theirs /\ u.held = v.held
      /\ u.before = v.before /\ u.kept = v.kept /\ u.began = v.began /\ u.asked = v.asked
      /\ u.w = v.w \cup s.writing
  BY <1>4, <1>5 DEF View, Seen
<1>7. /\ t.self = s.self /\ t.closed = s.closed /\ t.how = s.how /\ t.deferred = s.deferred
      /\ t.stopLocalRead = s.stopLocalRead /\ t.sndBuf = s.sndBuf /\ t.inbound = s.inbound
      /\ t.rcvBuf = s.rcvBuf /\ t.writing = {} /\ t.rstSent = s.rstSent
      /\ t.rstReceived = s.rstReceived /\ t.sndNxt = s.sndNxt /\ t.readSent = s.readSent
      /\ t.tracked = s.tracked /\ t.localWriterBroken = s.localWriterBroken
      /\ t.rcvNxt = s.rcvNxt /\ t.readReceived = s.readReceived /\ t.out = {}
  BY <1>1, <1>3 DEF ARQ
<1> HIDE DEF t
<1>8. Fine(s, v)
  BY <1>1, <1>4
<1>9. Fields(t, u)
  BY <1>3, <1>6, <1>7, <1>8 DEF Fine, Fields
<1>10. Sender(t, u)
  BY <1>6, <1>7, <1>8 DEF Fine, Sender
<1>11. Safe(t, u.w) = Safe(s, v.w) /\ Gone(t) = Gone(s)
  BY <1>6, <1>7 DEF Safe, Gone
<1>12. Receiver(t, u)
  BY <1>6, <1>7, <1>8, <1>11 DEF Fine, Receiver
<1>13. Fine(t, u)
  BY <1>6, <1>7, <1>8, <1>9, <1>10, <1>12 DEF Fine
<1>14. Fine(tryFinalizeRemoteEOF(t), u)
  BY <1>13, TryFine
<1>15. Becomes(e, tryFinalizeRemoteEOF(t), net) /\ net \in SUBSET net
  BY DEF Write, t
<1> HIDE DEF w
<1> QED
  BY <1>2, <1>5, <1>14, <1>15, StepKeeps

LEMMA WriteFailKeeps ==
    ASSUME IInv, UNCHANGED scene, NEW e \in Ends, WriteFail(e)
    PROVE  IInv'
<1> DEFINE t == [ends[e] EXCEPT !.localWriterBroken = TRUE, !.writing = {}, !.rcvBuf = {},
                                !.writer = "done"]
<1>1. Fine(t, View(e))
  BY Start, BrokenFine DEF WriteFail
<1>2. Becomes(e, EmitCloseWrite(t), net) /\ Unwritten
  BY DEF WriteFail
<1> HIDE DEF t
<1> QED
  BY <1>1, <1>2, CloseWriteFine, Start, QuietStepKeeps

LEMMA LookKeeps ==
    ASSUME IInv, UNCHANGED scene, NEW e \in Ends, Look(e)
    PROVE  IInv'
BY Start, WriterFine, QuietStepKeeps DEF Look

LEMMA IdleKeeps ==
    ASSUME IInv, UNCHANGED scene, NEW e \in Ends, Idle(e)
    PROVE  IInv'
<1> DEFINE t == IF MayShut(ends[e]) /\ ~ends[e].localWriteClosed /\ ~ends[e].closed
                THEN [ends[e] EXCEPT !.localWriteClosed = TRUE, !.shut = TRUE] ELSE ends[e]
<1>1. Fine(t, View(e))
  BY Start, ShutFine
<1>2. Becomes(e, tryFinalizeRemoteEOF([t EXCEPT !.writer = "loop"]), net) /\ Unwritten
  BY DEF Idle
<1> HIDE DEF t
<1>3. Fine([t EXCEPT !.writer = "loop"], View(e))
  BY <1>1, WriterFine
<1> QED
  BY <1>2, <1>3, TryFine, Start, QuietStepKeeps

LEMMA DeliverKeeps ==
    ASSUME IInv, UNCHANGED scene, NEW m \in net, Deliver(m)
    PROVE  IInv'
<1> DEFINE e == m.to
           p == Peer(e)
<1>1. Honest(m, ends[p], written[p], Chunks(p))
  BY DEF IInv
<1>2. m \in PacketSet /\ e \in Ends
  BY <1>1 DEF Honest, PacketSet
<1>3. Fine(Handled(ends[e], m), View(e))
  BY <1>1, <1>2, Start, HandledFine DEF Honest
<1>4. net \ {m} \in SUBSET net
  OBVIOUS
<1> QED
  BY <1>2, <1>3, <1>4, QuietStepKeeps DEF Deliver

LEMMA ProcessKeeps ==
    ASSUME IInv, UNCHANGED scene, NEW e \in Ends, NEW n, Process(e, n)
    PROVE  IInv'
<1> DEFINE t == [ends[e] EXCEPT !.inbound = @ \ {n}]
           u == [t EXCEPT !.rcvBuf = IF n >= t.rcvNxt THEN @ \cup {n} ELSE @,
                          !.out = {Packet(Peer(e), "data_ack", n)}, !.flush = TRUE]
<1>1. /\ Fine(t, View(e)) /\ Fine(Data_AfterBreak(t), View(e))
      /\ ~t.localWriterBroken => Fine(u, View(e))
  BY Start, ProcessFine DEF Process
<1>2. \/ Becomes(e, t, net) \/ Becomes(e, Data_AfterBreak(t), net)
      \/ ~t.localWriterBroken /\ Becomes(e, u, net)
  BY DEF Process
<1> HIDE DEF t, u
<1> QED
  BY <1>1, <1>2, Start, QuietStepKeeps DEF Process

(* The network may lose a packet and the retransmit loop repeat one.       *)
LEMMA LoseKeeps ==
    ASSUME IInv, UNCHANGED scene, NEW m \in net, Lose(m)
    PROVE  IInv'
<1>1. net' \subseteq net /\ ends' = ends /\ early' = early /\ written' = written
  BY DEF Lose
<1>2. \A e \in Ends : View(e)' = View(e) /\ Chunks(e)' = Chunks(e)
  BY <1>1 DEF View, Seen, Chunks, Safe, Gone
<1>3. ASSUME NEW x \in net'
      PROVE  LET q == Peer(x.to) IN Honest(x, ends'[q], written'[q], Chunks(q)')
  <2>1. LET q == Peer(x.to) IN Honest(x, ends[q], written[q], Chunks(q))
    BY <1>1 DEF IInv
  <2>2. Peer(x.to) \in Ends
    BY <2>1, Peers DEF Honest, PacketSet
  <2> QED
    BY <1>1, <1>2, <2>1, <2>2
<1> QED
  BY <1>1, <1>2, <1>3 DEF IInv

LEMMA ResendKeeps ==
    ASSUME IInv, UNCHANGED scene, NEW e \in Ends, Resend(e)
    PROVE  IInv'
<1> DEFINE s == ends[e]
<1>1. PICK m \in Resendable(e) : net' = net \cup {m}
  BY DEF Resend
<1>2. ends' = ends /\ early' = early /\ written' = written
  BY DEF Resend
<1>3. Fine(s, View(e)) /\ s \in ARQ /\ s.self = e
  BY Start
<1>4. Peer(e) \in Ends /\ Peer(e) # e /\ Peer(Peer(e)) = e
  BY Peers
<1>5. Honest(m, s, written[e], Chunks(e)) /\ m.to = Peer(e)
  <2>1. CASE \E n \in s.sndBuf : m = Packet(Peer(e), "data", n)
    <3>1. PICK n \in s.sndBuf : m = Packet(Peer(e), "data", n)
      BY <2>1
    <3>2. n \in Nat /\ n \in Chunks(e) /\ "data" \in Types
      BY <1>3, Start DEF ARQ, Fine, Fields, Types
    <3> QED
      BY <1>3, <1>4, <3>1, <3>2, PacketTypes DEF Honest
  <2>2. CASE \E type \in s.tracked : m = Packet(Peer(e), type, 0)
    <3>1. PICK type \in s.tracked : m = Packet(Peer(e), type, 0)
      BY <2>2
    <3>2. type \in Closings /\ type \in Types /\ 0 \in Nat
      BY <1>3 DEF ARQ, Types
    <3>3. m \in PacketSet /\ m.to = Peer(e) /\ m.type = type
      BY <1>4, <3>1, <3>2, PacketTypes
    <3>4. type = "close_read" => s.readSent
      BY <1>3 DEF Fine, Sender
    <3>5. type = "close_write" => Nat \subseteq Safe(s, written[e])
      BY <1>3 DEF Fine, Sender, Safe, Gone
    <3> QED
      BY <1>3, <1>4, <3>2, <3>3, <3>4, <3>5 DEF Honest, Closings
  <2> QED
    BY <2>1, <2>2 DEF Resendable
<1>6. \A x \in Ends : View(x)' = View(x) /\ Chunks(x)' = Chunks(x)
  BY <1>2 DEF View, Seen, Chunks, Safe, Gone
<1>7. ASSUME NEW x \in net'
      PROVE  LET q == Peer(x.to) IN Honest(x, ends'[q], written'[q], Chunks(q)')
  <2>1. LET q == Peer(x.to) IN Honest(x, ends[q], written[q], Chunks(q))
    BY <1>1, <1>4, <1>5 DEF IInv
  <2>2. Peer(x.to) \in Ends
    BY <2>1, Peers DEF Honest, PacketSet
  <2> QED
    BY <1>2, <1>6, <2>1, <2>2
<1> QED
  BY <1>2, <1>6, <1>7 DEF IInv

(* Timers end a stream in order or by a reset.                             *)
LEMMA UntrackedFine ==
    ASSUME NEW v, NEW s, Fine(s, v), NEW type
    PROVE  Fine([s EXCEPT !.tracked = @ \ {type}], v)
<1> DEFINE t == [s EXCEPT !.tracked = @ \ {type}]
<1>1. s \in ARQ
  BY DEF Fine, Fields
<1>2. t \in ARQ
  BY <1>1 DEF ARQ, Closings
<1>3. Fields(t, v)
  BY <1>1, <1>2 DEF Fine, Fields, ARQ
<1>4. Sender(t, v)
  BY <1>1, <1>2 DEF Fine, Sender, ARQ
<1>5. Receiver(t, v)
  BY <1>1, <1>2 DEF Fine, Receiver, Safe, Gone, ARQ
<1>6. \A m \in t.out : Honest(m, t, v.w, v.own)
  BY <1>1, <1>2 DEF Fine, Honest, Safe, Gone, ARQ
<1> QED
  BY <1>3, <1>4, <1>5, <1>6 DEF Fine

LEMMA TimerKeeps ==
    ASSUME IInv, UNCHANGED scene, NEW e \in Ends, Timer(e)
    PROVE  IInv'
<1> DEFINE s == ends[e]
<1>1. Fine(s, View(e)) /\ net \in SUBSET net
  BY Start
<1>2. Fine(Reset(s, FALSE), View(e)) /\ Fine(finalizeClose(s, "reset"), View(e))
  BY <1>1, ResetFine, FinalizeFine
<1>3. CASE DrainTimeout(e)
  BY <1>1, <1>3, SettleFine, QuietStepKeeps DEF DrainTimeout
<1>4. CASE AckTimeout(e)
  BY <1>1, <1>2, <1>4, QuietStepKeeps DEF AckTimeout, Expires
<1>5. CASE GraceElapsed(e)
  BY <1>1, <1>5, CloseWriteFine, QuietStepKeeps DEF GraceElapsed
<1>6. CASE Inactive(e)
  BY <1>1, <1>2, <1>6, QuietStepKeeps DEF Inactive, Expires
<1>7. CASE GiveUp(e)
  <2>1. CASE \E type \in s.tracked :
                LET t == [s EXCEPT !.tracked = @ \ {type}]
                IN  Expires(e, "retries", IF type = "rst" THEN finalizeClose(t, "reset")
                                                          ELSE Reset(t, FALSE))
    <3>1. PICK type \in s.tracked :
                LET t == [s EXCEPT !.tracked = @ \ {type}]
                IN  Expires(e, "retries", IF type = "rst" THEN finalizeClose(t, "reset")
                                                          ELSE Reset(t, FALSE))
      BY <2>1
    <3> DEFINE t == [s EXCEPT !.tracked = @ \ {type}]
    <3>2. Fine(t, View(e))
      BY <1>1, UntrackedFine
    <3>3. \/ Expires(e, "retries", finalizeClose(t, "reset"))
          \/ Expires(e, "retries", Reset(t, FALSE))
      BY <3>1
    <3> HIDE DEF t
    <3>4. Fine(finalizeClose(t, "reset"), View(e)) /\ Fine(Reset(t, FALSE), View(e))
      BY <3>2, ResetFine, FinalizeFine
    <3> QED
      BY <1>1, <3>3, <3>4, QuietStepKeeps DEF Expires
  <2>2. CASE Expires(e, "retries", Reset(s, FALSE))
    BY <1>1, <1>2, <2>2, QuietStepKeeps DEF Expires
  <2> QED
    BY <1>7, <2>1, <2>2 DEF GiveUp
<1> QED
  BY <1>3, <1>4, <1>5, <1>6, <1>7 DEF Timer

(* A stream begins with nothing owed.                                      *)
LEMMA InitHolds == Init => IInv
<1> SUFFICES ASSUME Init PROVE IInv
  OBVIOUS
<1>1. \A e \in Ends : NewARQ(e) \in ARQ
  BY DEF NewARQ, ARQ, Closings
<1>2. ends \in [Ends -> ARQ] /\ early \in [Ends -> SUBSET Nat] /\ written \in [Ends -> SUBSET Nat]
  BY <1>1 DEF Init
<1>3. ASSUME NEW e \in Ends
      PROVE  ends[e].out = {} /\ Fine(ends[e], View(e))
  <2>1. ends[e] = NewARQ(e) /\ early[e] = {} /\ written[e] = {}
    BY DEF Init
  <2>2. scene.chunks[Peer(e)] \in Nat
    BY Peers, SceneChunks DEF Init
  <2>3. PICK v : v = View(e)
    OBVIOUS
  <2>4. /\ v.self = e /\ v.theirs \subseteq Nat \ {0} /\ v.before = {} /\ v.w = {}
        /\ v.kept = Safe(NewARQ(e), {}) /\ v.began = FALSE
    BY <2>1, <2>2, <2>3 DEF View, Seen, Chunks, NewARQ
  <2>5. Fields(NewARQ(e), v)
    BY <1>1, <2>4 DEF Fields, NewARQ
  <2>6. Sender(NewARQ(e), v)
    BY <2>4 DEF Sender, NewARQ
  <2>7. Receiver(NewARQ(e), v)
    BY <2>4 DEF Receiver, NewARQ
  <2>8. NewARQ(e).out = {}
    BY DEF NewARQ
  <2> QED
    BY <2>1, <2>3, <2>4, <2>5, <2>6, <2>7, <2>8 DEF Fine
<1> QED
  BY <1>2, <1>3 DEF IInv, Init

(* IInv holds in every reachable state: one lemma above for each action.   *)
THEOREM Invariance == Spec => []IInv
<1>1. IInv /\ [Next]_vars => IInv'
  <2> SUFFICES ASSUME IInv, [Next]_vars PROVE IInv'
    OBVIOUS
  <2>1. CASE UNCHANGED vars
    BY <2>1 DEF vars, IInv, View, Seen, Chunks, Safe, Gone
  <2>2. CASE Next
    <3>1. UNCHANGED scene
      BY <2>2 DEF Next
    <3>2. ASSUME NEW e \in Ends, Io(e) PROVE IInv'
      BY <3>1, <3>2, IoCheckKeeps, IoReadKeeps, IoTimeoutKeeps, IoEOFKeeps, IoFailKeeps DEF Io
    <3>3. ASSUME NEW e \in Ends, Writer(e) PROVE IInv'
      BY <3>1, <3>3, TakeKeeps, WriteKeeps, WriteFailKeeps, LookKeeps, IdleKeeps DEF Writer
    <3> QED
      BY <2>2, <3>1, <3>2, <3>3, TimerKeeps, ResendKeeps, ProcessKeeps, DeliverKeeps, LoseKeeps
         DEF Next
  <2> QED
    BY <2>1, <2>2
<1> QED
  BY <1>1, InitHolds, PTL DEF Spec

----------------------------------------------------------------------------
(* What follows from the invariant                                         *)

LEMMA TypeFollows == IInv => TypeOK
<1> SUFFICES ASSUME IInv PROVE TypeOK
  OBVIOUS
<1>1. ASSUME NEW e \in Ends
      PROVE  LET s == ends[e]
             IN  /\ s.how \in {"open", "handshake", "reset"} /\ s.closed = (s.how # "open")
                 /\ s.waitingFor \in Closings \cup {"none"}
                 /\ s.deferred \in {"close_read", "rst", "none"}
                 /\ s.deferred # "none" => s.stopLocalRead /\ ~s.closed
                 /\ s.tracked \subseteq Closings
                 /\ s.sndBuf \subseteq Chunks(e)
                 /\ s.inbound \cup s.rcvBuf \cup s.writing \subseteq Chunks(Peer(e))
                 /\ s.io \in {"check", "reading", "done"}
                 /\ s.writer \in {"loop", "again", "empty", "done"}
                 /\ s.out = {}
  <2>1. ends[e] \in ARQ /\ ends[e].out = {}
    BY Start
  <2>2. Fields(ends[e], View(e))
    BY Start DEF Fine
  <2> QED
    BY <2>1, <2>2, Start DEF Fields, ARQ
<1>2. \A m \in net : m.to \in Ends
  BY DEF IInv, Honest, PacketSet
<1> QED
  BY <1>1, <1>2 DEF TypeOK, IInv

LEMMA HandshakeFollows == IInv => HandshakeLosesNothing
<1> SUFFICES ASSUME IInv, NEW e \in Ends, ends[e].how = "handshake",
                    ~ends[e].localWriterBroken, ~ends[e].rstSent
             PROVE  early[Peer(e)] \subseteq written[e]
  BY DEF HandshakeLosesNothing
<1> DEFINE p == Peer(e)
<1>1. p \in Ends /\ Peer(p) = e
  BY Peers
<1>2. ends[e].closed
  BY Start DEF Fine, Fields
<1>3. ends[e].readReceived /\ ends[e].writing = {} /\ ends[e].rcvBuf = {}
  BY <1>2, Start DEF Fine, Receiver
<1>4. ends[p].readSent
  BY <1>3, Start DEF Fine, Receiver
<1>5. early[p] \subseteq Safe(ends[e], written[e])
  BY <1>1, <1>4, Start DEF Fine, Sender
<1> QED
  BY <1>3, <1>5 DEF Safe, Gone

LEMMA CloseReadFollows == IInv => CloseReadAfterData
<1> SUFFICES ASSUME IInv, NEW e \in Ends, ends[e].readSent, ~ends[Peer(e)].closed
             PROVE  LET p == ends[Peer(e)]
                    IN  \/ early[e] \subseteq written[Peer(e)] \cup p.rcvBuf \cup p.writing
                        \/ p.localWriterBroken \/ p.rstSent
  BY DEF CloseReadAfterData
<1>1. early[e] \subseteq Safe(ends[Peer(e)], written[Peer(e)])
  BY Start DEF Fine, Sender
<1>2. ends[Peer(e)].how = "open"
  BY Peers, Start DEF Fine, Fields
<1> QED
  BY <1>1, <1>2 DEF Safe, Gone

(* The endpoints keep to their types, and close is deferred only on an     *)
(* open stream that has stopped reading.                                   *)
THEOREM TypeCorrect == Spec => []TypeOK
BY Invariance, TypeFollows, PTL

(* A stream that the handshake ended lost nothing of what its peer read    *)
(* before close_read, for any number of chunks and whatever the network    *)
(* lost, unless its own writer broke or it had asked for a reset.          *)
THEOREM HandshakeIsLossless == Spec => []HandshakeLosesNothing
BY Invariance, HandshakeFollows, PTL

(* close_read leaves after the chunks: the peer has them or wants none.    *)
THEOREM CloseReadIsLast == Spec => []CloseReadAfterData
BY Invariance, CloseReadFollows, PTL

(* The close handshake cuts nothing short at either end.                   *)
THEOREM CutsNothingShort == Spec => []NothingCutShort
<1>1. IInv => NothingCutShort
  BY TypeFollows, HandshakeFollows, CloseReadFollows DEF NothingCutShort
<1> QED
  BY <1>1, Invariance, PTL
=============================================================================
