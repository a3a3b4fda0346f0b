------------------------------ MODULE ArqData ------------------------------
(***************************************************************************)
(* The data plane of the ARQ (internal/arq/arq.go), one direction: the     *)
(* sender's read, retransmit and ACK/NACK handlers, its stream transmit    *)
(* queue, a network that loses, duplicates and reorders, and the           *)
(* receiver's reordering buffer and write loop.                            *)
(*                                                                         *)
(* A chunk is known by its number in reading order; the code only sees the *)
(* 16-bit wire number, here modulo seqMod, and every map is keyed by it.   *)
(* Time is left out: a timer that guards a step makes the step possible    *)
(* at any moment.                                                          *)
(*                                                                         *)
(* The receiver's rxChan only delays and drops, as the network does, so a  *)
(* packet goes from the network straight to processReceivedDataBatch; the  *)
(* forward-error-correction decoder re-creates packets the network already *)
(* carries.  The end of a stream is the subject of ArqClose.               *)
(***************************************************************************)
EXTENDS Integers, Sequences, FiniteSets, Functions

CONSTANT Scenes     \* the environments a behaviour may have:
                    \*   seqMod   2^16 in the code
                    \*   window   the receiver's windowSize
                    \*   limit    the sender's limit on unacknowledged chunks
                    \*   poppers  dispatchers that may hold a popped packet at a time
                    \*   chunks   how many chunks the application sends at most
                    \*   lossy    whether packets are lost at any time

(* The clamps of the configuration: a client has a window <= 20000 and a   *)
(* limit <= 16000, a server a window <= 6000 and a limit <= 4800.          *)
ASSUME SizesAssumption ==
    \A sc \in Scenes :
        /\ sc \in [seqMod : Nat, window : Nat \ {0}, limit : Nat \ {0}, poppers : Nat \ {0},
                   chunks : Nat, lossy : BOOLEAN]
        /\ sc.seqMod = 2 * (sc.seqMod \div 2)
        /\ sc.window + sc.limit < sc.seqMod \div 2

VARIABLES
    scene,      \* the environment of this behaviour
    taken,      \* history: chunks read from the local connection
    sndNxt,
    sndBuf,     \* wire number -> [data, dispatched]
    queue,      \* the DATA and RESEND packets of the stream's transmit queue
    ioPush,     \* the packet ioLoop is about to push, None otherwise
    rtxPush,    \* the packet checkRetransmits is about to push
    nackPush,   \* the packet HandleDataNack is about to push
    popped,     \* packets taken off the queue and not yet noted as dequeued
    dataNet, ackNet, nackNet,
    rcvNxt,
    rcvBuf,     \* wire number -> chunk
    toWrite,    \* chunks writeLoop took off rcvBuf and has not written yet
    written     \* chunks written to the local connection

sendVars == <<taken, sndNxt, sndBuf, queue, ioPush, rtxPush, nackPush, popped>>
recvVars == <<rcvNxt, rcvBuf, toWrite, written>>
netVars  == <<dataNet, ackNet, nackNet>>
vars     == <<scene, sendVars, recvVars, netVars>>

SeqMod == scene.seqMod
Half   == SeqMod \div 2
Window == scene.window

None == [kind |-> "none"]

Put(f, k, v) == [x \in DOMAIN f \cup {k} |-> IF x = k THEN v ELSE f[x]]
Del(f, k)    == Restrict(f, DOMAIN f \ {k})

Empty == [x \in {} |-> 0]

Init ==
    /\ scene \in Scenes
    /\ taken = 0 /\ sndNxt = 0 /\ sndBuf = Empty
    /\ queue = {} /\ popped = {}
    /\ ioPush = None /\ rtxPush = None /\ nackPush = None
    /\ dataNet = {} /\ ackNet = {} /\ nackNet = {}
    /\ rcvNxt = 0 /\ rcvBuf = Empty
    /\ toWrite = << >> /\ written = << >>

----------------------------------------------------------------------------
(* The stream's transmit queue. *)

QueuedAs(p, kinds) == \E q \in queue : q.sn = p.sn /\ q.kind \in kinds

(* PushTXPacket refuses a packet that is already queued; a RESEND takes    *)
(* the place of a queued DATA.                                             *)
Refused(p) == QueuedAs(p, IF p.kind = "data" THEN {"data", "resend"} ELSE {"resend"})

Pushed(p) ==
    {q \in queue : ~(p.kind = "resend" /\ q.kind = "data" /\ q.sn = p.sn)} \cup {p}

(* What a refused push does to the item of its wire number. *)
MarkDispatched(sn) == [sndBuf EXCEPT ![sn].dispatched = TRUE]

----------------------------------------------------------------------------
(* The sender. *)

(* Chunks with a copy somewhere.  The wire numbers are only meaningful     *)
(* while no copy of a chunk outlives half the number space; the protocol   *)
(* leaves that to the time 2^15 further packets take.                      *)
Alive == {sndBuf[sn].data : sn \in DOMAIN sndBuf}
           \cup {p.data : p \in queue \cup popped \cup dataNet \cup ackNet}
           \cup {p.data : p \in {rtxPush, nackPush} \ {None}}

CopiesExpire == \A d \in Alive : taken + 1 - d <= Half

(* waitWindowNotFull and the read of ioLoop *)
HasRoom == Cardinality(DOMAIN sndBuf) < scene.limit

Read ==
    /\ taken < scene.chunks
    /\ ioPush = None
    /\ HasRoom
    /\ CopiesExpire
    /\ taken' = taken + 1
    /\ sndNxt' = (sndNxt + 1) % SeqMod
    /\ sndBuf' = Put(sndBuf, sndNxt, [data |-> taken, dispatched |-> FALSE])
    /\ ioPush' = [kind |-> "data", sn |-> sndNxt, data |-> taken]
    /\ UNCHANGED <<queue, rtxPush, nackPush, popped, recvVars, netVars>>

PushRead ==
    /\ ioPush # None
    /\ ioPush' = None
    /\ IF Refused(ioPush)
       THEN /\ sndBuf' = IF ioPush.sn \in DOMAIN sndBuf
                         THEN MarkDispatched(ioPush.sn) ELSE sndBuf
            /\ UNCHANGED queue
       ELSE queue' = Pushed(ioPush) /\ UNCHANGED sndBuf
    /\ UNCHANGED <<taken, sndNxt, rtxPush, nackPush, popped, recvVars, netVars>>

(* checkRetransmits publishes the retry before it pushes: the item waits   *)
(* for its dequeue again.  The front of the jobs goes out as RESEND.       *)
Retransmit(sn) ==
    /\ rtxPush = None
    /\ sn \in DOMAIN sndBuf
    /\ sndBuf[sn].dispatched
    /\ sndBuf' = [sndBuf EXCEPT ![sn].dispatched = FALSE]
    /\ \E kind \in {"data", "resend"} :
          rtxPush' = [kind |-> kind, sn |-> sn, data |-> sndBuf[sn].data]
    /\ UNCHANGED <<taken, sndNxt, queue, ioPush, nackPush, popped, recvVars, netVars>>

(* A refused push restores the item, unless it was acknowledged, replaced  *)
(* or dequeued in between.                                                 *)
Restored(p) ==
    IF p.sn \in DOMAIN sndBuf /\ sndBuf[p.sn].data = p.data
    THEN MarkDispatched(p.sn)
    ELSE sndBuf

PushRetransmit ==
    /\ rtxPush # None
    /\ rtxPush' = None
    /\ IF Refused(rtxPush)
       THEN sndBuf' = Restored(rtxPush) /\ UNCHANGED queue
       ELSE queue' = Pushed(rtxPush) /\ UNCHANGED sndBuf
    /\ UNCHANGED <<taken, sndNxt, ioPush, nackPush, popped, recvVars, netVars>>

(* HandleDataNack: the payload is copied under the lock and pushed after. *)
ReceiveNack ==
    /\ nackPush = None
    /\ \E sn \in nackNet \cap DOMAIN sndBuf :
          nackPush' = [kind |-> "resend", sn |-> sn, data |-> sndBuf[sn].data]
    /\ UNCHANGED <<taken, sndNxt, sndBuf, queue, ioPush, rtxPush, popped, recvVars, netVars>>

PushResend ==
    /\ nackPush # None
    /\ nackPush' = None
    /\ queue' = IF Refused(nackPush) THEN queue ELSE Pushed(nackPush)
    /\ UNCHANGED <<taken, sndNxt, sndBuf, ioPush, rtxPush, popped, recvVars, netVars>>

(* PopNextTXPacket: any queued packet may be the next by priority. *)
Pop(p) ==
    /\ Cardinality(popped) < scene.poppers
    /\ p \in queue
    /\ queue' = queue \ {p}
    /\ popped' = popped \cup {p}
    /\ UNCHANGED <<taken, sndNxt, sndBuf, ioPush, rtxPush, nackPush, recvVars, netVars>>

(* NoteTXPacketDequeued, then HasPendingSequence: a packet whose number is *)
(* not pending any more is released instead of sent.                       *)
Noted(p) == IF p.sn \in DOMAIN sndBuf THEN MarkDispatched(p.sn) ELSE sndBuf

Transmit(p) ==
    /\ popped' = popped \ {p}
    /\ sndBuf' = Noted(p)
    /\ dataNet' = IF p.sn \in DOMAIN sndBuf
                  THEN dataNet \cup {[sn |-> p.sn, data |-> p.data]} ELSE dataNet
    /\ UNCHANGED <<taken, sndNxt, queue, ioPush, rtxPush, nackPush, recvVars, ackNet, nackNet>>

(* ReceiveAck, with RemoveQueuedData.  A push that was under way puts the  *)
(* packet back on the queue afterwards.                                    *)
ReceiveAck(m) ==
    /\ m.sn \in DOMAIN sndBuf
    /\ sndBuf' = Del(sndBuf, m.sn)
    /\ queue' = {p \in queue : p.sn # m.sn}
    /\ UNCHANGED <<taken, sndNxt, ioPush, rtxPush, nackPush, popped, recvVars, netVars>>

----------------------------------------------------------------------------
(* The receiver. *)

Distance(sn) == (sn - rcvNxt) % SeqMod

(* processReceivedDataBatch sorts a packet by its distance from rcvNxt.    *)
Old(sn) == Distance(sn) >= Half

Beyond(sn) == ~Old(sn) /\ Distance(sn) > Window

(* A full buffer still takes the chunk the writer is waiting for. *)
Full_Always(sn) == sn \notin DOMAIN rcvBuf /\ Cardinality(DOMAIN rcvBuf) >= Window
Full(sn) ==
    /\ sn \notin DOMAIN rcvBuf
    /\ Cardinality(DOMAIN rcvBuf) >= Window
    /\ sn # rcvNxt

Dropped(sn) == ~Old(sn) /\ (Beyond(sn) \/ Full(sn))

(* A duplicate keeps the payload that is already buffered. *)
Buffered(m) ==
    IF Old(m.sn) \/ m.sn \in DOMAIN rcvBuf THEN rcvBuf ELSE Put(rcvBuf, m.sn, m.data)

(* maybeSendDataNacks: numbers below sn that are missing.  The gap, the    *)
(* sample taken beyond it and the two delays decide which of them go out   *)
(* now; that the writer may already have moved rcvNxt only makes a NACK    *)
(* late, as the network does.                                              *)
Missing(m) == {k \in 0 .. SeqMod - 1 : Distance(k) < Distance(m.sn)} \ DOMAIN rcvBuf

Nacked(m) == IF Dropped(m.sn) \/ Old(m.sn) THEN {{}} ELSE SUBSET Missing(m)

(* Every packet that is not dropped is acknowledged, the old ones too. *)
Acked_Dropped(m) == {m}
Acked(m)         == IF Dropped(m.sn) THEN {} ELSE {m}

ReceiveData(m) ==
    /\ rcvBuf' = IF Dropped(m.sn) THEN rcvBuf ELSE Buffered(m)
    /\ ackNet' = ackNet \cup Acked(m)
    /\ \E n \in Nacked(m) : nackNet' = nackNet \cup n
    /\ UNCHANGED <<sendVars, rcvNxt, toWrite, written, dataNet>>

(* writeLoop takes every contiguous chunk under the lock. *)
Run(n) == \A k \in 0 .. n - 1 : (rcvNxt + k) % SeqMod \in DOMAIN rcvBuf

Flush_Stays(n)       == rcvNxt
FlushTo(n)           == (rcvNxt + n) % SeqMod

Flush ==
    /\ toWrite = << >>
    /\ \E n \in 1 .. Cardinality(DOMAIN rcvBuf) :
          /\ Run(n) /\ ~Run(n + 1)
          /\ toWrite' = [k \in 1 .. n |-> rcvBuf[(rcvNxt + k - 1) % SeqMod]]
          /\ rcvBuf' = Restrict(rcvBuf, DOMAIN rcvBuf \
                                        {(rcvNxt + k) % SeqMod : k \in 0 .. n - 1})
          /\ rcvNxt' = FlushTo(n)
    /\ UNCHANGED <<sendVars, written, netVars>>

Write ==
    /\ toWrite # << >>
    /\ written' = written \o toWrite
    /\ toWrite' = << >>
    /\ UNCHANGED <<sendVars, rcvNxt, rcvBuf, netVars>>

----------------------------------------------------------------------------
(* The network keeps a packet until it loses it, so it may deliver it any  *)
(* number of times and in any order.  A packet that is never handled is as *)
(* good as lost; a loss is a step of its own for the sake of liveness, and *)
(* where an old copy would keep the application from sending.              *)
MayLose(m) == scene.lossy \/ taken + 1 - m.data > Half

Lose ==
    /\ \/ \E m \in dataNet : MayLose(m) /\ dataNet' = dataNet \ {m} /\ UNCHANGED ackNet
       \/ \E m \in ackNet : MayLose(m) /\ ackNet' = ackNet \ {m} /\ UNCHANGED dataNet
    /\ UNCHANGED <<sendVars, recvVars, nackNet>>

Next == /\ \/ Read \/ PushRead
           \/ \E sn \in DOMAIN sndBuf : Retransmit(sn)
           \/ PushRetransmit
           \/ ReceiveNack \/ PushResend
           \/ \E p \in queue : Pop(p)
           \/ \E p \in popped : Transmit(p)
           \/ \E m \in ackNet : ReceiveAck(m)
           \/ \E m \in dataNet : ReceiveData(m)
           \/ Flush \/ Write
           \/ Lose
        /\ UNCHANGED scene

Spec == Init /\ [][Next]_vars

----------------------------------------------------------------------------
Delivered == Len(written) + Len(toWrite)

Promise == INSTANCE ReliableStream WITH given <- written

WireNumbers == 0 .. SeqMod - 1
Chunks      == UNION {0 .. sc.chunks - 1 : sc \in Scenes}
Packet(kinds) == [kind : kinds, sn : WireNumbers, data : Chunks]

TypeOK ==
    /\ scene \in Scenes
    /\ taken \in 0 .. scene.chunks
    /\ sndNxt \in WireNumbers /\ rcvNxt \in WireNumbers
    /\ DOMAIN sndBuf \subseteq WireNumbers
    /\ \A sn \in DOMAIN sndBuf : sndBuf[sn] \in [data : Chunks, dispatched : BOOLEAN]
    /\ queue \subseteq Packet({"data", "resend"})
    /\ popped \subseteq Packet({"data", "resend"}) /\ Cardinality(popped) <= scene.poppers
    /\ ioPush \in Packet({"data"}) \cup {None}
    /\ rtxPush \in Packet({"data", "resend"}) \cup {None}
    /\ nackPush \in Packet({"resend"}) \cup {None}
    /\ dataNet \cup ackNet \subseteq [sn : WireNumbers, data : Chunks]
    /\ nackNet \subseteq WireNumbers
    /\ DOMAIN rcvBuf \subseteq WireNumbers
    /\ \A sn \in DOMAIN rcvBuf : rcvBuf[sn] \in Chunks
    /\ toWrite \in Seq(Chunks) /\ written \in Seq(Chunks)

(* The applications see the chunks in the order they were read, each once, *)
(* whatever is lost, repeated or reordered and however far the wire        *)
(* numbers have wrapped.                                                   *)
InOrderOnce == Promise!Spec

(* The sender forgets a chunk only when the receiver holds it: ReceiveAck  *)
(* frees the item for good, so an ACK for a chunk that was dropped, or for *)
(* another chunk of the same wire number, would lose it silently.          *)
NothingForgotten ==
    \A d \in 0 .. taken - 1 :
        \/ d < Delivered
        \/ \E sn \in DOMAIN sndBuf : sndBuf[sn].data = d
        \/ \E sn \in DOMAIN rcvBuf : rcvBuf[sn] = d

(* The sender counts unacknowledged chunks and not how far it is ahead, so *)
(* acknowledged chunks above a lost one let it run on.  It is the receive  *)
(* window that keeps the lead inside the half of the number space where    *)
(* "old" and "new" can be told apart.                                      *)
LeadBounded == taken - Delivered <= Window + 1 + scene.limit

(* A chunk that waits for a dequeue to arm its timer is on its way to one: *)
(* the retransmit loop skips items that are not dispatched, so such an     *)
(* item outside the queue would never be sent again.                       *)
Armed ==
    \A sn \in DOMAIN sndBuf :
        \/ sndBuf[sn].dispatched
        \/ \E p \in queue \cup popped \cup {ioPush, rtxPush} : p # None /\ p.sn = sn

(* A chunk read is carried to the end: it is never forgotten, its timer is *)
(* armed and its number cannot be mistaken.                                *)
Carried == TypeOK /\ NothingForgotten /\ LeadBounded /\ Armed

----------------------------------------------------------------------------
(* The goroutines are scheduled, the application has more to send, the     *)
(* retransmit scan and the dispatcher pass nothing over for ever, and a    *)
(* packet that is sent again and again gets through: the retries and the   *)
(* lifetime of an item bound how long the code waits for that before it    *)
(* resets the stream.                                                      *)
Copies(d) == [kind : {"data", "resend"}, sn : {d % SeqMod}, data : {d}]

Goes(A) == A /\ UNCHANGED scene

Fairness ==
    /\ WF_vars(Goes(Read)) /\ WF_vars(Goes(PushRead)) /\ WF_vars(Goes(PushRetransmit))
    /\ WF_vars(Goes(Flush)) /\ WF_vars(Goes(Write))
    /\ \A d \in Chunks :
          /\ SF_vars(Goes(Retransmit(d % SeqMod)))
          /\ SF_vars(Goes(\E p \in Copies(d) : Pop(p)))
          /\ WF_vars(Goes(\E p \in Copies(d) \cap popped : Transmit(p)))
          /\ LET m == [sn |-> d % SeqMod, data |-> d]
             IN  /\ SF_vars(Goes(m \in dataNet /\ ReceiveData(m)))
                 /\ SF_vars(Goes(m \in ackNet /\ ReceiveAck(m)))

FairSpec == Spec /\ Fairness

(* Everything the application sends is written at the other end: no loss,  *)
(* full buffer or closed window stops the stream for ever.                 *)
AllArrive == <>(Len(written) = scene.chunks)

----------------------------------------------------------------------------
(* For TLC: two chunks over a network that loses at any time. *)
Losing == {[seqMod |-> 8, window |-> 1, limit |-> 2, poppers |-> 1, chunks |-> 2, lossy |-> TRUE]}
=============================================================================
