--------------------------- MODULE ClientDispatch ---------------------------
(***************************************************************************)
(* The client's transmit path (dispatcher.go, stream_client.go and the     *)
(* workers of async_runtime.go): the queues of the streams and of the      *)
(* orphan resets, the dispatcher that takes turns over them, and the       *)
(* encoder and the writer behind it, until the runtime is stopped.         *)
(*                                                                         *)
(* A queued packet is an object of a pool: it is owned by one place at a   *)
(* time, and every place it can reach must give it back once. The          *)
(* dispatcher peeks, decides, and only then pops, without a lock across:   *)
(* the ARQs push, acknowledge and close between any two of its steps.      *)
(***************************************************************************)
EXTENDS Integers, Sequences, FiniteSets, SequencesExt

CONSTANTS
    Highest,        \* the streams are 0, the control stream, to Highest
    Loads,          \* bounds: how much is left, each a record of the data of each stream, 1..Highest,
                    \*   resends, acks, pings, resets, and closes
    Objects,        \* the packets of the pool, 1..n
    MaxBlocks,      \* maxPackedBlocks
    Room,           \* capacity of the two channels
    Limited         \* a query rate limit is configured

VARIABLES
    open,       \* active_streams
    queue,      \* txQueue by stream, in the order it is popped
    orphan,     \* orphanQueue: the resets and their acknowledgements, each with its stream
    load,       \* what each packet object holds
    pool,       \* how often each object lies in txPacketPool
    pending,    \* the ARQ's unacknowledged sequences
    retrying,   \* the sequence, with its stream, that a retry published and has to push, or <<>>
    removing,   \*   and the one acknowledged whose copies are still queued
    left,       \* what may still be left
    at,         \* the dispatcher's place
    pick,       \* its slots and what the scan over them returned:
                \*   selected, the stream; peeked, the packet; turn, selectedID
    cursor,     \* rrCursor
    item,       \* the object popped, or None
    channel, encoded,   \* the packets owned by the tasks in txChannel and encodedTXChannel
    live,       \* the workers that run
    cancelled,
    spent,      \* the limiter's slot is taken
    passed,     \* how many takes went past a stream that had work
    abandoned   \* objects that a writer held when it gave up, or a closed stream was pushed

arqVars == <<pending, retrying, removing>>
txVars == <<open, queue, orphan, load, pool, arqVars, left>>
turnVars == <<at, pick, cursor, item>>
pipeVars == <<channel, encoded>>
dispatchVars == <<txVars, turnVars, pipeVars, live, cancelled, spent, passed, abandoned>>

Streams == 0..Highest
Data    == 1..Highest
Orphan  == -1
Nothing == -2
None    == 0

Empty == [of |-> 0, kind |-> "none", seq |-> 0]
NoPick == [entries |-> <<>>, selected |-> Nothing, peeked |-> None, turn |-> Nothing]

Init ==
    /\ open = Streams /\ queue = [s \in Streams |-> <<>>] /\ orphan = <<>>
    /\ load = [o \in Objects |-> Empty] /\ pool = [o \in Objects |-> 1]
    /\ pending = [s \in Streams |-> {}] /\ retrying = <<>> /\ removing = <<>>
    /\ left \in Loads
    /\ at = "top" /\ pick = NoPick /\ cursor = -1 /\ item = None
    /\ channel = <<>> /\ encoded = <<>>
    /\ live = {"dispatcher", "encoder", "writer"} /\ cancelled = FALSE
    /\ spent = FALSE /\ passed = [s \in Streams |-> 0] /\ abandoned = {}

----------------------------------------------------------------------------
(* The queues and the pool *)

Level(p) == CASE p.kind = "ack" -> 0 [] p.kind = "resend" -> 1 [] p.kind = "data" -> 2 [] p.kind = "ping" -> 5
IsData(p) == p.kind \in {"data", "resend"}

Emptied(os) == [o \in Objects |-> IF o \in os THEN Empty ELSE load[o]]

(* ReleaseTXPacket *)
Released(os) == [o \in Objects |-> IF o \in os THEN pool[o] + 1 ELSE pool[o]]
Release(os)  == pool' = Released(os) /\ load' = Emptied(os)

Holds(s, p) == {o \in Objects : Contains(queue[s], o) /\ load[o] = p}
Without(q, os) == SelectSeq(q, LAMBDA o : o \notin os)
Inserted(q, o, p) == InsertAt(q, Cardinality({i \in DOMAIN q : Level(load[q[i]]) <= Level(p)}) + 1, o)

(* PushTXPacket takes an object of the pool for p, here the first one; a   *)
(* resend pushes out the queued original.                                  *)
Push(s, p) ==
    LET free  == {o \in Objects : pool[o] > 0}
        o     == CHOOSE o \in free : \A other \in free : o <= other
        stale == IF p.kind = "resend" THEN Holds(s, [p EXCEPT !.kind = "data"]) ELSE {}
    IN
    /\ free # {}
    /\ load' = [Emptied(stale) EXCEPT ![o] = p]
    /\ queue' = [queue EXCEPT ![s] = Without(Inserted(@, o, p), stale)]
    /\ pool' = [Released(stale) EXCEPT ![o] = @ - 1]

Packet(s, kind, seq) == [of |-> s, kind |-> kind, seq |-> seq]

SendData(s) ==
    LET n == left.data[s] IN
    /\ s \in open /\ n > 0
    /\ Push(s, Packet(s, "data", n))
    /\ pending' = [pending EXCEPT ![s] = @ \cup {n}]
    /\ left' = [left EXCEPT !.data[s] = n - 1]
    /\ UNCHANGED <<open, orphan, retrying, removing, abandoned>>

(* The ARQ publishes that it sends a sequence again, and then pushes it,   *)
(* whatever became of it since, unless that is queued already. A stream    *)
(* that closed in between leaves what is pushed to the collector. One such *)
(* step is under way at a time, and one acknowledgement.                   *)
Resend(s, n) ==
    /\ n \in pending[s] /\ left.resends > 0 /\ retrying = <<>>
    /\ retrying' = <<s, n>>
    /\ left' = [left EXCEPT !.resends = @ - 1]
    /\ UNCHANGED <<open, queue, orphan, load, pool, pending, removing, abandoned>>

PushResend ==
    LET s == retrying[1]  resend == Packet(s, "resend", retrying[2])  data == [resend EXCEPT !.kind = "data"] IN
    /\ retrying # <<>> /\ retrying' = <<>>
    /\ \/ Holds(s, resend) # {} /\ UNCHANGED <<queue, load, pool, abandoned>>
       \/ Holds(s, data) # {} /\ UNCHANGED <<queue, load, pool, abandoned>>
       \/ \E p \in {resend, data} :
             /\ Holds(s, resend) = {} /\ (p = data => Holds(s, data) = {}) /\ Push(s, p)
             /\ abandoned' = IF s \in open THEN abandoned ELSE abandoned \cup ToSet(queue'[s])
    /\ UNCHANGED <<open, orphan, pending, removing, left>>

SendAck(s) ==
    /\ s \in open /\ left.acks > 0
    /\ Push(s, Packet(s, "ack", left.acks))
    /\ left' = [left EXCEPT !.acks = @ - 1]
    /\ UNCHANGED <<open, orphan, arqVars, abandoned>>

Ping ==
    /\ 0 \in open /\ left.pings > 0
    /\ Push(0, Packet(0, "ping", left.pings))
    /\ left' = [left EXCEPT !.pings = @ - 1]
    /\ UNCHANGED <<open, orphan, arqVars, abandoned>>

(* enqueueOrphanReset: a reset, or the acknowledgement of one, for a stream that is gone *)
Reset(s, kind) ==
    /\ s \in Streams \ open /\ left.resets > 0 /\ ~Contains(orphan, <<kind, s>>)
    /\ orphan' = Append(orphan, <<kind, s>>)
    /\ left' = [left EXCEPT !.resets = @ - 1]
    /\ UNCHANGED <<open, queue, load, pool, arqVars, abandoned>>

(* An acknowledgement: the ARQ forgets the sequence, *)
Acked(s, n) ==
    /\ n \in pending[s] /\ removing = <<>>
    /\ pending' = [pending EXCEPT ![s] = @ \ {n}]
    /\ removing' = <<s, n>>
    /\ UNCHANGED <<open, queue, orphan, load, pool, retrying, left, abandoned>>

(* and then takes what is still queued of it.                              *)
RemoveQueuedData ==
    LET s == removing[1]
        os == Holds(s, Packet(s, "data", removing[2])) \cup Holds(s, Packet(s, "resend", removing[2]))
    IN
    /\ removing # <<>> /\ removing' = <<>>
    /\ queue' = [queue EXCEPT ![s] = Without(@, os)]
    /\ Release(os)
    /\ UNCHANGED <<open, orphan, pending, retrying, left, abandoned>>

Cleared(ss) ==
    /\ open' = open \ ss
    /\ queue' = [s \in Streams |-> IF s \in ss THEN <<>> ELSE queue[s]]
    /\ Release(UNION {ToSet(queue[s]) : s \in ss})
    /\ pending' = [s \in Streams |-> IF s \in ss THEN {} ELSE pending[s]]

(* finalizeAfterARQClose *)
Close(s) ==
    /\ s \in open /\ left.closes > 0 /\ left' = [left EXCEPT !.closes = @ - 1]
    /\ Cleared({s}) /\ UNCHANGED <<orphan, retrying, removing, abandoned>>

Waits(s) == queue[s] # <<>>

(* A stream that has no work is passed over by nobody. *)
Recounted(count) == passed' = [s \in Streams |-> IF queue'[s] = <<>> THEN 0 ELSE count[s]]

Arq ==
    /\ ~(cancelled /\ open = {}) \/ retrying # <<>> \/ removing # <<>>
    /\ \/ Ping
       \/ \E s \in Data : SendData(s) \/ SendAck(s) \/ Close(s) \/ \E kind \in {"rst", "rst_ack"} : Reset(s, kind)
       \/ \E s \in Data : \E n \in pending[s] : Resend(s, n) \/ Acked(s, n)
       \/ PushResend \/ RemoveQueuedData
    /\ Recounted(passed)
    /\ UNCHANGED <<turnVars, pipeVars, live, cancelled, spent>>

----------------------------------------------------------------------------
(* The dispatcher's scan *)

Slots == SetToSortSeq(open, LAMBDA a, b : a < b) \o IF orphan = <<>> THEN <<>> ELSE <<Orphan>>

\* MUTANT every turn begins at the first slot
Resume_First(slots, c) == 0

(* sort.Search for the first slot at or past the cursor, by halving *)
Resume(slots, c) ==
    LET Search[i \in 0..Len(slots), j \in 0..Len(slots)] ==
            IF i >= j THEN i
            ELSE LET h == (i + j) \div 2 IN IF slots[h + 1] >= c THEN Search[i, h] ELSE Search[h + 1, j]
        found == Search[0, Len(slots)]
    IN IF found = Len(slots) THEN 0 ELSE found

From(slots, c) == LET n == Resume(slots, c) IN SubSeq(slots, n + 1, Len(slots)) \o SubSeq(slots, 1, n)

Waiting(slots) == SelectSeq(slots, LAMBDA id : IF id = Orphan THEN orphan # <<>> ELSE Waits(id))

(* selectNextDispatchStream, its looks at the queues taken for one: the    *)
(* first slot that has work. A ping of the control stream is put off when  *)
(* anything else has work; selected keeps that stream.                     *)
Select ==
    LET ready == Waiting(From(Slots, cursor))
        first == Head(ready)
        off   == Len(ready) > 1 /\ first = 0 /\ load[Head(queue[0])].kind = "ping"
        id    == IF off THEN ready[2] ELSE first
    IN
    /\ at = "top" /\ ready # <<>>
    /\ at' = "choose" /\ cursor' = first + 1
    /\ pick' = [entries |-> Slots, turn |-> id,
                selected |-> IF id # Orphan THEN id ELSE IF off THEN first ELSE Nothing,
                peeked |-> IF id = Orphan THEN Orphan ELSE Head(queue[id])]
    /\ UNCHANGED <<txVars, pipeVars, item, live, cancelled, spent, passed, abandoned>>

Leaves(place) == at' = place /\ pick' = NoPick

----------------------------------------------------------------------------
(* What becomes of the packet that was picked *)

(* PopNextTXPacket of a stream *)
Popped(s) == queue' = [queue EXCEPT ![s] = Tail(@)]

(* selectTargetConnections found no path: what is not data is dropped, and *)
(* the stream has had its turn. A packet released since it was peeked      *)
(* reads as anything.                                                      *)
NoPath ==
    /\ at = "choose" /\ Leaves("top")
    /\ LET s == pick.selected
           kind == IF pick.peeked = Orphan THEN "rst" ELSE load[pick.peeked].kind
       IN
       \/ /\ kind \notin {"data", "resend"} /\ s # Nothing /\ Waits(s)
          /\ Popped(s) /\ Release({Head(queue[s])}) /\ UNCHANGED orphan
       \/ /\ kind \notin {"data", "resend"} /\ s = Nothing /\ orphan # <<>>
          /\ orphan' = Tail(orphan) /\ UNCHANGED <<queue, pool, load>>
       \/ /\ kind \notin {"data", "resend", "none"} => IF s = Nothing THEN orphan = <<>> ELSE ~Waits(s)
          /\ UNCHANGED <<queue, pool, load, orphan>>
    /\ Recounted([t \in Streams |-> IF t = pick.turn THEN 0 ELSE passed[t]])
    /\ UNCHANGED <<open, arqVars, left, pipeVars, cursor, item, live, cancelled, spent, abandoned>>

(* The limiter's slot is taken: sleep, then pick again, from the cursor    *)
(* that this turn has moved on.                                            *)
Delay ==
    /\ at = "choose" /\ spent /\ spent' = FALSE /\ Leaves("top")
    /\ UNCHANGED <<txVars, pipeVars, cursor, item, live, cancelled, passed, abandoned>>

Overtaken(lane) == [s \in Streams |-> IF s = lane \/ ~Waits(s) THEN 0 ELSE passed[s] + 1]

(* shouldTransmitQueuedStreamPacket *)
Obsolete(p) == IsData(p) /\ p.seq \notin pending[p.of]

(* The pop finds the queue as it is now. *)
Take ==
    LET s == pick.selected IN
    /\ at = "choose" /\ ~spent /\ Len(channel) < Room
    /\ \/ /\ s # Nothing /\ Waits(s) /\ ~Obsolete(load[Head(queue[s])])
          /\ Popped(s) /\ item' = Head(queue[s]) /\ at' = "hold"
          /\ Recounted(Overtaken(s)) /\ UNCHANGED <<pick, orphan, pool, load>>
       \/ /\ s # Nothing /\ Waits(s) /\ Obsolete(load[Head(queue[s])])
          /\ Popped(s) /\ Release({Head(queue[s])}) /\ Leaves("top")
          /\ Recounted(passed) /\ UNCHANGED <<item, orphan>>
       \/ /\ s = Nothing /\ orphan # <<>>
          /\ orphan' = Tail(orphan) /\ at' = "hold" /\ pick' = [pick EXCEPT !.peeked = Head(orphan)[1]]
          /\ UNCHANGED <<item, queue, pool, load>> /\ Recounted(Overtaken(Orphan))
       \/ /\ IF s = Nothing THEN orphan = <<>> ELSE ~Waits(s)
          /\ Leaves("top") /\ UNCHANGED <<item, queue, orphan, pool, load, passed>>
    /\ UNCHANGED <<open, arqVars, left, pipeVars, cursor, live, cancelled, spent, abandoned>>

(* packControlBlocks: the packable packets of the lane itself, then of the *)
(* other slots, as far as the frame goes                                   *)
Own == IF pick.selected # Nothing THEN pick.selected ELSE Orphan
Queued(s) == [i \in DOMAIN queue[s] |-> <<load[queue[s][i]].kind, queue[s][i]>>]
Packables(lane) == SelectSeq(IF lane = Orphan THEN orphan ELSE Queued(lane), LAMBDA b : b[1] \in {"ack", "rst_ack"})
Gathered ==
    LET others == SelectSeq(pick.entries, LAMBDA e : e \notin {pick.turn, Own})
        lanes  == <<Own>> \o others
        all    == FlattenSeq([i \in DOMAIN lanes |-> Packables(lanes[i])])
    IN SubSeq(all, 1, IF Len(all) < MaxBlocks THEN Len(all) ELSE MaxBlocks - 1)
CanPack == IF item = None THEN pick.peeked = "rst_ack" ELSE load[item].kind = "ack"
Blocks  == IF CanPack THEN ToSet(Gathered) ELSE {}

\* MUTANT a packet packed with others is released here, and again after it is written
Carried_Anyhow(packed) == {item} \ {None}

(* What the task owns: a packet that was packed is released at once. A     *)
(* task that owns no packet is not followed further.                       *)
Carried(packed) == IF packed THEN {} ELSE {item} \ {None}

(* The slot is claimed and the frame handed to the encoder, or given up    *)
(* because the runtime is stopped.                                         *)
Send ==
    LET os     == {b[2] : b \in {b \in Blocks : b[1] = "ack"}}
        packed == Blocks # {}
        given  == os \cup IF packed THEN {item} \ {None} ELSE {}
    IN
    /\ at = "hold" /\ Leaves(IF cancelled THEN "done" ELSE "top") /\ item' = None /\ spent' \in {FALSE, Limited}
    /\ queue' = [s \in Streams |-> Without(queue[s], os)]
    /\ orphan' = SelectSeq(orphan, LAMBDA r : r \notin Blocks)
    /\ load' = Emptied(os \cup {item})
    /\ \/ channel' = channel \o SetToSeq(Carried(packed)) /\ pool' = Released(given)
       \/ cancelled /\ UNCHANGED channel /\ pool' = Released(given \cup ({item} \ {None}))
    /\ live' = IF cancelled THEN live \ {"dispatcher"} ELSE live
    /\ Recounted(passed)
    /\ UNCHANGED <<open, arqVars, left, encoded, cursor, cancelled, abandoned>>

(* The runtime is stopped while the dispatcher waits for work, for its slot or for room. *)
Quit ==
    /\ at # "done" /\ cancelled /\ Leaves("done") /\ item' = None /\ live' = live \ {"dispatcher"}
    /\ Release({item} \ {None})
    /\ UNCHANGED <<open, queue, orphan, arqVars, left, pipeVars, cursor, cancelled, spent, passed, abandoned>>

Dispatcher == Select \/ NoPath \/ Delay \/ Take \/ Send \/ Quit

----------------------------------------------------------------------------
(* The workers behind the dispatcher *)

(* asyncEncodeWorker: the frame is built for its paths, or for none of     *)
(* them, or the runtime stops while the writers are behind.                *)
Encode ==
    /\ "encoder" \in live /\ channel # <<>> /\ channel' = Tail(channel)
    /\ \/ Len(encoded) < Room /\ encoded' = Append(encoded, Head(channel)) /\ UNCHANGED <<pool, live>>
       \/ pool' = Released({Head(channel)}) /\ UNCHANGED <<encoded, live>>
       \/ cancelled /\ pool' = Released({Head(channel)}) /\ live' = live \ {"encoder"} /\ UNCHANGED encoded
    /\ UNCHANGED abandoned

(* asyncWriterWorker: the copies are written, or the runtime stops while   *)
(* one waits for its slot: the packet is then left to the collector.       *)
Write ==
    /\ "writer" \in live /\ encoded # <<>> /\ encoded' = Tail(encoded)
    /\ \/ pool' = Released({Head(encoded)}) /\ UNCHANGED <<live, abandoned>>
       \/ /\ cancelled /\ Limited /\ abandoned' = abandoned \cup {Head(encoded)}
          /\ live' = live \ {"writer"} /\ UNCHANGED pool
    /\ UNCHANGED channel

WorkerQuits(w) ==
    /\ cancelled /\ w \in live \ {"dispatcher"} /\ live' = live \ {w}
    /\ UNCHANGED <<pipeVars, pool, abandoned>>

Workers ==
    /\ Encode \/ Write \/ \E w \in live : WorkerQuits(w)
    /\ UNCHANGED <<open, queue, orphan, load, arqVars, left, turnVars, cancelled, spent, passed>>

----------------------------------------------------------------------------
(* StopAsyncRuntime: the workers are waited for, the channels drained, and *)
(* every stream closed.                                                    *)

Cancel ==
    /\ ~cancelled /\ cancelled' = TRUE
    /\ UNCHANGED <<txVars, turnVars, pipeVars, live, spent, passed, abandoned>>

Drain ==
    /\ cancelled /\ live = {} /\ channel \o encoded # <<>>
    /\ pool' = Released(ToSet(channel \o encoded))
    /\ channel' = <<>> /\ encoded' = <<>>
    /\ UNCHANGED <<open, queue, orphan, load, arqVars, left, turnVars, live, cancelled,
                   spent, passed, abandoned>>

CloseAllStreams ==
    /\ cancelled /\ live = {} /\ channel \o encoded = <<>> /\ open # {}
    /\ Cleared(open) /\ orphan' = <<>> /\ Recounted(passed)
    /\ UNCHANGED <<retrying, removing, left, turnVars, pipeVars, live, cancelled, spent, abandoned>>

Next == Arq \/ Dispatcher \/ Workers \/ Cancel \/ Drain \/ CloseAllStreams

Spec == Init /\ [][Next]_dispatchVars

----------------------------------------------------------------------------
TypeOK ==
    /\ open \subseteq Streams /\ DOMAIN pending = Streams
    /\ at \in {"top", "choose", "hold", "done"} /\ item \in Objects \cup {None}
    /\ live \subseteq {"dispatcher", "encoder", "writer"} /\ abandoned \subseteq Objects

(* A packet object has one owner: it lies in the pool or in one queue, or  *)
(* the dispatcher or one frame on its way holds it, never two of these     *)
(* (PushTXPacket and ReleaseTXPacket along the transmit path).             *)
Places(o) ==
    pool[o]
    + Cardinality({s \in Streams : Contains(queue[s], o)})
    + (IF item = o THEN 1 ELSE 0)
    + Len(SelectSeq(channel \o encoded, LAMBDA p : p = o))
SingleOwner == \A o \in Objects : Places(o) <= 1

(* Once the runtime is stopped and its streams are closed, every packet is *)
(* back in the pool but those a writer gave up (StopAsyncRuntime).         *)
AllReturned == open = {} => \A o \in Objects \ abandoned : pool[o] = 1

(* A stream that has data to send is passed over by no other one more than *)
(* twice before its turn comes, though streams close, packets are dropped  *)
(* and acknowledged meanwhile (asyncStreamDispatcher's rotation). It may   *)
(* come to nothing for want of a path. With a rate limit it does not hold. *)
FairTurns == \A s \in Data : passed[s] <= 2 * (Highest - 1)

DispatchSound == TypeOK /\ SingleOwner /\ AllReturned /\ (~Limited => FairTurns)
=============================================================================
