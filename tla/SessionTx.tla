----------------------------- MODULE SessionTx -----------------------------
(***************************************************************************)
(* What a server session answers a poll with (server_session.go,           *)
(* dequeueSessionResponse): the queues of its streams and of its orphan    *)
(* resets, served in turn, under the size that the query's record type can *)
(* carry, control packets packed together, data folded into FEC shards.    *)
(*                                                                         *)
(* A queue's lock, a stream's FEC lock, the ARQ's lock and the session's   *)
(* are separate: a poll is a sequence of steps, and between any two of     *)
(* them the ARQs publish what they are about to push, push it, acknowledge *)
(* and close.                                                              *)
(***************************************************************************)
EXTENDS Integers, Sequences, FiniteSets, SequencesExt

CONSTANTS
    Streams,        \* the data streams, 1..n
    MaxSeq,         \* bound: the last sequence number of a stream, by stream
    Controls,       \* bound: the control packets pushed, each with its stream
    Orphans,        \* bound: the orphan packets pushed, of closed or absent streams
    Kinds,          \* what a retry goes as: a resend, or in a large batch also data
    Losses,         \* bound: the losses that windows of samples show
    MaxPushing,     \* bound: the size of a stream's pushing
    Capacities,     \* what the carriers hold, in control blocks
    DataSize,       \*   the size of a data packet, a shard and a payload-bearing reply
    MaxBlocks,      \* MaxPackedBlocks
    Copies,         \* PacketBlockControlDuplication
    BlockSize,      \* fec block size
    CleanWindows,   \* fecDisengageWindows
    MaxPolls        \* bound: polls answered

VARIABLES
    txq,        \* Stream_server.TXQueue by priority, then age
    census,     \* the keys that the queue takes for queued
    unsent,     \* the ARQ's sequences that await a dispatch, the first or a retry's
    unacked,    \*   and those dispatched at least once and not acknowledged
    pushing,    \* what its goroutines took up to send again and have not pushed yet
    sent,       \* the last sequence number given out
    acking,     \* the sequence acknowledged whose queued copies are not removed yet, or None
    over,       \* the ARQ is closed, "cleared" once its queue is and nobody polls it
    fecs,       \* the stream's encoder
    orphans,    \* OrphanQueue, by age
    turn,       \* RRStreamID
    again,      \* LastPackedControlBlock: its size and the copies left
    poll,       \* the poll being answered
    polls

txVars == <<txq, census, unsent, unacked, pushing, sent, acking, over, fecs, orphans, turn,
            again, poll, polls>>

None   == 0
Orphan == -1
Ids    == {Orphan} \cup Streams
Carries(cap, size) == size <= cap
Roomy  == CHOOSE c \in Capacities : \A d \in Capacities : d <= c    \* dnsResponseUnlimited

NoFec  == [on |-> FALSE, buf |-> {}, shards |-> 0, low |-> 0]
NoPoll == [at |-> "idle", cap |-> 0, todo |-> <<>>, id |-> None, hand |-> <<>>,
           blocked |-> FALSE, calm |-> FALSE, stale |-> {}]

Init ==
    /\ txq = [s \in Streams |-> <<>>] /\ census = [s \in Streams |-> {}]
    /\ unsent = [s \in Streams |-> {}] /\ unacked = [s \in Streams |-> {}]
    /\ pushing = [s \in Streams |-> {}]
    /\ sent = [s \in Streams |-> 0] /\ acking = [s \in Streams |-> None]
    /\ over = [s \in Streams |-> "no"]
    /\ fecs = [s \in Streams |-> NoFec]
    /\ orphans = <<>> /\ turn = 0 /\ again = [size |-> 0, left |-> 0]
    /\ poll = NoPoll /\ polls = 0

----------------------------------------------------------------------------
(* The multi-level queue *)

Packet(type, n) == <<type, n>>
IsData(p) == p[1] \in {"data", "resend"}
Packable(p) == p[1] \in {"ack", "rst_ack"}
Size(p)  == IF Packable(p) THEN 0 ELSE DataSize
Level(p) == CASE p[1] = "ack" -> 0 [] p[1] \in {"resend", "reply"} -> 2 [] p[1] = "data" -> 3

Behind(q, p) == Cardinality({i \in DOMAIN q : Level(q[i]) <= Level(p)})
Pushed(q, p) == InsertAt(q, Behind(q, p) + 1, p)
Without(q, p) == SelectSeq(q, LAMBDA o : o # p)

\* MUTANT the census keyed as the packet was first sent
Uncounted_AsData(c, p) == IF p[1] = "resend" THEN c \ {Packet("data", p[2])} ELSE c \ {p}

(* What the queue gives out leaves the census under its own key. *)
Uncounted(c, p) == c \ {p}

TakenFrom(s, i) ==
    /\ txq' = [txq EXCEPT ![s] = RemoveAt(@, i)]
    /\ census' = [census EXCEPT ![s] = Uncounted(@, txq[s][i])]

Push(s, p) ==
    /\ txq' = [txq EXCEPT ![s] = Pushed(@, p)]
    /\ census' = [census EXCEPT ![s] = @ \cup {p}]

Stirred == [poll EXCEPT !.calm = FALSE]

----------------------------------------------------------------------------
(* The ARQs *)

(* Nobody acts on a chunk before its first dispatch, so that it is         *)
(* published and pushed at once.                                           *)
PushData(s) ==
    /\ over[s] = "no" /\ sent[s] < MaxSeq[s]
    /\ Push(s, Packet("data", sent[s] + 1))
    /\ sent' = [sent EXCEPT ![s] = @ + 1]
    /\ unsent' = [unsent EXCEPT ![s] = @ \cup {sent[s] + 1}]
    /\ poll' = Stirred
    /\ UNCHANGED <<unacked, acking, over, fecs, orphans, turn, again, polls, pushing>>

Takes(s, who, p) ==
    /\ Cardinality(pushing[s]) < MaxPushing /\ \A job \in pushing[s] : job[1] # who
    /\ pushing' = [pushing EXCEPT ![s] = @ \cup {<<who, p>>}]

(* The retransmit loop publishes a retry under the ARQ's lock, taking the  *)
(* dispatch back, and pushes it after.                                     *)
Retry(s, n, kind) ==
    /\ over[s] = "no" /\ n \in unacked[s] \ unsent[s]
    /\ Takes(s, "retry", Packet(kind, n))
    /\ unsent' = [unsent EXCEPT ![s] = @ \cup {n}]
    /\ UNCHANGED <<txq, census, unacked, sent, acking, over, fecs, orphans, turn, again, poll, polls>>

(* The other end misses n and has seen a later one.  It is sent again       *)
(* whether or not a retry took its dispatch back.                          *)
HandleDataNack(s, n) ==
    /\ over[s] = "no" /\ n \in unacked[s]
    /\ \E m \in (n + 1)..sent[s] : m \in unsent[s] => m \in unacked[s]
    /\ Takes(s, "nack", Packet("resend", n))
    /\ UNCHANGED <<txq, census, unsent, unacked, sent, acking, over, fecs, orphans, turn, again,
                   poll, polls>>

Refuses(s, p) == \/ over[s] = "cleared"
                 \/ p \in census[s]
                 \/ p[1] = "data" /\ Packet("resend", p[2]) \in census[s]

(* The push, whatever became of the sequence since: a resend takes the     *)
(* place of a queued first copy.  The retransmit loop takes a retry that   *)
(* was refused for dispatched again.                                       *)
PushTXPacket(s, who, p) ==
    LET old == IF p[1] = "resend" THEN Packet("data", p[2]) ELSE p IN
    /\ <<who, p>> \in pushing[s]
    /\ pushing' = [pushing EXCEPT ![s] = @ \ {<<who, p>>}]
    /\ IF Refuses(s, p)
       THEN /\ unsent' = [unsent EXCEPT ![s] = IF who = "retry" THEN @ \ {p[2]} ELSE @]
            /\ UNCHANGED <<txq, census>>
       ELSE /\ txq' = [txq EXCEPT ![s] = Pushed(Without(@, old), p)]
            /\ census' = [census EXCEPT ![s] = (@ \ {old}) \cup {p}]
            /\ UNCHANGED unsent
    /\ poll' = Stirred
    /\ UNCHANGED <<unacked, sent, acking, over, fecs, orphans, turn, again, polls>>

PushControl(s, p) ==
    /\ over[s] = "no" /\ p \notin census[s]
    /\ Push(s, p)
    /\ poll' = Stirred
    /\ UNCHANGED <<unsent, unacked, sent, acking, over, fecs, orphans, turn, again, polls, pushing>>

PushOrphan(p) ==
    /\ over[p[2]] # "no" /\ p \notin Range(orphans)
    /\ orphans' = Append(orphans, p)
    /\ poll' = Stirred
    /\ UNCHANGED <<txq, census, unsent, unacked, sent, acking, over, fecs, turn, again, polls, pushing>>

(* The acknowledgement takes the sequence off the ARQ, *)
Acked(s, n) ==
    /\ over[s] = "no" /\ acking[s] = None /\ n \in unacked[s]
    /\ unsent' = [unsent EXCEPT ![s] = @ \ {n}]
    /\ unacked' = [unacked EXCEPT ![s] = @ \ {n}]
    /\ acking' = [acking EXCEPT ![s] = n]
    /\ poll' = Stirred
    /\ UNCHANGED <<txq, census, sent, over, fecs, orphans, turn, again, polls, pushing>>

(* and then its copies off the queue. *)
RemoveQueuedData(s) ==
    LET gone == {Packet("data", acking[s]), Packet("resend", acking[s])} IN
    /\ acking[s] # None
    /\ txq' = [txq EXCEPT ![s] = SelectSeq(@, LAMBDA o : o \notin gone)]
    /\ census' = [census EXCEPT ![s] = @ \ gone]
    /\ acking' = [acking EXCEPT ![s] = None]
    /\ poll' = Stirred
    /\ UNCHANGED <<unsent, unacked, sent, over, fecs, orphans, turn, again, polls, pushing>>

CloseStream(s) ==
    /\ over[s] = "no"
    /\ over' = [over EXCEPT ![s] = "yes"]
    /\ unsent' = [unsent EXCEPT ![s] = {}] /\ unacked' = [unacked EXCEPT ![s] = {}]
    /\ poll' = Stirred
    /\ UNCHANGED <<txq, census, sent, acking, fecs, orphans, turn, again, polls, pushing>>

(* Closing the ARQ ends in closing its stream's queue. *)
CloseQueue(s) ==
    /\ over[s] = "yes"
    /\ over' = [over EXCEPT ![s] = "cleared"]
    /\ txq' = [txq EXCEPT ![s] = <<>>] /\ census' = [census EXCEPT ![s] = {}]
    /\ poll' = Stirred
    /\ UNCHANGED <<unsent, unacked, sent, acking, fecs, orphans, turn, again, polls, pushing>>

(* maybeAdjustAutoFEC, at the end of a window of samples.  What FEC drops *)
(* here the ARQ still has, dispatched.                                    *)
Adjusted(f, loss) ==
    CASE loss = "low" /\ ~f.on -> f
      [] loss = "low" /\ f.on /\ f.low + 1 < CleanWindows -> [f EXCEPT !.low = @ + 1]
      [] loss = "low" /\ f.on /\ f.low + 1 >= CleanWindows -> NoFec
      [] loss = "high" -> [f EXCEPT !.on = TRUE, !.low = 0]
      [] loss = "hopeless" -> [f EXCEPT !.low = 0]

AdjustAutoFEC(s, loss) ==
    /\ over[s] = "no" /\ sent[s] > 0 /\ Adjusted(fecs[s], loss) # fecs[s]
    /\ fecs' = [fecs EXCEPT ![s] = Adjusted(@, loss)]
    /\ poll' = Stirred
    /\ UNCHANGED <<txq, census, unsent, unacked, sent, acking, over, orphans, turn, again, polls, pushing>>

----------------------------------------------------------------------------
(* The poll *)

(* The next stream in turn, or pong. *)
Onward(p) == IF p.todo = <<>> THEN [p EXCEPT !.at = "pong"]
             ELSE [p EXCEPT !.at = "visit", !.id = Head(p.todo), !.todo = Tail(p.todo), !.hand = <<>>]
Skip == Onward(poll)

(* The streams a poll visits, in turn from RRStreamID, the orphans first. *)
Candidates == LET ids == (IF orphans # <<>> THEN <<Orphan>> ELSE <<>>)
                         \o SetToSortSeq({s \in Streams : over[s] # "cleared"}, <)
                  at == SelectInSeq(ids, LAMBDA i : i >= turn)
              IN  IF at = 0 THEN ids ELSE SubSeq(ids, at, Len(ids)) \o SubSeq(ids, 1, at - 1)

Repeats(cap) == again.left > 0 /\ again.size <= cap

Begin(cap) ==
    /\ poll.at = "idle" /\ polls < MaxPolls
    /\ polls' = polls + 1
    /\ IF Repeats(cap)
       THEN /\ again' = [again EXCEPT !.left = @ - 1]
            /\ UNCHANGED poll
       ELSE /\ poll' = Onward([NoPoll EXCEPT !.cap = cap, !.todo = Candidates, !.calm = TRUE])
            /\ UNCHANGED again
    /\ UNCHANGED <<txq, census, unsent, unacked, sent, acking, over, fecs, orphans, turn, pushing>>

(* An orphan packet carries nothing, so that it always fits. *)
VisitOrphans ==
    /\ poll.at = "visit" /\ poll.id = Orphan
    /\ IF orphans = <<>> THEN poll' = Skip /\ UNCHANGED orphans
       ELSE /\ orphans' = Tail(orphans)
            /\ poll' = [poll EXCEPT !.at = "send", !.hand = Head(orphans)]
    /\ UNCHANGED <<txq, census, unsent, unacked, sent, acking, over, fecs, turn, again, polls, pushing>>

Owes(f) == f.on /\ (f.shards > 0 \/ f.buf # {})

SkipIdle ==
    /\ poll.at = "visit" /\ poll.id \in Streams
    /\ txq[poll.id] = <<>> /\ ~Owes(fecs[poll.id])
    /\ poll' = Skip
    /\ UNCHANGED <<txq, census, unsent, unacked, sent, acking, over, fecs, orphans, turn, again, polls, pushing>>

VisitClosed ==
    LET s == poll.id IN
    /\ poll.at = "visit" /\ s \in Streams
    /\ txq[s] # <<>> \/ Owes(fecs[s])
    /\ over[s] # "no"
    /\ txq' = [txq EXCEPT ![s] = <<>>] /\ census' = [census EXCEPT ![s] = {}]
    /\ over' = [over EXCEPT ![s] = "cleared"]
    /\ poll' = Skip
    /\ UNCHANGED <<unsent, unacked, sent, acking, fecs, orphans, turn, again, polls, pushing>>

Busy(s) == poll.at = "visit" /\ poll.id = s /\ s \in Streams /\ over[s] = "no"
           /\ (txq[s] # <<>> \/ Owes(fecs[s]))
Small(s) == poll.cap < Roomy /\ (~fecs[s].on \/ poll.cap < DataSize)

(* A small carrier takes the first packet that fits, past those that do not, *)
(* and leaves FEC aside.                                                     *)
Fit(p) == Carries(poll.cap, Size(p))

PopSmall ==
    LET s == poll.id  i == SelectInSeq(txq[s], Fit)
        passed == \E j \in DOMAIN txq[s] : (i = 0 \/ j < i) /\ ~Fit(txq[s][j])
        seen == [poll EXCEPT !.blocked = @ \/ passed]
    IN
    /\ Busy(s) /\ Small(s)
    /\ IF i = 0
       THEN /\ poll' = Onward(seen)
            /\ UNCHANGED <<txq, census>>
       ELSE /\ TakenFrom(s, i)
            /\ poll' = [seen EXCEPT !.at = "note", !.hand = txq[s][i]]
    /\ UNCHANGED <<unsent, unacked, sent, acking, over, fecs, orphans, turn, again, polls, pushing>>

PopRaw ==
    LET s == poll.id IN
    /\ Busy(s) /\ ~Small(s) /\ ~fecs[s].on
    /\ TakenFrom(s, 1)
    /\ poll' = [poll EXCEPT !.at = "note", !.hand = txq[s][1]]
    /\ UNCHANGED <<unsent, unacked, sent, acking, over, fecs, orphans, turn, again, polls, pushing>>

(* NoteTXPacketDequeued and HasPendingSequence. *)
Noted(s, p) ==
    IF IsData(p) /\ p[2] \in unsent[s]
    THEN /\ unsent' = [unsent EXCEPT ![s] = @ \ {p[2]}]
         /\ unacked' = [unacked EXCEPT ![s] = @ \cup {p[2]}]
    ELSE UNCHANGED <<unsent, unacked>>

Wanted(s, p) == ~IsData(p) \/ p[2] \in unsent[s] \cup unacked[s]

(* A copy of what was acknowledged since is dropped, and the poll turns to *)
(* the next stream.                                                        *)
Note ==
    /\ poll.at = "note"
    /\ Noted(poll.id, poll.hand)
    /\ poll' = IF Wanted(poll.id, poll.hand) THEN [poll EXCEPT !.at = "send"]
               ELSE Onward([poll EXCEPT !.stale = @ \cup {poll.id}])
    /\ UNCHANGED <<txq, census, sent, acking, over, fecs, orphans, turn, again, polls, pushing>>

----------------------------------------------------------------------------
(* fecDequeueFromStream *)

Shard == Packet("shard", 0)

FecShard ==
    LET s == poll.id IN
    /\ \/ Busy(s) /\ ~Small(s) /\ fecs[s].on
       \/ poll.at = "fec-shard"
    /\ IF fecs[s].shards > 0
       THEN /\ fecs' = [fecs EXCEPT ![s].shards = @ - 1]
            /\ poll' = [poll EXCEPT !.at = "send", !.hand = Shard]
       ELSE poll' = [poll EXCEPT !.at = "fec-pop"] /\ UNCHANGED fecs
    /\ UNCHANGED <<txq, census, unsent, unacked, sent, acking, over, orphans, turn, again, polls, pushing>>

FecPop ==
    LET s == poll.id IN
    /\ poll.at = "fec-pop" /\ txq[s] # <<>>
    /\ TakenFrom(s, 1)
    /\ poll' = [poll EXCEPT !.at = "fec-note", !.hand = txq[s][1]]
    /\ UNCHANGED <<unsent, unacked, sent, acking, over, fecs, orphans, turn, again, polls, pushing>>

FecNote ==
    LET s == poll.id  p == poll.hand IN
    /\ poll.at = "fec-note"
    /\ Noted(s, p)
    /\ poll' = [poll EXCEPT !.at = IF ~Wanted(s, p) THEN "fec-pop"
                                   ELSE IF IsData(p) THEN "fec-feed" ELSE "send"]
    /\ UNCHANGED <<txq, census, sent, acking, over, fecs, orphans, turn, again, polls, pushing>>

(* A block that is full leaves as its shards, one more than its packets. *)
Flushed(f) == IF f.buf = {} THEN f
              ELSE [f EXCEPT !.buf = {}, !.shards = @ + Cardinality(f.buf) + 1]
Fed(f, n) == LET g == [f EXCEPT !.buf = @ \cup {n}]
             IN  IF Cardinality(g.buf) < BlockSize THEN g ELSE Flushed(g)

(* FEC may have been torn down since the poll looked: the packet goes raw. *)
FecFeed ==
    LET s == poll.id IN
    /\ poll.at = "fec-feed"
    /\ IF fecs[s].on
       THEN /\ fecs' = [fecs EXCEPT ![s] = Fed(@, poll.hand[2])]
            /\ poll' = [poll EXCEPT !.at = "fec-shard", !.hand = <<>>]
       ELSE poll' = [poll EXCEPT !.at = "send"] /\ UNCHANGED fecs
    /\ UNCHANGED <<txq, census, unsent, unacked, sent, acking, over, orphans, turn, again, polls, pushing>>


TailOut(f) == IF f.on THEN Flushed(f) ELSE f

(* The queue is empty: the short block goes too. *)
FecFlush ==
    LET s == poll.id  f == TailOut(fecs[s]) IN
    /\ poll.at = "fec-pop" /\ txq[s] = <<>>
    /\ IF f.shards > 0
       THEN /\ fecs' = [fecs EXCEPT ![s] = [f EXCEPT !.shards = @ - 1]]
            /\ poll' = [poll EXCEPT !.at = "send", !.hand = Shard]
       ELSE fecs' = [fecs EXCEPT ![s] = f] /\ poll' = Skip
    /\ UNCHANGED <<txq, census, unsent, unacked, sent, acking, over, orphans, turn, again, polls, pushing>>

----------------------------------------------------------------------------
(* The answer: packControlBlocks under the session's lock *)

Limit(cap) == IF MaxBlocks < cap THEN MaxBlocks ELSE cap

(* The control packets that go along: those of the stream first, then the *)
(* orphans', then of the streams after it and of those before.            *)
Sources == LET others == SetToSortSeq({s \in Streams : s > poll.id /\ over[s] # "cleared"}, <)
                         \o SetToSortSeq({s \in Streams : s < poll.id /\ over[s] # "cleared"}, <)
           IN  IF poll.id = Orphan THEN <<Orphan>> \o others ELSE <<poll.id, Orphan>> \o others

Queued(id) == IF id = Orphan THEN orphans ELSE txq[id]
Labelled(id) == [i \in DOMAIN SelectSeq(Queued(id), Packable) |->
                    <<id, SelectSeq(Queued(id), Packable)[i]>>]
Along == LET fit == FoldLeft(LAMBDA a, id : a \o Labelled(id), <<>>, Sources)
             room == Limit(poll.cap) - 1
         IN  Range(IF room < Len(fit) THEN SubSeq(fit, 1, room) ELSE fit)

Send ==
    /\ poll.at = "send"
    /\ turn' = poll.id + 1
    /\ IF Packable(poll.hand) /\ MaxBlocks > 1
       THEN LET along == IF Limit(poll.cap) <= 1 THEN {} ELSE Along
                blocks == 1 + Cardinality(along)
                Stays(id, q) == SelectSeq(q, LAMBDA p : <<id, p>> \notin along)
            IN  /\ txq' = [s \in Streams |-> Stays(s, txq[s])]
                /\ orphans' = Stays(Orphan, orphans)
                /\ census' = [s \in Streams |-> {p \in census[s] : <<s, p>> \notin along}]
                /\ again' = IF blocks > 1 /\ Copies > 1 THEN [size |-> blocks, left |-> Copies - 1]
                            ELSE [size |-> 0, left |-> 0]
       ELSE UNCHANGED <<txq, census, orphans, again>>
    /\ poll' = NoPoll
    /\ UNCHANGED <<unsent, unacked, sent, acking, over, fecs, polls, pushing>>

GivePong ==
    /\ poll.at = "pong" /\ poll' = NoPoll
    /\ UNCHANGED <<txq, census, unsent, unacked, sent, acking, over, fecs, orphans, turn, again, polls, pushing>>

----------------------------------------------------------------------------
(* What the ARQs do once the last poll is answered shows nothing. *)
Asking == poll.at # "idle" \/ polls < MaxPolls

Arqs ==
    Asking /\ \E s \in Streams :
          \/ PushData(s) \/ RemoveQueuedData(s) \/ CloseStream(s) \/ CloseQueue(s)
          \/ \E n \in 1..MaxSeq[s] : \/ HandleDataNack(s, n) \/ Acked(s, n)
                                    \/ \E kind \in Kinds : Retry(s, n, kind)
          \/ \E job \in pushing[s] : PushTXPacket(s, job[1], job[2])
          \/ \E c \in Controls : c[1] = s /\ PushControl(s, c[2])
          \/ \E p \in Orphans : p[2] = s /\ PushOrphan(p)
          \/ \E loss \in Losses : AdjustAutoFEC(s, loss)

Next ==
    \/ Arqs
    \/ \E cap \in Capacities : Begin(cap)
    \/ VisitOrphans \/ SkipIdle \/ VisitClosed \/ PopSmall \/ PopRaw \/ Note
    \/ FecShard \/ FecPop \/ FecNote \/ FecFeed \/ FecFlush \/ Send \/ GivePong

Spec == Init /\ [][Next]_txVars

----------------------------------------------------------------------------
(* Properties *)

(* The queue's census names the packets that are queued, and no others: a *)
(* key left behind would refuse every later packet of that identity       *)
(* (mlq.go, Push and Get).                                                *)
CensusExact == \A s \in Streams : /\ census[s] = Range(txq[s])
                                  /\ Cardinality(census[s]) = Len(txq[s])

(* A sequence that the ARQ does not take for dispatched is queued, about to *)
(* be pushed, or in a poll's hand: its timer only resends what was          *)
(* dispatched.                                                              *)
NothingStranded ==
    \A s \in Streams : over[s] = "no" =>
        \A n \in unsent[s] : \E p \in {Packet("data", n), Packet("resend", n)} :
            \/ p \in census[s]
            \/ <<"retry", p>> \in pushing[s]
            \/ poll.id = s /\ poll.at \in {"note", "fec-note"} /\ poll.hand = p

(* A poll that nothing disturbed answers pong only when nothing that its   *)
(* carrier holds was waiting, a short FEC block among them; and when it    *)
(* says nothing was too large, nothing was queued.  Only a stream in which *)
(* it came upon a copy of acknowledged data, queued by a retry that the    *)
(* acknowledgement overtook, may be left with packets that it could carry. *)
PongMeansIdle ==
    poll.at = "pong" /\ poll.calm =>
        /\ orphans = <<>>
        /\ \A s \in Streams \ poll.stale : over[s] = "no" =>
              /\ \A p \in Range(txq[s]) : ~Carries(poll.cap, Size(p)) /\ poll.blocked
              /\ Owes(fecs[s]) => Small(s)

TypeOK ==
    /\ \A s \in Streams :
          /\ unsent[s] \subseteq 1..MaxSeq[s] /\ unacked[s] \subseteq 1..MaxSeq[s]
          /\ acking[s] \in 0..MaxSeq[s] /\ over[s] \in {"no", "yes", "cleared"}
          /\ fecs[s].low < CleanWindows /\ Cardinality(fecs[s].buf) < BlockSize
    /\ Len(orphans) = Cardinality(Range(orphans)) /\ turn \in Nat /\ again.left < Copies

AnswersSound == TypeOK /\ CensusExact /\ NothingStranded /\ PongMeansIdle
=============================================================================
