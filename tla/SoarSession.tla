---------------------------- MODULE SoarSession ----------------------------
(***************************************************************************)
(* One stream of a CottenMax session (internal/cottenmax/engine, package   *)
(* soar) between a client C and a server S.  The client sends numbered     *)
(* queries, each with a packet inside; the server answers every query with *)
(* a numbered packet, at once or after holding it.  A resolver may repeat  *)
(* a query, and queries and answers may be lost or overtake one another.   *)
(*                                                                         *)
(* A range of bytes is the set of its offsets, a queue whose order shows   *)
(* in nothing but the layout of a packet is a set.  Times are left out: a  *)
(* deadline may pass at any moment.                                        *)
(***************************************************************************)
EXTENDS Integers, Sequences, FiniteSets, FiniteSetsExt, SequencesExt

CONSTANTS
    Length,         \* the bytes that each end's application may write
    InitialWindow,  \* initialWindow, both ends
    Window,         \* StreamWindow of each end
    Rooms,          \* the stream bytes that a query's packet may have room for; 0: not even a frame
    AnswerRoom,     \* the stream bytes that an answer has room for
    Inflight,       \* MaxInflight
    Faults,         \* bound: the times that a packet is given up or a query is repeated
    Packets         \* bound: the packets that each end sends

C == "client"
S == "server"
Ends == {C, S}
Peer(e) == IF e = C THEN S ELSE C

VARIABLES
    end,        \* the two sessions
    pending,    \* client: the queries that wait for an answer, live or expired; one whose grace
                \* is over stays, for an answer that finds no query is as good as a lost one
    held,       \* server: the queries held, oldest first
    abandoned,  \* server: the queries that the client gave up before they were answered
    relay,      \* server: what serveStream is doing
    queries,    \* the queries in the network
    answers,    \* the answers in the network
    faults      \* the faults so far

vars == <<end, pending, held, abandoned, relay, queries, answers, faults>>

NoStream ==
    [live |-> FALSE, base |-> 0, top |-> 0, pend |-> {}, sacked |-> {}, smax |-> InitialWindow,
     sfin |-> FALSE, finSent |-> FALSE, finAcked |-> FALSE, saborted |-> FALSE,
     read |-> 0, got |-> {}, rfin |-> FALSE, finOff |-> 0, high |-> 0, rmax |-> InitialWindow,
     rclosed |-> FALSE, reset |-> FALSE, byPeer |-> FALSE, dead |-> FALSE, serving |-> FALSE,
     opened |-> FALSE]

NewSession ==
    [pn |-> 0, sent |-> {}, recvd |-> {}, toAck |-> {}, lostQ |-> {}, replyOf |-> {}, ctrlQ |-> {},
     st |-> NoStream, known |-> FALSE, closed |-> FALSE]

Init ==
    /\ end = [e \in Ends |-> NewSession]
    /\ pending = {} /\ held = <<>> /\ abandoned = {} /\ relay = "none"
    /\ queries = {} /\ answers = {} /\ faults = 0

----------------------------------------------------------------------------
(* A session E and its stream E.st                                         *)

Reset   == [typ |-> "reset", val |-> 0]
Opened  == [typ |-> "opened", val |-> 0]
Grant(v) == [typ |-> "max", val |-> v]

QueueCtrl(E, c) ==
    LET old == {q \in E.ctrlQ : q.typ = c.typ}
    IN  [E EXCEPT !.ctrlQ = (@ \ old) \cup {[c EXCEPT !.val = Max({c.val} \cup {q.val : q \in old})]}]

(* The end of what may be read: bytes without a gap from the last one read. *)
Contig(st) == Min({o \in st.read..(st.read + Cardinality(st.got)) : o \notin st.got})

DoneSending(st) ==
    \/ st.reset \/ st.saborted
    \/ (st.sfin /\ st.finAcked /\ st.base = st.top /\ st.pend = {})
DoneReceiving(st) == st.reset \/ st.rclosed \/ (st.rfin /\ st.read = st.finOff)

(* A stream that is done stays where it is for the Conn that reads it, but *)
(* the session no longer knows it.                                         *)
MaybeRemove(E) ==
    LET st == E.st
    IN  IF ~(st.live /\ ~st.serving /\ DoneSending(st) /\ DoneReceiving(st)) THEN E
        ELSE LET told == IF st.rclosed /\ ~st.rfin /\ ~st.reset THEN QueueCtrl(E, Reset) ELSE E
             IN  [told EXCEPT !.st.live = FALSE]

Aborted(st) == [st EXCEPT !.reset = TRUE, !.pend = {}, !.sacked = {}, !.base = st.top,
                          !.got = st.read..(Contig(st) - 1), !.dead = TRUE]

CloseSession(E) == [E EXCEPT !.closed = TRUE, !.st = IF @.live THEN [Aborted(@) EXCEPT !.live = FALSE] ELSE @]

(* The window is granted, and the peer still held to the initial one. *)
NewStream_LimitKept(E, e) ==
    LET st == [NoStream EXCEPT !.live = TRUE, !.serving = (e = S)]
        E1 == [E EXCEPT !.st = st, !.known = TRUE]
    IN  IF Window[e] > InitialWindow THEN QueueCtrl(E1, Grant(Window[e])) ELSE E1

(* newStream and advertise *)
NewStream(E, e) ==
    LET st == [NoStream EXCEPT !.live = TRUE, !.rmax = Max({InitialWindow, Window[e]}), !.serving = (e = S)]
        E1 == [E EXCEPT !.st = st, !.known = TRUE]
    IN  IF Window[e] > InitialWindow THEN QueueCtrl(E1, Grant(Window[e])) ELSE E1

(* A stream that has been opened and is gone does not open again. *)
PeerStream(E, e) == IF e = C \/ E.known \/ E.closed THEN E ELSE NewStream(E, e)

WantsSend(st) ==
    /\ st.live /\ ~st.reset /\ ~st.saborted
    /\ \/ st.pend # {} /\ Min(st.pend) < st.smax
       \/ st.pend = {} /\ st.sfin /\ ~st.finSent /\ ~st.finAcked
HasData(E) == E.ctrlQ # {} \/ E.lostQ # {} \/ WantsSend(E.st)

Carries(p) == p.data # {} \/ p.fin \/ p.ctrls # {}
DataInFlight(E) == \E p \in E.sent : Carries(p)

----------------------------------------------------------------------------
(* Packets acknowledged and lost                                           *)

OnAcked(E, p) ==
    LET st == E.st
        sacked == st.sacked \cup p.data
        base == Min({o \in st.base..st.top : o \notin sacked})
    IN  IF ~st.live \/ st.reset \/ st.saborted \/ ~(p.data # {} \/ p.fin) THEN E
        ELSE MaybeRemove([E EXCEPT !.st = [st EXCEPT
                !.base = base, !.sacked = {o \in sacked : o >= base}, !.pend = @ \ p.data,
                !.finAcked = @ \/ p.fin]])

Forget(E, p) == [E EXCEPT !.sent = @ \ {p}, !.replyOf = {r \in @ : r # <<p.re, p.pn>>}]

PacketAcked(E, p) ==
    LET E1 == OnAcked(Forget(E, p), p) IN [E1 EXCEPT !.toAck = @ \ p.ack]

OnLost(st, p) ==
    IF ~st.live \/ st.reset \/ st.saborted THEN st
    ELSE [st EXCEPT !.pend = @ \cup {o \in p.data : o >= st.base /\ o \notin st.sacked},
                    !.finSent = @ /\ (p.fin => st.finAcked)]

(* A grant is not repeated once the stream has granted more. *)
DeclareLost_EveryGrantDropped(E, p) ==
    LET E1 == [Forget(E, p) EXCEPT !.st = OnLost(@, p), !.lostQ = @ \cup p.lost,
                                   !.toAck = @ \cup (p.ack \cap E.recvd)]
    IN  FoldSet(LAMBDA c, acc : QueueCtrl(acc, c), E1, {c \in p.ctrls : c.typ # "max"})

DeclareLost(E, p) ==
    LET E1 == [Forget(E, p) EXCEPT !.st = OnLost(@, p), !.lostQ = @ \cup p.lost,
                                   !.toAck = @ \cup (p.ack \cap E.recvd)]
        again == {c \in p.ctrls : c.typ = "max" => E.st.live /\ E.st.rmax = c.val}
    IN  FoldSet(LAMBDA c, acc : QueueCtrl(acc, c), E1, again)

AllLost(E, ps) == FoldSet(LAMBDA p, acc : DeclareLost(acc, p), E, ps)

(* onAck: the packets acknowledged, and those among the older ones that    *)
(* more than 9/8 of the round trip has passed for.                         *)
LateLost(E, late, newest) == AllLost(E, {p \in E.sent : p.pn \in late /\ p.pn < newest})

OnAck(E, acks, late) ==
    LET seen == {p \in E.sent : p.pn \in acks}
    IN  IF seen = {} THEN E
        ELSE LateLost(FoldSet(LAMBDA p, acc : PacketAcked(acc, p), E, seen), late, Max({q.pn : q \in seen}))

----------------------------------------------------------------------------
(* A packet built                                                          *)

Lowest(set, n) == {o \in set : Cardinality({p \in set : p < o}) < n}

(* With no room the packet is an empty poll.  Controls, losses and         *)
(* acknowledgements are small beside the room for a stream byte.           *)
Build(E, e, room, re) ==
    LET st    == E.st
        data  == IF WantsSend(st) THEN Lowest({o \in st.pend : o < st.smax}, room) ELSE {}
        rest  == st.pend \ data
        fin   == /\ room > 0 /\ WantsSend(st) /\ st.sfin /\ ~st.finAcked
                 /\ (st.top - 1 \in data \/ (rest = {} /\ ~st.finSent))
        p     == [pn |-> E.pn, data |-> data, fin |-> fin, top |-> st.top, re |-> re,
                  ctrls |-> IF room = 0 THEN {} ELSE E.ctrlQ,
                  lost  |-> IF room = 0 THEN {} ELSE E.lostQ,
                  ack   |-> IF room = 0 \/ e = S THEN {} ELSE E.toAck]
        kept  == Carries(p) \/ p.ack # {} \/ p.lost # {}
        E1    == [E EXCEPT !.pn = @ + 1, !.ctrlQ = @ \ p.ctrls, !.lostQ = @ \ p.lost, !.toAck = @ \ p.ack,
                           !.st.pend = rest, !.st.finSent = @ \/ fin]
    IN  [pkt |-> p,
         ses |-> IF ~kept THEN E1
                 ELSE [E1 EXCEPT !.sent = @ \cup {p},
                                 !.replyOf = IF e = C THEN @ ELSE {r \in @ : r[1] # re} \cup {<<re, p.pn>>}]]

(* The tail of a transfer is made pending again, for a copy. *)
HasTail(E, p) == E.st.live /\ ~E.st.reset /\ (p.data # {} \/ (p.fin /\ ~E.st.finAcked))
Requeue(E, p) ==
    [E EXCEPT !.st.pend = @ \cup {o \in p.data : o >= E.st.base},
              !.st.finSent = @ /\ (p.fin => E.st.finAcked)]

----------------------------------------------------------------------------
(* A packet received                                                       *)

(* A FIN, on the last frame of data or bare, ends at all that was sent. *)
HighEnd(p) == IF p.fin THEN p.top ELSE Max(p.data) + 1

(* onData; a frame that breaks the rules ends the session. *)
BreaksRules(st, p) ==
    LET hi == HighEnd(p)
    IN  \/ hi > st.rmax
        \/ st.rfin /\ hi > st.finOff
        \/ p.fin /\ ((st.rfin /\ st.finOff # hi) \/ hi < st.high)

Stored(st, p) ==
    LET hi == HighEnd(p)
    IN  [st EXCEPT !.rfin = @ \/ p.fin, !.finOff = IF p.fin THEN hi ELSE @, !.high = Max({@, hi}),
                   !.got = IF st.rclosed \/ st.reset THEN @ ELSE @ \cup {o \in p.data : o >= st.read}]

OnReset(st) ==
    IF st.rfin /\ Contig(st) = st.finOff
    THEN [st EXCEPT !.pend = {}, !.sacked = {}, !.base = st.top, !.sfin = TRUE, !.saborted = TRUE, !.dead = TRUE]
    ELSE [Aborted(st) EXCEPT !.byPeer = TRUE]

OnMax(E, limits) ==
    IF E.st.live THEN [E EXCEPT !.st.smax = Max({@} \cup limits)] ELSE E
OnOpened(E, e, cs) ==
    IF Opened \in cs /\ e = C /\ E.st.live THEN [E EXCEPT !.st.opened = TRUE] ELSE E
OnResets(E, cs) ==
    IF Reset \in cs /\ E.st.live THEN MaybeRemove([E EXCEPT !.st = OnReset(@)]) ELSE E

OnCtrls(E, e, cs) ==
    LET limits == {c.val : c \in {d \in cs : d.typ = "max"}}
    IN  OnResets(OnOpened(IF limits = {} THEN E ELSE OnMax(PeerStream(E, e), limits), e, cs), cs)

(* The server hears which of the client's queries got no usable answer. *)
OnLostReport(E, ups) == AllLost(E, {p \in E.sent : \E u \in ups : <<u, p.pn>> \in E.replyOf})
Unanswered(E, ups)   == {u \in ups : \A r \in E.replyOf : r[1] # u}

OnData(E, p) ==
    IF ~E.st.live THEN E
    ELSE IF BreaksRules(E.st, p) THEN CloseSession(E)
    ELSE MaybeRemove([E EXCEPT !.st = Stored(@, p)])

OnStream(E, e, p) == IF p.data = {} /\ ~p.fin THEN E ELSE OnData(PeerStream(E, e), p)

ToAck(E, e, p) == IF e = C /\ Carries(p) THEN [E EXCEPT !.toAck = @ \cup {p.pn}] ELSE E

Receive(E, e, p, late) ==
    IF p.pn \in E.recvd THEN E
    ELSE LET heard == OnCtrls([E EXCEPT !.recvd = @ \cup {p.pn}], e, p.ctrls)
         IN  ToAck(OnStream(OnAck(OnLostReport(heard, p.lost), p.ack, late), e, p), e, p)

----------------------------------------------------------------------------
(* The applications                                                        *)

Set(e, E) == end' = [end EXCEPT ![e] = E]

Network == <<queries, answers, faults>>
Rest    == <<pending, held, abandoned, relay, Network>>

Fault(n) == faults + n <= Faults /\ faults' = faults + n

(* DialContext: the first byte is the destination. *)
Open ==
    /\ ~end[C].known /\ Length[C] > 0
    /\ Set(C, [NewStream(end[C], C) EXCEPT !.st.top = 1, !.st.pend = {0}])
    /\ UNCHANGED Rest

(* The server's application is relay, once the destination is connected. *)
Runs(e) == IF e = C THEN end[C].known ELSE relay = "up"

Write(e) ==
    LET st == end[e].st
    IN  /\ Runs(e) /\ ~st.reset /\ ~st.sfin /\ ~st.dead /\ st.top < Length[e]
        /\ Set(e, [end[e] EXCEPT !.st.top = @ + 1, !.st.pend = @ \cup {st.top}])
        /\ UNCHANGED Rest

(* Half a window read is granted again, for as long as the end is not known. *)
AfterRead(E, e, n) ==
    LET read  == E.st.read + n
        limit == read + Window[e]
        E1    == [E EXCEPT !.st.read = read, !.st.got = {o \in @ : o >= read}]
    IN  MaybeRemove(
            IF limit > E.st.rmax /\ limit - E.st.rmax >= Window[e] \div 2 /\ ~E.st.rfin
            THEN QueueCtrl([E1 EXCEPT !.st.rmax = limit], Grant(limit)) ELSE E1)

Read(e, n) ==
    /\ Runs(e) /\ n <= Contig(end[e].st) - end[e].st.read
    /\ Set(e, AfterRead(end[e], e, n))
    /\ UNCHANGED Rest

CloseWrite(e) ==
    /\ Runs(e) /\ ~end[e].st.sfin
    /\ Set(e, [end[e] EXCEPT !.st.sfin = TRUE])
    /\ UNCHANGED Rest

(* Close: the peer is asked to stop only once it has the FIN. *)
Closed_TellsAtOnce(E) ==
    LET E1 == [E EXCEPT !.st.sfin = TRUE]
        E2 == IF DoneReceiving(E1.st) THEN E1
              ELSE LET E3 == [E1 EXCEPT !.st.rclosed = TRUE, !.st.got = {}]
                   IN  IF E.st.base = E.st.top
                       THEN QueueCtrl([E3 EXCEPT !.st = Aborted(@)], Reset) ELSE E3
    IN  [MaybeRemove(E2) EXCEPT !.st.dead = TRUE]

Closed(E) ==
    LET E1 == [E EXCEPT !.st.sfin = TRUE]
        E2 == IF DoneReceiving(E1.st) THEN E1
              ELSE LET E3 == [E1 EXCEPT !.st.rclosed = TRUE, !.st.got = {}]
                   IN  IF DoneSending(E3.st)
                       THEN QueueCtrl([E3 EXCEPT !.st = Aborted(@)], Reset) ELSE E3
    IN  [MaybeRemove(E2) EXCEPT !.st.dead = TRUE]

CloseConn ==
    /\ end[C].known /\ ~(end[C].st.sfin /\ end[C].st.dead)
    /\ Set(C, Closed(end[C]))
    /\ UNCHANGED Rest

----------------------------------------------------------------------------
(* The client's scheduler                                                  *)

Live == {q \in pending : ~q.late}

(* wantQueries: polls wait at the server for as long as a stream is open. *)
Wanted(E) == IF E.st.live THEN Inflight ELSE IF E.toAck # {} \/ DataInFlight(E) THEN 1 ELSE 0

Query(p, room) == [pkt |-> p, hold |-> room > 0]

(* sendDataWithSlotsLocked, with the copy of a tail where a path is free. *)
Send(room, copy) ==
    LET E  == end[C]
        b1 == Build(E, C, room, 0)
        b2 == Build(Requeue(b1.ses, b1.pkt), C, room, 0)
        sent == IF copy THEN {b1.pkt, b2.pkt} ELSE {b1.pkt}
    IN  /\ ~E.closed /\ Cardinality(Live) < Inflight
        /\ HasData(E) \/ Cardinality(Live) < Wanted(E)
        /\ copy => /\ Cardinality(Live) + 1 < Inflight /\ room > 0
                   /\ ~HasData(b1.ses) /\ (b1.pkt.data # {} \/ b1.pkt.fin) /\ HasTail(b1.ses, b1.pkt)
        /\ Set(C, IF copy THEN b2.ses ELSE b1.ses)
        /\ pending' = pending \cup {[pn |-> p.pn, late |-> FALSE] : p \in sent}
        /\ queries' = queries \cup {Query(p, room) : p \in sent}
        /\ UNCHANGED <<held, abandoned, relay, answers, faults>>

(* expireLocked and failLocked *)
Failed(E, pn) ==
    [AllLost(E, {p \in E.sent : p.pn = pn}) EXCEPT !.lostQ = @ \cup {pn}]

Expire(q) ==
    /\ ~q.late /\ Fault(1)
    /\ pending' = (pending \ {q}) \cup {[q EXCEPT !.late = TRUE]}
    /\ Set(C, Failed(end[C], q.pn))
    /\ UNCHANGED <<held, abandoned, relay, queries, answers>>

(* onAnswer: the packet is applied before the query's own counts as        *)
(* delivered.                                                              *)
Delivered(E, pn) == FoldSet(LAMBDA p, acc : PacketAcked(acc, p), E, {p \in E.sent : p.pn = pn})

Answer(a) ==
    /\ \E q \in pending : q.pn = a.re /\ pending' = pending \ {q}
    /\ Set(C, Delivered(Receive(end[C], C, a, {}), a.re))
    /\ answers' = {b \in answers : b.re # a.re}
    /\ UNCHANGED <<held, abandoned, relay, queries, faults>>

----------------------------------------------------------------------------
(* The server                                                              *)

(* drainLocked: held queries are answered while there is data, and the     *)
(* tail once more if another is held.                                      *)
Drained(E, hs) ==
    LET Step(acc, u) ==
            LET again == acc.tail # {} /\ ~HasData(acc.ses)
                from  == IF again THEN Requeue(acc.ses, CHOOSE p \in acc.tail : TRUE) ELSE acc.ses
                b     == Build(from, S, AnswerRoom, u)
            IN  IF again \/ HasData(acc.ses)
                THEN [ses |-> b.ses, out |-> acc.out \cup {b.pkt}, kept |-> acc.kept,
                      tail |-> IF ~again /\ HasTail(b.ses, b.pkt) THEN {b.pkt} ELSE {}]
                ELSE [acc EXCEPT !.kept = Append(@, u), !.tail = {}]
    IN  FoldLeft(Step, [ses |-> E, out |-> {}, kept |-> <<>>, tail |-> {}], hs)

Served(d, out) == Set(S, d.ses) /\ held' = d.kept /\ answers' = answers \cup out \cup d.out
Serve(E, hs, out) == Served(Drained(E, hs), out)

(* onQuery.  An answer to a query that the client has given up carries     *)
(* nothing; a poll joins the queue and the queue is drained.               *)
Empty(p) == [p EXCEPT !.data = {}, !.fin = FALSE, !.ctrls = {}, !.lost = {}]

AnswerWith(E, b, q, left) ==
    CASE q.pkt.pn \in abandoned' -> Serve([E EXCEPT !.pn = @ + 1], left, {Empty(b.pkt)})
      [] q.pkt.pn \notin abandoned' /\ (E.closed \/ ~q.hold \/ Carries(q.pkt)) -> Serve(b.ses, left, {b.pkt})
      [] OTHER -> Serve(E, Append(left, q.pkt.pn), {})

Reply(E, q, left) ==
    /\ AnswerWith(E, Build(E, S, AnswerRoom, q.pkt.pn), q, left)
    /\ relay' = IF ~end[S].known /\ E.known THEN "addr" ELSE relay

OnQuery(q, late, repeat) ==
    LET p      == q.pkt
        fresh  == p.pn \notin end[S].recvd
        given  == IF fresh THEN Unanswered(OnCtrls(end[S], S, p.ctrls), p.lost) ELSE {}
    IN  /\ Fault((IF repeat THEN 1 ELSE 0) + (IF late # {} THEN 1 ELSE 0))
        /\ abandoned' = abandoned \cup given
        /\ Reply(Receive(end[S], S, p, late), q, FoldSet(LAMBDA u, acc : RemoveFirst(acc, u), held, given))
        /\ queries' = IF repeat THEN queries ELSE queries \ {q}
        /\ UNCHANGED pending

HoldOver(i) ==
    LET b == Build(end[S], S, AnswerRoom, held[i])
    IN  /\ Set(S, b.ses)
        /\ held' = RemoveAt(held, i)
        /\ answers' = answers \cup {b.pkt}
        /\ UNCHANGED <<pending, abandoned, relay, queries, faults>>

(* The sweep: neither acknowledged nor reported for LossTimeout. *)
SweepLost(p) ==
    /\ Fault(1)
    /\ Serve(DeclareLost(end[S], p), held, {})
    /\ UNCHANGED <<pending, abandoned, relay, queries>>

(* Conn.Write and the like wake the session, whose wakeFn is flush. *)
Flush ==
    /\ held # <<>> /\ HasData(end[S])
    /\ Serve(end[S], held, {})
    /\ UNCHANGED <<pending, abandoned, relay, queries, faults>>

(* serveStream: the destination read, then dialled, then the relay.        *)
ReadAddr ==
    /\ relay = "addr" /\ 0 \in end[S].st.got
    /\ LET E == AfterRead(end[S], S, 1)
       IN  /\ relay' = IF E.st.reset THEN "done" ELSE "dial"
           /\ Set(S, IF E.st.reset THEN Closed(E) ELSE E)
    /\ UNCHANGED <<pending, held, abandoned, Network>>

Refuse ==
    /\ relay \in {"addr", "dial"}
    /\ relay' = "refused"
    /\ Serve([QueueCtrl(end[S], Reset) EXCEPT !.st = Aborted(@)], held, {})
    /\ UNCHANGED <<pending, abandoned, queries, faults>>

Connected ==
    /\ relay = "dial"
    /\ relay' = "up"
    /\ Serve(QueueCtrl(end[S], Opened), held, {})
    /\ UNCHANGED <<pending, abandoned, queries, faults>>

(* Both copies are over, or one has failed. *)
RelayEnds ==
    /\ relay = "up"
    /\ relay' = "done"
    /\ Set(S, Closed(end[S]))
    /\ UNCHANGED <<pending, held, abandoned, Network>>

ServeEnds ==
    /\ relay \in {"done", "refused"} /\ end[S].st.serving
    /\ Set(S, MaybeRemove([end[S] EXCEPT !.st.serving = FALSE]))
    /\ UNCHANGED Rest

(* The bound on packets; an action that always builds one is asked before. *)
Numbered(e) == end[e].pn < Packets[e]

Next ==
    /\ \/ Open \/ CloseConn
       \/ \E e \in Ends : Write(e) \/ CloseWrite(e) \/ \E n \in 1..Length[Peer(e)] : Read(e, n)
       \/ Numbered(C) /\ \E room \in Rooms, copy \in BOOLEAN : Send(room, copy)
       \/ \E q \in pending : Expire(q)
       \/ \E a \in answers : Answer(a)
       \/ \E q \in queries : \E late \in SUBSET {p.pn : p \in end[S].sent}, repeat \in BOOLEAN : OnQuery(q, late, repeat)
       \/ Numbered(S) /\ \E i \in DOMAIN held : HoldOver(i)
       \/ \E p \in end[S].sent : SweepLost(p)
       \/ Flush \/ ReadAddr \/ Refuse \/ Connected \/ RelayEnds \/ ServeEnds
    /\ \A e \in Ends : end'[e].pn <= Packets[e]

Spec == Init /\ [][Next]_vars

----------------------------------------------------------------------------
TypeOK ==
    /\ \A e \in Ends :
          LET st == end[e].st
          IN  /\ 0 <= st.base /\ st.base <= st.top /\ st.top <= Length[e]
              /\ st.pend \cup st.sacked \subseteq st.base..(st.top - 1)
              /\ st.got \subseteq st.read..(st.rmax - 1)
              /\ end[e].recvd \subseteq 0..(end[Peer(e)].pn - 1)
    /\ \A q \in pending : q.pn < end[C].pn
    /\ relay \in {"none", "addr", "dial", "up", "done", "refused"}

(* What an end still owes is in hand: a byte that is not acknowledged is   *)
(* waiting to be sent or in a packet that is still accounted for, and so   *)
(* is the FIN.                                                             *)
BytesInHand ==
    \A e \in Ends :
        LET st == end[e].st
        IN  st.live /\ ~st.reset /\ ~st.saborted =>
                /\ \A o \in st.base..(st.top - 1) :
                      o \in st.pend \cup st.sacked \/ \E p \in end[e].sent : o \in p.data
                /\ st.finSent /\ ~st.finAcked => \E p \in end[e].sent : p.fin

(* A packet of the client's that is accounted for has a query whose answer *)
(* or expiry will settle it (sendDataWithSlotsLocked).                     *)
SentHasQuery == \A p \in end[C].sent : \E q \in Live : q.pn = p.pn

(* A packet that has arrived and that the server waits to hear of is about *)
(* to be acknowledged, or the acknowledgement is on its way.               *)
AcksInHand ==
    \A p \in end[S].sent :
        p.pn \in end[C].recvd /\ Carries(p) =>
            p.pn \in end[C].toAck \cup UNION {x.ack : x \in end[C].sent}

(* The last grant made is known to the peer, or is on its way: one that is *)
(* dropped stalls the stream for good (queueCtrl).                         *)
GrantsInHand ==
    \A e \in Ends :
        LET st == end[e].st
            onWay == end[e].ctrlQ \cup UNION {p.ctrls : p \in end[e].sent}
        IN  st.live /\ end[Peer(e)].st.live /\ ~st.rfin /\ end[Peer(e)].st.smax < st.rmax =>
                Grant(st.rmax) \in onWay

(* All that an end owes the other is in hand (the four above), and the two *)
(* sessions are well formed.                                               *)
InHand == TypeOK /\ BytesInHand /\ SentHasQuery /\ AcksInHand /\ GrantsInHand

(* Two ends that keep the rules never end the session for a breach of      *)
(* them, whatever is lost, repeated or overtaken: neither the window nor   *)
(* the final size is ever exceeded (onData).                               *)
NoFalseError == \A e \in Ends : ~end[e].closed

(* Close loses nothing that was written: only a stream refused by the      *)
(* server is cut short by a RESET at an end that still reads, and an end   *)
(* that is done sending has sent all of it to such an end (Conn.Close).    *)
GracefulClose ==
    \A e \in Ends :
        LET st == end[e].st
            to == end[Peer(e)].st
        IN  /\ st.byPeer => st.rclosed \/ relay = "refused"
            /\ st.sfin /\ st.finAcked /\ st.base = st.top /\ ~st.reset =>
                  to.reset \/ (to.rfin /\ (to.rclosed \/ Contig(to) = st.top))
============================================================================
