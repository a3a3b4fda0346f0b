-------------------------- MODULE SessionStreams --------------------------
(***************************************************************************)
(* The streams of a server session (session.go, server_postsession.go):    *)
(* the table, the list of active streams and its cached snapshot, the      *)
(* memory of the streams recently closed, and what comes and goes: the     *)
(* packets of the client, the ARQs that end, the retention cleanup, the    *)
(* polls that meet a closed stream, and the end of the session.            *)
(*                                                                         *)
(* StreamsMu is taken anew for every one of the steps below.  A stream ID  *)
(* is forgotten among the recently closed only while nothing that began    *)
(* before is still running: the record lives for minutes, a handler for    *)
(* milliseconds.                                                           *)
(***************************************************************************)
EXTENDS Integers, Sequences, FiniteSets, FiniteSetsExt

CONSTANTS
    Ids,            \* the stream IDs, 0 excluded
    MaxStreams,     \* the session's cap
    MaxRecent,      \* RecentlyClosedCap
    Handlers,       \* the workers that may handle a packet of the session at a time
    MaxCreated      \* bound: streams created

VARIABLES
    strs,       \* the streams created, oldest first
    tab,        \* Streams: an index of strs, 0 when there is none
    act,        \* ActiveStreams
    snap,       \* the snapshot cached: its streams, by ID
    dated,      \*   and whether the version is still its own
    recent,     \* RecentlyClosed, oldest first
    live,       \* activeStreamCounter, the session's share
    orphaned,   \* OrphanQueue: what was queued for an ID
    jobs,       \* the packets being handled
    sweep,      \* cleanupTerminalStreams: the streams still to remove
    asked,      \* the poll: the snapshot it has
    ended       \* the session: "no", "marked", "drained", "yes"

strVars == <<strs, tab, act, snap, dated, recent, live, orphaned, jobs, sweep, asked, ended>>

Idle   == [type |-> "none", id |-> 0, seen |-> 0, at |-> 0]
NoSnap == [i \in {} |-> 0]

Init ==
    /\ strs = <<>> /\ tab = [i \in Ids |-> 0] /\ act = {}
    /\ snap = NoSnap /\ dated = TRUE /\ recent = <<>> /\ live = 0
    /\ orphaned = {} /\ jobs = [h \in Handlers |-> Idle] /\ sweep = <<>>
    /\ asked = NoSnap /\ ended = "no"

Open == ended = "no"
Held == {i \in Ids : tab[i] # 0}
Known(i) == \E n \in DOMAIN recent : recent[n] = i

----------------------------------------------------------------------------
(* Under the lock *)

Running(i) ==
    \/ \E h \in Handlers : jobs[h].id = i
    \/ \E n \in DOMAIN strs : strs[n].id = i /\ strs[n].fin \in 1..2
    \/ \E n \in DOMAIN sweep : strs[sweep[n]].id = i
    \/ i \in DOMAIN asked

(* A stream opens clean when nothing of an earlier one of its ID still runs. *)
NewStream(h, i) ==
    [id |-> i, arq |-> "open", ending |-> FALSE, fin |-> 0,
     clean |-> /\ ~Known(i) /\ jobs[h].seen = 0
               /\ \A n \in DOMAIN strs : strs[n].id = i => strs[n].fin = 3
               /\ \A n \in DOMAIN sweep : strs[sweep[n]].id # i
               /\ i \notin DOMAIN asked
               /\ \A g \in Handlers \ {h} : jobs[g].id # i]

Remember(r, i) == LET others == SelectSeq(r, LAMBDA j : j # i)
                      all == Append(others, i)
                  IN  IF Len(all) > MaxRecent THEN Tail(all) ELSE all

\* MUTANT a stream that leaves the active list leaves the version as it was
Deactivated_Undated(i) == act' = act \ {i} /\ dated' = dated

(* deactivateStream and removeActiveStreamLocked *)
Deactivated(i) == /\ act' = act \ {i}
                  /\ dated' = (dated /\ i \notin act)

(* getOrCreateStream *)
Create(h, i) ==
    IF ~Open \/ tab[i] # 0 \/ Cardinality(Held) >= MaxStreams
    THEN UNCHANGED <<strs, tab, act, dated, recent, live>>
    ELSE /\ strs' = Append(strs, NewStream(h, i))
         /\ tab' = [tab EXCEPT ![i] = Len(strs) + 1]
         /\ recent' = SelectSeq(recent, LAMBDA j : j # i)
         /\ live' = live + 1
         /\ act' = act \cup {i}
         /\ dated' = (dated /\ i \in act)

(* removeStream: the ID's stream goes, whichever it is. *)
Removed(i) ==
    IF Open
    THEN /\ tab' = [tab EXCEPT ![i] = 0]
         /\ live' = live - (IF tab[i] # 0 THEN 1 ELSE 0)
         /\ Deactivated(i)
    ELSE UNCHANGED <<tab, live, act, dated>>

Noted(i) == recent' = IF Open THEN Remember(recent, i) ELSE recent

Tell(i, what) == orphaned' = IF Open THEN orphaned \cup {<<i, what>>} ELSE orphaned

----------------------------------------------------------------------------
(* The client's packets: handlePostSessionPacket *)

Types == {"syn", "data", "rst", "closeAck", "nack"}

(* The answer when the stream is not there: preprocessInboundPacket. *)
Absent(type, i) ==
    CASE type = "syn" /\ Known(i) -> {<<i, "rst">>}
      [] type = "data" -> {<<i, "rst">>}
      [] type = "rst" -> {<<i, "rstAck">>}
      [] OTHER -> {}

Receive(h, type, i) ==
    /\ Open /\ jobs[h] = Idle
    /\ IF tab[i] = 0 /\ (type # "syn" \/ Known(i))
       THEN orphaned' = orphaned \cup Absent(type, i) /\ UNCHANGED jobs
       ELSE /\ type = "syn" => Len(strs) < MaxCreated
            /\ jobs' = [jobs EXCEPT ![h] = [type |-> type, id |-> i, seen |-> tab[i], at |-> 1]]
            /\ UNCHANGED orphaned
    /\ UNCHANGED <<strs, tab, act, snap, dated, recent, live, sweep, asked, ended>>

At(h, type, n) == jobs[h].type = type /\ jobs[h].at = n
Done(h) == jobs' = [jobs EXCEPT ![h] = Idle]
Goes(h) == jobs' = [jobs EXCEPT ![h].at = @ + 1]
Closing(s) == [s EXCEPT !.arq = "closed", !.ending = TRUE]

(* A SYN acknowledged at once makes the stream; connecting it is deferred. *)
HandleSyn(h) ==
    LET i == jobs[h].id IN
    /\ At(h, "syn", 1)
    /\ Create(h, i) /\ Done(h)
    /\ UNCHANGED <<snap, orphaned, sweep, asked, ended>>

HandleData(h) ==
    LET i == jobs[h].id IN
    /\ (At(h, "data", 1) \/ At(h, "nack", 1))
    /\ IF jobs[h].type = "data" /\ tab[i] # 0 /\ strs[tab[i]].arq = "closed"
       THEN Tell(i, "rst") ELSE UNCHANGED orphaned
    /\ Done(h)
    /\ UNCHANGED <<strs, tab, act, snap, dated, recent, live, sweep, asked, ended>>

(* handleStreamRSTRequest looks the stream up again. *)
HandleRst(h) ==
    LET i == jobs[h].id IN
    /\ At(h, "rst", 1)
    /\ Tell(i, "rstAck")
    /\ IF tab[i] = 0
       THEN Noted(i) /\ Done(h)
       ELSE jobs' = [jobs EXCEPT ![h].at = 2, ![h].seen = tab[i]] /\ UNCHANGED recent
    /\ UNCHANGED <<strs, tab, act, snap, dated, live, sweep, asked, ended>>

RstDeactivates(h) ==
    /\ At(h, "rst", 2)
    /\ strs' = [strs EXCEPT ![jobs[h].seen].ending = TRUE]
    /\ IF Open THEN Deactivated(jobs[h].id) ELSE UNCHANGED <<act, dated>>
    /\ Goes(h)
    /\ UNCHANGED <<tab, snap, recent, live, orphaned, sweep, asked, ended>>

RstCloses(h) ==
    /\ At(h, "rst", 3)
    /\ strs' = [strs EXCEPT ![jobs[h].seen] = Closing(@)]
    /\ Done(h)
    /\ UNCHANGED <<tab, act, snap, dated, recent, live, orphaned, sweep, asked, ended>>

(* consumeInboundStreamAck: the last acknowledgement closes the ARQ. *)
HandleAck(h) ==
    /\ At(h, "closeAck", 1)
    /\ IF strs[jobs[h].seen].ending
       THEN strs' = [strs EXCEPT ![jobs[h].seen] = Closing(@)] /\ Goes(h)
       ELSE UNCHANGED strs /\ Done(h)
    /\ UNCHANGED <<tab, act, snap, dated, recent, live, orphaned, sweep, asked, ended>>

AckDeactivates(h) ==
    /\ At(h, "closeAck", 2)
    /\ IF Open THEN Deactivated(jobs[h].id) ELSE UNCHANGED <<act, dated>>
    /\ Done(h)
    /\ UNCHANGED <<strs, tab, snap, recent, live, orphaned, sweep, asked, ended>>

----------------------------------------------------------------------------
(* The streams' own ends *)

(* CloseStream: the closing handshake or a reset is under way. *)
BeginsEnding(n) ==
    /\ ~strs[n].ending /\ strs[n].arq = "open"
    /\ strs' = [strs EXCEPT ![n].ending = TRUE]
    /\ UNCHANGED <<tab, act, snap, dated, recent, live, orphaned, jobs, sweep, asked, ended>>

ArqCloses(n) ==
    /\ strs[n].ending /\ strs[n].arq = "open"
    /\ strs' = [strs EXCEPT ![n].arq = "closed"]
    /\ UNCHANGED <<tab, act, snap, dated, recent, live, orphaned, jobs, sweep, asked, ended>>

(* finalizeAfterARQClose, once for a stream: its ARQ runs it, *)
Finalizes(n) ==
    /\ strs[n].arq = "closed" /\ strs[n].fin = 0
    /\ strs' = [strs EXCEPT ![n].fin = 1]
    /\ UNCHANGED <<tab, act, snap, dated, recent, live, orphaned, jobs, sweep, asked, ended>>

(* the stream is taken off the table, *)
FinRemoves(n) ==
    /\ strs[n].fin = 1
    /\ strs' = [strs EXCEPT ![n].fin = 2]
    /\ Removed(strs[n].id)
    /\ UNCHANGED <<snap, recent, orphaned, jobs, sweep, asked, ended>>

(* and noted as closed. *)
FinNotes(n) ==
    /\ strs[n].fin = 2
    /\ strs' = [strs EXCEPT ![n].fin = 3]
    /\ Noted(strs[n].id)
    /\ UNCHANGED <<tab, act, snap, dated, live, orphaned, jobs, sweep, asked, ended>>

Expires ==
    /\ recent # <<>> /\ ~Running(Head(recent))
    /\ recent' = Tail(recent)
    /\ UNCHANGED <<strs, tab, act, snap, dated, live, orphaned, jobs, sweep, asked, ended>>

----------------------------------------------------------------------------
(* The sweep and the polls *)

SweepBegins ==
    LET due == {n \in DOMAIN strs : tab[strs[n].id] = n /\ strs[n].ending} IN
    /\ Open /\ sweep = <<>> /\ due # {}
    /\ \E n \in due : sweep' = <<n>>
    /\ UNCHANGED <<strs, tab, act, snap, dated, recent, live, orphaned, jobs, asked, ended>>

(* Abort and finalize: what another runs already is waited for. *)
SweepFinalizes ==
    /\ Len(sweep) = 1 /\ strs[sweep[1]].fin = 0
    /\ strs' = [strs EXCEPT ![sweep[1]] = [Closing(@) EXCEPT !.fin = 1]]
    /\ UNCHANGED <<tab, act, snap, dated, recent, live, orphaned, jobs, sweep, asked, ended>>

(* The sweep removes the ID once more, *)
SweepRemoves ==
    /\ Len(sweep) = 1 /\ strs[sweep[1]].fin = 3
    /\ Removed(strs[sweep[1]].id)
    /\ sweep' = sweep \o sweep
    /\ UNCHANGED <<strs, snap, recent, orphaned, jobs, asked, ended>>

(* and notes it once more. *)
SweepNotes ==
    /\ Len(sweep) = 2
    /\ Noted(strs[sweep[1]].id)
    /\ sweep' = <<>>
    /\ UNCHANGED <<strs, tab, act, snap, dated, live, orphaned, jobs, asked, ended>>

Taken == IF dated THEN snap ELSE [i \in act |-> tab[i]]

PollBegins ==
    /\ Open /\ asked = NoSnap /\ Taken # NoSnap
    /\ snap' = Taken /\ dated' = TRUE /\ asked' = Taken
    /\ UNCHANGED <<strs, tab, act, recent, live, orphaned, jobs, sweep, ended>>

(* A closed stream is put out of the active list, by its ID. *)
PollVisits(i) ==
    /\ i \in DOMAIN asked
    /\ IF strs[asked[i]].arq = "closed" /\ Open
       THEN Deactivated(i) ELSE UNCHANGED <<act, dated>>
    /\ asked' = Restrict(asked, DOMAIN asked \ {i})
    /\ UNCHANGED <<strs, tab, snap, recent, live, orphaned, jobs, sweep, ended>>

SendOrphan(o) ==
    /\ o \in orphaned /\ orphaned' = orphaned \ {o}
    /\ UNCHANGED <<strs, tab, act, snap, dated, recent, live, jobs, sweep, asked, ended>>

----------------------------------------------------------------------------
(* closeAllStreams *)

EndMarks ==
    /\ Open /\ ended' = "marked"
    /\ UNCHANGED <<strs, tab, act, snap, dated, recent, live, orphaned, jobs, sweep, asked>>

(* Every stream of the table is closed and finalized; what that calls back *)
(* does nothing any more.                                                  *)
EndDrains ==
    /\ ended = "marked" /\ ended' = "drained"
    /\ strs' = [n \in DOMAIN strs |-> IF tab[strs[n].id] = n
                                      THEN [Closing(strs[n]) EXCEPT !.fin = IF @ = 0 THEN 3 ELSE @]
                                      ELSE strs[n]]
    /\ UNCHANGED <<tab, act, snap, dated, recent, live, orphaned, jobs, sweep, asked>>

EndClears ==
    /\ ended = "drained" /\ ended' = "yes"
    /\ live' = live - Cardinality(Held)
    /\ tab' = [i \in Ids |-> 0] /\ act' = {} /\ dated' = FALSE /\ orphaned' = {}
    /\ UNCHANGED <<strs, snap, recent, jobs, sweep, asked>>

----------------------------------------------------------------------------
Next ==
    \/ \E h \in Handlers :
          \/ \E t \in Types, i \in Ids : Receive(h, t, i)
          \/ HandleSyn(h) \/ HandleData(h) \/ HandleRst(h) \/ RstDeactivates(h) \/ RstCloses(h)
          \/ HandleAck(h) \/ AckDeactivates(h)
    \/ \E n \in DOMAIN strs :
          BeginsEnding(n) \/ ArqCloses(n) \/ Finalizes(n) \/ FinRemoves(n) \/ FinNotes(n)
    \/ Expires
    \/ SweepBegins \/ SweepFinalizes \/ SweepRemoves \/ SweepNotes
    \/ PollBegins \/ (\E i \in Ids : PollVisits(i)) \/ (\E o \in orphaned : SendOrphan(o))
    \/ EndMarks \/ EndDrains \/ EndClears

Spec == Init /\ [][Next]_strVars

----------------------------------------------------------------------------
(* Properties *)

TypeOK ==
    /\ \A i \in Ids : tab[i] \in 0..Len(strs)
    /\ act \subseteq Ids /\ dated \in BOOLEAN /\ live \in Nat
    /\ Len(recent) <= MaxRecent /\ ended \in {"no", "marked", "drained", "yes"}

(* The active list names streams of the table, the cached snapshot is what *)
(* it names as long as the version says so, and the server's count of      *)
(* streams is the table's (session.go, activeStreamSnapshot, removeStream, *)
(* closeAllStreams).                                                       *)
ListsAgree ==
    /\ \A i \in act : tab[i] # 0
    /\ dated => snap = [i \in act |-> tab[i]]
    /\ live = Cardinality(Held)

(* A stream that opened clean is served as long as it is not ending, and   *)
(* what takes it off the table is its own end or the session's: nothing    *)
(* that was begun for an earlier stream of its ID touches it.              *)
CleanStreamsServed ==
    \A n \in DOMAIN strs : strs[n].clean /\ ~strs[n].ending /\ ended # "yes" =>
        tab[strs[n].id] = n /\ strs[n].id \in act

(* When the session has ended, every stream it opened clean is closed. *)
NothingOutlives ==
    ended = "yes" => \A n \in DOMAIN strs : strs[n].clean => strs[n].arq = "closed" \/ strs[n].ending

StreamsSound == TypeOK /\ ListsAgree /\ CleanStreamsServed /\ NothingOutlives
=============================================================================
