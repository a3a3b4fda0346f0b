----------------------------- MODULE SoarServer -----------------------------
(***************************************************************************)
(* The CottenMax server's table (engine/server.go): hellos are answered by *)
(* workers that create sessions, sessions are evicted, swept and closed,   *)
(* and every stream a session holds takes one of the server's slots.       *)
(*                                                                         *)
(* The table's lock (s.mu), a session's lock (ss.mu) and the slot counter  *)
(* are separate: whatever happens under one of them is a step.  What the   *)
(* streams carry is SoarSession's; here a stream ends at any moment.       *)
(***************************************************************************)
EXTENDS Integers, Sequences, FiniteSets

CONSTANTS
    Keys,           \* the clients' ephemeral keys
    Sids,           \* session IDs, zero excluded
    StreamIds,      \* 0..n
    MaxSessions, MaxStreams, MaxTotalStreams, MaxCtrlQueue,
    MaxCreated,     \* bound: sessions created
    MaxJobs,        \* the hellos of a key that wait for a worker or are with one
    MaxLooked       \* bound: queries between the table and their session

ASSUME ServerAssumption ==
    /\ StreamIds \subseteq Nat /\ IsFiniteSet(StreamIds)
    /\ {MaxSessions, MaxStreams, MaxTotalStreams, MaxCtrlQueue, MaxCreated, MaxJobs, MaxLooked} \subseteq Nat

VARIABLES
    ses,        \* the sessions created, oldest first
    table,      \* s.sessions: an index of ses, 0 when the ID is free
    hellos,     \* s.hellos: the session that a cached reply names, 0 when there is none
    jobs,       \* the hellos queued, by key
    slots,      \* s.streams
    doomed,     \* sessions evicted whose close is still to run
    batch,      \* the sessions that this sweep has still to look at
    swept,      \* the session that the sweep closed and has still to take off the table
    looked      \* the queries handle has found the session of

tableVars == <<ses, table, hellos, jobs, slots, doomed, batch, swept, looked>>

TableInit ==
    /\ ses = <<>> /\ table = [s \in Sids |-> 0] /\ hellos = [k \in Keys |-> 0]
    /\ jobs = [k \in Keys |-> 0] /\ slots = 0
    /\ doomed = {} /\ batch = {} /\ swept = 0 /\ looked = {}

NewSession(k, sid) ==
    [key |-> k, sid |-> sid, used |-> FALSE, closed |-> FALSE,
     streams |-> {},                \* the streams held,
     serving |-> {},                \*   those that serveStream still runs for,
     over |-> {}, quiet |-> {},     \*   those finished both ways, and without the peer's end read
     next |-> 0, gaps |-> {},       \* peerNext and peerGaps
     ctrls |-> {},
     accepted |-> {}, reopened |-> FALSE]   \* history: the streams accepted, one of them twice

----------------------------------------------------------------------------
(* A session and the slots it frees: [s |-> session, free |-> slots given  *)
(* back, negative when one is taken]                                       *)

(* What a closed session still queues or serves changes nothing. *)
CloseLocked(r) ==
    IF r.s.closed THEN r
    ELSE [s |-> [NewSession(r.s.key, r.s.sid) EXCEPT !.used = r.s.used, !.reopened = r.s.reopened, !.closed = TRUE],
          free |-> r.free + Cardinality(r.s.streams)]

Gone(s, id) == [s EXCEPT !.streams = @ \ {id}, !.over = @ \ {id}, !.quiet = @ \ {id}]

QueueCtrl(r, c) ==
    IF c \in r.s.ctrls THEN r
    ELSE IF Cardinality(r.s.ctrls) >= MaxCtrlQueue THEN CloseLocked(r)
    ELSE [r EXCEPT !.s.ctrls = @ \cup {c}]

Done(s, id) == id \in s.streams /\ id \notin s.serving /\ id \in s.over

MaybeRemove_TwiceFreed(r, id) ==
    IF ~Done(r.s, id) THEN r
    ELSE LET told == IF id \in r.s.quiet THEN QueueCtrl(r, <<"reset", id>>) ELSE r
         IN  [s |-> Gone(told.s, id), free |-> told.free + 1]

MaybeRemove(r, id) ==
    IF ~Done(r.s, id) THEN r
    ELSE LET told == IF id \in r.s.quiet THEN QueueCtrl(r, <<"reset", id>>) ELSE r
         IN  IF id \notin told.s.streams THEN told
             ELSE [s |-> Gone(told.s, id), free |-> told.free + 1]

(* The IDs a client skips open later; those far below the last never do. *)
Numbered(s, id) ==
    IF id < s.next THEN [s EXCEPT !.gaps = @ \ {id}]
    ELSE [s EXCEPT !.next = id + 1,
                   !.gaps = {g \in @ \cup (s.next..(id - 1)) : g >= id + 1 - 2 * MaxStreams}]

Openable(s, id) == ~s.closed /\ id < s.next + MaxStreams /\ (id >= s.next \/ id \in s.gaps)

PeerStream(s, id, taken) ==
    LET n     == Numbered(s, id)
        given == QueueCtrl([s |-> n, free |-> -1], <<"max", id>>)
    IN  IF id \in s.streams \/ ~Openable(s, id) THEN [s |-> s, free |-> 0]
        ELSE IF Cardinality(n.streams) >= MaxStreams \/ taken >= MaxTotalStreams
        THEN QueueCtrl([s |-> n, free |-> 0], <<"reset", id>>)
        ELSE IF given.s.closed THEN [given EXCEPT !.free = @ + 1]
        ELSE [given EXCEPT !.s.streams = @ \cup {id}, !.s.serving = @ \cup {id},
                           !.s.accepted = @ \cup {id}, !.s.reopened = @ \/ id \in s.accepted]

Apply(i, r) == ses' = [ses EXCEPT ![i] = r.s] /\ slots' = slots - r.free
Held(i)     == [s |-> ses[i], free |-> 0]

----------------------------------------------------------------------------
(* The table *)

Hello(k) ==
    /\ hellos[k] = 0 /\ jobs[k] < MaxJobs
    /\ jobs' = [jobs EXCEPT ![k] = @ + 1]
    /\ UNCHANGED <<ses, table, hellos, slots, doomed, batch, swept, looked>>

InTable   == {table[s] : s \in Sids} \ {0}
Unused    == {i \in InTable : ~ses[i].used}
Crowded   == Cardinality(InTable) >= MaxSessions

(* The session evicted for a new one: the oldest that was never used.      *)
Victims == IF Crowded /\ Unused # {} THEN {i \in Unused : \A j \in Unused : i <= j} ELSE {0}

(* A session leaves the table under its ID, with the replies that name it. *)
Without(i) == [table EXCEPT ![ses[i].sid] = 0]
Forget(i)  == [k \in Keys |-> IF hellos[k] # 0 /\ ses[hellos[k]].sid = ses[i].sid THEN 0 ELSE hellos[k]]

(* A worker's attempt under s.mu with an ID drawn at random.  An ID that   *)
(* is taken is drawn again, the session evicted for it stays evicted.      *)
Handshake(k, sid, victim) ==
    LET freed == IF victim = 0 THEN table ELSE Without(victim)
        kept  == IF victim = 0 THEN hellos ELSE Forget(victim)
        made  == freed[sid] = 0
    IN  /\ hellos[k] = 0 /\ ~(Crowded /\ victim = 0) /\ Len(ses) < MaxCreated
        /\ doomed' = doomed \cup ({victim} \ {0})
        /\ ses'    = IF made THEN Append(ses, NewSession(k, sid)) ELSE ses
        /\ table'  = IF made THEN [freed EXCEPT ![sid] = Len(ses) + 1] ELSE freed
        /\ hellos' = IF made THEN [kept EXCEPT ![k] = Len(ses) + 1] ELSE kept
        /\ \E done \in {made, TRUE} : jobs' = [jobs EXCEPT ![k] = @ - (IF done THEN 1 ELSE 0)]
        /\ UNCHANGED <<slots, batch, swept, looked>>

(* The reply is cached by now, or there is no room. *)
Spared(k) ==
    /\ hellos[k] # 0 \/ (Crowded /\ Unused = {})
    /\ jobs' = [jobs EXCEPT ![k] = @ - 1]
    /\ UNCHANGED <<ses, table, hellos, slots, doomed, batch, swept, looked>>

HelloWorker(k) ==
    /\ jobs[k] > 0
    /\ Spared(k) \/ \E sid \in Sids, victim \in Victims : Handshake(k, sid, victim)

(* go victim.close *)
CloseVictim(i) ==
    /\ i \in doomed
    /\ doomed' = doomed \ {i}
    /\ Apply(i, CloseLocked(Held(i)))
    /\ UNCHANGED <<table, hellos, jobs, batch, swept, looked>>

SweepStarts(old) ==
    /\ batch = {} /\ swept = 0 /\ InTable # {}
    /\ hellos' = [k \in Keys |-> IF k \in old THEN 0 ELSE hellos[k]]
    /\ batch' = InTable
    /\ UNCHANGED <<ses, table, jobs, slots, doomed, swept, looked>>

(* The session looked at under its own lock: idle is closed here and taken *)
(* off the table later, if it is still there.                              *)
SweepLooks(i, idle) ==
    /\ i \in batch /\ swept = 0
    /\ ses[i].closed => idle
    /\ batch' = batch \ {i}
    /\ IF idle THEN Apply(i, CloseLocked(Held(i))) /\ swept' = i
       ELSE UNCHANGED <<ses, slots, swept>>
    /\ UNCHANGED <<table, hellos, jobs, doomed, looked>>

SweepRemoves_Sid ==
    /\ swept # 0 /\ swept' = 0
    /\ table' = Without(swept) /\ hellos' = Forget(swept)
    /\ UNCHANGED <<ses, jobs, slots, doomed, batch, looked>>

SweepRemoves ==
    /\ swept # 0 /\ swept' = 0
    /\ IF table[ses[swept].sid] = swept THEN table' = Without(swept) /\ hellos' = Forget(swept)
       ELSE UNCHANGED <<table, hellos>>
    /\ UNCHANGED <<ses, jobs, slots, doomed, batch, looked>>

----------------------------------------------------------------------------
(* Queries and streams *)

(* handle finds the session of a query that opens a stream or uses it. *)
Lookup(sid, id) ==
    /\ table[sid] # 0 /\ Cardinality(looked) < MaxLooked
    /\ looked' = looked \cup {[inc |-> table[sid], id |-> id]}
    /\ UNCHANGED <<ses, table, hellos, jobs, slots, doomed, batch, swept>>

(* onQuery: a packet that breaks the rules ends the session.  The answer   *)
(* takes the controls that it has room for.                                *)
OnQuery(l, bad, sent) ==
    LET open == PeerStream(ses[l.inc], l.id, slots)
        r    == IF bad THEN CloseLocked(open) ELSE open
    IN  /\ l \in looked /\ looked' = looked \ {l}
        /\ Apply(l.inc, [r EXCEPT !.s.used = TRUE, !.s.ctrls = IF sent \/ r.s.closed THEN {} ELSE @])
        /\ UNCHANGED <<table, hellos, jobs, doomed, batch, swept>>

(* Both directions of a stream are finished (Conn.Close, a RESET, the last *)
(* acknowledgement); quietly when its reader stopped before the peer.      *)
Finishes(i, id, quietly) ==
    /\ id \in ses[i].streams \ ses[i].over
    /\ LET s == [ses[i] EXCEPT !.over = @ \cup {id}, !.quiet = IF quietly THEN @ \cup {id} ELSE @]
       IN  Apply(i, MaybeRemove([s |-> s, free |-> 0], id))
    /\ UNCHANGED <<table, hellos, jobs, doomed, batch, swept, looked>>

(* serveStream returns. *)
Served(i, id) ==
    /\ id \in ses[i].serving
    /\ Apply(i, MaybeRemove([s |-> [ses[i] EXCEPT !.serving = @ \ {id}], free |-> 0], id))
    /\ UNCHANGED <<table, hellos, jobs, doomed, batch, swept, looked>>

TableNext ==
    \/ \E k \in Keys : Hello(k) \/ HelloWorker(k)
    \/ \E i \in doomed : CloseVictim(i)
    \/ \E old \in SUBSET Keys : SweepStarts(old)
    \/ \E i \in batch, idle \in BOOLEAN : SweepLooks(i, idle)
    \/ SweepRemoves
    \/ \E sid \in Sids, id \in StreamIds : Lookup(sid, id)
    \/ \E l \in looked, bad, sent \in BOOLEAN : OnQuery(l, bad, sent)
    \/ \E i \in DOMAIN ses, id \in StreamIds : Served(i, id) \/ \E quietly \in BOOLEAN : Finishes(i, id, quietly)

TableSpec == TableInit /\ [][TableNext]_tableVars

----------------------------------------------------------------------------
Sessions ==
    [key : Keys, sid : Sids, used : BOOLEAN, closed : BOOLEAN,
     streams : SUBSET StreamIds, serving : SUBSET StreamIds, over : SUBSET StreamIds, quiet : SUBSET StreamIds,
     next : Nat, gaps : SUBSET Nat, ctrls : SUBSET ({"reset", "max"} \X StreamIds),
     accepted : SUBSET StreamIds, reopened : BOOLEAN]

TableTypeOK ==
    /\ ses \in Seq(Sessions) /\ slots \in Nat
    /\ table \in [Sids -> 0..Len(ses)] /\ hellos \in [Keys -> 0..Len(ses)]
    /\ jobs \in [Keys -> Nat]
    /\ doomed \cup batch \cup ({swept} \ {0}) \subseteq DOMAIN ses
    /\ looked \subseteq [inc : DOMAIN ses, id : StreamIds]

HeldSlots == {p \in (DOMAIN ses) \X StreamIds : p[2] \in ses[p[1]].streams}

(* The slots taken are those of the streams that sessions hold, whichever  *)
(* way a session ends and whatever its control queue overflows in the      *)
(* middle of (maybeRemove, peerStream): one given back twice lets the      *)
(* server take more than its limit, one kept is lost for good.             *)
SlotsExact ==
    /\ slots = Cardinality(HeldSlots)
    /\ slots <= MaxTotalStreams
    /\ \A i \in DOMAIN ses : ses[i].closed => ses[i].streams = {}

(* A stream that has been accepted and is gone never opens again, however  *)
(* late or often its first packet comes (peerGaps).                        *)
OpensOnce == \A i \in DOMAIN ses : ~ses[i].reopened

(* A session that is not closed can be reached, or is about to be closed:  *)
(* no race of eviction, sweep and reuse of an ID loses one with its slots. *)
NoOrphan == \A i \in DOMAIN ses : ses[i].closed \/ table[ses[i].sid] = i \/ i \in doomed

(* A cached hello reply names the session that its own key created, and    *)
(* that session is the one the ID leads to.                                *)
HelloNamesOwn == \A k \in Keys : hellos[k] # 0 => ses[hellos[k]].key = k /\ table[ses[hellos[k]].sid] = hellos[k]

(* Slots are counted, and streams open once. *)
SlotsHeld == TableTypeOK /\ SlotsExact /\ OpensOnce

(* Every session can be reached or is ending, and hellos lead to their own. *)
TableSound == NoOrphan /\ HelloNamesOwn
============================================================================
