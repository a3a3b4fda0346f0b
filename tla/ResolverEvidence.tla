-------------------------- MODULE ResolverEvidence --------------------------
(* What the client holds against one resolver: the samples of the queries   *)
(* sent to it, the timeouts and failures recorded from them, the window     *)
(* that disables it and the pacing of its share.                            *)
(* (client/resolver_stats.go, resolver_health.go, resolver_pacer.go)        *)
(*                                                                          *)
(* One socket and one sender, whose sends are all at different instants:    *)
(* two times are compared as equal when they are of the same query.         *)
EXTENDS Integers, Sequences, SequencesExt, FiniteSetsExt

CONSTANTS
    IdCount,          \* DNS transaction IDs, numbered as they are drawn
    MaxQueries,
    SoftCap, HardCap, \* resolverPendingSoftCap, resolverPendingHardCap
    Timeout,          \* resolverRequestTimeout
    Grace,            \* resolverLateResponseGrace
    TTL,              \* resolverSampleTTL
    Window,           \* autoDisableTimeoutWindow
    MinObservations,  \* autoDisableMinObservations
    Lag,              \* the longest wait of the health loop
    Late,             \* bound: how long after its time a noted event may be recorded
    Base, Cap,        \* pacerBaseInterval, pacerMaxInterval
    MaxTime

VARIABLES
    clock,
    sent,       \* the queries: when each was sent and under which ID
    pending,    \* the sample each ID holds: the query and whether it timed out
    noting,     \* timeouts and failures taken from a sample and not recorded yet
    claimed,    \* answers that took their sample and are not applied yet
    passed,     \* when the health loop last collected
    judging,    \* it has recorded them and is to judge
    events,     \* resolverHealthState.Events, by time
    since,      \* TimeoutOnlySince
    valid,      \* the resolver is in use
    interval, pacedUntil,
    credited,   \* times each query was credited
    blamed,     \* times each was recorded against the resolver
    answered,   \* when a success was last recorded
    crossed     \* answers claimed between a timeout's mark and its record

vars == <<clock, sent, pending, noting, claimed, passed, judging, events, since, valid,
          interval, pacedUntil, credited, blamed, answered, crossed>>

None == -1
Empty == [query |-> 0, timedOut |-> FALSE]

Ids     == 1..IdCount
Queries == 1..MaxQueries
At(q)    == sent[q].at
Due(q)   == At(q) + Timeout
Held     == {i \in Ids : pending[i] # Empty}
Event(q, at, by) == [query |-> q, at |-> at, by |-> by]

-----------------------------------------------------------------------------
(* The samples. *)

Expired(s) == At(s.query) <= clock - Timeout
Forgotten(s) ==
    \/ At(s.query) < clock - TTL
    \/ s.timedOut /\ Due(s.query) + Grace <= clock

(* pruneResolverSamplesLocked: those that expired are marked, and kept for a *)
(* late answer until their grace ends.                                       *)
Fresh(held)   == {held[i].query : i \in {j \in Ids : held[j] # Empty /\ ~held[j].timedOut /\ Expired(held[j])}}
Pruned(held) ==
    [i \in Ids |-> IF held[i] = Empty \/ Forgotten(held[i]) THEN Empty
                   ELSE [held[i] EXCEPT !.timedOut = @ \/ Expired(held[i])]]

(* evictResolverPendingLocked: timed out first, then the oldest. *)
Before(held, i, j) ==
    IF held[i].timedOut # held[j].timedOut THEN held[i].timedOut ELSE held[i].query < held[j].query
Evicted(held, count) ==
    LET full == {i \in Ids : held[i] # Empty} IN
    [i \in Ids |-> IF i \in full /\ Cardinality({j \in full : Before(held, j, i)}) < count
                   THEN Empty ELSE held[i]]

Room(held) ==
    LET left == Pruned(held)
        over == Cardinality({i \in Ids : left[i] # Empty}) - HardCap
    IN  IF over >= 0 THEN Evicted(left, over + 1) ELSE left

Drawn == {sent[q].id : q \in DOMAIN sent}

(* The sample is there before the datagram can be answered; a write that     *)
(* failed takes it back.                                                     *)
Track(i, sample) ==
    /\ Len(sent) < MaxQueries /\ valid
    /\ i \in Drawn \cup {Cardinality(Drawn) + 1}
    /\ LET full == Cardinality(Held) >= SoftCap
           held == IF full THEN Room(pending) ELSE pending
       IN  /\ sent' = Append(sent, [at |-> clock, id |-> i])
           /\ noting' = IF full THEN noting \cup {Event(q, Due(q), "sender") : q \in Fresh(pending)} ELSE noting
           /\ pending' = [held EXCEPT ![i] = sample]
    /\ UNCHANGED <<clock, claimed, passed, judging, events, since, valid, interval, pacedUntil,
                   credited, blamed, answered, crossed>>

Send(i)    == Track(i, [query |-> Len(sent) + 1, timedOut |-> FALSE])
Discard(i) == Track(i, Empty)

(* The network may answer a query at any time, and again. *)
Matches(q) == pending[sent[q].id].query = q
Take(q)    == pending' = [pending EXCEPT ![sent[q].id] = Empty]

ClaimSuccess(q) ==
    /\ Matches(q)
    /\ Take(q)
    /\ claimed' = claimed \cup {[query |-> q, timedOut |-> pending[sent[q].id].timedOut]}
    /\ crossed' = IF \E e \in noting : e.query = q THEN crossed \cup {q} ELSE crossed
    /\ UNCHANGED <<clock, sent, noting, passed, judging, events, since, valid,
                   interval, pacedUntil, credited, blamed, answered>>

(* A failed answer to a query already counted as a timeout is not counted;   *)
(* a forged NXDOMAIN takes no sample and so is no step here.                 *)
ClaimFailure(q) ==
    /\ Matches(q)
    /\ Take(q)
    /\ noting' = IF pending[sent[q].id].timedOut THEN noting ELSE noting \cup {Event(q, clock, "reader")}
    /\ UNCHANGED <<clock, sent, claimed, passed, judging, events, since, valid,
                   interval, pacedUntil, credited, blamed, answered, crossed>>

-----------------------------------------------------------------------------
(* The window. *)

Kept(es) == SelectSeq(es, LAMBDA e : e.at >= clock - Window)
KeptAt(es, now) == SelectSeq(es, LAMBDA e : e.at >= now - Window)

\* MUTANT: an event goes to the end, whatever its time.
Inserted_Last(es, e) == Append(es, e)

Inserted(es, e) ==
    LET k == Cardinality({j \in DOMAIN es : es[j].at < e.at})
    IN  IF es = <<>> \/ e.at >= Last(es).at THEN Append(es, e) ELSE InsertAt(es, k + 1, e)

(* throttle: the cooldown starts at the event, not at its record. *)
Throttle(at) ==
    LET longer == IF interval = 0 THEN Base ELSE Min({2 * interval, Cap})
    IN  interval' = longer /\ pacedUntil' = at + longer

Ease ==
    LET shorter == interval \div 2 IN
    /\ interval' = IF shorter < Base THEN 0 ELSE shorter
    /\ pacedUntil' = IF interval > 0 /\ shorter < Base THEN None ELSE pacedUntil

RecordFailure(e) ==
    /\ e \in noting
    /\ noting' = noting \ {e}
    /\ IF valid
       THEN LET es    == KeptAt(Inserted(events, e), e.at)
                start == IF since = None \/ e.at < since THEN e.at ELSE since
            IN  /\ events' = es
                /\ since' = IF es = <<>> THEN None ELSE start
                /\ Throttle(e.at)
                /\ blamed' = [blamed EXCEPT ![e.query] = @ + 1]
       ELSE UNCHANGED <<events, since, interval, pacedUntil, blamed>>
    /\ UNCHANGED <<clock, sent, pending, claimed, passed, judging, valid,
                   credited, answered, crossed>>

(* applyResolverSuccess: the mark of the query's own timeout is taken back,  *)
(* then the success clears the window.                                       *)
Retracted(q) ==
    LET mine == {j \in DOMAIN events : events[j].query = q}
    IN  IF mine = {} THEN events ELSE Kept(RemoveAt(events, Min(mine)))

Retract(c) ==
    /\ c \in claimed /\ c.timedOut
    /\ events' = Retracted(c.query)
    /\ since' = IF events' = events THEN since ELSE IF events' = <<>> THEN None ELSE events'[1].at
    /\ claimed' = (claimed \ {c}) \cup {[c EXCEPT !.timedOut = FALSE]}
    /\ UNCHANGED <<clock, sent, pending, noting, passed, judging, valid,
                   interval, pacedUntil, credited, blamed, answered, crossed>>

RecordSuccess(c) ==
    /\ c \in claimed /\ ~c.timedOut
    /\ claimed' = claimed \ {c}
    /\ credited' = [credited EXCEPT ![c.query] = @ + 1]
    /\ IF valid
       THEN events' = <<>> /\ since' = None /\ answered' = clock /\ Ease
       ELSE UNCHANGED <<events, since, answered, interval, pacedUntil>>
    /\ UNCHANGED <<clock, sent, pending, noting, passed, judging, valid, blamed, crossed>>

-----------------------------------------------------------------------------
(* The health loop. *)

Collect ==
    /\ ~judging
    /\ passed < clock
    /\ noting' = noting \cup {Event(q, Due(q), "loop") : q \in Fresh(pending)}
    /\ pending' = Pruned(pending)
    /\ passed' = clock /\ judging' = TRUE
    /\ UNCHANGED <<clock, sent, claimed, events, since, valid, interval, pacedUntil,
                   credited, blamed, answered, crossed>>

Mature ==
    /\ valid
    /\ Len(Kept(events)) >= MinObservations
    /\ since # None
    /\ clock - since >= Window

(* The loop judges once it has recorded what it collected.  Whether the     *)
(* resolver is spared, for too few are left or because all of them failed   *)
(* and the transport is recovered instead, the other resolvers decide.      *)
Judge ==
    /\ judging /\ \A e \in noting : e.by # "loop"
    /\ judging' = FALSE
    /\ \E spared \in BOOLEAN :
          LET out == Mature /\ ~spared IN
          /\ valid' = (valid /\ ~out)
          /\ events' = IF out THEN <<>> ELSE Kept(events)
          /\ since' = IF out THEN None ELSE since
    /\ UNCHANGED <<clock, sent, pending, noting, claimed, passed, interval, pacedUntil,
                   credited, blamed, answered, crossed>>

(* A recheck brings it back with an empty record. *)
Reactivate ==
    /\ ~valid /\ ~judging
    /\ valid' = TRUE
    /\ events' = <<>> /\ since' = None
    /\ UNCHANGED <<clock, sent, pending, noting, claimed, passed, judging,
                   interval, pacedUntil, credited, blamed, answered, crossed>>

(* The loop does not wait longer than Lag, nor a record longer than Late.    *)
Tick ==
    /\ clock < MaxTime
    /\ clock - passed < Lag
    /\ ~judging /\ claimed = {} /\ \A e \in noting : clock - e.at < Late
    /\ clock' = clock + 1
    /\ UNCHANGED <<sent, pending, noting, claimed, passed, judging, events, since, valid,
                   interval, pacedUntil, credited, blamed, answered, crossed>>

-----------------------------------------------------------------------------
Init ==
    /\ clock = 0 /\ sent = <<>>
    /\ pending = [i \in Ids |-> Empty]
    /\ noting = {} /\ claimed = {} /\ passed = 0 /\ judging = FALSE
    /\ events = <<>> /\ since = None /\ valid = TRUE
    /\ interval = 0 /\ pacedUntil = None
    /\ credited = [q \in Queries |-> 0] /\ blamed = [q \in Queries |-> 0]
    /\ answered = None /\ crossed = {}

Next ==
    \/ \E i \in Ids : Send(i) \/ Discard(i)
    \/ \E q \in DOMAIN sent : ClaimSuccess(q) \/ ClaimFailure(q)
    \/ \E e \in noting : RecordFailure(e)
    \/ \E c \in claimed : Retract(c) \/ RecordSuccess(c)
    \/ Collect \/ Judge \/ Reactivate \/ Tick

Spec == Init /\ [][Next]_vars

-----------------------------------------------------------------------------
Samples == [query : 0..MaxQueries, timedOut : BOOLEAN]
Times   == None..MaxTime + Cap

TypeOK ==
    /\ clock \in 0..MaxTime /\ passed \in 0..MaxTime
    /\ Len(sent) <= MaxQueries
    /\ pending \in [Ids -> Samples]
    /\ \A e \in noting : e.query \in Queries /\ e.at \in Times
    /\ claimed \subseteq Samples
    /\ judging \in BOOLEAN /\ valid \in BOOLEAN
    /\ since \in Times /\ interval \in 0..Cap /\ pacedUntil \in Times

(* An answer is credited once however often it comes, and a query is held    *)
(* against the resolver once: not as a timeout and then as a failure.        *)
CountedOnce == \A q \in Queries : credited[q] <= 1 /\ blamed[q] <= 1

(* What is held against a resolver is held for queries it did not answer,    *)
(* but for one answered between the timeout's mark and its record.           *)
Deserved ==
    \A j \in DOMAIN events :
        credited[events[j].query] = 0 \/ events[j].query \in crossed

(* Events stay in order, the window starts no later than the first of them,  *)
(* and is open whenever there is one.                                        *)
WindowSound ==
    /\ \A j \in DOMAIN events : j > 1 => events[j - 1].at <= events[j].at
    /\ events # <<>> => since # None /\ since <= events[1].at

(* A resolver is only disabled when nothing it answered was recorded for a   *)
(* window, short of what the loop's wait and a timeout's lateness may hide.  *)
SilentForAWindow == Mature /\ answered # None => clock - answered >= Window - Max({Lag, Late})

(* Only a query no cap, ID or grace has dropped can still be claimed, and    *)
(* there are never more than the hard cap of them.                           *)
SamplesBounded ==
    /\ Cardinality(Held) <= HardCap
    /\ \A i \in Held : sent[pending[i].query].id = i
    /\ \A i \in Held : credited[pending[i].query] = 0

(* A resolver is only kept back while its interval says so, and no longer    *)
(* than the cap.                                                             *)
PacedIsThrottled == pacedUntil > clock => interval >= Base /\ pacedUntil - clock <= Cap

EvidenceSound == TypeOK /\ CountedOnce /\ Deserved /\ WindowSound /\ SilentForAWindow
                 /\ SamplesBounded /\ PacedIsThrottled
=============================================================================
