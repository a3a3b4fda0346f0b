---------------------------- MODULE ResolverPool ----------------------------
(* The client's pool of resolvers: the discovery scan that measures them,   *)
(* the balancer that publishes them, the health loop that disables the ones *)
(* whose window was all timeouts, the rechecks that bring them back, and    *)
(* the session start that chooses the operating point again.                *)
(* (client/mtu.go, mtu_cluster.go, balancer.go, resolver_health.go)         *)
(*                                                                          *)
(* A size stands for the upload and the download MTU together.  Time is     *)
(* left out: a resolver that is out may be rechecked whenever it is not     *)
(* marked, and any set of settled resolvers may have spent its window.      *)
EXTENDS Integers, Sequences, FiniteSets, FiniteSetsExt

CONSTANTS
    Path,        \* the largest size that gets through each resolver
    Parallel,    \* probes side by side: MTUTestParallelism, MTUBackgroundParallelism once released
    Starters,    \* how many resolvers let a connect go: fastConnectMinValid, or all of them
    Floor,       \* resolvers auto-disable never goes below
    Pressure,    \* resolverPoolPressureThreshold
    Slots,       \* RecheckBatchSize
    Grouping,    \* MTUAdaptiveGrouping
    HighPool,    \* MTUWeightedMinPool under MTU-weighted balancing, 0 under another
    MaxRestarts, MaxDisables,   \* bounds: the times that a runtime is stopped, a resolver disabled
    DisablesAfter               \* bound: whether a resolver is disabled after a recovery too

ASSUME PoolAssumption ==
    /\ Path \in Seq(Nat) /\ Path # <<>>
    /\ Starters \subseteq Nat /\ Parallel \in Nat /\ Slots \in Nat
    /\ Floor \in Nat \ {0} /\ Pressure \in Nat /\ HighPool \in Nat /\ Grouping \in BOOLEAN
    /\ MaxRestarts \in Nat /\ MaxDisables \in Nat /\ DisablesAfter \in BOOLEAN

VARIABLES
    starter,     \* the one this client is configured with
    source,      \* c.connections: what the scan and the balancer last wrote
    snapshot,    \* the balancer's published copy of them
    scan,        \* how far the scan is with each resolver
    released,    \* the scan let the connect go
    synced,      \* the size the session runs at, 0 before there is one
    disabled,    \* runtimeDisabled: rechecks passed since, Absent when not in it
    marked,      \* resolvers whose recheck is marked InFlight
    probes,      \* the rechecks running, by slot
    candidates,  \* what is left of the health loop's pass
    step,        \* where the pass is with the resolver it disables
    up,          \* the runtime is running
    target,      \* the size a session start has published but not applied, 0 if none
    restarts, disables,
    crossed,     \* accepted by the scan while being disabled, rejected while in use
    demoted,     \* primaries in use that the scan's publication made reserves
    outrun,      \* brought back or accepted while the operating point moved or a scan began
    sunk         \* a disable left fewer than the floor

poolVars == <<starter, source, snapshot, scan, released, synced, disabled, marked, probes, candidates, step, up, target,
          restarts, disables, crossed, demoted, outrun, sunk>>

Absent == -1
Free   == [at |-> "free"]
Idle   == [at |-> "idle"]

Resolvers == DOMAIN Path
Sizes     == {0} \cup {Path[r] : r \in Resolvers}
Blank     == [r \in Resolvers |-> [ok |-> FALSE, reserve |-> FALSE, size |-> 0]]

-----------------------------------------------------------------------------
(* The balancer. *)

Valid(conns)   == {r \in Resolvers : conns[r].ok}
Primary(conns) == {r \in Valid(conns) : ~conns[r].reserve}
Measured(conns) == {conns[r].size : r \in Valid(conns)} \ {0}

(* The active selection set: the primaries, the reserves when there is none. *)
Active(conns) == IF Primary(conns) # {} THEN Primary(conns) ELSE Valid(conns)

SetValidity(r, ok) ==
    /\ source' = [source EXCEPT ![r].ok = ok]
    /\ snapshot' = [snapshot EXCEPT ![r] = [source[r] EXCEPT !.ok = ok]]

SetSize(r, size) ==
    /\ source' = [source EXCEPT ![r].size = size]
    /\ snapshot' = [snapshot EXCEPT ![r] = [source[r] EXCEPT !.size = size]]

Reclassify(size) ==
    /\ source' = [r \in Resolvers |->
                    [source[r] EXCEPT !.reserve = source[r].ok /\ source[r].size < size]]
    /\ snapshot' = source'

-----------------------------------------------------------------------------
(* The operating point. *)

Sustain(conns, rs, size) == {r \in rs : conns[r].size >= size}

(* The size whose pool moves the most, the larger on a tie; with a pool to    *)
(* keep, the largest size that many can sustain, if any.                      *)
OperatingPoint(conns, rs) ==
    LET sizes == {conns[r].size : r \in rs} \ {0}
        score(s) == s * Cardinality(Sustain(conns, rs, s))
        best  == {s \in sizes : \A t \in sizes : score(t) < score(s) \/ (score(t) = score(s) /\ t <= s)}
        wide  == {s \in sizes : Cardinality(Sustain(conns, rs, s)) >= HighPool}
    IN  IF sizes = {} THEN 0
        ELSE IF HighPool > 0 /\ wide # {} THEN Max(wide)
        ELSE CHOOSE s \in best : TRUE

(* mtuShouldAdoptOperatingPoint, with mtuHysteresisDivisor. *)
Adopts(new) ==
    LET now == Sustain(snapshot, Valid(snapshot), synced) IN
    \/ synced = 0
    \/ now = {}
    \/ /\ HighPool > 0
       /\ Cardinality(now) < HighPool
       /\ Cardinality(Sustain(snapshot, Valid(snapshot), new)) > Cardinality(now)
    \/ new > synced + synced \div 8

-----------------------------------------------------------------------------
(* The scan.  A resolver passes at the size its path carries, or not at all. *)

ForgetRechecks ==
    /\ disabled' = [r \in Resolvers |-> Absent]
    /\ marked' = {}
    /\ probes' = [s \in 1..Slots |->
                    IF probes[s] = Free THEN Free ELSE [probes[s] EXCEPT !.stray = TRUE]]

(* The resolvers that a recheck is bringing back, at the size it found. *)
Returning(places) == {r \in Resolvers : \E s \in 1..Slots : probes[s].at \in places /\ probes[s].of = r}

(* Tested in the order of the list, so many at a time. *)
Over     == {"done", "failed"}
Tests(r) == scan[r] = "due" /\ Cardinality({q \in 1..r - 1 : scan[q] \notin Over}) < Parallel

Accept(r) ==
    /\ Tests(r)
    /\ Path[r] > 0
    /\ source' = [source EXCEPT ![r].ok = TRUE, ![r].size = Path[r]]
    /\ scan' = [scan EXCEPT ![r] = "accepted"]
    /\ crossed' = IF step # Idle /\ step.of = r THEN crossed \cup {r} ELSE crossed
    /\ UNCHANGED <<snapshot, released, synced, disabled, marked, probes, candidates, step, up, target,
                   restarts, disables, demoted, outrun, sunk>>

Reject(r) ==
    /\ Tests(r)
    /\ source' = [source EXCEPT ![r].ok = FALSE]
    /\ scan' = [scan EXCEPT ![r] = "failed"]
    /\ crossed' = IF released /\ snapshot[r].ok THEN crossed \cup {r} ELSE crossed
    /\ UNCHANGED <<snapshot, released, synced, disabled, marked, probes, candidates, step, up, target,
                   restarts, disables, demoted, outrun, sunk>>

(* finalizeMTUSelectionLocked over what the scan has accepted so far, and    *)
(* what rechecks from before the scan brought back.                          *)
Finalize ==
    LET valid == Valid(source)
        least == Min(Measured(source))
        point == OperatingPoint(source, valid)
        split == Grouping /\ Sustain(source, valid, point) # valid
        below == {r \in valid : ~source[r].reserve /\ source[r].size < point}
        size  == IF split /\ below # {} THEN point ELSE least
    IN  /\ source' = [r \in Resolvers |->
                        IF split /\ r \in below THEN [source[r] EXCEPT !.reserve = TRUE] ELSE source[r]]
        /\ snapshot' = source'
        /\ synced' = size
        /\ released' = TRUE
        /\ outrun' = outrun \cup Returning({"passed", "applied"})
        /\ ForgetRechecks

Passed == {r \in Resolvers : scan[r] \in {"accepted", "done"}}

Starts(r) ==
    /\ ~released /\ Measured(source) # {}
    /\ Cardinality(Passed) >= Min({starter, Cardinality(Resolvers)})

Release(r) ==
    /\ scan[r] = "accepted" /\ Starts(r)
    /\ Finalize
    /\ scan' = [scan EXCEPT ![r] = "done"]
    /\ UNCHANGED <<candidates, step, up, target, restarts, disables, crossed, demoted, sunk>>

NotEnough(r) ==
    /\ scan[r] = "accepted" /\ ~released /\ ~Starts(r)
    /\ scan' = [scan EXCEPT ![r] = "done"]
    /\ UNCHANGED <<source, snapshot, released, synced, disabled, marked, probes, candidates, step, up, target,
                   restarts, disables, crossed, demoted, outrun, sunk>>

FullScan ==
    /\ ~released /\ \A r \in Resolvers : scan[r] \in Over
    /\ Measured(source) # {}
    /\ Finalize
    /\ UNCHANGED <<scan, candidates, step, up, target, restarts, disables, crossed, demoted, sunk>>

(* The records are blank for a scan.  One that lets connects go refreshes    *)
(* the balancer as it begins, the other does when it ends.                   *)
ScanAnew(published) ==
    /\ source' = Blank
    /\ snapshot' \in {published, Blank}
    /\ scan' = [r \in Resolvers |-> "due"]

(* Nothing usable: the fleet is scanned again, over the next transport, or   *)
(* after a finish at no size when all there is came back without one.        *)
Rescan ==
    /\ ~released /\ \A r \in Resolvers : scan[r] \in Over
    /\ Measured(source) = {}
    /\ ScanAnew(source)
    /\ IF Valid(source) = {}
       THEN outrun' = outrun \cup Returning({"applied"}) /\ UNCHANGED <<synced, disabled, marked, probes>>
       ELSE outrun' = outrun \cup Returning({"passed", "applied"}) /\ synced' = 0 /\ ForgetRechecks
    /\ UNCHANGED <<released, candidates, step, up, target, restarts, disables, crossed, demoted, sunk>>

(* A resolver found behind the running tunnel: published under the scan's     *)
(* lock, and the recheck records rebuilt after it.                            *)
Publish(r) ==
    /\ scan[r] = "accepted" /\ released
    /\ \A q \in Resolvers : scan[q] # "published"
    /\ source' = [source EXCEPT ![r].reserve = @ \/ Path[r] < synced]
    /\ snapshot' = source'
    /\ scan' = [scan EXCEPT ![r] = "published"]
    /\ outrun' = IF target > Path[r] THEN outrun \cup {r} ELSE outrun
    /\ demoted' = IF r \in Primary(snapshot) /\ Path[r] < synced THEN demoted \cup {r} ELSE demoted
    /\ UNCHANGED <<released, synced, disabled, marked, probes, candidates, step, up, target,
                   restarts, disables, crossed, sunk>>

Rebuild(r) ==
    /\ scan[r] = "published"
    /\ scan' = [scan EXCEPT ![r] = "done"]
    /\ ForgetRechecks
    /\ UNCHANGED <<source, snapshot, released, synced, candidates, step, up, target,
                   restarts, disables, crossed, demoted, outrun, sunk>>

-----------------------------------------------------------------------------
(* Session start and stop.  The health loop ends with its runtime; rechecks  *)
(* that are out do not.                                                      *)

Recompute ==
    /\ released /\ ~up /\ target = 0
    /\ LET new == OperatingPoint(snapshot, Valid(snapshot)) IN
       IF ~Grouping \/ new = 0
       THEN up' = TRUE /\ UNCHANGED <<source, snapshot, target>>
       ELSE IF Adopts(new)
       THEN Reclassify(new) /\ target' = new /\ up' = up
       ELSE Reclassify(synced) /\ up' = TRUE /\ target' = target
    /\ UNCHANGED <<scan, released, synced, disabled, marked, probes, candidates, step,
                   restarts, disables, crossed, demoted, outrun, sunk>>

ApplySize ==
    /\ target > 0
    /\ synced' = target /\ target' = 0 /\ up' = TRUE
    /\ outrun' = outrun \cup Returning({"passed", "applied"})
    /\ UNCHANGED <<source, snapshot, scan, released, disabled, marked, probes, candidates, step,
                   restarts, disables, crossed, demoted, sunk>>

Stop ==
    /\ up /\ step = Idle /\ candidates = {}
    /\ restarts < MaxRestarts
    /\ up' = FALSE /\ restarts' = restarts + 1

Restart ==
    /\ Stop
    /\ UNCHANGED <<source, snapshot, scan, released, synced, disabled, marked, probes, candidates, step,
                   target, disables, crossed, demoted, outrun, sunk>>

(* With a recovery pending the fleet is scanned anew, a background scan not  *)
(* being over left aside.                                                    *)
Recover ==
    /\ \A r \in Resolvers : scan[r] \in Over
    /\ Stop
    /\ ScanAnew(snapshot)
    /\ released' = FALSE
    /\ disables' = IF DisablesAfter THEN disables ELSE MaxDisables
    /\ outrun' = outrun \cup Returning({"applied"})
    /\ UNCHANGED <<synced, disabled, marked, probes, candidates, step,
                   target, crossed, demoted, sunk>>

-----------------------------------------------------------------------------
(* The health loop's pass. *)

Rechecked(r) == \E s \in 1..Slots : probes[s] # Free /\ probes[s].of = r

(* A window of timeouts outlasts a recheck: one of them is not in the other. *)
Settled(r) == snapshot[r].ok /\ ~Rechecked(r)

(* With all of the active set mature the transport is recovered instead,     *)
(* which is a Restart or a Recover here.                                     *)
BeginPass ==
    /\ up /\ step = Idle /\ candidates = {}
    /\ disables < MaxDisables
    /\ \E rs \in SUBSET {r \in Resolvers : Settled(r)} :
          rs # {} /\ Cardinality(rs) < Cardinality(Active(snapshot)) /\ candidates' = rs
    /\ UNCHANGED <<source, snapshot, scan, released, synced, disabled, marked, probes, step, up, target,
                   restarts, disables, crossed, demoted, outrun, sunk>>

(* hasStrategy5Reserve without r. *)
ReserveFor(r) ==
    HighPool > 0 /\ Grouping /\ \E q \in Valid(snapshot) \ {r} : snapshot[q].reserve

CanDisable(r) ==
    \/ Cardinality(Active(snapshot)) > Floor
    \/ snapshot[r].ok /\ ~snapshot[r].reserve /\ ReserveFor(r)

MarkDisabled(r) ==
    /\ step = Idle /\ r \in candidates
    /\ candidates' = candidates \ {r}
    /\ IF snapshot[r].ok /\ CanDisable(r) /\ disables < MaxDisables
       THEN /\ disabled' = [disabled EXCEPT ![r] = 0]
            /\ step' = [at |-> "marked", of |-> r]
            /\ disables' = disables + 1
       ELSE UNCHANGED <<disabled, step, disables>>
    /\ UNCHANGED <<source, snapshot, scan, released, synced, marked, probes, up, target,
                   restarts, crossed, demoted, outrun, sunk>>

TakeOut ==
    /\ step.at = "marked"
    /\ IF snapshot[step.of].ok THEN SetValidity(step.of, FALSE) ELSE UNCHANGED <<source, snapshot>>
    /\ step' = [step EXCEPT !.at = "out"]
    /\ sunk' = (sunk \/ (HighPool = 0 /\ Cardinality(Active(snapshot')) < Floor
                         /\ step.of \in Active(snapshot)))
    /\ UNCHANGED <<scan, released, synced, disabled, marked, probes, candidates, up, target,
                   restarts, disables, crossed, demoted, outrun>>

Record ==
    /\ step.at = "out"
    /\ disabled' = [disabled EXCEPT ![step.of] = 0]
    /\ step' = Idle
    /\ UNCHANGED <<source, snapshot, scan, released, synced, marked, probes, candidates, up, target,
                   restarts, disables, crossed, demoted, outrun, sunk>>

-----------------------------------------------------------------------------
(* Rechecks. *)

FreeSlots == {s \in 1..Slots : probes[s] = Free}

Due(r) == ~snapshot[r].ok /\ r \notin marked

Launch(r) ==
    /\ up /\ step = Idle /\ candidates = {}
    /\ Due(r) /\ FreeSlots # {}
    /\ marked' = marked \cup {r}
    /\ probes' = [probes EXCEPT ![Min(FreeSlots)] = [at |-> "probing", of |-> r, size |-> 0, stray |-> FALSE]]
    /\ UNCHANGED <<source, snapshot, scan, released, synced, disabled, candidates, step, up, target,
                   restarts, disables, crossed, demoted, outrun, sunk>>

(* The mark is the resolver's: a recheck that ends takes that of a later one. *)
Ends(s) ==
    /\ marked' = marked \ {probes[s].of}
    /\ probes' = [t \in 1..Slots |->
                    IF t = s \/ probes[t] = Free THEN IF t = s THEN Free ELSE probes[t]
                    ELSE [probes[t] EXCEPT !.stray = @ \/ probes[t].of = probes[s].of]]

Fail(s) ==
    /\ probes[s].at = "probing"
    /\ Ends(s)
    /\ disabled' = [disabled EXCEPT ![probes[s].of] = IF @ = Absent THEN Absent ELSE 0]
    /\ UNCHANGED <<source, snapshot, scan, released, synced, candidates, step, up, target,
                   restarts, disables, crossed, demoted, outrun, sunk>>

Successes == IF Cardinality(Active(snapshot)) <= Pressure THEN 1 ELSE 2

(* A probe at the size of the moment; a disabled resolver may need another.  *)
Pass(s) ==
    /\ probes[s].at = "probing"
    /\ synced \in 1..Path[probes[s].of]
    /\ LET r == probes[s].of IN
       IF disabled[r] # Absent /\ disabled[r] + 1 < Successes
       THEN Ends(s) /\ disabled' = [disabled EXCEPT ![r] = @ + 1]
       ELSE /\ probes' = [probes EXCEPT ![s] = [@ EXCEPT !.at = "passed", !.size = synced]]
            /\ UNCHANGED <<marked, disabled>>
    /\ UNCHANGED <<source, snapshot, scan, released, synced, candidates, step, up, target,
                   restarts, disables, crossed, demoted, outrun, sunk>>

\* MUTANT: the resolver keeps the size it had before it was disabled.
ApplyRechecked_Not(s) ==
    /\ probes[s].at = "passed"
    /\ probes' = [probes EXCEPT ![s].at = "applied"]
    /\ UNCHANGED <<source, snapshot, scan, released, synced, disabled, marked, candidates, step, up, target,
                   restarts, disables, crossed, demoted, outrun, sunk>>

(* The size written is that of this moment, not the one that was probed. *)
ApplyRechecked(s) ==
    /\ probes[s].at = "passed"
    /\ SetSize(probes[s].of, synced)
    /\ outrun' = IF target > 0 THEN outrun \cup {probes[s].of} ELSE outrun
    /\ probes' = [probes EXCEPT ![s].at = "applied"]
    /\ UNCHANGED <<scan, released, synced, disabled, marked, candidates, step, up, target,
                   restarts, disables, crossed, demoted, sunk>>

Reactivate(s) ==
    /\ probes[s].at = "applied"
    /\ LET r == probes[s].of IN
       IF snapshot[r].ok
       THEN Ends(s) /\ UNCHANGED <<source, snapshot, outrun>>
       ELSE /\ SetValidity(r, TRUE)
            /\ probes' = [probes EXCEPT ![s].at = "active"]
            /\ outrun' = IF target > 0 THEN outrun \cup {r} ELSE outrun
            /\ marked' = marked
    /\ UNCHANGED <<scan, released, synced, disabled, candidates, step, up, target,
                   restarts, disables, crossed, demoted, sunk>>

Clear(s) ==
    /\ probes[s].at = "active"
    /\ disabled' = [disabled EXCEPT ![probes[s].of] = Absent]
    /\ Ends(s)
    /\ UNCHANGED <<source, snapshot, scan, released, synced, candidates, step, up, target,
                   restarts, disables, crossed, demoted, outrun, sunk>>

-----------------------------------------------------------------------------
PoolInit ==
    /\ starter \in Starters
    /\ source = Blank /\ snapshot = Blank
    /\ scan = [r \in Resolvers |-> "due"]
    /\ released = FALSE /\ synced = 0
    /\ disabled = [r \in Resolvers |-> Absent] /\ marked = {}
    /\ probes = [s \in 1..Slots |-> Free]
    /\ candidates = {} /\ step = Idle
    /\ up = FALSE /\ target = 0 /\ restarts = 0 /\ disables = 0
    /\ crossed = {} /\ demoted = {} /\ outrun = {} /\ sunk = FALSE

PoolNext == UNCHANGED starter /\
    \/ \E r \in Resolvers :
          \/ Accept(r) \/ Reject(r) \/ Release(r) \/ NotEnough(r) \/ Publish(r) \/ Rebuild(r)
          \/ MarkDisabled(r) \/ Launch(r)
    \/ \E s \in 1..Slots : Fail(s) \/ Pass(s) \/ ApplyRechecked(s) \/ Reactivate(s) \/ Clear(s)
    \/ FullScan \/ Rescan \/ Recover \/ Recompute \/ ApplySize \/ Restart
    \/ BeginPass \/ TakeOut \/ Record

PoolSpec == PoolInit /\ [][PoolNext]_poolVars

-----------------------------------------------------------------------------
Connections == [Resolvers -> [ok : BOOLEAN, reserve : BOOLEAN, size : Sizes]]
Rechecks == [at : {"probing", "passed", "applied", "active"}, of : Resolvers, size : Sizes, stray : BOOLEAN]

PoolTypeOK ==
    /\ source \in Connections /\ snapshot \in Connections
    /\ scan \in [Resolvers -> {"due", "accepted", "published"} \cup Over]
    /\ released \in BOOLEAN /\ up \in BOOLEAN /\ sunk \in BOOLEAN
    /\ synced \in Sizes /\ target \in Sizes
    /\ disabled \in [Resolvers -> Absent..1]
    /\ probes \in [1..Slots -> {Free} \cup Rechecks]
    /\ step \in {Idle} \cup [at : {"marked", "out"}, of : Resolvers]
    /\ candidates \subseteq Resolvers /\ marked \subseteq Resolvers
    /\ crossed \subseteq Resolvers /\ demoted \subseteq Resolvers /\ outrun \subseteq Resolvers

(* A mark has one recheck behind it, so nothing is kept out of the schedule  *)
(* for ever; a resolver has another only when the records were rebuilt under *)
(* the first.                                                                *)
RechecksLive ==
    \A r \in Resolvers :
        Cardinality({s \in 1..Slots : probes[s] # Free /\ probes[s].of = r /\ ~probes[s].stray}) =
            IF r \in marked THEN 1 ELSE 0

(* Auto-disable keeps its floor, unless the scan takes out or demotes one   *)
(* that was counted: one it rejects although a recheck had brought it into   *)
(* use, or one in use that it publishes as a reserve.  What auto-disable     *)
(* works on is never emptied, but for the first of the two.                  *)
FloorKept ==
    /\ crossed = {} /\ demoted = {} => ~sunk
    /\ crossed = {} /\ released => Valid(snapshot) # {}

(* A resolver is not both in use and disabled, but for the moment between    *)
(* two steps of one that moves it, or when the scan accepted it meanwhile.   *)
OutIsOut ==
    released => \A r \in Resolvers :
        disabled[r] # Absent /\ snapshot[r].ok =>
            \/ step # Idle /\ step.of = r
            \/ \E s \in 1..Slots : probes[s].at = "active" /\ probes[s].of = r
            \/ r \in crossed
            \/ scan[r] \in {"accepted", "published"}

(* The published pool is what was last decided of it, but for what the scan  *)
(* accepted and has not published, and a resolver it rejected in use.        *)
PublishedIsTrue ==
    released => \A r \in Resolvers :
        snapshot[r] = source[r] \/ scan[r] = "accepted" \/ r \in crossed

(* A primary carries the size the session runs at, and no resolver is held   *)
(* to a size its path was not seen to carry, unless the operating point      *)
(* moved or the records were blanked while it was being brought in.          *)
Carried ==
    \A r \in Valid(snapshot) \ outrun :
        /\ snapshot[r].size <= Path[r]
        /\ released /\ target = 0 /\ ~snapshot[r].reserve /\ scan[r] # "accepted" =>
              snapshot[r].size >= synced

PoolSound == PoolTypeOK /\ RechecksLive /\ FloorKept /\ OutIsOut /\ PublishedIsTrue /\ Carried
=============================================================================
