------------------------------ MODULE Lookups -------------------------------
(* The client's DNS service: the registry of pending queries, the cache    *)
(* beside it and the file the cache is kept in. A query that misses joins  *)
(* the group of its key; the group's own query goes through the tunnel     *)
(* under a reserved transaction ID, and the reply is matched by that ID    *)
(* and its question. A timer fails the group, a reset drops it. Replies    *)
(* come late and more than once. internal/client/dns_pending.go,           *)
(* dns_listener.go, cottenmax_dns.go, internal/dnscache.                   *)
EXTENDS Integers, FiniteSets, Sequences, Functions

CONSTANTS
    Keys,            \* what the cache and the groups are indexed by
    Question,        \* the question of a key: two keys may differ in policy only
    Waiters,         \* the queries that come, each with its callback (1 .. N)
    DnsIds,          \* DNS transaction IDs (1 .. N; 2^16 in the code)
    MaxWaiting,      \* maxPendingDNSWaiters
    PerQuestion,     \* maxPendingDNSWaitersPerQuestion
    ShardRecords,    \* records a shard holds
    PendingTimeout,  \* after which a pending record may be dispatched again
    Lifetime,        \* of a cacheable reply, cut to the cache's own limit
    MaxGroups, MaxTime, MaxCrashes   \* bounds of the model

ASSUME LookupsAssumption ==
    /\ IsFiniteSet(Keys) /\ "none" \notin Keys
    /\ Waiters \subseteq Nat /\ IsFiniteSet(Waiters) /\ DnsIds \subseteq Nat \ {0} /\ 1 \in DnsIds
    /\ ShardRecords \in Nat \ {0}   \* New replaces a size that is not positive
    /\ {MaxWaiting, PerQuestion, PendingTimeout, Lifetime, MaxGroups, MaxTime, MaxCrashes} \subseteq Nat

VARIABLES
    engine,    \* dispatched by the CottenMax engine or by stream 0
    wanted,    \* the key of each query, or None
    groups,    \* key -> the waiting group
    made,      \* every group made: its key, ID and ID cycle
    byId,      \* ID -> the serial of the group that holds it
    issued,    \* the IDs issued in this cycle
    cycle,
    total,     \* waiters of all the groups
    timers,    \* groups whose timer is armed
    fired,     \* timers that ran off and wait for the lock
    sent,      \* groups whose query was dispatched: its reply may come late, or never
    told,      \* what each waiter was told
    shard,     \* the cache: entries, use order, count of pending, dirty, moved
    saving,    \* a save under way: "no", "begun", or "taken": the snapshot is in temp
    temp, file,
    moment, crashes

lookupVars ==
    <<engine, wanted, groups, made, byId, issued, cycle, total, timers, fired,
      sent, told, shard, saving, temp, file, moment, crashes>>
queue == <<groups, made, byId, issued, cycle, total, timers, fired>>

Serials == 1 .. MaxGroups
NoGroup == [serial |-> 0, id |-> 0, waiters |-> {}]
NoEntry == [status |-> "none", from |-> 0, expires |-> 0, dispatched |-> 0]
NoFile  == [k \in Keys |-> NoEntry]
EmptyStore == [entry |-> NoFile, order |-> <<>>, pending |-> 0, dirty |-> FALSE, moved |-> FALSE]

LookupsInit ==
    /\ engine \in BOOLEAN
    /\ wanted = [w \in Waiters |-> "none"]
    /\ groups = [k \in Keys |-> NoGroup]
    /\ made = <<>>
    /\ byId = [i \in DnsIds |-> 0]
    /\ issued \in {{}, {1}}   \* earlier queries have used up part of the cycle, or not
    /\ cycle = 0 /\ total = 0
    /\ timers = {} /\ fired = {} /\ sent = {} /\ told = {}
    /\ shard = EmptyStore
    /\ saving = "no"
    /\ file = NoFile /\ temp = NoFile
    /\ moment = 0 /\ crashes = 0
-----------------------------------------------------------------------------
(* The cache. *)
Changed(s) == [s EXCEPT !.dirty = TRUE, !.moved = TRUE]

Expired(e) == e.status = "ready" /\ moment >= e.expires

Held(s)    == {k \in Keys : s.entry[k].status # "none"}
Pending(s) == {k \in Keys : s.entry[k].status = "pending"}

Unlisted(o, k) ==
    LET at == CHOOSE i \in DOMAIN o : o[i] = k
    IN  IF k \in Range(o) THEN [j \in 1 .. Len(o) - 1 |-> o[IF j < at THEN j ELSE j + 1]] ELSE o

Dropped(s, k) ==
    IF s.entry[k].status = "none" THEN s
    ELSE Changed([s EXCEPT !.entry[k] = NoEntry,
                           !.order = Unlisted(@, k),
                           !.pending = IF s.entry[k].status = "pending" THEN @ - 1 ELSE @])

Used(s, k) == [s EXCEPT !.order = Append(Unlisted(@, k), k)]

\* A new record goes to the back and the front one leaves when there are too many.
Pushed(s, k, e) ==
    LET t == Changed(Used([s EXCEPT !.entry[k] = e,
                                    !.pending = @ + (IF e.status = "pending" THEN 1 ELSE 0)], k))
    IN IF Len(t.order) > ShardRecords THEN Dropped(t, Head(t.order)) ELSE t

\* The keys ks of a list, in its order.
Remaining(list, ks) ==
    {o \in [1 .. Cardinality(ks) -> ks] :
       /\ Range(o) = ks
       /\ \A i, j \in DOMAIN o : i < j =>
            \E a, b \in DOMAIN list : a < b /\ list[a] = o[i] /\ list[b] = o[j]}

\* ClearPending: the records under way go, the others stay.
Settled(s, ks, o) ==
    Changed([s EXCEPT !.entry = [k \in Keys |-> IF k \in ks THEN s.entry[k] ELSE NoEntry],
                      !.order = o, !.pending = 0])
Cleared(s) ==
    LET ks == Held(s) \ Pending(s)
    IN  IF Pending(s) = {} THEN {s} ELSE {Settled(s, ks, o) : o \in Remaining(s.order, ks)}

NewPending == [NoEntry EXCEPT !.status = "pending", !.dispatched = moment]

\* LookupOrCreatePending: what the cache becomes, whether it answers, whether it asks for a dispatch.
Lookup(k) ==
    LET e == shard.entry[k]
    IN  CASE e.status = "none" \/ Expired(e) ->
               [shard |-> Pushed(Dropped(shard, k), k, NewPending), ready |-> FALSE, dispatch |-> TRUE]
          [] e.status = "ready" /\ ~Expired(e) ->
               [shard |-> Used(shard, k), ready |-> TRUE, dispatch |-> FALSE]
          [] e.status = "pending" /\ moment - e.dispatched >= PendingTimeout ->
               [shard |-> Changed(Used([shard EXCEPT !.entry[k].dispatched = moment], k)),
                ready |-> FALSE, dispatch |-> TRUE]
          [] OTHER -> [shard |-> Used(shard, k), ready |-> FALSE, dispatch |-> FALSE]

\* responseLifetime: a reply is kept for a while, or not at all (a failure, a truncation, no TTL).
Lifetimes == {0, Lifetime}

SetReady(k, from, life) ==
    LET e == [NoEntry EXCEPT !.status = "ready", !.from = from, !.expires = moment + life]
        s == [shard EXCEPT !.pending = IF shard.entry[k].status = "pending" THEN @ - 1 ELSE @]
    IN  IF life = 0 THEN Dropped(shard, k)
        ELSE IF shard.entry[k].status = "none" THEN Pushed(shard, k, e)
        ELSE Changed(Used([s EXCEPT !.entry[k] = e], k))
-----------------------------------------------------------------------------
(* The registry, under its lock. *)

\* The IDs that may be reserved: a cycle that is used up begins again with those in use.
Retired == IF issued = DnsIds THEN {i \in DnsIds : byId[i] # 0} ELSE issued
Free    == {i \in DnsIds : i \notin Retired /\ byId[i] = 0}

Waiting(k) == groups[k].serial # 0

HasRoom(k) ==
    /\ total < MaxWaiting
    /\ Cardinality(groups[k].waiters) < PerQuestion

\* addPendingDNSLocked for a first waiter: a group, a private ID and a timer.
NewGroup(w, k, i) ==
    LET s == Len(made) + 1
    IN  /\ i \in Free /\ s \in Serials
        /\ groups' = [groups EXCEPT ![k] = [serial |-> s, id |-> i, waiters |-> {w}]]
        /\ made' = Append(made, [key |-> k, id |-> i, cycle |-> cycle + (IF issued = DnsIds THEN 1 ELSE 0)])
        /\ byId' = [byId EXCEPT ![i] = s]
        /\ issued' = Retired \cup {i}
        /\ cycle' = cycle + (IF issued = DnsIds THEN 1 ELSE 0)
        /\ timers' = timers \cup {s}
        /\ sent' = sent \cup {s}
        /\ UNCHANGED fired

JoinGroup(w, k) ==
    /\ groups' = [groups EXCEPT ![k].waiters = @ \cup {w}]
    /\ UNCHANGED <<made, byId, issued, cycle, timers, fired>>

\* takePendingDNSLocked
Take(ks) ==
    /\ groups' = [k \in Keys |-> IF k \in ks THEN NoGroup ELSE groups[k]]
    /\ byId' = [i \in DnsIds |-> IF \E k \in ks : Waiting(k) /\ groups[k].id = i THEN 0 ELSE byId[i]]
    /\ total' = total - Cardinality(UNION {groups[k].waiters : k \in ks})
    /\ timers' = timers \ {groups[k].serial : k \in ks}
    /\ UNCHANGED <<made, issued, cycle>>

\* Callbacks run outside the lock, on the waiters that were taken with it.
Tell(ks, how, from) ==
    told' = told \cup UNION {{[waiter |-> w, how |-> how, own |-> groups[k].serial, from |-> from] :
                                w \in groups[k].waiters} : k \in ks}
TellOne(w, how, from) == told' = told \cup {[waiter |-> w, how |-> how, own |-> 0, from |-> from]}

\* ProcessDNSQuery. A hit is answered; a miss joins or makes a group, under one lock. The
\* dispatch comes after the lock: what is sent late, or not at all, is answered late, or never.
ProcessQuery(w, k) ==
    /\ wanted[w] = "none" /\ \A v \in Waiters : v < w => wanted[v] # "none"
    /\ wanted' = [wanted EXCEPT ![w] = k]
    /\ \E touched \in BOOLEAN :
         LET l == Lookup(k)
             s == IF touched /\ shard.entry[k].status # "none" THEN Changed(l.shard) ELSE l.shard
         IN  /\ shard' = s
             /\ \/ /\ l.ready
                   /\ TellOne(w, "hit", shard.entry[k].from)
                   /\ UNCHANGED <<queue, sent>>
                \/ /\ ~l.ready /\ ~(HasRoom(k) /\ (Waiting(k) \/ Free # {}))
                   /\ TellOne(w, "refused", 0)
                   /\ UNCHANGED <<queue, sent>>
                \/ /\ ~l.ready /\ HasRoom(k) /\ ~Waiting(k)
                   /\ \E i \in DnsIds : NewGroup(w, k, i)
                   /\ total' = total + 1
                   /\ UNCHANGED told
                \/ /\ ~l.ready /\ HasRoom(k) /\ Waiting(k)
                   /\ JoinGroup(w, k)
                   /\ total' = total + 1
                   /\ sent' = IF l.dispatch THEN sent \cup {groups[k].serial} ELSE sent
                   /\ UNCHANGED told
    /\ UNCHANGED <<engine, saving, temp, file, moment, crashes>>

\* expirePendingDNS: only the group the timer (or the failed exchange) was for.
\* MUTANT: the group that has the key now is failed
ExpireGroup_Any(s) ==
    LET k == made[s].key
    IN  IF Waiting(k)
        THEN Take({k}) /\ Tell({k}, "failed", s)
        ELSE UNCHANGED <<groups, made, byId, issued, cycle, total, timers, told>>
ExpireGroup(s) ==
    LET k == made[s].key
    IN  IF groups[k].serial = s
        THEN Take({k}) /\ Tell({k}, "failed", s)
        ELSE UNCHANGED <<groups, made, byId, issued, cycle, total, timers, told>>

TimerFires(s) ==
    /\ s \in timers
    /\ timers' = timers \ {s}
    /\ fired' = fired \cup {s}
    /\ UNCHANGED <<engine, wanted, groups, made, byId, issued, cycle, total, sent, told,
                   shard, saving, temp, file, moment, crashes>>

Expires(s) ==
    /\ s \in fired
    /\ fired' = fired \ {s}
    /\ ExpireGroup(s)
    /\ UNCHANGED <<engine, wanted, sent, shard, saving, temp, file, moment, crashes>>

\* The engine's exchange failed: the group need not wait for its timer.
ExchangeFails(s) ==
    /\ engine /\ s \in sent
    /\ sent' = sent \ {s}
    /\ ExpireGroup(s)
    /\ UNCHANGED <<engine, wanted, fired, shard, saving, temp, file, moment, crashes>>

\* completePendingDNSForGroup: by the reply's ID, and its question must be the group's.
\* The engine also names the group it wanted for.
Reply(s) ==
    LET g == byId[made[s].id]
        k == made[g].key
    IN  /\ s \in sent
        /\ sent' = IF engine THEN sent \ {s} ELSE sent
        /\ IF g # 0 /\ Question[k] = Question[made[s].key] /\ (engine => g = s)
           THEN /\ \E life \in Lifetimes : shard' = SetReady(k, s, life)
                /\ Take({k})
                /\ Tell({k}, "answered", s)
           ELSE UNCHANGED <<groups, made, byId, issued, cycle, total, timers, told, shard>>
        /\ UNCHANGED <<engine, wanted, fired, saving, temp, file, moment, crashes>>

\* clearPendingDNSQueries: the runtime stops and the callbacks are dropped. With the
\* engine that is all; resetRuntimeBindings clears what is pending in the cache too.
Clear ==
    /\ \E k \in Keys : Waiting(k) \/ k \in Pending(shard)
    /\ Take(Keys)
    /\ Tell(Keys, "dropped", 0)
    /\ shard' \in IF engine THEN {shard} ELSE Cleared(shard)
    /\ UNCHANGED <<engine, wanted, fired, sent, saving, temp, file, moment, crashes>>
-----------------------------------------------------------------------------
(* The file. *)
Kept(s) == [k \in Keys |-> IF s.entry[k].status = "ready" /\ ~Expired(s.entry[k]) THEN s.entry[k] ELSE NoEntry]

\* SaveToFile reads the revision first, ...
SaveBegins ==
    /\ saving = "no" /\ shard.dirty
    /\ saving' = "begun"
    /\ shard' = [shard EXCEPT !.moved = FALSE]
    /\ UNCHANGED <<engine, wanted, queue, sent, told, temp, file, moment, crashes>>

\* ... then takes one snapshot, ...
SaveSnapshot ==
    /\ saving = "begun"
    /\ saving' = "taken"
    /\ temp' = Kept(shard)
    /\ UNCHANGED <<engine, wanted, queue, sent, told, shard, file, moment, crashes>>

\* ... and the rename puts it in place; what moved meanwhile is left to be saved.
SaveEnds(ok) ==
    /\ saving = "taken"
    /\ saving' = "no"
    /\ file' = IF ok THEN temp ELSE file
    /\ temp' = NoFile
    /\ shard' = [shard EXCEPT !.dirty = IF ok THEN shard.moved ELSE @]
    /\ UNCHANGED <<engine, wanted, queue, sent, told, moment, crashes>>

\* LoadFromFile: the records that have not expired, in their order of use, as many as fit.
Restored(f, ks, o) ==
    [EmptyStore EXCEPT !.entry = [k \in Keys |-> IF k \in ks THEN f[k] ELSE NoEntry], !.order = o]
Loaded(f) ==
    LET live == {k \in Keys : f[k].status = "ready" /\ ~Expired(f[k])}
        fit  == IF Cardinality(live) > ShardRecords THEN ShardRecords ELSE Cardinality(live)
    IN  UNION {{Restored(f, ks, o) : o \in {o \in [1 .. fit -> ks] : Range(o) = ks}} :
                 ks \in {ks \in SUBSET live : Cardinality(ks) = fit}}

\* The process dies and starts again: the file is what the last rename left.
Crash ==
    /\ crashes < MaxCrashes
    /\ crashes' = crashes + 1
    /\ shard' \in Loaded(file)
    /\ saving' = "no" /\ temp' = NoFile
    /\ Tell(Keys, "dropped", 0)
    /\ groups' = [k \in Keys |-> NoGroup]
    /\ byId' = [i \in DnsIds |-> 0]
    /\ issued' = {} /\ cycle' = cycle + 1 /\ total' = 0
    /\ timers' = {} /\ fired' = {} /\ sent' = {}
    /\ UNCHANGED <<engine, wanted, made, file, moment>>

Tick ==
    /\ moment < MaxTime
    /\ moment' = moment + 1
    /\ UNCHANGED <<engine, wanted, queue, sent, told, shard, saving, temp, file, crashes>>

LookupsNext ==
    \/ \E w \in Waiters, k \in Keys : ProcessQuery(w, k)
    \/ \E s \in timers : TimerFires(s)
    \/ \E s \in fired : Expires(s)
    \/ \E s \in sent : ExchangeFails(s) \/ Reply(s)
    \/ Clear
    \/ SaveBegins \/ SaveSnapshot
    \/ \E ok \in BOOLEAN : SaveEnds(ok)
    \/ Crash
    \/ Tick

LookupsSpec == LookupsInit /\ [][LookupsNext]_lookupVars
-----------------------------------------------------------------------------
LookupsTypeOK ==
    /\ engine \in BOOLEAN
    /\ wanted \in [Waiters -> Keys \cup {"none"}]
    /\ groups \in [Keys -> [serial : 0 .. MaxGroups, id : {0} \cup DnsIds, waiters : SUBSET Waiters]]
    /\ Len(made) <= MaxGroups
    /\ byId \in [DnsIds -> 0 .. MaxGroups] /\ issued \subseteq DnsIds
    /\ total \in 0 .. MaxWaiting
    /\ timers \cup fired \cup sent \subseteq Serials
    /\ shard.entry \in [Keys -> [status : {"none", "pending", "ready"}, from : 0 .. MaxGroups,
                                 expires : Nat, dispatched : 0 .. MaxTime]]
    /\ saving \in {"no", "begun", "taken"}

\* The two indexes name the same groups, and the counts are exact.
CensusExact ==
    /\ total = Cardinality(UNION {groups[k].waiters : k \in Keys})
    /\ \A i \in DnsIds : byId[i] # 0 => groups[made[byId[i]].key].serial = byId[i]
    /\ \A k \in Keys : Waiting(k) => byId[groups[k].id] = groups[k].serial /\ groups[k].id \in issued
    /\ shard.pending = Cardinality(Pending(shard))
    /\ Range(shard.order) = Held(shard) /\ Len(shard.order) <= ShardRecords

\* Every waiter is in one place: waiting in a group whose timer will run, or told once.
OneFate ==
    /\ \A w \in Waiters : wanted[w] # "none" =>
         Cardinality({k \in Keys : w \in groups[k].waiters}) + Cardinality({r \in told : r.waiter = w}) = 1
    /\ \A k \in Keys : Waiting(k) => groups[k].serial \in timers \cup fired

\* Nobody is failed by another group's timer, nor answered with the reply to another
\* group's query unless all the IDs have been used since and the questions agree.
OwnAnswers ==
    \A r \in told :
      /\ r.how = "failed" => r.from = r.own
      /\ r.how = "answered" /\ r.from # r.own =>
           /\ ~engine
           /\ made[r.from].cycle < made[r.own].cycle
           /\ Question[made[r.from].key] = Question[wanted[r.waiter]]
      /\ r.how = "hit" => Question[made[r.from].key] = Question[wanted[r.waiter]]

\* A reply cannot come between a miss and its registration: no one waits beside a live answer.
NoneMissed ==
    \A k \in Keys : Waiting(k) => shard.entry[k].status # "ready" \/ Expired(shard.entry[k])

\* A cache with nothing to save is the file's: what a restart would lose is marked unsaved.
FileAgrees == ~shard.dirty => \A k \in Keys : Kept(shard)[k].status = "ready" => file[k] = shard.entry[k]

\* Waiting, answering, expiring, evicting and saving interleave freely, and still each
\* query is answered once, by its own reply or its own timer, and no reply is lost.
LookupsSound == LookupsTypeOK /\ CensusExact /\ OneFate /\ OwnAnswers /\ NoneMissed /\ FileAgrees
=============================================================================
