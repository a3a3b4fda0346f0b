------------------------------ MODULE Resolve ------------------------------
(* One tunnelled DNS question on the server: the cache, the coalescing of  *)
(* equal lookups, and the race of the upstream resolvers. The first of the *)
(* requests leads and asks upstream, the others wait on its entry; an      *)
(* entry older than the timeout is replaced while its leader still runs.   *)
(* internal/udpserver/dns_tunnel.go, internal/inflight/manager.go.         *)
EXTENDS Integers, FiniteSets, Sequences

CONSTANTS
    Querents,       \* the requests that ask the question, each on its worker (1 .. N)
    Upstreams,      \* how many upstream resolvers there are
    Timeout,        \* an in-flight entry's age at which it is replaced
    EndTime         \* bound of the model

VARIABLES
    req,        \* request -> where its worker is, the entry it leads or waits on, its reply
    gone,       \* requests whose context has ended (deadline, or the account was closed)
    entries,    \* every entry made: its birth, whether ready was closed, the request that answered it, or 0
    held,       \* the entry the map holds, or 0
    cache,      \* the request whose answer is cached, or 0
    race,       \* leader -> how many upstreams were launched, how many failed, the deadline met
    overran,    \* some leader has resolved an entry that was not its own
    ticks

ASSUME LookupAssumption ==
    /\ Querents \subseteq Nat \ {0}
    /\ Upstreams \in Nat \ {0} /\ Timeout \in Nat /\ EndTime \in Nat

Answer(n) == [how |-> "answer", from |-> n]
No(how) == [how |-> how, from |-> 0]

resolveVars == <<req, gone, entries, held, cache, race, overran, ticks>>

NoRace == [launched |-> 0, failed |-> 0, late |-> FALSE]

ResolveInit ==
    /\ req = [r \in Querents |-> [at |-> "idle", entry |-> 0, out |-> No("none")]]
    /\ gone = {} /\ entries = <<>> /\ held = 0 /\ cache = 0
    /\ race = [r \in Querents |-> NoRace]
    /\ overran = FALSE /\ ticks = 0

At(r, place) == req[r].at = place
Goes(r, place, out) == req' = [req EXCEPT ![r].at = place, ![r].out = out]

Stale(e) == ticks - entries[e].born >= Timeout
Shared   == held # 0 /\ ~Stale(held)

\* buildDNSQueryResponsePayloadContext looks in the cache, and then acquires an entry.
Start(r) ==
    /\ At(r, "idle") /\ \A q \in Querents : q < r => ~At(q, "idle")
    /\ \/ /\ r \in gone
          /\ Goes(r, "done", No("nothing"))
       \/ /\ r \notin gone /\ cache # 0
          /\ Goes(r, "done", Answer(cache))
       \/ /\ r \notin gone /\ cache = 0
          /\ Goes(r, "missed", No("none"))
    /\ UNCHANGED <<gone, entries, held, cache, race, overran, ticks>>

Acquire(r) ==
    /\ At(r, "missed")
    /\ \/ /\ Shared
          /\ req' = [req EXCEPT ![r] = [at |-> "follow", entry |-> held, out |-> No("none")]]
          /\ UNCHANGED <<entries, held, race>>
       \/ /\ ~Shared
          /\ entries' = Append(entries, [born |-> ticks, closed |-> FALSE, value |-> 0])
          /\ held' = Len(entries')
          /\ req' = [req EXCEPT ![r] = [at |-> "lead", entry |-> Len(entries'), out |-> No("none")]]
          /\ race' = [race EXCEPT ![r].launched = 1]   \* the healthiest
    /\ UNCHANGED <<gone, cache, overran, ticks>>

\* An upstream query ends while its race is on: the first answer wins, a failure brings in
\* the others. Every query sends one result, and the channel has room for all of them.
UpstreamEnds(r, ok) ==
    /\ At(r, "lead")
    /\ IF ok
       THEN Goes(r, "won", No("none")) /\ race' = [race EXCEPT ![r] = NoRace]
       ELSE LET failed == race[r].failed + 1
            IN  /\ race' = [race EXCEPT ![r].launched = Upstreams, ![r].failed = failed]
                /\ IF failed = Upstreams THEN Goes(r, "lost", No("none")) ELSE UNCHANGED req
    /\ UNCHANGED <<gone, entries, held, cache, overran, ticks>>

HedgeTimer(r) ==
    /\ At(r, "lead") /\ race[r].launched # Upstreams
    /\ race' = [race EXCEPT ![r].launched = Upstreams]
    /\ UNCHANGED <<req, gone, entries, held, cache, overran, ticks>>

Deadline(r) ==
    /\ At(r, "lead")
    /\ race' = [race EXCEPT ![r].late = TRUE]
    /\ Goes(r, "lost", No("none"))
    /\ UNCHANGED <<gone, entries, held, cache, overran, ticks>>

\* Resolve: whatever entry the key holds is taken out of the map and its waiters woken.
\* MUTANT: the entry stays in the map
ResolveKey_Keeps(r, value) ==
    /\ held' = held
    /\ entries' = IF held = 0 THEN entries
                  ELSE [entries EXCEPT ![held].closed = TRUE, ![held].value = value]
    /\ overran' = (overran \/ held \notin {0, req[r].entry})
ResolveKey(r, value) ==
    /\ held' = 0
    /\ entries' = IF held = 0 THEN entries
                  ELSE [entries EXCEPT ![held].closed = TRUE, ![held].value = value]
    /\ overran' = (overran \/ held \notin {0, req[r].entry})

\* The leader caches before it resolves, so that who comes between finds the answer.
CacheAnswer(r) ==
    /\ At(r, "won")
    /\ IF r \in gone
       THEN Goes(r, "gone", No("none")) /\ UNCHANGED cache
       ELSE Goes(r, "cached", No("none")) /\ cache' \in {cache, r}   \* if the reply may be kept
    /\ UNCHANGED <<gone, entries, held, race, overran, ticks>>

LeaderEnds(r) ==
    /\ \/ At(r, "cached") /\ Goes(r, "done", Answer(r)) /\ ResolveKey(r, r) /\ UNCHANGED race
       \/ At(r, "gone") /\ Goes(r, "done", No("nothing")) /\ ResolveKey(r, 0) /\ UNCHANGED race
       \/ At(r, "lost") /\ ResolveKey(r, 0) /\ race' = [race EXCEPT ![r] = NoRace]
            /\ Goes(r, "done", No(IF r \in gone THEN "nothing" ELSE "servfail"))
    /\ UNCHANGED <<gone, cache, ticks>>

\* WaitContext and what follows it.
Follow(r) ==
    LET e == req[r].entry
        fallback == IF r \in gone THEN No("nothing") ELSE IF cache # 0 THEN Answer(cache) ELSE No("servfail")
    IN  /\ At(r, "follow")
        /\ \/ entries[e].closed /\ entries[e].value # 0 /\ r \notin gone
                /\ Goes(r, "done", Answer(entries[e].value))
           \/ entries[e].closed /\ (entries[e].value = 0 \/ r \in gone) /\ Goes(r, "done", fallback)
           \/ ~entries[e].closed /\ r \in gone /\ Goes(r, "done", No("nothing"))
           \/ ~entries[e].closed /\ ticks > entries[e].born /\ Goes(r, "done", fallback)
        /\ UNCHANGED <<gone, entries, held, cache, race, overran, ticks>>

Leaves(r) ==
    /\ r \notin gone /\ ~At(r, "done")
    /\ gone' = gone \cup {r}
    /\ UNCHANGED <<req, entries, held, cache, race, overran, ticks>>

CacheExpires ==
    /\ cache # 0
    /\ cache' = 0
    /\ UNCHANGED <<req, gone, entries, held, race, overran, ticks>>

TimePasses ==
    /\ ticks < EndTime
    /\ ticks' = ticks + 1
    /\ UNCHANGED <<req, gone, entries, held, cache, race, overran>>

ResolveNext ==
    \/ \E r \in Querents :
         Start(r) \/ Acquire(r) \/ HedgeTimer(r) \/ Deadline(r) \/ CacheAnswer(r) \/ LeaderEnds(r) \/ Follow(r) \/ Leaves(r)
    \/ \E r \in Querents, ok \in BOOLEAN : UpstreamEnds(r, ok)
    \/ CacheExpires \/ TimePasses

ResolveSpec == ResolveInit /\ [][ResolveNext]_resolveVars
-----------------------------------------------------------------------------
Outs == [how : {"none", "nothing", "servfail", "answer"}, from : {0} \cup Querents]
Leading(r) == req[r].at \in {"lead", "won", "cached", "gone", "lost"}

ResolveTypeOK ==
    /\ \A r \in Querents :
         /\ req[r].at \in {"idle", "missed", "follow", "lead", "won", "cached", "gone", "lost", "done"}
         /\ req[r].entry \in 0 .. Len(entries) /\ req[r].out \in Outs
    /\ held \in 0 .. Len(entries)
    /\ \A r \in Querents : race[r].failed <= race[r].launched /\ race[r].launched <= Upstreams

\* No entry is closed twice: the one the map holds is open, and its leader still runs.
HeldIsOpen ==
    held # 0 => ~entries[held].closed /\ \E r \in Querents : Leading(r) /\ req[r].entry = held

\* Who waits will be woken: its entry was closed, or can be, or has been replaced for its age.
WaitersReached ==
    \A r \in Querents : At(r, "follow") =>
      LET e == req[r].entry IN entries[e].closed \/ held = e \/ Stale(e)

\* Two lookups of the question run at once only around a leader that has overstayed.
OneLookup ==
    \A r, q \in Querents : r # q /\ Leading(r) /\ Leading(q) =>
      overran \/ Stale(req[r].entry) \/ Stale(req[q].entry)

\* A leader gives up only when every upstream failed it or the time was up.
TriedAll ==
    \A r \in Querents : At(r, "lost") => race[r].failed = Upstreams \/ race[r].late

\* An answer is one that some leader got from upstream, and that was not cancelled before.
AnswersGot ==
    \A r \in Querents : req[r].out.how = "answer" =>
      LET n == req[r].out.from IN At(n, "cached") \/ (At(n, "done") /\ req[n].out = Answer(n))

\* Coalesced lookups share one upstream race: it ends once, and everyone who waits on it hears.
ResolveSound == ResolveTypeOK /\ HeldIsOpen /\ WaitersReached /\ OneLookup /\ TriedAll /\ AnswersGot
=============================================================================
