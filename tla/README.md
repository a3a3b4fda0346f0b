# Specifications of cottenDNS

cottenDNS carries TCP streams and DNS queries inside DNS messages. A client
accepts local connections, cuts what they send into packets, hides the packets
in DNS queries to many resolvers, and a server answers them, reassembles the
streams and dials the real destinations. DNS loses, repeats, delays and reorders;
every component below is written to survive that, with goroutines that share
state under several locks. CottenMax (`internal/cottenmax/engine`) is a second
transport of the same kind with its own sessions.

This directory holds TLA+ modules translated from the Go source, the TLC
configurations that check them and proofs for TLAPS. Paths are relative to the
repository root.

## Contents

1. The system: components, state, interactions, what is hard
2. The modules and how they correspond to the code
3. What each run checks, its bounds, its fairness
4. What is proved, and how
5. Where the code does not do what it says
6. What is abstracted and what is not modelled
7. Plan
8. Running the checks

## 1. The system

```
 application                                                     destination
     |  TCP                                                          ^ TCP
 +---v-------------------------------+    +--------------------------+---------+
 | CLIENT  internal/client           |    | SERVER  internal/udpserver         |
 |  SOCKS/HTTP listeners             |    |  listeners -> ingress queues       |
 |  stream_client  <->  ARQ          |    |  session table -> post-session     |
 |  dispatcher, packing              |    |   handlers -> deferred lanes ->    |
 |  balancer, resolver health, MTU   |    |   dial; stream_server <-> ARQ      |
 |  session init, ping, restart      |    |  transmit queue (mlq), packing     |
 +---------------|-------------------+    +-----------^------------------------+
                 +------- DNS queries / answers ------+
                      through untrusted resolvers
```

### Server

| component | state it keeps | operations | what makes it correct | module |
|---|---|---|---|---|
| UDP ingress, `server_ingress.go`, `server_runtime.go`, `server.go` | sockets, readers, workers, two bounded lanes, preferred codec | Run, read, decrypt by trial, enqueue, stop | a buffer has one holder; control is not starved by data; a stop drains | UdpIngress |
| replay guard and fragments, `server_replay.go`, `fragmentstore` | running requests, cached replies, sets of fragments | begin, finish, evict, Collect | a question runs once while retained, and only whole | TunnelQuery |
| session table, `session.go` | records by ID, index of SESSION_INIT signatures, next ID per format, counts | findOrCreate, ValidateAndTouch, Close, Cleanup | one session per INIT; index leads to live sessions; counts exact; acting by ID hits the session meant | SessionStore |
| session policy, `server_policy.go`, `vpnproto/session_accept.go` | ceilings announced to clients | accept, encode, apply | the client keeps to its server's ceilings | SessionInit |
| streams of a session, `session.go`, `server_postsession.go` | table, active list, snapshot, recently closed | open, packets, removal, cleanup | the lists agree; nothing done for an earlier stream of an ID hits the next | SessionStreams |
| deferred processor, `deferred_session.go` | per-lane worker, pending counts, generation, cancelled mark, running context | Enqueue, RemoveLane, FinalizeLane, RemoveSession, worker loop | a lane is serial; what was removed never runs live | DeferredLanes |
| stream set-up, `server_postsession.go`, `server_deferred.go`, `stream_server.go` | deferred keys, fragments, current stream of an ID, tombstones, connections | SYN handlers, dial task, attach, report, reset, removal | no orphaned connection; the verdict told is true | StreamSetup |
| upstream dialler, `socks5_upstream.go` | one attempt, its watchdog | dial, handshake, hand over | nothing outlives its context unowned | UpstreamDial |
| UDP association, `udp_association.go` | sockets by destination, names | write, dial, evict, close | caps hold; no socket is lost; a datagram goes where its name said | UdpEndpoints |
| transmit queue and answers, `mlq`, `server_session.go` | queues, census of keys, FEC blocks, turn | push, pop, pack, resend | census = contents; nothing stranded; a pong means idle | SessionTx |
| lookups, `dns_tunnel.go`, `inflight` | leader and waiters per key, cache | Acquire, Resolve, race, wait | each waiter is told; one race at a time | Resolve |
| connection limits, `server_conn_limit.go`, `server_tcp.go` | budgets and counters | accept, refuse, release | returned exactly once; plain keeps its share | ConnLimits |
| ARQ, `internal/arq/arq.go` (both sides) | buffers, sequence numbers, close flags, deferred close, timers | read, retransmit, ACK/NACK, receive, write, every close path | data in order, once; close loses nothing; no endpoint outlives its peer | ArqData, ArqClose |

### Client

| component | state it keeps | operations | what makes it correct | module |
|---|---|---|---|---|
| session lifecycle, `client.go`, `async_runtime.go`, `runtime_recovery.go` | session, cached INIT, restart flag and signal, streak | Run, start/stop, restart requests, recovery | no request lost, none survives its session; the scan runs alone | ClientSession |
| session handshake, `session.go`, `server_policy.go` | racers, accept, policy, compression | race, accept, apply, reject | the session is the server's answer to this INIT; policy in place when ready | SessionInit |
| local connections, `tcp_listener.go`, `socks_manager.go`, `http_proxy.go`, `tcp_stream.go` | connections, streams by ID, pending results | handshake, SYN, result, close, restart | one result each; every connection is owned | LocalConns |
| UDP associations, `socks_manager.go`, `generic_udp_fallback.go` | frame queue, worker, its stream | receive, retry, close | the newest datagram is kept; frames are whole | UdpAssociate |
| dispatcher, `dispatcher.go`, `stream_client.go` | queues, packet pool, cursor | choose, pack, send, stop | a packet has one owner; turns are fair | ClientDispatch |
| routes, `stream_resolver.go`, `balancer.go` | preferred resolver, plan, snapshot version | select, fail over, duplicate | only resolvers in use, as many as wanted | PacketPaths |
| record types, `carrier_selector.go` | counts and rotation per path | next, evaluate | a dropped type comes back; each has its turn | Carriers |
| resolver evidence, `resolver_stats.go`, `resolver_health.go`, `resolver_pacer.go` | samples, events, window, interval | sent, answered, timed out, disable, pace | each query counts once; only the silent are disabled | ResolverEvidence |
| resolver pool, `mtu.go`, `balancer.go`, `resolver_health.go` | records, published snapshot, rechecks, operating size | scan, publish, disable, recheck, restart | no resolver lost, none in use while out | ResolverPool |
| MTU search, `mtu.go` | bounds of a binary search per type | probe, judge, narrow | it finds the size, and only a proven one | MtuSearch |
| resolver transports, `tcp_data.go`, `transport.go`, `resolvertransport` | persistent connections, workers | dial, write, read, stop | no connection forgotten; own answers only | StreamPool, QueryStream, DoqSessions |
| DNS service, `dns_pending.go`, `dns_listener.go`, `dnscache` | groups, IDs, timers, cache and file | ask, answer, expire, save | each waiter told once, by its own reply | Lookups |

### CottenMax engine (`internal/cottenmax/engine`)

| component | what makes it correct | module |
|---|---|---|
| a stream and its packets, `session.go`, `stream.go`, `frames.go`, `ranges.go` | what is owed is in hand; no false breach; a close is graceful | SoarSession |
| the client's queries and paths, `client.go`, `tcp.go`, `discover.go` | counts in flight are exact; a silent server is noticed | SoarClient |
| sizes of a path, `client.go` | the size found is the network's | PathSize |
| the server's table, `server.go` | slots exact; no session lost | SoarServer |

The remaining packages are codecs, configuration and programs. `PROJECT.json`
lists every component with its files and whether it is modelled.

### How they interact, and what is hard

* A packet is handled by one of several **ingress goroutines** without a lock
  that spans the handler: each check (session open? stream known? recently
  closed? key claimed?) is a separate critical section, so any other handler,
  a closing stream or a closing session can come in between.
* What takes long (dials, lookups) runs as a **task of a lane** on another
  goroutine, with a budget that began when the packet came. Removal cancels it
  from outside at any point.
* Cleanup goes **by ID**, after the ID was freed and may have been given to
  another session or stream.
* The **close of a stream** is negotiated by five packet types which are lost and
  reordered among the data, while three goroutines at each end (reader, writer,
  receiver) and a retransmit loop with four deadlines look at overlapping flags.
* **Sequence numbers** are 16 bits and compared by their difference.
* The **client's restart** is a flag and a channel written by many goroutines and
  consumed by one.
* **Resolvers** are taken out and brought back by three actors (the scan, the
  health loop, the rechecks) that each read a snapshot and write another.
* **Connections** to resolvers and targets are dialled outside the lock that
  registers them, and closed by whoever comes first.

`PROJECT.json` lists the single places under "hazards", each at its line with
the properties that would catch it going wrong.

## 2. The modules

A module's variables carry the names of the fields they stand for, an action
the name of its function or of the step of it that one lock covers. What happens
outside a lock is a step for each access to shared state. The header of each
module names its files and what it leaves out.

### Abstract specifications

`SerialExecutor` is what the deferred processor promises: per lane, submissions
are taken or refused, at most one is active, a removal revokes what waits and
cancels what runs. `ReliableStream` is what the ARQ promises: the receiving
application gets the chunks the sending one wrote, in order, each once.

### The server

**DeferredLanes** (`deferred_session.go`). Each method body under
`p.mu` is one action (`Enqueue`, `RemoveLane`, `FinalizeLane`,
`RemoveSession`); what a worker does outside the lock is a step each (`Receive`,
`Begin`, `Return`, `Finish`, `Exit`). The subtle part is compaction: it drains a
worker's channel under `p.mu` while that worker may receive from it, so the
worker can take any task of the channel past the drain. `Compact` has a set
`stolen` of tasks received in that way, at most one per idle worker. An absent
map key is 0. `MaxGen` bounds the removals of a lane that stays pending.

**SessionStore** (`session.go`, `server_session.go`). One action per critical
section: `Reuse`, `TableFull` and `Create` are the outcomes of findOrCreate
(each with the lazy sweep of the reuse index that comes first), `Packet` is
ValidateAndTouch, `LookupNotice` then `CloseByNotice` are the two halves of
handleSessionCloseNotice, `Sweep` is Cleanup, `CleanUp` is
cleanupClosedSession, which runs outside the table's lock and knows only an ID.
Time is a counter. A serial number stands for the record and its cookie; the
options of an INIT are folded into its signature, but for its format and the codec it
came under, which findOrCreate compares with the record's (session.go:333). `harm`
records what was done to a session on account of an earlier one of its ID,
`mislaid` the signatures whose index entry an older session took, when it was closed
or swept, from one that could still be reused.

**StreamSetup** (`server_postsession.go`, `server_deferred.go`,
`stream_server.go`, `session.go`). One stream ID of one session, from the SYN to
the verdict. `Arrive ... Acknowledge` are the ingress handler, `Start ... Finish`
the task, `CloseStream ... CloserFragments` the close of a stream incarnation (by
its ARQ or by a reset), `CloseSession ... SessionLane` the close of the session. A SYN
for the marker of a UDP association is attached and reported without a dial, and
without the looks at the stream that follow one (server_deferred.go:335-377). The
lane runs one task at a time: that is what `DeferredLanes` shows, and here it
is assumed. `current` is `Streams[id]`, `stream` the incarnations, `tomb`
RecentlyClosed, `tracked` the deferred keys. `told` and `acked` are histories of
what the client was sent.

**SessionStreams** (`session.go`, `server_postsession.go`): the table of streams of
a session, the active list and its cached snapshot, the recently closed, the
retention cleanup and the polls that meet a closed stream. `StreamsMu` is taken
anew for each step. **SessionTx** (`server_session.go`, `mlq.go`,
`stream_server.go`): a poll is a sequence of steps over the streams' queues and the
queue of orphan resets, with the census of keys, the packing of control blocks and
the FEC blocks; between any two the ARQs push, acknowledge and close, and retry in
two steps: `Retry` and `HandleDataNack` decide and publish under `a.mu`, `PushTXPacket`
pushes after the unlock, so that an acknowledgement may come between and leave a copy
in the queue that a later poll drops (server_session.go:512-525). `Acked` and
`RemoveQueuedData` are the two halves of an acknowledgement. **TunnelQuery**
(`server_replay.go`, `fragmentstore`, handleDNSQueryRequest): a question's
fragments, sealed anew at each send, guarded by ciphertext, collected, queued.
**Resolve** (`dns_tunnel.go`, `inflight/manager.go`): leaders and waiters of one
question, which look in the cache (`Start`) and then lead or join (`Acquire`), the
race of the upstreams, an entry replaced for its age.
**UpstreamDial**, **UdpEndpoints**, **ConnLimits**: an attempt at a target and its
watchdog; the sockets of an association; the budgets of the stream listeners.
**UdpIngress** (`server_ingress.go`, `server_runtime.go`, `server.go`,
`vpnproto/payload.go`): Run opens the sockets, starts readers and workers and
takes everything down; `Receive` to `Enqueue` are a reader with a datagram, whose
codec is found by `Trial`; `DeferredStop` to `Return` are Run's way out. Each
access to a channel, to the preferred codec or to the context is a step.

### The ARQ

**ArqData** is one direction: `Read`/`PushRead` (ioLoop),
`Retransmit`/`PushRetransmit` (checkRetransmits), `ReceiveNack`/`PushResend`,
`Pop`/`Transmit` (the dispatcher), `ReceiveAck`, `ReceiveData`
(processReceivedDataBatch), `Flush`/`Write` (writeLoop), and the network, a set
of packets that are kept until lost. The pairs are the gaps between `a.mu` and the
transmit queue's lock. Chunks are known by their reading order, the code only
sees the number modulo the scene's `seqMod` (65536 in the code).

**ArqClose** is both endpoints of a stream and the packets between them. An
endpoint is a record whose fields are those of `ARQ`, a handler an operator from
records to records, so that a chain such as ReceiveControlAck ->
tryFinalizeRemoteEOF -> finalizeClose reads as in the code, and one handler is one
step. The gaps that are kept are those of the goroutines: ioLoop between its
check, its read and the insertion; writeLoop between emptying `rcvBuf`, writing,
and the look at an empty buffer; a packet between `rxChan` and `rcvBuf`. A
chunk is in `sndBuf` until acknowledged and can be sent again at any time.
`early` and `written` are histories.

### The client

**ClientSession** (`client.go` Run, `runtime_recovery.go`, `async_runtime.go`). The
main loop, `pc`, and the goroutines it starts, each at a place `at[w]`:
processors (which see answers, rejects and drops), the health loop, the ping
loop. `FlagRestart`/`SendSignal` are requestSessionRestart; `AskRecovery` to
`RewindStreak` requestTransportRecovery with an atomic per step;
`Answered`/`ClearStreak` recordTunnelResponse. `Following` is the order of the
loop's restart. An attempt at a session is one step with either outcome;
SessionInit opens it up: the racers are goroutines, the fields of an accept take
effect one by one before and after `sessionReady`.

**LocalConns** follows a local connection from the accept through the SOCKS or HTTP
handshake to the end of its stream; results come late, twice and to several
processors; a restart closes all. **UdpAssociate** is the loop and the worker
of a UDP association. **ClientDispatch** is the dispatcher with the encoder and
the writer behind it; a packet is an object of a pool. A retry is published and then
pushed (`Resend`, `PushResend`), an acknowledgement takes the sequence off and then its
queued copies (`Acked`, `RemoveQueuedData`), so `Take` meets obsolete copies
(dispatcher.go:200-205). **PacketPaths** chooses the
resolvers of a packet from snapshots that change between its reads. **Carriers**
chooses the record type. **ResolverEvidence** is what is held against a resolver,
query by query: what a prune or a failed answer finds is recorded later, and out of
order, under the time it fell due. **ResolverPool** is the scan, the published set, the
health loop and the rechecks, through restarts (`Restart`) and recoveries (`Recover`),
after which everything is scanned anew while rechecks of the old runtime are still
out. **MtuSearch** is the binary search of one resolver's sizes.
**StreamPool**, **QueryStream** and **DoqSessions** are the persistent connections of
the three transports. **Lookups** is the registry of pending DNS queries with the
cache and its file.

### CottenMax

**SoarSession** is one stream between a client and a server in numbered queries and
answers with SACK ranges, window grants, FINs and resets. **SoarClient** is the
client's side of the queries: which paths they go out on, when they are answered,
given up or late. **PathSize** is the search for a path's answer size. **SoarServer**
is the server's table with hellos, eviction, sweep and the stream slots.

### Composition and scenes

Parts that share no state are checked in one run, side by side: the MC module has
a variable `part`, and a behaviour is one of the part it drew. MCServer and
MCClient give the parts one set of variables `x1`, `x2`, ... in the order of their
declaration (a part with n variables keeps the others at 0); MCRuntime and
MCLanes give each its own. The modules that an MC module EXTENDS keep their
names, and those with theorems are extended, so that TLC evaluates their
assumptions: SessionStore, SoarServer, TunnelQuery and ConnLimits in MCServer, SoarClient,
PathSize, Resolve and Lookups in MCClient, ClientSession and ResolverPool in MCRuntime,
DeferredLanes in MCLanes. Modules that are extended together have no name in common, hence
`ResolveNext`, `SizesNext`, `LookupsNext`, `PoolNext` and the like. ArqData, ArqClose and StreamSetup have a
constant `Scenes`, a set of environments (what fails, which timers expire, how
much is sent, what closes, how large a window is), and a variable `scene` that is
chosen at the start; a run over a set of scenes is the union of the runs over
each.

## 3. What is checked

All runs exhaust their state space. Deadlock checking is off: in each of them some
part really may stop (everything was sent, closed or shut down, or a bound is
reached), except in `session_store_removal`, whose sweep is always possible.

### `server` (MCServer, Server.cfg)

| part | bounds | property |
|---|---|---|
| SessionStore | a signature sent in both formats, under a codec each, and another, four IDs (one legacy, three native), a table of two, reuse of one tick, three ticks, three sessions, closed ones not remembered | `TableExact` (TypeOK, IndexSound, CountsExact, SweepNeverLate), `OnePerFreshInit`, `NoMistakenIdentity` |
| SoarServer | one key, one ID, a table of one, two streams per session, one slot, a control queue of one, two sessions, two hellos waiting | `SlotsHeld` (TableTypeOK, SlotsExact, OpensOnce), `TableSound` (NoOrphan, HelloNamesOwn) |
| SessionTx | a stream of two sequences and one with a control packet, two orphan resets, two retries on their way at a time, each as data or as a resend; one stream with FEC in blocks of two under losses of three kinds, one retry at a time; carriers of one block or all, two polls | `AnswersSound` (CensusExact, NothingStranded, PongMeansIdle) |
| SessionStreams | one ID used twice, one recently closed | `StreamsSound` (ListsAgree, CleanStreamsServed, NothingOutlives) |
| ArqData | two chunks unacknowledged, a window of one or two; eight chunks over six wire numbers | `StreamsSound` (Carried, and written in order) |
| ConnLimits | three connections from two addresses, a budget of two, one encrypted | `ConnsSound` (Exact, Headroom) |
| UdpEndpoints | two writers of one name; one writer of two names; two sockets | `StreamsSound` (Counted, NoneLost, RightTarget) |
| UpstreamDial | one attempt | `StreamsSound` (NoneLeft, Watched, HandedOver) |
| TunnelQuery | one question of two fragments, sealed three times, two guards, one reply retained | `QuerySound` (GuardsExact, OnceWhole, AcksTrue) |
| UdpIngress | one worker, one or two sockets, lanes of 2 or 8, a burst of two (four in the code), three codecs, three datagrams | `StreamsSound` (HeldOnce, LanesKept, Drained, ResultTrue, SocketsRead, CodecTrue) |

A full table, a format's range gone through and a signature that expires before
and after its session closes all occur with three sessions over four IDs. One
slot for two sessions is the least in which a slot given back twice lets one in
over the limit; with one ID every session has the ID of the one before it, and of
two streams the second may open first and leave a gap. The entries for sessions
recently closed (`recent`) decide only what a packet that comes too late is
answered, which is outside the model: no guard reads them, so the run keeps none
(Retention is 0) and the theorems have any retention. Eight chunks over six
numbers use every number again while old copies are about.

* `OnePerFreshInit` - of a signature that comes in one format and with one codec there
  is at most one session whose reuse time lasts, and the index leads to it, at any
  time and after any reuse of IDs. Excepted are the signatures that are `mislaid`: a
  session made after the reuse time of an older one of the same INIT loses its entry
  when the older one goes (`OnePerInit` in section 5).
* `NoMistakenIdentity` - no close notice and no cleanup of a closed session harms
  another one until more sessions were created than the format has IDs.
* `PongMeansIdle` - a poll that nothing disturbed answers PONG only when nothing that
  it could carry was waiting. Excepted is a stream in which this poll dropped an
  obsolete copy: it goes on to the next stream without a second look, so what was
  behind that copy waits for the next poll.

### `client` (MCClient, Client.cfg)

| part | bounds | property |
|---|---|---|
| SoarSession | two units one way, one the other, windows of one and two, two queries in flight, one fault | `InHand`, `NoFalseError`, `GracefulClose` |
| SoarClient | a UDP and a TCP path, two transaction IDs, two in flight, two pending | `FlightSound`, `AnswersWatched` |
| PathSize | three size classes, trials earned by one success | `SizesFound` (Bracketed, TrialUseful, NamesRetried) |
| Lookups | two keys of one question, two waiters, two IDs, one tick, one crash | `LookupsSound` (CensusExact, OneFate, OwnAnswers, NoneMissed, FileAgrees) |
| Resolve | three requests, two upstreams, one tick | `ResolveSound` (HeldIsOpen, WaitersReached, OneLookup, TriedAll, AnswersGot) |
| ResolverEvidence | two queries over two IDs, both samples held, records up to two ticks late, a window of three, five ticks; three queries of which two samples are held, one tick | `EvidenceSound` (CountedOnce, Deserved, WindowSound, SilentForAWindow, SamplesBounded, PacedIsThrottled) |
| ClientDispatch | two data streams and the control stream, two packet objects; under a rate limit, data with a resend and an acknowledgement, or a ping with an acknowledgement and a reset, each with a close; without a limit, three packets beside one | `DispatchSound` (SingleOwner, AllReturned, FairTurns without a rate limit) |
| PacketPaths | three resolvers of two domains, two changes of the snapshot | `RoutesSound` (InUse, Enough, LeavesLoser) |
| Carriers | two types, four queries, one in flight | `RoutesSound` (NeverEmpty, Reexplored, EachTurn) |
| MtuSearch | sizes 1 to 5, two types, three samples, two losses | `RoutesSound` (Proven, NothingMissed, OnceEach) |
| StreamPool, QueryStream, DoqSessions | two workers and three jobs; two callers, three queries of which two share an ID; two exchanges | `RoutesSound` (Owned, NoneStuck, CutCloses, StopEnds; OwnAnswer, NoneLeft; OneDialer, NoneLeft) |
| SessionInit | two resolvers and two sessions with servers of other ceilings; three resolvers raced two at a time | `RoutesSound` (OwnSession, PolicyInPlace, CompressionAgreed, Rotates, WireTrue) |
| LocalConns | one connection with two processors and a restart; two connections | `LocalSound` (OneResult, Owned, NoneHalfOpen) |
| UdpAssociate | four datagrams, a queue of two, two streams | `LocalSound` (NewestKept, Framed, NoneLeft) |

The first instance of ResolverEvidence records events in another order than they fell
due in, so that they are inserted between others and move the start of a silence
back; the second evicts samples that timed out before those that did not.
FairTurns counts the packets taken from others while a stream has work: twice as many
as there are others, for a ping put off gives the next stream two turns in a row, and a
turn may end at a packet that was acknowledged meanwhile. A turn that ends for want of
a path has been one. The two transaction IDs of SoarClient are interchangeable, and so are the two
keys of Lookups: nothing compares either but for equality, and the properties are
invariants (SYMMETRY Alike). In SessionInit what is said of the encodings
(WireTrue) is of no state, so TLC evaluates it before the first session.

### `client_runtime` (MCRuntime, Runtime.cfg)

ClientSession: two processors, the health loop and the ping loop, two operating
points, the context done at any moment. Two processors: one may ask for a
restart while the other clears the streak; health and ping are the two that
decide on a recovery. ResolverPool: three resolvers with sizes 2, 2, 1, two of them
enough for a connect, two probes side by side, two recheck slots, a floor of two, one
stop of the runtime (a restart or a recovery that scans anew), one disable, none after a
recovery (`DisablesAfter`). With these the operating point moves up at the restart, a
recheck outlives the records and the scan it was launched under, and all the exceptions
that the properties name occur.

* `RestartsClean` - a request ends the session it was made in and no other, and
  resolvers are scanned with no goroutine of the runtime left.
* `CooldownRespected`, `FreshToken` - recoveries begin outside the cooldown of the
  last; a SESSION_INIT establishes one session.
* `RestartHappens`, `PersistentFailureEscalates` - a request is never lost; recovery
  asked for again and again with no answer in between leads to a scan.
* `PoolSound` - a resolver that is marked for a recheck has exactly one that is not
  stray (RechecksLive); auto-disable keeps its floor (FloorKept); once the scan let the
  connect go a resolver is not in use and disabled (OutIsOut), and what is published
  was decided (PublishedIsTrue); it is a size its path carries and the session can use
  (Carried). A resolver that was brought back or accepted while the operating point
  moved or a scan began is `outrun` and excused from Carried: a recheck that outlives
  its runtime writes the size of the moment it ends (resolver_health.go:942), and that
  this may be the wrong one is what the code does, not what the property rules out.

Weak fairness of the goroutines, of the loop and of time; strong fairness for a
goroutine's exit, for a `select` with the context done beside other work picks at
random. Nothing promises that a scan or an attempt succeeds.

### `lanes_live` (MCLanes, Lanes.cfg)

DeferredLanes: two workers, a channel of one, two tasks of one lane and one of
another in a session limited to two, two removals per pending lane: the smallest
instance in which a removal finds a lane with one task running or received and
one queued, a send is refused by a full channel and by the session's limit, and
a lane is re-opened by a retry on the other worker. Weak fairness of each worker
(goroutines are scheduled, a task function runs under a deadline).

* `LanesSound`, `Accounted`, `ImplementsPromise` - section 4.
* `TasksSettle` - accepted tasks are settled, and `wait()` returns.

StreamSetup beside it: two fragments, two repeats, a budget that can run out at
any step. `StrandedOnlyByOverload` - a client whose whole SYN was acknowledged gets
a verdict unless something closes. Assumed: goroutines that can go on do, and a
dial ends (it has a deadline). Not assumed: that a packet arrives again, or that
a budget lasts.

### `stream_setup` (MCStreamSetup, StreamSetup.cfg)

Seven scenes, two ingress goroutines (interchangeable), two incarnations, two
dials: a SYN and a repeat while the stream, the session or both close; the same
against a reset with a queue that may refuse; a SYN of two fragments with a
close, and with a repeat; a SYN for a UDP association while the stream and the session
close. Two incarnations are needed for a task to come back to a
stream that was replaced, two dials for a second connection to meet the first.

* `SetupSound` - types; an open upstream connection is in the hands of a task or of a
  stream whose cleanup is still to come; a stream reported as connected has its
  connection, and it is the one the ARQ uses.
* `SessionLeavesNothing` - a closed session has no stream and no connection when
  all goroutines are done.

### `arq_data_live` (ArqData, ArqDataLive.cfg)

Two chunks, a window of one, eight numbers, a network that loses at any moment.
`Carried` (a chunk leaves the sender only when the receiver has it, an item that
waits for its dequeue is on the way to one, the lead stays in the half of the
number space where old and new can be told apart), `InOrderOnce` (ReliableStream)
and `AllArrive`. Fairness: weak for goroutines that stay ready; strong for the
retransmit scan, the dispatcher and the delivery of one chunk's packets, because
the queue and the network are shared: what is sent again and again gets through.
The code waits for that a bounded time and then resets the stream (ArqClose).

### `arq_close`, `arq_close_live` (ArqClose, ArqClose.cfg, ArqCloseLive.cfg)

`arq_close`: three scenes - a chunk from the client whose local connection fails,
with the two-second grace; a chunk from the server with the drain deadline; no
data, a failing connection at the server and every timer. `NothingCutShort` - a
stream that closes by the handshake has written all the peer read before its
close_read, and close_read is sent only when the peer has the data.
`NoSurvivor` - with all timers running and nothing else promised (no delivery, no
goroutine but the retransmit loop), an endpoint whose peer closed closes too.

`arq_close_live`: a chunk to drain, no failures and no timers, a network that
loses at most one packet, every goroutine scheduled, packets sent again while
unanswered, and what is not lost delivered. `CleanClose` - both ends close once
both applications have finished. One loss is enough for each packet of the
handshake to be the one that is lost.

### Violations and mutants

`stream_setup_strand`, `session_store_removal`, `arq_close_shut` and
`dispatch_turns` each check one property that a test or a comment of the
repository states and that the code does not keep (section 5).

`PROJECT.json` names, for each property of each passing run, a change of one
definition that a slip in the code would amount to (a forgotten guard, a count
that is not lowered, the lowest ID for the next one). The mutated form stands
before the definition it replaces, and TLC finds the property violated with it.
Its "map" gives the lines each definition is translated from; a one-line helper
whose lines belong to a mapped definition is not listed on its own.

## 4. What is proved

TLAPS checks the theorems for every value of the constants under the assumptions
each module states:

| module | assumption | what it says, and why it holds |
|---|---|---|
| DeferredLanes | `TasksAssumption`, `LaneAssumption`, `SizeAssumption` | tasks are finite, a task has one lane and a lane one session; workers, channel and limit are positive (newDeferredSessionProcessor: no processor without a worker, a queue of at least one) |
| SessionStore | `StoreAssumption` | the IDs are split in two ranges that are not empty, as the two formats' are; the cap and the times are positive |
| ClientSession | `ConstantsAssumption` | the processors, the health loop and the ping loop are different goroutines; sizes are positive |
| ResolverPool | `PoolAssumption` | a list of resolvers that is not empty, a floor of at least one (three in the code); sizes, probes side by side, slots and thresholds are naturals |
| ArqData | `SizesAssumption` | the modulus is even, and window plus limit are below half of it: the window is at most 20000 (internal/client/client.go:813) or 6000 (internal/udpserver/server.go:761), the limit 0.8 of it and at least 50, half the modulus 32768 |
| ArqClose | `EndsAssumption` | two ends; any scenes |
| StreamSetup | `SetupAssumption` | finite sets of packets and goroutines; any scenes |
| SoarClient | `ClientAssumption` | transaction IDs are finite (16 bits), TCP paths are paths, limits are naturals, a path is suspended after at least one failure |
| SoarServer | `ServerAssumption` | stream IDs are a finite set of naturals, limits are naturals |
| PathSize | `SizeAssumption` | size classes, limits and thresholds are naturals, a full window is positive (trialFull) |
| Lookups | `LookupsAssumption` | keys and queries are finite, transaction IDs are positive and 1 is one, a shard holds at least one record (New replaces a size below); the rest are naturals |
| Resolve | `LookupAssumption` | requests are positive numbers, there is an upstream resolver (an empty list is replaced by a default), times are naturals |
| ConnLimits | `LimitsAssumption` | connections are finite, there is an address, the limits are naturals |
| TunnelQuery | `QueryAssumption` | a question has a fragment, the replay cache retains some bytes, an assembly's count has a width; the rest are naturals |

The bounds of the models (`MaxGen`, `MaxSerial`, `MaxTime`, `MaxStreams`,
`MaxDials`, `MaxCreated`, ...) are constants too, so a theorem holds for every
one of them. None of the invariants below is inductive alone; each proof
begins with the conjunction that is (`IInv`, or `TableInv`, `SizesInv`, `ResolveInv`,
`QueryInv`, `LookupsInv`, `PoolInv` and `LimitsInv` where one module holds the proofs of several components), and has one
lemma per action (or per helper from which the actions are built) that shows it
kept.

**DeferredLanesProofs.** `LanesAreSound`, `LanesAccounted` and `Refinement`, with
their parts as theorems of their own. That a lane is serial needs that all its
pending tasks are with the worker in `laneWorker` and that a worker holds
one task at a time; that the mapping outlives the tasks needs the counters to be
exact, for the entry is dropped when `lanePending` reaches 0; that revoked tasks
stay dead needs that a revoked task not yet begun is of a cancelled lane or an
older generation, and that a lane whose generation is forgotten has no
pending task. The counters need the cardinality lemmas at the top.
`CompactPreserves` is shared by the three removals, and is where the tasks
stolen from a channel that is being drained matter. `Refinement` shows that the
processor implements SerialExecutor; a start needs, by `IInv`, that
nothing of the lane is active.

**SessionTableProofs**, first part (SoarServer). `SlotsAreHeld` and `TableIsSound`. A handler works on a session and
the slots it gives back, and may be cut by a full control queue at any of its
frames, which closes the session in the middle. `PairKept(s, r, due)` says of the pair
`r` that what it freed is what it no longer holds, plus what is `due`; every
operation keeps it, and `ApplyKeeps` puts the pair back. The table is argued
about on its own: an entry leads to a session of that ID (`TableOwn`), and the
session a sweep is about to take off is closed (`SweptClosed`), so that an ID given
anew in between is not lost.

**SessionTableProofs**, second part (SessionStore). First the table (`TableIsExact` and its parts). Closing drops
an index entry by the signature of the record that an ID holds; soundness of the
index holds because an entry never leads to a record of another signature, which
needs that creating under a signature overwrites its entry and that a removed
record's entry goes with it. Then identity, from `IdInv`: `OneSessionPerInit` and
`IdentityIsNotMistaken`. The former says of every reachable state, however many IDs
were reused, that the index leads to each session whose reuse time lasts (`FreshIndex`),
if its INIT comes in one format and with one codec and is not `mislaid`: an entry is
dropped when its own time is over, when the session that has it goes, or when another
session of that signature goes, and the last is what `mislaid` records. The latter is
about histories and speaks of close notices and cleanups only (a packet is checked
against the cookie under the table's lock; the work it leads to is what a cleanup may
hit): everything that still knows a session by its ID (the table, a
close notice looked up, a cleanup to come, queued work) knows the same one
(`OneOwner`), because a format's IDs are handed out in order and one never handed
out is known to nothing (`InOrder`), as long as there are at least as many IDs as
sessions (`Ample`). `session_store_removal` shows what happens beyond that.

**SessionTableProofs**, third part (ConnLimits). `ConnsAreSound`, for any number of
connections, addresses and limits. That a counter equals what is held (`Exact`) is
proved of all seven counters at once, also those per address, which the limits are
checked against: a step takes one connection from one place to the next, each counter
follows what that connection holds (`Follows`), and `TalliedKept` counts. What the step
itself has to show is that the connection has a way through the places that fits
its listener (`Fitting`: a plain one never holds an encrypted slot; one that the
accept loop serves was counted there). `Headroom` needs also that
a listener accepts one connection at a time (`InTurn`): then whoever finds the shared
budget taken finds it taken by plain connections, by encrypted ones within their
ceiling, or by encrypted ones under way between their two budgets (`PlainHasShare`).

**ClientRuntimeProofs**, first part (ClientSession). `RestartsAreClean`, `CooldownHolds`, `TokensAreFresh`. `IInv`
says what each place of the loop implies for the session and for who still runs
(`LoopPlaces`), that a signal about to be sent was asked for in this session
(`AskedInSession`), and that a goroutine past the cooldown's check still meets the
flag of the one that began a cooldown since (`OneRecovery`): the loop takes the
flag down only when all have left.

**ClientRuntimeProofs**, second part (ResolverPool). `PoolIsSound`, for any number of
resolvers, of probes side by side and of slots. A mark is live because an ending
recheck takes the mark of a later one and leaves it stray in the same step (`Marks`).
The floor is checked in one step and the resolver taken out in another; `Room` says
that between them the set auto-disable works on stays large enough: the scan and
the rechecks only add to it (`ValidGrows`, `PrimaryGrows`), and the resolver being
disabled is not rechecked (`Apart`) and is where the step says (`Disabling`). For the
sizes, `Sized` is kept of the balancer's records and of the published copy, against
the size that a session start has published and not yet applied (`Now`), and
`Probed` says of a recheck under way that what it will write was probed at the
size the session still has, unless the operating point moved or a scan began. Before
the scan lets a connect go only the bound by the path is left: a recovery blanks the
records under rechecks that go on, and `Waiting` says what is then known of the
records. The operating point itself is a size of some resolver (`OperatingPointIs`): the maximum exists because
the order on scores is well founded on a finite set (`LeastExists`).

**ArqDataProofs.** `ChunksCarried`, `AcksAreTrue`, `OldAndNewToldApart` and
`Refinement`: ArqData implements ReliableStream. The code compares 16-bit numbers by
their difference; the invariant is about chunks, counted without a bound, and the
lemmas on remainders at the top tie the two: two chunks less than half the number
space apart are ordered by their numbers as by their counts. That everything
under way *is* that close is `NumbersSound`: the sender's lead is bounded by window
and limit (`Ahead`, `InFlight`), and older copies are excluded by the one thing
the model assumes of the network, `CopiesExpire` (section 6). Then an old number is
one that was delivered, an ACK names a chunk the receiver has for good
(`AcksTrue`), and an item leaves the sender only by such an ACK
(`NothingForgotten`).

**ArqCloseProofs.** `CutsNothingShort`: a stream that ends by the handshake lost no
chunk its peer read before close_read, and close_read is sent only when the peer
has those chunks or wants none. Handlers are operators on records, so the proof
is about records: `Fine(s, v)` says what is true of an endpoint's record `s` given
a view `v` of its peer; there is one lemma for each operator, and they compose as the
operators do. A chunk is *safe* when it is written, buffered or being written, or the
receiver is past wanting it; safe chunks stay safe, ACKs are sent only for
those (`Honest`), so a sender's empty buffer means that the peer is safe with all it
read. `StepKeeps` lifts this to the two ends and the network: a step of one
end only adds to what the other may rely on.

**StreamSetupProofs.** `SetupIsSound` and `NothingLeft`. A connection has one holder:
the task until the attach, then the stream until its closer has run (`Holding`,
`Apart`, `Linked`). That a closing session finds every stream it must close is
`Mapped`: an incarnation that exists and is not yet removed is the one in
`Streams[id]`, so a later one is made only once the earlier is out of the map.
From these, every open connection has an owner with its close still to come, and
once all closers are done nothing is open. That "connected" is true when told
(`Real`) needs the task's own steps excluded between attach and report.

**SoarClientProofs.** `FlightIsSound` and `AnswersAreWatched`. A query leaves
`inflight` exactly once, whichever of its answer, its deadline, an error, the end of
its link or an unknown session comes first. There are four shapes of step:
`TakenOff` (a live query ends), `Rest` (no live query is touched), `Sent` (a batch goes
out), and the end of a link, which gives up all that is on it. The liveness clock
needs that before the session is up only hellos are out (`HelloAlone`); that
nothing queued for one connection goes out on the next needs that a link's
queue is empty while it dials (`LinksClean`).

The same module has `LimitIsFound` (PathSize): the search for a path's answer
size stays between what was answered and what was not, never above the
network's limit while that does not fall, and tries nothing useless; names
that failed are tried again. The hard part is that a class may be judged by answers to queries sent before:
`SizesInv` says for each field of the record which classes it can name (`Sound`),
of the trials' windows how much of a window they have seen, and of the bag of
queries that it asks for classes there are.

**QueryProofs**, first part (Resolve). `Coalesced`: the entry of who waits is closed,
or a leader will close it, or it was replaced for its age; a question has one race except for entries replaced for
their age, a lookup fails only after every upstream was tried or the time was up,
and an answer told is one that a leader got and that was not cancelled. A leader
lives on after its entry was replaced, so
`Entered` gives each entry at most one leader and `Current` says which leader
leads the entry of the map. A waiter is told the value of its entry; `Told` traces
each value, in an entry, in the cache or in a reply, back to a request that got it
from upstream.

**QueryProofs**, second part (TunnelQuery). `QuestionsRunOnce`: the replay cache is exact
and within its limits, a question is executed only whole and once per
retention, and only the fragments of a question found whole are acknowledged. The cache needs that the guard of a
request under way is running and is never evicted (`Owned`), and that the order
lists the completed guards, each once (`Ordered`): emptying it from the front then
frees as many places and bytes as it drops (`Counted`). Executed once:
each time a question is found whole its completion is put off by the retention, so
`whole[q] * KeptTicks <= completed[q]`, and whole questions bound the runs and
those queued. Only whole: each fragment held `Came` in a packet with its payload.

**QueryProofs**, third part (Lookups). `LookupsAnsweredOnce`, for any keys, queries and
IDs. A query that came waits in the group of its key or was told once
(`WaitersPlaced`), and its group is the one made under its serial, with its timer
armed or run off (`GroupsIndexed`, `GroupsTimed`). Replies are matched by ID and
question only, so a late one may answer a later group: an ID leads to the last
group made under it (`IdsIndexed`) and is issued once in a cycle (`IdsCycled`), hence
the group that a late reply meets is of a later cycle, and a reply comes under a
key of its question (`HonestInv`). For the cache, `ShardFine` ties the order of use and
the count to the entries through every helper. Each change of the entries marks
them dirty and moved (`Marked`), so the snapshot of a save is the cache unless it
moved since (`TempAgrees`), and what the rename leaves clean is in the file. A
clear drops the pending records and keeps the order of the others (`ClearedShard`); a
restart brings back as many of the live records as fit, in any order of use
(`LoadedShard`).

Only model-checked:

* all liveness (`RestartHappens`, `PersistentFailureEscalates`, `TasksSettle`,
  `StrandedOnlyByOverload`, `AllArrive`, `NoSurvivor`, `CleanClose`): fairness and
  ENABLED are beyond the prover;
* SoarSession's `InHand`, `NoFalseError` and `GracefulClose`, which rest on folds over a
  packet's frames: what a fold computes needs an induction over data;
* the parts that the MC modules instantiate side by side (`AnswersSound`,
  `StreamsSound`, `EvidenceSound`, `DispatchSound`, `RoutesSound`, `LocalSound`), but
  for ArqData's share of `StreamsSound`. ResolverEvidence, ClientDispatch and
  SessionTx filter their lists with `SelectSeq` and folds (ClientDispatch also searches
  by halving): what these give needs induction over data again, unless they are
  restated without recursion, as Lookups does for its order of use. Section 7 says
  which come next.

## 5. Where the code does not do what it says

Checked as runs that end in a violation:

* **A SYN acknowledged and never answered** (`NotStranded`).
  `handleSOCKS5SynRequest` claims the packet's key, queues a task and
  acknowledges. A repeat that finds the key claimed is acknowledged at once. If
  the lane's queue then refuses the first one's task, the key is given back, the
  client has its ACK and stops repeating, and nobody dials.
  `StrandedOnlyByOverload` shows that there is no other way in the model, which has
  neither the expiry of fragments (fragmentstore/store.go:191-195) nor the idle cleanup
  of deferred state (server_session.go:320-328); a client whose acknowledged fragments
  expire before the last comes may be left without a verdict too.
* **Work of the next session cancelled** (`RemovalCancelsOwn`).
  `cleanupClosedSession` removes keys, fragments and lanes of an ID that is
  already free. When the IDs of a format have all been gone through, a new
  session may hold it.
* **The writing side shut with a chunk unwritten** (`DrainsBeforeShutting`).
  `writeLoop` finds `rcvBuf` empty under one lock and decides to shut the local
  connection under the next; a chunk and the close_read may have come between.
* **A stream passed over for ever** (`FairTurns`, `dispatch_turns`). The dispatcher
  moves its cursor when it chooses a stream, and under a query rate limit sleeps
  and chooses again (dispatcher.go:168), so the stream whose turn it was is
  skipped; with two busy streams one can starve. dispatcher.go:43 says "fair
  Round-Robin". A PING deferred at 271-368 likewise keeps stream 0 chosen. Without a
  rate limit `DispatchSound` has FairTurns as one of its parts.

The models also show the following; the properties are in the modules and no
configuration of its own is kept for them. Put the property in place of the one
of the configuration named.

* `TombsAreDead` (StreamSetup, scenes `AllClosings`):
  removeStream deletes the stream and notes it as recently closed under two
  locks; a repeated SYN in between makes a live stream that is on record as
  closed.
* `KeysCleared` (StreamSetup, scenes `AllClosings`): a SYN claimed after
  cleanupClosedSession cleared the keys and before it removed the lanes leaves a
  key, which the next session of that ID finds claimed.
* `OnePerInit` (SessionStore, the INITs of one signature in one format,
  `ReuseTTL = 1`, `IdleTimeout = 3`): an INIT repeated after its reuse time makes a
  second session; when the first goes idle it takes the index entry, and the next
  repeat makes a third within one reuse time. `OnePerFreshInit` excepts that
  signature as `mislaid`.
* `AdvertisesMeasured` (ClientSession): the third failed attempt makes a recovery
  that scans again and does not drop the cached SESSION_INIT, so the next session
  is asked for with the MTU from before the scan; the same when
  recomputeMTUOperatingPoint settles on another point between attempts.
  session.go:257 says that the payload "reports measured path capacity".
* `DrainsBeforeClosing` (ArqClose, scenes `OneEach`): a late repeat of a DATA
  packet meets an endpoint that has closed and is answered with a reset; the
  peer drops chunks it acknowledged and had not written.

Met while modelling, and followed as the code has it:

* *Session policy.* handleSessionInitRequest always sets policy.MaxDownloadMTU with
  UDP, so a policy block is always sent, against session_accept.go:18-20; unset
  interval floors then arrive as 50 ms. Compression is decided after
  `sessionReady` (session.go:226-227), and once off it stays off.
* *Local proxies.* The check of MAX_ACTIVE_STREAMS and the creation of the stream
  are two steps, `get_new_stream_id` reserves nothing, and an HTTP CONNECT makes no
  admission check at all. handleSOCKSConnect leaves the connection open when no
  stream ID is free. StartPaused covers the SOCKS and TCP listeners only, so a
  CONNECT's stream is not paused as http_proxy.go:26 says.
* *Resolvers.* GetUniqueConnections(2 x target) advances the cursor by as much as it
  looks at, so the same resolvers may always come first
  (client_config.toml.simple:231 promises rotation). A plan built from one snapshot
  is cached under the next one's version; PacketPaths excuses that packet as
  `crossed`. A least-loss resolver with a bad score is not sampled again. With
  probes side by side, one acceptance's publication (mtu.go:250) also publishes a
  resolver accepted a moment before, as a primary, before its own publication makes
  it a reserve (mtu.go:247). A disable that counted it in between
  (resolver_health.go:125) leaves fewer than the floor; `FloorKept` excuses that as
  `demoted`.
* *Listeners.* A transient error of accept ends that socket's loop
  (multi_listener.go:58-74). A reader of the UDP ingress that fails ends itself
  only. The control lane has no room when the total is below 8.
* *Limits.* reserve takes the parent's slot first, so an encrypted attempt that is
  refused holds it for a moment (server_conn_limit.go:128).
* *Lookups.* inflight.Resolve ends whatever lookup its key holds (manager.go:82), so a
  leader that answers after its timeout resolves its successor's; OneLookup excuses
  lookups around it as `overran`.
* *Polls.* A poll that drops an obsolete copy goes on to the next stream
  (server_session.go:512-525) and may answer PONG while that stream has data;
  PongMeansIdle excuses that stream as `stale`.
* *Streams of a session.* removeStream goes by ID, and may take a stream made since
  out of the table. Between the Unlock after a failed write and the close of a
  persistent connection another worker may write after a cut frame (tcp_data.go).
* *CottenMax.* When every path is suspended in one round, "never suspend every
  path" (engine/client.go) can fail. forgetHelloLocked stops at the first match;
  `HelloNamesOwn` shows that there is one.

## 6. Abstractions

* **Packets** are records of what a handler tells apart. Encoding, encryption,
  compression and erasure coding are left out: the models
  start from authenticated, decoded packets. Sizes are units or classes.
* **The network** is a set. In ArqData a packet stays until lost, so it may be
  delivered any number of times; in ArqClose it is taken out when delivered and
  retransmission puts it back. A packet that is never delivered is lost, so a
  safety property holds for lossy networks without a step for the loss.
* **Time.** A deadline may pass at any moment, or never when a
  scene excludes it; SessionStore, Lookups, Resolve and ResolverEvidence count
  ticks. What depends on how deadlines compare (that inactivity comes
  after the grace) is not covered, nor are back-offs and delays.
* **CopiesExpire** (ArqData): the reader waits while a copy of a chunk half the
  number space back is about. The code has no such guard; it relies on
  32768 packets taking longer than DNS keeps one.
* **ArqClose** takes a handler as one step although it takes and leaves
  `a.mu` a few times; splits that matter between goroutines are kept (section 2).
* **StreamSetup** has one stream ID and no expiry of tombstones or fragments;
  the idle cleanup of deferred state, a reset for a stream that is closing
  already, the immediate rejection of an invalid target and the plain-TCP SYN (which
  shares the claim, the lane and the attach with the SOCKS one) are left out. Fragments
  are a set; conflicting totals are in TunnelQuery. Of `Abort` (stream_server.go:397-433)
  the branch that closes the connection alone is not modelled: the reason it looks for
  is not the one that a closing session gives (server_session.go:302), and the
  cleanup of terminal streams calls it on streams whose ARQ closed a retention ago and
  whose resources are released.
* **SessionStore** takes a touch and the sweep's look at the activity as one
  step each. The tracker of invalid cookies is left out. In **SessionTx**
  packControlBlocks is one step, and a stream has one acknowledgement under way; in **SessionStreams** a stream ID is forgotten
  among the recently closed only when no earlier handler still runs.
* **ClientSession**: waits, the close burst and the log-based start are left out; a
  scan that fails changes nothing and is no step. **SessionInit** has one
  format, reduces the policy to its MTU ceilings and the compression floor, and
  allows a stray accept from an earlier INIT.
* **UdpIngress** leaves out gauges and the panic of a cleanup tick;
  ParseFromLabelsAny's fallback is folded into `Trial`. **UdpEndpoints** leaves out
  the framing buffer (dropped when longer than a frame) and last-use times.
  **UpstreamDial** has one attempt; its watchdog may act late.
* **ClientDispatch** scans in one step, takes the first free object and merges the
  channels of the encoders; stream IDs are not reused. New data is stored and pushed in
  one step, one retry and one acknowledgement are under way at a time, and what is pushed
  to a stream closed meanwhile is left to the collector, as in the code. **LocalConns** has one chunk
  of data, and a restart with the processors stopped; **UdpAssociate** leaves the
  relay of responses out.
* **Lookups**, **Resolve**, **TunnelQuery**: the dispatch of a question is merged into
  `ProcessQuery`; one shard of the cache, and in the runs one question.
  A stop clears the groups and the pending records in one step: its listeners have
  stopped by then.
* **ResolverEvidence** and **ResolverPool** take weights and order of health as any. Whether
  a resolver that may be disabled is spared for the floor or for a transport recovery
  (resolver_health.go:415-437) depends on the others, and is a choice in ResolverEvidence.
  A recovery while the background scan still runs, and a connect that is let go at no
  size, are left aside in ResolverPool.
  **Carriers** evaluates in one step; **MtuSearch** takes a path that carries every
  size up to its limit, and **PathSize** one that loses by size.
* **StreamPool**, **QueryStream**, **DoqSessions** leave TLS, framing and blocking
  sends out.
* **SoarSession** has one stream and no packet FEC, and neither pacing nor the
  choice of carriers; **SoarClient** splits the pass of `run()` into its rounds;
  **SoarServer** leaves out response rate limits and held answers.
* Codecs, configuration, I/O and terminal code have no model; `PROJECT.json` gives
  the reason for each.

## 7. Plan

What the directory has: the modules of section 2 and the proofs of section 4. Next,
in this order:

1. Proofs about the parts that keep counts across several owners: SessionTx
   (`CensusExact`), SessionStreams (`ListsAgree`).
2. The hazards that no property covers yet: the idle cleanup of deferred state,
   which ignores the activity stamp it is given (server_session.go:320); a stalled
   session judged without the table's lock and closed by ID
   (response_budget.go:93); an empty fragment that is counted each time it comes
   (fragmentstore/store.go:99).
3. The NACK scan and `minRetransmitAt` with clocks; erasure coding blocks.

## 8. Running

    tlc -workers 2 -config StreamSetup.cfg MCStreamSetup.tla
    tlapm DeferredLanesProofs.tla

| configuration | module |
|---|---|
| Server.cfg, SessionStoreRemoval.cfg | MCServer |
| Client.cfg, DispatchTurns.cfg | MCClient |
| Runtime.cfg | MCRuntime |
| Lanes.cfg | MCLanes |
| StreamSetup.cfg, StreamSetupStrand.cfg | MCStreamSetup |
| ArqDataLive.cfg | ArqData |
| ArqClose.cfg, ArqCloseLive.cfg, ArqCloseShut.cfg | ArqClose |

Every run ends within five minutes on two workers. The eight `...Proofs` modules
are checked by `tlapm` without options; the longest takes a few minutes.
