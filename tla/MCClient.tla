------------------------------ MODULE MCClient ------------------------------
(* The parts of the CottenMax client and of the DNS service, which share   *)
(* no state, checked side by side: a behaviour is one of the part it drew. *)
(* The variables of a part that is an instance are x1, x2, ... in the      *)
(* order of their declaration.                                             *)
EXTENDS SoarClient, PathSize, Resolve, Lookups

CONSTANTS t1, t2, plain, dnssec

(* One transaction ID is as good as another, and so is one key.            *)
Alike == Permutations(Txns) \cup Permutations(Keys)

VARIABLES
    part,
    x1, x2, x3, x4, x5, x6, x7, x8, x9,
    x10, x11, x12, x13, x14, x15, x16, x17, x18, x19, x20, x21

slots == <<x1, x2, x3, x4, x5, x6, x7, x8, x9,
           x10, x11, x12, x13, x14, x15, x16, x17, x18, x19, x20, x21>>

(* A part with n variables keeps the others at 0.                          *)
Zero(n) ==
    /\ (n < 1 => x1 = 0) /\ (n < 2 => x2 = 0) /\ (n < 3 => x3 = 0) /\ (n < 4 => x4 = 0)
    /\ (n < 5 => x5 = 0) /\ (n < 6 => x6 = 0) /\ (n < 7 => x7 = 0) /\ (n < 8 => x8 = 0)
    /\ (n < 9 => x9 = 0) /\ (n < 10 => x10 = 0) /\ (n < 11 => x11 = 0) /\ (n < 12 => x12 = 0)
    /\ (n < 13 => x13 = 0) /\ (n < 14 => x14 = 0) /\ (n < 15 => x15 = 0) /\ (n < 16 => x16 = 0)
    /\ (n < 17 => x17 = 0) /\ (n < 18 => x18 = 0) /\ (n < 19 => x19 = 0) /\ (n < 20 => x20 = 0)
    /\ (n < 21 => x21 = 0)
Still(n) ==
    /\ (n < 1 => x1' = 0) /\ (n < 2 => x2' = 0) /\ (n < 3 => x3' = 0) /\ (n < 4 => x4' = 0)
    /\ (n < 5 => x5' = 0) /\ (n < 6 => x6' = 0) /\ (n < 7 => x7' = 0) /\ (n < 8 => x8' = 0)
    /\ (n < 9 => x9' = 0) /\ (n < 10 => x10' = 0) /\ (n < 11 => x11' = 0) /\ (n < 12 => x12' = 0)
    /\ (n < 13 => x13' = 0) /\ (n < 14 => x14' = 0) /\ (n < 15 => x15' = 0) /\ (n < 16 => x16' = 0)
    /\ (n < 17 => x17' = 0) /\ (n < 18 => x18' = 0) /\ (n < 19 => x19' = 0) /\ (n < 20 => x20' = 0)
    /\ (n < 21 => x21' = 0)

(* The client sends twice what the server does, through half its window.   *)
Each(c, s) == [e \in {"client", "server"} |-> IF e = "client" THEN c ELSE s]

Soar == INSTANCE SoarSession WITH
    end <- x1, pending <- x2, held <- x3, abandoned <- x4, relay <- x5, queries <- x6,
    answers <- x7, faults <- x8,
    Length <- Each(2, 1), InitialWindow <- 1, Window <- Each(1, 2), Rooms <- {1},
    AnswerRoom <- 1, Inflight <- 2, Faults <- 1, Packets <- Each(2, 2)

(* Two keys that differ in policy only.                                    *)
OneQuestion == [k \in Keys |-> 1]

(* Two queries to one resolver, whose records may come late and out of     *)
(* order; and three, past the cap on what is held of them.                 *)
Evidence == INSTANCE ResolverEvidence WITH
    clock <- x1, sent <- x2, pending <- x3, noting <- x4, claimed <- x5, passed <- x6,
    judging <- x7, events <- x8, since <- x9, valid <- x10, interval <- x11,
    pacedUntil <- x12, credited <- x13, blamed <- x14, answered <- x15, crossed <- x16,
    IdCount <- 2, MaxQueries <- 2, SoftCap <- 1, HardCap <- 2, Timeout <- 1, Grace <- 1,
    TTL <- 2, Window <- 3, MinObservations <- 2, Lag <- 2, Late <- 2, Base <- 2, Cap <- 3,
    MaxTime <- 5

Crowded == INSTANCE ResolverEvidence WITH
    clock <- x1, sent <- x2, pending <- x3, noting <- x4, claimed <- x5, passed <- x6,
    judging <- x7, events <- x8, since <- x9, valid <- x10, interval <- x11,
    pacedUntil <- x12, credited <- x13, blamed <- x14, answered <- x15, crossed <- x16,
    IdCount <- 3, MaxQueries <- 3, SoftCap <- 1, HardCap <- 2, Timeout <- 1, Grace <- 1,
    TTL <- 2, Window <- 2, MinObservations <- 2, Lag <- 2, Late <- 1, Base <- 2, Cap <- 3,
    MaxTime <- 1

(* What is left for two data streams, resends, acknowledgements, pings,    *)
(* resets and closes to do.                                                *)
Load(one, two, resends, reports, pings, resets, closes) ==
    [data |-> <<one, two>>, resends |-> resends, acks |-> reports, pings |-> pings, resets |-> resets,
     closes |-> closes]

Dispatcher == INSTANCE ClientDispatch WITH
    open <- x1, queue <- x2, orphan <- x3, load <- x4, pool <- x5, pending <- x6,
    left <- x7, at <- x8, pick <- x9, cursor <- x10, item <- x11, channel <- x12,
    encoded <- x13, live <- x14, cancelled <- x15, spent <- x16, passed <- x17,
    abandoned <- x18, retrying <- x19, removing <- x20,
    Highest <- 2, Objects <- {1, 2}, MaxBlocks <- 2, Room <- 1, Limited <- TRUE,
    Loads <- {Load(1, 0, 1, 1, 0, 0, 1), Load(0, 0, 0, 1, 1, 1, 1)}

(* One stream always has work while the other waits with one packet,       *)
(* without a rate limit and with one.                                      *)
Rota == INSTANCE ClientDispatch WITH
    open <- x1, queue <- x2, orphan <- x3, load <- x4, pool <- x5, pending <- x6,
    left <- x7, at <- x8, pick <- x9, cursor <- x10, item <- x11, channel <- x12,
    encoded <- x13, live <- x14, cancelled <- x15, spent <- x16, passed <- x17,
    abandoned <- x18, retrying <- x19, removing <- x20,
    Highest <- 2, Objects <- {1, 2}, MaxBlocks <- 2, Room <- 1, Limited <- FALSE,
    Loads <- {Load(3, 1, 0, 0, 0, 0, 0)}

Turns == INSTANCE ClientDispatch WITH
    open <- x1, queue <- x2, orphan <- x3, load <- x4, pool <- x5, pending <- x6,
    left <- x7, at <- x8, pick <- x9, cursor <- x10, item <- x11, channel <- x12,
    encoded <- x13, live <- x14, cancelled <- x15, spent <- x16, passed <- x17,
    abandoned <- x18, retrying <- x19, removing <- x20,
    Highest <- 2, Objects <- {1, 2}, MaxBlocks <- 2, Room <- 1, Limited <- TRUE,
    Loads <- {Load(4, 1, 0, 0, 0, 0, 0)}

Routes == INSTANCE PacketPaths WITH
    valid <- x1, version <- x2, marked <- x3, moving <- x4, back <- x5, preferred <- x6,
    streak <- x7, cooling <- x8, plan <- x9, sel <- x10, copies <- x11, seen <- x12,
    steady <- x13,
    Resolvers <- {1, 2, 3}, Primary <- {1, 2}, Domain <- <<1, 2, 1>>, Target <- 2,
    Diverse <- TRUE, Threshold <- 2, MaxChanges <- 2

Scan == INSTANCE MtuSearch WITH
    fits <- x1, leg <- x2, type <- x3, stage <- x4, left <- x5, right <- x6, best <- x7,
    passed <- x8, failed <- x9, tried <- x10, proven <- x11, losses <- x12,
    cancelled <- x13, result <- x14,
    Floor <- 1, Highest <- 5, Types <- 2, Capacity <- <<5, 2>>, Samples <- 3,
    Allowed <- 1, Retries <- 1, MaxLosses <- 2

Rotation == INSTANCE Carriers WITH
    sent <- x1, success <- x2, active <- x3, cursor <- x4, bulkCursor <- x5, due <- x6,
    flying <- x7, absent <- x8, skipped <- x9,
    Paths <- {"p"}, Types <- {1, 2}, Bulk <- {1}, MinSamples <- 2, Rate <- 50,
    MaxSent <- 4, MaxFlying <- 1, MaxAbsent <- 2

OneConn == INSTANCE LocalConns WITH
    mode <- x1, conn <- x2, strm <- x3, table <- x4, lastId <- x5, remembered <- x6,
    job <- x7, net <- x8, server <- x9, rst <- x10, resets <- x11,
    Conns <- {1}, Workers <- {1, 2}, Ids <- {1}, MaxActive <- 1, MaxResets <- 1

TwoConns == INSTANCE LocalConns WITH
    mode <- x1, conn <- x2, strm <- x3, table <- x4, lastId <- x5, remembered <- x6,
    job <- x7, net <- x8, server <- x9, rst <- x10, resets <- x11,
    Conns <- {1, 2}, Workers <- {1}, Ids <- {1}, MaxActive <- 1, MaxResets <- 0

Association == INSTANCE UdpAssociate WITH
    loop <- x1, received <- x2, queue <- x3, cancelled <- x4, worker <- x5, frame <- x6,
    active <- x7, shared <- x8, pipes <- x9, listed <- x10, started <- x11,
    onStream <- x12,
    MaxFrames <- 4, Capacity <- 2, MaxStreams <- 2

Streams == INSTANCE StreamPool WITH
    phase <- x1, jobs <- x2, control <- x3, data <- x4, next <- x5, worker <- x6,
    table <- x7, conn <- x8, victims <- x9, tracked <- x10,
    Workers <- {1, 2}, Stripes <- 1, MaxJobs <- 3, ControlCap <- 1, DataCap <- 1,
    MaxConns <- 2

(* Two queries share an ID. *)
Stream == INSTANCE QueryStream WITH
    closed <- x1, current <- x2, holder <- x3, caller <- x4, asked <- x5, conn <- x6,
    dialed <- x7, strays <- x8, result <- x9,
    Callers <- {1, 2}, MaxQueries <- 3, Id <- <<1, 1, 2>>, MaxConns <- 3, MaxStray <- 1,
    Attempts <- 2

Doq == INSTANCE DoqSessions WITH
    closed <- x1, entry <- x2, sessions <- x3, session <- x4, exchange <- x5,
    cancelled <- x6, closing <- x7,
    Exchanges <- {1, 2}, MaxSessions <- 3

(* A session, and the next with a server that has other ceilings, by one   *)
(* UDP resolver and by TCP; and the rotation over three of them.           *)
Strict == [up |-> 3, down |-> 4, floor |-> 2]

Joining == INSTANCE SessionInit WITH
    at <- x1, left <- x2, found <- x3, synced <- x4, policy <- x5, comp <- x6, init <- x7,
    cursor <- x8, racers <- x9, busy <- x10, got <- x11, ready <- x12, sid <- x13,
    inits <- x14, config <- x15, made <- x16, events <- x17, valid <- x18, query <- x19,
    reply <- x20, asks <- x21,
    Resolvers <- {1, 2}, Limit <- <<4, 0>>, Race <- 2, Attempts <- 1,
    Points <- {[up |-> 2, down |-> 3], [up |-> 5, down |-> 5]}, Configured <- 1, Low <- 2,
    Servers <- {[up |-> 0, down |-> 0, floor |-> 0], Strict}, Allowed <- {"up", "down"},
    Widest <- 4, MaxInits <- 2, MaxMade <- 2, MaxEvents <- 1

Asking == INSTANCE SessionInit WITH
    at <- x1, left <- x2, found <- x3, synced <- x4, policy <- x5, comp <- x6, init <- x7,
    cursor <- x8, racers <- x9, busy <- x10, got <- x11, ready <- x12, sid <- x13,
    inits <- x14, config <- x15, made <- x16, events <- x17, valid <- x18, query <- x19,
    reply <- x20, asks <- x21,
    Resolvers <- {1, 2, 3}, Limit <- <<4, 4, 4>>, Race <- 2, Attempts <- 2,
    Points <- {[up |-> 2, down |-> 3]}, Configured <- 1, Low <- 2,
    Servers <- {[up |-> 0, down |-> 0, floor |-> 0], Strict}, Allowed <- {"up", "down"},
    Widest <- 4, MaxInits <- 1, MaxMade <- 1, MaxEvents <- 1

(* A part at rest is where it starts; the network is the narrowest.        *)
Resting == Init /\ SizesInit /\ ResolveInit /\ LookupsInit

PartsInit == Resting /\ (
    \/ part \in {"flight", "sizes", "upstream", "dns"} /\ Zero(0)
    \/ part = "soar" /\ Soar!Init /\ Zero(8)
    \/ part = "evidence" /\ Evidence!Init /\ Zero(16)
    \/ part = "crowded" /\ Crowded!Init /\ Zero(16)
    \/ part = "dispatch" /\ Dispatcher!Init /\ Zero(20)
    \/ part = "rota" /\ Rota!Init /\ Zero(20)
    \/ part = "routes" /\ Routes!Init /\ Zero(13)
    \/ part = "scan" /\ Scan!Init /\ Zero(14)
    \/ part = "carriers" /\ Rotation!Init /\ Zero(9)
    \/ part = "one conn" /\ OneConn!Init /\ Zero(11)
    \/ part = "two conns" /\ TwoConns!Init /\ Zero(11)
    \/ part = "udp" /\ Association!Init /\ Zero(12)
    \/ part = "streams" /\ Streams!Init /\ Zero(10)
    \/ part = "exchange" /\ Stream!Init /\ Zero(9)
    \/ part = "doq" /\ Doq!Init /\ Zero(7)
    \/ part = "joining" /\ Joining!Init
    \/ part = "asking" /\ Asking!Init) /\ (part # "sizes" => fits = 0)
    /\ (part # "dns" => ~engine /\ issued = {})

PartsNext == UNCHANGED part /\ (
    \/ part = "flight" /\ Next /\ UNCHANGED <<sizesVars, resolveVars, lookupVars, slots>>
    \/ part = "sizes" /\ SizesNext /\ UNCHANGED <<vars, resolveVars, lookupVars, slots>>
    \/ part = "upstream" /\ ResolveNext /\ UNCHANGED <<vars, sizesVars, lookupVars, slots>>
    \/ part = "dns" /\ LookupsNext /\ UNCHANGED <<vars, sizesVars, resolveVars, slots>>
    \/ UNCHANGED <<vars, sizesVars, resolveVars, lookupVars>> /\ (
        \/ part = "soar" /\ Soar!Next /\ Still(8)
        \/ part = "evidence" /\ Evidence!Next /\ Still(16)
        \/ part = "crowded" /\ Crowded!Next /\ Still(16)
        \/ part = "dispatch" /\ Dispatcher!Next /\ Still(20)
        \/ part = "rota" /\ Rota!Next /\ Still(20)
        \/ part = "routes" /\ Routes!Next /\ Still(13)
        \/ part = "scan" /\ Scan!Next /\ Still(14)
        \/ part = "carriers" /\ Rotation!Next /\ Still(9)
        \/ part = "one conn" /\ OneConn!Next /\ Still(11)
        \/ part = "two conns" /\ TwoConns!Next /\ Still(11)
        \/ part = "udp" /\ Association!Next /\ Still(12)
        \/ part = "streams" /\ Streams!Next /\ Still(10)
        \/ part = "exchange" /\ Stream!Next /\ Still(9)
        \/ part = "doq" /\ Doq!Next /\ Still(7)
        \/ part = "joining" /\ Joining!Next
        \/ part = "asking" /\ Asking!Next))

allVars == <<part, vars, sizesVars, resolveVars, lookupVars, slots>>

PartsSpec == PartsInit /\ [][PartsNext]_allVars

TurnsSpec ==
    /\ part = "turns" /\ Resting /\ fits = 0 /\ ~engine /\ issued = {} /\ Turns!Init /\ Zero(20)
    /\ [][UNCHANGED <<part, vars, sizesVars, resolveVars, lookupVars>> /\ Turns!Next /\ Still(20)]_allVars

(* What the parts promise, under the names that they have there.           *)

(* What a stream still owes its peer is in a queue or in a packet that is  *)
(* not yet declared lost (engine/session.go, stream.go).                   *)
InHand         == part = "soar" => Soar!InHand
(* An honest peer whose packets are lost, late or repeated is never taken  *)
(* for one that breaks the protocol.                                       *)
NoFalseError   == part = "soar" => Soar!NoFalseError
(* Close loses nothing that was written, at an end that still reads.       *)
GracefulClose  == part = "soar" => Soar!GracefulClose
(* A query counts once for or against its resolver, what is recorded late  *)
(* or at an earlier date keeps the window in order, and only a silent one  *)
(* is disabled (resolver_stats.go, resolver_health.go).                    *)
EvidenceSound  == /\ part = "evidence" => Evidence!EvidenceSound
                  /\ part = "crowded" => Crowded!EvidenceSound
(* The dispatcher's round robin passes no waiting stream over for long.    *)
FairTurns      == part = "turns" => Turns!FairTurns
(* A packet object has one owner and comes back, and without a rate limit  *)
(* the streams take turns (dispatcher.go).                                 *)
DispatchSound  ==
    (part = "dispatch" => Dispatcher!DispatchSound) /\ (part = "rota" => Rota!DispatchSound)
(* A packet goes by resolvers in use and by a record type that works, a    *)
(* resolver's size is a proven one, no connection is forgotten, and a      *)
(* session is the answer to its own INIT.                                  *)
RoutesSound    == /\ part = "routes" => Routes!PathsSound
                  /\ part = "carriers" => Rotation!CarriersSound
                  /\ part = "scan" => Scan!MtuSound
                  /\ part = "streams" => Streams!StreamPoolSound
                  /\ part = "exchange" => Stream!QueryStreamSound
                  /\ part = "doq" => Doq!DoqSound
                  /\ part = "joining" => Joining!InitSound
                  /\ part = "asking" => Asking!InitSound
(* A local connection gets one result and always has an owner, whatever    *)
(* comes late or twice; an association keeps the newest datagram.          *)
LocalSound     == /\ part = "one conn" => OneConn!LocalConnsSound
                  /\ part = "two conns" => TwoConns!LocalConnsSound
                  /\ part = "udp" => Association!AssociateSound
=============================================================================
