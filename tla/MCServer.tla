------------------------------ MODULE MCServer ------------------------------
(* The parts of the server that share no state, and the data plane that it *)
(* has in common with the client, checked side by side: a behaviour is one *)
(* of the part that it drew.                                               *)
EXTENDS SessionStore, SoarServer, TunnelQuery, ConnLimits

CONSTANTS s1, s2

(* one signature sent in both formats under a key each, one by a native client *)
Collide  == {<<s1, "legacy", "xor">>, <<s1, "native", "gcm">>, <<s2, "native", "xor">>}
Distinct == {<<s1, "native", "xor">>, <<s2, "native", "xor">>}

VARIABLES
    part,
    x1, x2, x3, x4, x5, x6, x7, x8, x9,
    x10, x11, x12, x13, x14, x15, x16

cells == <<x1, x2, x3, x4, x5, x6, x7, x8, x9,
           x10, x11, x12, x13, x14, x15, x16>>

(* A part with n variables keeps the others at 0.                          *)
Zero(n) ==
    /\ (n < 1 => x1 = 0) /\ (n < 2 => x2 = 0) /\ (n < 3 => x3 = 0) /\ (n < 4 => x4 = 0)
    /\ (n < 5 => x5 = 0) /\ (n < 6 => x6 = 0) /\ (n < 7 => x7 = 0) /\ (n < 8 => x8 = 0)
    /\ (n < 9 => x9 = 0) /\ (n < 10 => x10 = 0) /\ (n < 11 => x11 = 0) /\ (n < 12 => x12 = 0)
    /\ (n < 13 => x13 = 0) /\ (n < 14 => x14 = 0) /\ (n < 15 => x15 = 0) /\ (n < 16 => x16 = 0)
Still(n) ==
    /\ (n < 1 => x1' = 0) /\ (n < 2 => x2' = 0) /\ (n < 3 => x3' = 0) /\ (n < 4 => x4' = 0)
    /\ (n < 5 => x5' = 0) /\ (n < 6 => x6' = 0) /\ (n < 7 => x7' = 0) /\ (n < 8 => x8' = 0)
    /\ (n < 9 => x9' = 0) /\ (n < 10 => x10' = 0) /\ (n < 11 => x11' = 0) /\ (n < 12 => x12' = 0)
    /\ (n < 13 => x13' = 0) /\ (n < 14 => x14' = 0) /\ (n < 15 => x15' = 0) /\ (n < 16 => x16' = 0)

Scene(seqMod, window, limit, chunks) ==
    [seqMod |-> seqMod, window |-> window, limit |-> limit, poppers |-> 1,
     chunks |-> chunks, lossy |-> FALSE]

(* Two chunks unacknowledged, so that the second overtakes the first, the *)
(* receiver's window smaller or not; and eight chunks over six numbers.   *)
Wraps    == Scene(6, 1, 1, 8)
Delaying == {Scene(10, 1, 2, 2), Scene(10, 2, 2, 2), Wraps}

Data == INSTANCE ArqData WITH
    scene <- x1, taken <- x2, sndNxt <- x3, sndBuf <- x4, queue <- x5, ioPush <- x6,
    rtxPush <- x7, nackPush <- x8, popped <- x9, dataNet <- x10, ackNet <- x11,
    nackNet <- x12, rcvNxt <- x13, rcvBuf <- x14, toWrite <- x15, written <- x16,
    Scenes <- Delaying

(* One stream with data to send and one with a control packet, over        *)
(* carriers that hold everything or one control block; and a stream with   *)
(* FEC, in blocks of two.                                                  *)
Tx == INSTANCE SessionTx WITH
    txq <- x1, census <- x2, unsent <- x3, unacked <- x4, sent <- x5, acking <- x6,
    over <- x7, fecs <- x8, orphans <- x9, turn <- x10, again <- x11, poll <- x12,
    polls <- x13, pushing <- x14,
    Streams <- {1, 2}, MaxSeq <- <<2, 0>>, Controls <- {<<2, <<"ack", 1>>>>},
    Orphans <- {<<"rst", 1>>, <<"rst_ack", 2>>}, Kinds <- {"data", "resend"}, Losses <- {},
    MaxPushing <- 2, Capacities <- {1, 9}, DataSize <- 4, MaxBlocks <- 2, Copies <- 2,
    BlockSize <- 2, CleanWindows <- 2, MaxPolls <- 2

Fec == INSTANCE SessionTx WITH
    txq <- x1, census <- x2, unsent <- x3, unacked <- x4, sent <- x5, acking <- x6,
    over <- x7, fecs <- x8, orphans <- x9, turn <- x10, again <- x11, poll <- x12,
    polls <- x13, pushing <- x14,
    Streams <- {1}, MaxSeq <- <<2>>, Controls <- {<<1, <<"ack", 1>>>>}, Orphans <- {},
    Kinds <- {"resend"}, Losses <- {"low", "high", "hopeless"}, MaxPushing <- 1,
    Capacities <- {1, 9}, DataSize <- 4, MaxBlocks <- 2, Copies <- 2, BlockSize <- 2,
    CleanWindows <- 2, MaxPolls <- 2

(* One stream ID and its reuse. *)
Streams == INSTANCE SessionStreams WITH
    strs <- x1, tab <- x2, act <- x3, snap <- x4, dated <- x5, recent <- x6, live <- x7,
    orphaned <- x8, jobs <- x9, sweep <- x10, asked <- x11, ended <- x12,
    Ids <- {1}, MaxStreams <- 1, MaxRecent <- 1, Handlers <- {1}, MaxCreated <- 2

(* Two writers of an association with one target, and one that has two    *)
(* names for it.                                                          *)
Shared == INSTANCE UdpEndpoints WITH
    phase <- x1, endpoints <- x2, aliases <- x3, sock <- x4, opened <- x5, gauge <- x6,
    writer <- x7, doomed <- x8, meant <- x9,
    Writers <- {1, 2}, Names <- {1}, Addrs <- {1, 2}, MaxTargets <- 1, MaxAliases <- 1,
    MaxSockets <- 2

Named == INSTANCE UdpEndpoints WITH
    phase <- x1, endpoints <- x2, aliases <- x3, sock <- x4, opened <- x5, gauge <- x6,
    writer <- x7, doomed <- x8, meant <- x9,
    Writers <- {1}, Names <- {1, 2}, Addrs <- {1, 2}, MaxTargets <- 1, MaxAliases <- 1,
    MaxSockets <- 2

Upstream == INSTANCE UpstreamDial WITH
    way <- x1, ctx <- x2, at <- x3, conn <- x4, relay <- x5, watch <- x6, stopped <- x7,
    result <- x8, caller <- x9, behind <- x10, active <- x11, intime <- x12,
    robbed <- x13

(* A datagram that two codecs read, one that a session vouches for, and    *)
(* one that no codec reads; a reader for each of one or two sockets.           *)
Read(gcm, xor, none) == [gcm |-> gcm, xor |-> xor, none |-> none]

Ingress == INSTANCE UdpIngress WITH
    run <- x1, asked <- x2, total <- x3, sockets <- x4, open <- x5, preferred <- x6,
    reader <- x7, worker <- x8, errors <- x9, queue <- x10, fate <- x11, result <- x12,
    UDPReaders <- 1, Cpus <- 2, Workers <- {1}, Totals <- {2, 8}, Burst <- 2,
    Codecs <- <<"xor", "gcm", "none">>, Preferred <- 0, Authenticated <- {"gcm"},
    Datagrams <- 1..3, Bulk <- {1},
    Reading <- <<Read("frame", "frame", "fails"), Read("fails", "known", "frame"),
                 Read("fails", "fails", "fails")>>

PartsInit == Init /\ TableInit /\ QueryInit /\ LimitsInit /\ (
    \/ part \in {"store", "soar", "query", "conns"} /\ Zero(0)
    \/ part = "data" /\ Data!Init
    \/ part = "tx" /\ Tx!Init /\ Zero(14)
    \/ part = "fec" /\ Fec!Init /\ Zero(14)
    \/ part = "streams" /\ Streams!Init /\ Zero(12)
    \/ part = "shared" /\ Shared!Init /\ Zero(9)
    \/ part = "named" /\ Named!Init /\ Zero(9)
    \/ part = "dial" /\ Upstream!Init /\ Zero(13)
    \/ part = "ingress" /\ Ingress!Init /\ Zero(12))

PartsNext == UNCHANGED part /\ (
    \/ part = "store" /\ Next /\ UNCHANGED <<tableVars, queryVars, limitVars, cells>>
    \/ part = "soar" /\ TableNext /\ UNCHANGED <<vars, queryVars, limitVars, cells>>
    \/ part = "query" /\ QueryNext /\ UNCHANGED <<vars, tableVars, limitVars, cells>>
    \/ part = "conns" /\ LimitsNext /\ UNCHANGED <<vars, tableVars, queryVars, cells>>
    \/ UNCHANGED <<vars, tableVars, queryVars, limitVars>> /\ (
        \/ part = "data" /\ Data!Next
        \/ part = "tx" /\ Tx!Next /\ Still(14)
        \/ part = "fec" /\ Fec!Next /\ Still(14)
        \/ part = "streams" /\ Streams!Next /\ Still(12)
        \/ part = "shared" /\ Shared!Next /\ Still(9)
        \/ part = "named" /\ Named!Next /\ Still(9)
        \/ part = "dial" /\ Upstream!Next /\ Still(13)
        \/ part = "ingress" /\ Ingress!Next /\ Still(12)))

PartsSpec == PartsInit /\ [][PartsNext]_<<part, vars, tableVars, queryVars, limitVars, cells>>
StoreSpec == part = "store" /\ PartsSpec

(* A session's queues and their census of keys agree, nothing queued is    *)
(* stranded, and a pong is sent when nothing waits (server_session.go).    *)
AnswersSound == /\ part = "tx" => Tx!AnswersSound
                /\ part = "fec" => Fec!AnswersSound
(* The lists of a session's streams agree, and nothing that is done for an *)
(* earlier stream of an ID hits the next (session.go); in the ARQ nothing  *)
(* is forgotten and chunks are written in order (arq.go); no socket of an  *)
(* association, a dial or a listener is lost or held by two.               *)
StreamsSound == /\ part = "streams" => Streams!StreamsSound
                /\ part = "data" => Data!Carried /\ (\A k \in DOMAIN x16 : x16[k] = k - 1)
                /\ part = "shared" => Shared!EndpointsSound
                /\ part = "named" => Named!EndpointsSound
                /\ part = "dial" => Upstream!DialSound
                /\ part = "ingress" => Ingress!IngressSound
=============================================================================
