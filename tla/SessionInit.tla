---------------------------- MODULE SessionInit ----------------------------
(***************************************************************************)
(* How a client gets a session (internal/client) and what the server       *)
(* states with it (internal/udpserver, internal/vpnproto): the client      *)
(* races one SESSION_INIT over several resolvers, attempt after attempt,   *)
(* and applies the first SESSION_ACCEPT: its session, its compression and  *)
(* the ceilings that the server puts on the client.                        *)
(*                                                                         *)
(* The racers are goroutines, the resolvers and the server run at will.    *)
(* The fields of an accept take effect one by one, before and after        *)
(* sessionReady, which the other goroutines of the client read.  Of the    *)
(* policy, the MTU ceilings and the compression floor stand for all.       *)
(***************************************************************************)
EXTENDS Integers, Sequences, FiniteSets

CONSTANTS
    Resolvers,      \* 1..n
    Limit,          \* what an answer over each may carry, 0 if it is asked by TCP
    Race,           \* SESSION_INIT_RACING_COUNT
    Attempts,       \* maxAttempts
    Points,         \* the MTUs that discovery may arrive at, [up, down]
    Configured,     \* the client's COMPRESSION_MIN_SIZE
    Low,            \* mtuWarningThreshold
    Servers,        \* what a server may be configured with: [up, down, floor]
    Allowed,        \* the directions that the server compresses
    Widest,         \* the largest MTU that the policy's byte for uploads states
    MaxInits, MaxMade, MaxEvents    \* bounds: of inits, of sessions, and of what befalls the server

VARIABLES
    at,             \* where InitializeSessionContext is
    left,           \* attempts that are left
    found, synced,  \* discoveredUploadMTU and -DownloadMTU, and as the policy clamps them
    policy,         \* serverPolicy
    comp,           \* the directions the client compresses
    init, cursor,   \* sessionInitPayload, and sessionInitCursor
    valid,          \* the balancer's valid resolvers
    query,          \* the payload that is on its way by a resolver, or None
    racers, reply,  \* the racers not yet collected, and what each has got
    busy,           \* sawBusy
    got,            \* the accept being applied
    ready, sid,     \* sessionReady, sessionID
    config, made,   \* the server's configuration, and its sessions in the order of their making
    inits, events,  \* history: the inits built, and what befell the server
    asks            \* history: how often more than the others this init has been asked by each

clientVars == <<at, left, found, synced, policy, comp, init, cursor, racers, busy, got, ready,
                sid, inits>>
serverVars == <<config, made, events>>
vars == <<clientVars, serverVars, valid, query, reply, asks>>

Least(a, b)    == IF a < b THEN a ELSE b
Greatest(a, b) == IF a < b THEN b ELSE a
Dirs == {"up", "down"}
None == [none |-> TRUE]
NoPolicy == [up |-> 0, down |-> 0, floor |-> 0]

----------------------------------------------------------------------------
(* The policy                                                              *)

(* policyMaxInt, policyMinInt: zero is unstated. *)
Under(value, ceiling) == IF ceiling = 0 THEN value ELSE Least(value, ceiling)
Over(value, floor)    == Greatest(value, floor)

(* effectivePolicyMTU, effectiveCompressionMinSize *)
Clamped(mtus, p) == [d \in Dirs |-> Under(mtus[d], p[d])]
MinSize(p) == Over(Configured, p.floor)

(* applySessionCompressionPolicy *)
Kept(dirs, mtus, p) == {d \in dirs : mtus[d] >= Low /\ mtus[d] > MinSize(p)}

(* EncodeSessionAcceptClientPolicy and back: a byte for the upload MTU *)
Wire(p) == [p EXCEPT !.up = Least(@, Widest)]

(* EncodeSessionScaledByte and back, in milliseconds: the byte, and 255     *)
(* times the time that it is read as.                                       *)
ScaledByte(ms) == LET t == Least(Greatest(ms, 50), 1000) IN (2 * (t - 50) * 255 + 950) \div 1900
Scaled(byte)   == 255 * 50 + byte * 950

(* effectiveARQDataNackMaxGap and effectiveARQInitialRTO *)
NackGap(gap, window, maxGap, maxWindow) ==
    LET w == Under(window, maxWindow)
        g == Under(gap, maxGap)
    IN  IF w > 0 THEN Least(g, w \div 4) ELSE g
InitialRTO(rto, floor, most) ==
    IF floor = 0 THEN rto ELSE IF most > 0 THEN Least(Over(rto, floor), most) ELSE Over(rto, floor)

----------------------------------------------------------------------------
Init ==
    /\ at = "idle" /\ left = 0 /\ found \in Points /\ synced = found
    /\ policy = NoPolicy /\ comp = Kept(Dirs, found, NoPolicy)
    /\ init = None /\ cursor = 0
    /\ valid = [k \in 1..Cardinality(Resolvers) |-> k]
    /\ query = [r \in Resolvers |-> None]
    /\ racers = {} /\ reply = [r \in Resolvers |-> None] /\ busy = FALSE /\ got = None
    /\ ready = FALSE /\ sid = 0
    /\ config \in Servers /\ made = <<>>
    /\ inits = 0 /\ events = 0 /\ asks = [r \in Resolvers |-> 0]

(* refreshPolicyDerivedState, applyServerClientPolicy *)
Refreshed(mtus, p) == synced' = Clamped(mtus, p)
Applied(p) == policy' = p /\ Refreshed(found, p)

(* applySyncedMTUState, after a scan or when InitializeSessionContext      *)
(* looks at the operating point again                                      *)
Discover ==
    /\ at = "idle" /\ ~ready
    /\ \E p \in Points \ {found} :
        /\ found' = p /\ Refreshed(p, policy)
        /\ comp' = Kept(comp, synced', policy)
    /\ UNCHANGED <<at, left, policy, init, cursor, racers, busy, got, ready, sid, inits,
                   serverVars, valid, query, reply, asks>>

(* The resolvers that are valid change, as the balancer finds them.  *)
Revalidate ==
    /\ events < MaxEvents /\ events' = events + 1
    /\ \E drop \in SUBSET Resolvers :
        valid' = SelectSeq([k \in 1..Cardinality(Resolvers) |-> k], LAMBDA r : r \notin drop)
    /\ valid' # valid /\ asks' = [r \in Resolvers |-> 0]
    /\ UNCHANGED <<clientVars, config, made, query, reply>>

Begin ==
    /\ at = "idle" /\ ~ready
    /\ at' = "attempt" /\ left' = Attempts
    /\ UNCHANGED <<found, synced, policy, comp, init, cursor, racers, busy, got, ready, sid, inits,
                   serverVars, valid, query, reply, asks>>

----------------------------------------------------------------------------
(* An attempt: initializeSessionOnceContext                                *)

(* buildSessionInitPayload, sessionInitAdvertisedMTUs: what was discovered *)
Payload == [verify |-> inits + 1, mtus |-> found, comp |-> comp]

(* What all valid resolvers have been asked in common is taken off.        *)
Counted(n) ==
    IF \A k \in DOMAIN valid : n[valid[k]] > 0
    THEN [r \in Resolvers |-> Greatest(n[r] - 1, 0)] ELSE n

(* nextSessionInitRacers: the payload is built once and kept. *)
Attempt ==
    /\ at = "attempt" /\ (init = None => inits < MaxInits)
    /\ init' = IF init = None THEN Payload ELSE init
    /\ inits' = IF init = None THEN inits + 1 ELSE inits
    /\ LET n == Len(valid)
           first == IF init = None THEN 0 ELSE cursor
           some == Least(Race, n)
           picked == {valid[((first + k) % n) + 1] : k \in 0..some - 1}
       IN  IF n = 0
           THEN /\ at' = "idle" /\ cursor' = first /\ left' = 0
                /\ UNCHANGED <<racers, query, reply, asks>>
           ELSE /\ at' = "racing" /\ racers' = picked /\ UNCHANGED left
                /\ cursor' = (first + some) % n
                /\ query' = [r \in Resolvers |-> IF r \in picked THEN init' ELSE query[r]]
                /\ UNCHANGED reply
                /\ asks' = Counted([r \in Resolvers |-> (IF init = None THEN 0 ELSE asks[r]) + (IF r \in picked THEN 1 ELSE 0)])
    /\ busy' = FALSE
    /\ UNCHANGED <<found, synced, policy, comp, got, ready, sid, serverVars, valid>>

(* A reply reaches the racer that waits for it (exchangeDNSOverConnection- *)
(* Context); an earlier accept may come once more.                         *)
Reach(r, packet) ==
    reply' = IF at = "racing" /\ r \in racers /\ reply[r] = None
             THEN [reply EXCEPT ![r] = packet] ELSE reply

Accept(s, p) == [type |-> "accept", verify |-> s.verify, sid |-> s.sid, comp |-> s.comp, policy |-> p]

(* The policy of an accept: over UDP what the answer may carry is always   *)
(* stated, otherwise nothing if nothing is configured.                     *)
Stated(s, limit) ==
    IF limit = 0 THEN Wire(config) ELSE Wire([config EXCEPT !.down = Under(Least(limit, s.mtus.down), @)])

(* findOrCreateWithDownloadLimit: the session of this init, or a new one *)
Created(q, limit) ==
    [sid |-> Len(made) + 1, verify |-> q.verify, comp |-> q.comp \cap Allowed, live |-> TRUE,
     reuse |-> TRUE, config |-> config,
     mtus |-> [Clamped(q.mtus, config) EXCEPT !.down = Under(@, limit)]]

(* handleSessionInitRequest *)
Serve(r) ==
    /\ query[r] # None /\ query' = [query EXCEPT ![r] = None]
    /\ LET q == query[r]
           same == {i \in DOMAIN made : made[i].verify = q.verify /\ made[i].live /\ made[i].reuse}
       IN  \/ \E i \in same : Reach(r, Accept(made[i], Stated(made[i], Limit[r]))) /\ UNCHANGED made
           \/ /\ same = {} /\ Len(made) < MaxMade
              /\ made' = Append(made, Created(q, Limit[r]))
              /\ Reach(r, Accept(made'[Len(made')], Stated(made'[Len(made')], Limit[r])))
           \/ same = {} /\ UNCHANGED made /\ Reach(r, [type |-> "busy", verify |-> q.verify])
    /\ UNCHANGED <<clientVars, config, events, valid, asks>>

(* The racer times out; its query may still reach the server, or never.    *)
Lose(r) ==
    /\ r \in racers /\ reply[r] = None
    /\ reply' = [reply EXCEPT ![r] = [type |-> "failed"]]
    /\ UNCHANGED <<clientVars, serverVars, valid, query, asks>>

Stray(r) ==
    /\ events < MaxEvents /\ events' = events + 1
    /\ r \in racers /\ reply[r] = None
    /\ \E i \in DOMAIN made : Reach(r, Accept(made[i], Wire(made[i].config)))
    /\ UNCHANGED <<clientVars, config, made, valid, query, asks>>

(* The end of a reuse period; a restart, with another configuration *)
Befall ==
    /\ events < MaxEvents /\ events' = events + 1
    /\ \/ \E i \in DOMAIN made : made[i].reuse /\ made' = [made EXCEPT ![i].reuse = FALSE] /\ UNCHANGED config
       \/ config' \in Servers \ {config} /\ made' = [i \in DOMAIN made |-> [made[i] EXCEPT !.live = FALSE]]
    /\ UNCHANGED <<clientVars, valid, query, reply, asks>>

(* The checks of applySessionAccept and isSessionBusy *)
Ours(p) == p.type # "failed" /\ p.verify = init.verify

(* One result *)
Collect(r) ==
    /\ at = "racing" /\ r \in racers /\ reply[r] # None
    /\ racers' = racers \ {r}
    /\ LET p == reply[r] IN
           IF p.type = "accept" /\ Ours(p)
           THEN at' = "accepted" /\ got' = p /\ UNCHANGED <<left, busy>>
           ELSE /\ busy' = (busy \/ (p.type = "busy" /\ Ours(p))) /\ UNCHANGED got
                /\ IF racers' # {} THEN UNCHANGED <<at, left>>
                   ELSE IF busy' \/ left = 1 THEN at' = "idle" /\ left' = 0
                   ELSE at' = "attempt" /\ left' = left - 1
    /\ reply' = [reply EXCEPT ![r] = None]
    /\ UNCHANGED <<found, synced, policy, comp, init, cursor, ready, sid, inits, serverVars, valid,
                   query, asks>>

(* applySessionAccept, up to sessionReady and after it.  The race ends.    *)
Commit ==
    /\ at = "accepted"
    /\ sid' = got.sid /\ comp' = got.comp
    /\ Applied(got.policy)
    /\ at' = "announce" /\ got' = None
    /\ racers' = {} /\ reply' = [r \in Resolvers |-> None] /\ busy' = FALSE /\ left' = 0
    /\ UNCHANGED <<found, init, cursor, ready, inits, serverVars, valid, query, asks>>

Announce ==
    /\ at = "announce" /\ ready' = TRUE /\ at' = "finish"
    /\ UNCHANGED <<left, found, synced, policy, comp, init, cursor, racers, busy, got, sid, inits,
                   serverVars, valid, query, reply, asks>>

Finish ==
    /\ at = "finish"
    /\ comp' = Kept(comp, synced, policy)
    /\ init' = None /\ cursor' = 0 /\ at' = "idle"
    /\ asks' = [r \in Resolvers |-> 0]
    /\ UNCHANGED <<left, found, synced, policy, racers, busy, got, ready, sid, inits, serverVars,
                   valid, query, reply>>

(* The context ends: the wait for the racers is given up.  A session that  *)
(* is up is closed by a burst, which may reach the server.                 *)
GiveUp ==
    /\ at \in {"attempt", "racing"} /\ at' = "over" /\ left' = 0
    /\ racers' = {} /\ reply' = [r \in Resolvers |-> None] /\ busy' = FALSE
    /\ UNCHANGED <<found, synced, policy, comp, init, cursor, got, ready, sid, inits, serverVars,
                   valid, query, asks>>

(* notifySessionCloseBurst, sendSessionCloseRound *)
CloseBurst ==
    /\ at = "idle" /\ ready /\ at' = "over" /\ ready' = FALSE /\ sid' = 0
    /\ made' \in (IF valid = <<>> THEN {made} ELSE {made, [made EXCEPT ![sid].live = FALSE]})
    /\ init' = None /\ cursor' = 0
    /\ UNCHANGED <<left, found, synced, policy, comp, racers, busy, got, inits, config, events,
                   valid, query, reply, asks>>

(* resetSessionState, on a restart: the policy stays until the next accept *)
Restart ==
    /\ at = "idle" /\ ready /\ ready' = FALSE /\ sid' = 0
    /\ init' = None /\ cursor' = 0
    /\ UNCHANGED <<at, left, found, synced, policy, comp, racers, busy, got, inits, serverVars,
                   valid, query, reply, asks>>

Next ==
    \/ Discover \/ Revalidate \/ Begin \/ Attempt \/ Befall \/ Commit \/ Announce \/ Finish
    \/ GiveUp \/ CloseBurst \/ Restart
    \/ \E r \in Resolvers : Serve(r) \/ Lose(r) \/ Stray(r) \/ Collect(r)

Spec == Init /\ [][Next]_vars

----------------------------------------------------------------------------
(* Correctness                                                             *)

(* The session is one that the server made for the init that was sent.     *)
OwnSession == ready => sid \in DOMAIN made /\ (init # None => made[sid].verify = init.verify)

(* From sessionReady on the client keeps the ceilings of the server that   *)
(* made the session and no others: those of an earlier server are gone     *)
(* (server_policy.go:41, session.go:220).                                  *)
PolicyInPlace ==
    ready => LET s == made[sid] IN
        /\ \A d \in Dirs : synced[d] <= Under(found[d], s.config[d])
        /\ synced.up = Under(found.up, Least(s.config.up, Widest))
        /\ policy.floor = s.config.floor

(* A direction is compressed only if the server agreed to it, and only     *)
(* above both sides' minimum once the accept has been applied.             *)
CompressionAgreed ==
    ready => comp \subseteq made[sid].comp
             /\ (at = "idle" => \A d \in comp : synced[d] > Over(Configured, made[sid].config.floor))

(* The attempts with one init ask the valid resolvers in turn.             *)
Rotates ==
    init # None => \A j, k \in DOMAIN valid : asks[valid[j]] <= asks[valid[k]] + 1

(* A ceiling is not read as a wider one, or none, on the other side; an    *)
(* interval is off by half of the byte's step; a gap stays below a quarter *)
(* of the window that a ceiling has shrunk, and the timeout below its top. *)
WireTrue ==
    /\ \A p \in Servers : Wire(p).up <= p.up /\ (p.up > 0 => Wire(p).up > 0)
    /\ \A ms \in {50, 51, 52, 500, 523, 999, 1000} :
            LET off == 255 * ms - Scaled(ScaledByte(ms)) IN 2 * off <= 950 /\ 2 * off >= -950
    /\ \A gap, maxGap \in {0, 1, 5, 16}, window, maxWindow \in {4, 8, 64} :
            NackGap(gap, window, maxGap, maxWindow) <= Least(window, maxWindow) \div 4
    /\ \A rto, floor \in {0, 2, 9}, most \in {2, 4} : rto <= most => InitialRTO(rto, floor, most) <= most

(* WireTrue is of no state: one before there is any session is enough.     *)
InitSound ==
    /\ OwnSession /\ PolicyInPlace /\ CompressionAgreed /\ Rotates
    /\ made = <<>> /\ at = "idle" => WireTrue
=============================================================================
