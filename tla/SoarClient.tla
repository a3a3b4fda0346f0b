----------------------------- MODULE SoarClient -----------------------------
(***************************************************************************)
(* The CottenMax client's queries (engine/client.go, tcp.go, discover.go): *)
(* which paths they go out on, when each is answered, given up or late,    *)
(* and what that does to the path, to the session and to its liveness.     *)
(*                                                                         *)
(* Every handler holds Client.mu.  run() calls expire, liveness, discover  *)
(* and fill in turn under one hold of it; here each is a step, and a       *)
(* query expires in a step of its own, which allows more interleavings.    *)
(* What the queries carry is SoarSession's; the answer sizes they ask for  *)
(* are PathSize's.  Forged answers that the client discards do nothing.    *)
(***************************************************************************)
EXTENDS Integers, FiniteSets, TLC

CONSTANTS
    Txns,               \* the transaction IDs of queries
    Paths, Tcp,         \* the paths, those over a TCP link
    Configured,         \* the paths of configured resolvers; discovery has the others
    MaxInflight, MaxPathWindow, MaxPending, MaxHelloPaths,
    SuspendAfter,       \* losses in a row that suspend a path (5)
    PruneAfter,         \* outcomes after which a candidate that never answered goes (3)
    Want                \* healthy paths that discovery wants

ASSUME ClientAssumption ==
    /\ IsFiniteSet(Txns) /\ Tcp \subseteq Paths /\ Configured \subseteq Paths
    /\ {MaxInflight, MaxPathWindow, MaxPending, MaxHelloPaths, PruneAfter, Want} \subseteq Nat
    /\ SuspendAfter \in Nat \ {0}

VARIABLES
    path,       \* what the client knows of each path
    pending,    \* by transaction ID the queries out, given up ones included
    sess        \* c.sess: its phase, and whether its liveness clock runs (cs.unanswered)

vars == <<path, pending, sess>>

(* A scout carries no data, a probe tries a longer name.  own: sent for the session of now. *)
Kinds   == {"hello", "scout", "data", "probe"}
Queries == [p : Paths, own : BOOLEAN, kind : Kinds, live : BOOLEAN]

NewPath(p) ==
    [listed |-> p \in Configured, tried |-> p \in Configured,
     verified |-> FALSE, suspended |-> FALSE, probing |-> FALSE, aaaa |-> FALSE,
     consec |-> 0, outN |-> 0, inflight |-> 0,
     link |-> IF p \in Tcp THEN "dialling" ELSE "none",
     out |-> {}]        \* what the link's queue holds, of this connection or an old one

Init ==
    /\ path = [p \in Paths |-> NewPath(p)]
    /\ pending = [t \in {} |-> 0]
    /\ sess = [phase |-> "none", clock |-> FALSE]

----------------------------------------------------------------------------
Out       == DOMAIN pending
Live      == {t \in Out : pending[t].live}
LiveOn(p) == {t \in Live : pending[t].p = p}

Usable(ps, p)  == ps[p].listed /\ ~ps[p].suspended /\ (p \in Tcp => ps[p].link = "up")
AnyUsable(ps)  == \E p \in Paths : ps[p].verified /\ Usable(ps, p)

Add(n, m, cap) == IF n + m > cap THEN cap ELSE n + m
Least(n, m) == IF n < m THEN n ELSE m
Most(n, m)  == IF n < m THEN m ELSE n

(* record and observeAuthenticated *)
Heard(r) == [r EXCEPT !.verified = TRUE, !.consec = 0]
Lost(r, n) == [r EXCEPT !.consec = Add(@, n, SuspendAfter), !.outN = Add(@, 1, PruneAfter)]

(* failLocked: a query got no usable answer.  A run of losses suspends the *)
(* path, a verified one only if its last success is old, and never the     *)
(* last that is usable.                                                    *)
FailLocked(ps, q, refused, old) ==
    LET p == q.p
        r == [ps[p] EXCEPT !.inflight = @ - 1, !.probing = @ /\ q.kind # "probe"]
        l == Lost(r, IF refused THEN 3 ELSE 1)
        s == [l EXCEPT !.suspended = @ \/ (l.consec = SuspendAfter /\ (old \/ ~l.verified))]
        t == [ps EXCEPT ![p] = s]
    IN  IF refused /\ ~r.aaaa
        THEN [ps EXCEPT ![p] = [r EXCEPT !.aaaa = TRUE, !.outN = 0, !.consec = 0, !.suspended = FALSE]]
        ELSE IF s.suspended /\ ~AnyUsable(t) THEN [t EXCEPT ![p].suspended = FALSE]
        ELSE t

GivenUp(S) == [t \in Out |-> [pending[t] EXCEPT !.live = @ /\ t \notin S]]
Without(t) == [u \in Out \ {t} |-> pending[u]]

(* What may be sent at once: for IDs that are free, a path and a kind.     *)
Batches(kinds) == UNION {[T -> [p : Paths, kind : kinds]] : T \in SUBSET (Txns \ Out)}

To(batch, p)        == {t \in DOMAIN batch : batch[t].p = p}
OfKind(batch, kind) == {t \in DOMAIN batch : batch[t].kind = kind}

SendLocked(batch) ==
    /\ pending' = [t \in Out \cup DOMAIN batch |->
                      IF t \in Out THEN pending[t]
                      ELSE [p |-> batch[t].p, own |-> TRUE, kind |-> batch[t].kind, live |-> TRUE]]
    /\ path' = [p \in Paths |->
            [path[p] EXCEPT !.inflight = @ + Cardinality(To(batch, p)),
                            !.probing = @ \/ To(batch, p) \cap OfKind(batch, "probe") # {},
                            !.out = IF To(batch, p) # {} /\ p \in Tcp THEN @ \cup {"this"} ELSE @]]

(* There is room for a batch.                                              *)
Fits(batch) ==
    /\ Cardinality(Live) + Cardinality(DOMAIN batch) <= MaxInflight
    /\ Cardinality(Out) + Cardinality(DOMAIN batch) <= MaxPending

----------------------------------------------------------------------------
(* session(): the session of a Dial, made anew when there is none, it is   *)
(* closed, or it has idled (retireIfIdle).                                 *)
Session ==
    /\ sess.phase \in {"none", "closed", "up"}
    /\ sess' = [phase |-> "hello", clock |-> FALSE]
    /\ pending' = [t \in Out |-> [pending[t] EXCEPT !.own = FALSE]]
    /\ UNCHANGED path

(* sendHellosLocked: one to each of some paths that have nothing out.      *)
SendHellos(batch) ==
    /\ sess.phase = "hello" /\ DOMAIN batch # {}
    /\ \A t \in DOMAIN batch :
          /\ batch[t].kind = "hello"
          /\ Usable(path, batch[t].p) /\ path[batch[t].p].inflight = 0
          /\ To(batch, batch[t].p) = {t}
    /\ Cardinality(DOMAIN batch) <= MaxHelloPaths
    /\ Fits(batch)
    /\ SendLocked(batch)
    /\ UNCHANGED sess

ScoutLimit(alone) ==
    IF alone \/ ~AnyUsable(path) THEN Least(MaxHelloPaths, MaxInflight)
    ELSE Least(MaxHelloPaths, Least(Most(MaxInflight \div 8, 1), Most(MaxInflight - 1, 0)))

Scouts == {t \in Live : pending[t].kind \in {"hello", "scout"}}

(* fillLocked with the session up: a scout to each of some paths that are  *)
(* not verified, data to verified ones, a probe at most to each.  alone:   *)
(* MaxInflight is 1 and no path is productive.                             *)
FillLocked(batch, alone) ==
    LET scouts == OfKind(batch, "scout")
        probes == OfKind(batch, "probe")
    IN  /\ sess.phase = "up" /\ DOMAIN batch # {}
        /\ \A t \in DOMAIN batch :
              /\ batch[t].kind # "hello" /\ Usable(path, batch[t].p)
              /\ t \in scouts <=> ~path[batch[t].p].verified
        /\ \A t \in scouts : path[batch[t].p].inflight = 0 /\ To(batch, batch[t].p) = {t}
        /\ \A t \in DOMAIN batch \ scouts :
              path[batch[t].p].inflight + Cardinality(To(batch, batch[t].p)) <= MaxPathWindow
        /\ \A t \in probes : ~path[batch[t].p].probing /\ To(batch, batch[t].p) \cap probes = {t}
        /\ scouts # {} => Cardinality(Scouts) + Cardinality(scouts) <= ScoutLimit(alone)
        /\ Fits(batch)
        /\ SendLocked(batch)
        /\ sess' = [sess EXCEPT !.clock = TRUE]

(* expireLocked gives a query up, at its deadline or early; an error that  *)
(* came for it counts at the deadline only, when it may say "refused".     *)
Expire(t, refused, old) ==
    /\ t \in Live
    /\ path' = FailLocked(path, pending[t], refused, old)
    /\ pending' = GivenUp({t})
    /\ UNCHANGED sess

(* lateGrace is over. *)
Forget(t) ==
    /\ t \in Out \ Live
    /\ pending' = Without(t)
    /\ UNCHANGED <<path, sess>>

CheckLiveness ==
    /\ sess.phase = "up" /\ sess.clock
    /\ sess' = [sess EXCEPT !.phase = "closed"]
    /\ UNCHANGED <<path, pending>>

(* An authenticated answer *)
Answered(q) ==
    LET r == Heard(path[q.p])
    IN  [path EXCEPT ![q.p] = IF ~q.live THEN r
                              ELSE [r EXCEPT !.inflight = @ - 1, !.outN = Add(@, 1, PruneAfter),
                                             !.probing = @ /\ q.kind # "probe"]]

ClockAfter_Stops(t) == FALSE
ClockAfter(t) == \E u \in Live \ {t} : pending[u].own /\ pending[u].kind # "hello"

(* bad: what it carries breaks the rules and ends the session *)
OnAnswer(t, bad) ==
    /\ t \in Out /\ pending[t].kind # "hello"
    /\ pending' = Without(t)
    /\ path' = Answered(pending[t])
    /\ sess' = IF ~pending[t].own THEN sess
               ELSE [phase |-> IF bad THEN "closed" ELSE sess.phase, clock |-> ClockAfter(t)]

OnHello(t) ==
    /\ t \in Out /\ pending[t].kind = "hello"
    /\ pending' = Without(t)
    /\ path' = Answered(pending[t])
    /\ sess' = IF pending[t].own /\ sess.phase = "hello" THEN [sess EXCEPT !.phase = "up"] ELSE sess

(* The server's signed word that it does not know the session *)
OnUnknownSession_Late(t, old) ==
    /\ t \in Out /\ pending[t].kind # "hello"
    /\ sess' = IF pending[t].own THEN [sess EXCEPT !.phase = "closed"] ELSE sess
    /\ pending' = Without(t) /\ path' = FailLocked(path, pending[t], FALSE, old)

OnUnknownSession(t, old) ==
    /\ t \in Out /\ pending[t].kind # "hello"
    /\ sess' = IF pending[t].own THEN [sess EXCEPT !.phase = "closed"] ELSE sess
    /\ IF t \in Live THEN pending' = Without(t) /\ path' = FailLocked(path, pending[t], FALSE, old)
       ELSE UNCHANGED <<pending, path>>

(* Backoff is over. *)
Unsuspend(p) ==
    /\ path[p].suspended
    /\ path' = [path EXCEPT ![p].suspended = FALSE]
    /\ UNCHANGED <<pending, sess>>

----------------------------------------------------------------------------
(* The TCP links *)

SetLink(p, r) == path' = [path EXCEPT ![p] = r] /\ UNCHANGED <<pending, sess>>

Dialled(p) ==
    /\ path[p].link = "dialling" /\ path[p].listed
    /\ SetLink(p, [path[p] EXCEPT !.link = "up", !.out = {"old" : m \in @}])

(* serve writes what is queued. *)
ServeLink(p) ==
    /\ path[p].link = "up" /\ path[p].out # {}
    /\ SetLink(p, [path[p] EXCEPT !.out = {}])

(* The connection fails, or reconnectStalledTCPLocked closes it: nothing   *)
(* is sent on it from here on.                                             *)
Breaks(p) ==
    /\ path[p].link = "up"
    /\ SetLink(p, [path[p] EXCEPT !.link = "broken"])

LinkDown(p) ==
    LET n == Cardinality(LiveOn(p))
        r == [path[p] EXCEPT !.inflight = @ - n, !.consec = Add(@, n, SuspendAfter),
                             !.outN = Add(@, n, PruneAfter),
                             !.probing = @ /\ ~\E t \in LiveOn(p) : pending[t].kind = "probe"]
    IN  /\ path[p].link = "broken"
        /\ path' = [path EXCEPT ![p] = [r EXCEPT !.suspended = @ /\ ~r.listed, !.out = {},
                                                 !.link = IF r.listed THEN "dialling" ELSE "gone"]]
        /\ pending' = GivenUp(LiveOn(p))
        /\ UNCHANGED sess

----------------------------------------------------------------------------
(* Discovery *)

(* A candidate that never answered goes: a TCP one for its age, whatever   *)
(* it still has in flight, and its link is stopped.                        *)
Prune(p) ==
    /\ p \notin Configured /\ path[p].listed /\ ~path[p].verified
    /\ p \in Tcp \/ (path[p].outN >= PruneAfter /\ path[p].inflight = 0)
    /\ SetLink(p, [path[p] EXCEPT !.listed = FALSE,
                     !.link = CASE @ = "up" -> "broken" [] @ = "dialling" -> "gone" [] OTHER -> @])

Healthy == {p \in Paths : path[p].verified /\ Usable(path, p) /\ path[p].consec < SuspendAfter}

AddCandidate(p) ==
    /\ ~path[p].tried /\ Cardinality(Healthy) < Want
    /\ SetLink(p, [path[p] EXCEPT !.listed = TRUE, !.tried = TRUE])

Next ==
    \/ Session
    \/ \E batch \in Batches({"hello"}) : SendHellos(batch)
    \/ \E batch \in Batches({"scout", "data", "probe"}), alone \in {FALSE, MaxInflight = 1} :
          FillLocked(batch, alone)
    \/ \E t \in Out, refused, old \in BOOLEAN : Expire(t, refused, old)
    \/ \E t \in Out : Forget(t) \/ OnHello(t)
    \/ \E t \in Out, bad \in BOOLEAN : OnAnswer(t, bad)
    \/ \E t \in Out, old \in BOOLEAN : OnUnknownSession(t, old)
    \/ CheckLiveness
    \/ \E p \in Paths : Unsuspend(p) \/ Prune(p) \/ AddCandidate(p)
    \/ \E p \in Tcp : Dialled(p) \/ ServeLink(p) \/ Breaks(p) \/ LinkDown(p)

Spec == Init /\ [][Next]_vars

----------------------------------------------------------------------------
Records == [listed : BOOLEAN, tried : BOOLEAN, verified : BOOLEAN, suspended : BOOLEAN, probing : BOOLEAN,
            aaaa : BOOLEAN, consec : 0..SuspendAfter, outN : Nat, inflight : Nat,
            link : {"none", "dialling", "up", "broken", "gone"}, out : SUBSET {"this", "old"}]

TypeOK ==
    /\ Out \subseteq Txns /\ \A t \in Out : pending[t] \in Queries
    /\ path \in [Paths -> Records]
    /\ sess \in [phase : {"none", "hello", "up", "closed"}, clock : BOOLEAN]

(* Every query is taken off its path once, however it ends: expired and    *)
(* then answered late, failed by its link and then expired, told of an     *)
(* unknown session, or left behind on a pruned path.  A count too high     *)
(* closes the path for good, one too low floods it.                        *)
InflightExact == \A p \in Paths : path[p].inflight = Cardinality(LiveOn(p))

FlightBounded == Cardinality(Live) <= MaxInflight /\ Cardinality(Out) <= MaxPending

(* A path that is trying a longer name has that one query out; otherwise   *)
(* no trial would ever begin again.                                        *)
Probes(p)    == {t \in LiveOn(p) : pending[t].kind = "probe"}
ProbingExact ==
    \A p \in Paths : /\ path[p].probing <=> Probes(p) # {}
                     /\ \A t, u \in Probes(p) : t = u

(* While a session waits for an answer its liveness clock runs, so a       *)
(* server that forgot it is noticed even when nothing more can be sent.    *)
ClockRuns ==
    sess.phase = "up" /\ (\E t \in Live : pending[t].own /\ pending[t].kind # "hello") => sess.clock

(* Nothing queued for a connection goes out on the next one. *)
NothingReplayed == \A p \in Tcp : path[p].link = "up" => "old" \notin path[p].out

(* The client's counts of what it has out are exact and bounded. *)
FlightSound == TypeOK /\ InflightExact /\ FlightBounded /\ ProbingExact

(* Whatever is out is watched, and nothing goes out twice. *)
AnswersWatched == ClockRuns /\ NothingReplayed
=============================================================================
