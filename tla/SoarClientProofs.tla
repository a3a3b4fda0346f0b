-------------------------- MODULE SoarClientProofs --------------------------
(***************************************************************************)
(* Why the CottenMax client's counts of the queries it has out are exact,  *)
(* and why a session that waits for an answer is watched, for any number   *)
(* of paths, links and transaction IDs.                                    *)
(*                                                                         *)
(* What a query costs is taken off in four ways: TakenOff, for one that    *)
(* ends while it is live; Rest, for what touches no live query; Sent, for  *)
(* a batch; and the end of a link, which gives up all that are on it.      *)
(*                                                                         *)
(* At the end, why a path's search for the sizes that get through never    *)
(* passes the network's limit, for any number of classes (PathSize).       *)
(***************************************************************************)
EXTENDS SoarClient, PathSize, FiniteSetTheorems, TLAPS

(* Queries of the session of now are hellos until it is up. *)
HelloAlone ==
    sess.phase = "hello" => \A t \in Out : pending[t].own => pending[t].kind = "hello"

(* What the queue of a link holds. *)
LinksClean ==
    \A p \in Tcp : /\ path[p].link = "dialling" => path[p].out = {}
                   /\ path[p].link = "up" => "old" \notin path[p].out

Counted == InflightExact /\ FlightBounded /\ ProbingExact
Watched == HelloAlone /\ ClockRuns
IInv    == TypeOK /\ Counted /\ Watched /\ LinksClean

----------------------------------------------------------------------------
(* Every set of transaction IDs is finite. *)
LEMMA Sizes ==
    ASSUME NEW S, S \subseteq Txns
    PROVE  IsFiniteSet(S) /\ Cardinality(S) \in Nat
  BY ClientAssumption, FS_Subset, FS_CardinalityType

LEMMA Sizes2 ==
    ASSUME NEW S, NEW T, S \subseteq Txns, T \subseteq S
    PROVE  Cardinality(T) \in Nat /\ Cardinality(S) \in Nat /\ Cardinality(T) <= Cardinality(S)
  BY ClientAssumption, FS_Subset, FS_CardinalityType

LEMMA Less ==
    ASSUME NEW S, NEW t \in S, S \subseteq Txns
    PROVE  Cardinality(S) \in Nat /\ Cardinality(S \ {t}) = Cardinality(S) - 1 /\ Cardinality(S \ {t}) \in Nat
<1>1. IsFiniteSet(S) /\ IsFiniteSet(S \ {t}) /\ Cardinality(S) \in Nat /\ Cardinality(S \ {t}) \in Nat
  BY Sizes
<1>2. Cardinality(S \ {t}) = Cardinality(S) - 1
  BY <1>1, FS_RemoveElement
<1> QED BY <1>1, <1>2

LEMMA Disjoint ==
    ASSUME NEW S, NEW T, S \subseteq Txns, T \subseteq Txns, S \cap T = {}
    PROVE  Cardinality(S \cup T) = Cardinality(S) + Cardinality(T)
<1>1. IsFiniteSet(S) /\ IsFiniteSet(T) /\ Cardinality(S) \in Nat /\ Cardinality(T) \in Nat
  BY Sizes
<1>2. Cardinality(S \cap T) = 0
  BY FS_EmptySet
<1>3. Cardinality(S \cup T) = Cardinality(S) + Cardinality(T) - Cardinality(S \cap T)
  BY <1>1, FS_Union
<1> QED BY <1>1, <1>2, <1>3

----------------------------------------------------------------------------
LEMMA Start == Init => IInv
<1> SUFFICES ASSUME Init PROVE IInv
  OBVIOUS
<1>1. Out = {} /\ Live = {} /\ \A p \in Paths : LiveOn(p) = {}
  BY DEF Init, Out, Live, LiveOn
<1>2. \A p \in Paths : path[p] \in Records /\ path[p].inflight = 0 /\ ~path[p].probing /\ path[p].out = {}
  BY ClientAssumption DEF Init, NewPath, Records
<1>3. TypeOK
  <2>1. path \in [Paths -> Records]
    BY <1>2 DEF Init
  <2>2. sess \in [phase : {"none", "hello", "up", "closed"}, clock : BOOLEAN]
    BY DEF Init
  <2> QED BY <1>1, <2>1, <2>2 DEF TypeOK
<1>4. Counted
  <2>1. Cardinality({}) = 0
    BY FS_EmptySet
  <2> QED BY <1>1, <1>2, <2>1, ClientAssumption
          DEF Counted, InflightExact, FlightBounded, ProbingExact, Probes
<1>5. Watched /\ LinksClean
  BY <1>1, <1>2, ClientAssumption DEF Watched, HelloAlone, ClockRuns, LinksClean, Init
<1> QED BY <1>3, <1>4, <1>5 DEF IInv

----------------------------------------------------------------------------
(* What a record becomes when a query of the kind is taken off its path. *)
Fewer(r, s, kind) ==
    /\ s \in Records
    /\ s.inflight = r.inflight - 1
    /\ s.probing <=> (r.probing /\ kind # "probe")
    /\ s.link = r.link /\ s.out = r.out

LEMMA Adding ==
    ASSUME NEW n \in Nat, NEW m \in Nat, NEW cap \in Nat
    PROVE  Add(n, m, cap) \in 0..cap /\ Add(n, m, cap) \in Nat
  BY DEF Add

LEMMA Bounds == 0 \in 0..SuspendAfter /\ SuspendAfter \in Nat /\ PruneAfter \in Nat
  BY ClientAssumption

(* The changes of a record, field by field. *)
LEMMA Taken ==
    ASSUME NEW r \in Records, NEW kind, r.inflight > 0
    PROVE  Fewer(r, [r EXCEPT !.inflight = @ - 1, !.probing = @ /\ kind # "probe"], kind)
<1> PICK b : b \in BOOLEAN /\ (b <=> (r.probing /\ kind # "probe")) /\ b = (r.probing /\ kind # "probe")
  OBVIOUS
<1> PICK n : n = r.inflight - 1
  OBVIOUS
<1>1. n \in Nat
  BY DEF Records
<1> PICK s : s = [r EXCEPT !.inflight = n, !.probing = b]
  OBVIOUS
<1>2. s \in Records
  BY <1>1 DEF Records
<1>3. s.inflight = n /\ s.probing = b /\ s.link = r.link /\ s.out = r.out
  BY DEF Records
<1>4. Fewer(r, s, kind)
  BY <1>2, <1>3 DEF Fewer
<1>5. s = [r EXCEPT !.inflight = r.inflight - 1, !.probing = r.probing /\ kind # "probe"]
  OBVIOUS
<1> QED BY <1>4, <1>5

LEMMA Refused ==
    ASSUME NEW r \in Records, NEW kind, NEW q, Fewer(r, q, kind)
    PROVE  Fewer(r, [q EXCEPT !.aaaa = TRUE, !.outN = 0, !.consec = 0, !.suspended = FALSE], kind)
<1> PICK s : s = [q EXCEPT !.aaaa = TRUE, !.outN = 0, !.consec = 0, !.suspended = FALSE]
  OBVIOUS
<1>1. s \in Records
  BY Bounds DEF Fewer, Records
<1>2. s.inflight = q.inflight /\ s.probing = q.probing /\ s.link = q.link /\ s.out = q.out
  BY DEF Fewer, Records
<1> QED BY <1>1, <1>2 DEF Fewer

LEMMA Counting ==
    ASSUME NEW r \in Records, NEW kind, NEW q, Fewer(r, q, kind), NEW n \in Nat
    PROVE  Fewer(r, Lost(q, n), kind)
<1>1. q \in Records /\ q.consec \in Nat /\ q.outN \in Nat
  BY Bounds DEF Fewer, Records
<1> PICK c : c = Add(q.consec, n, SuspendAfter)
  OBVIOUS
<1> PICK m : m = Add(q.outN, 1, PruneAfter)
  OBVIOUS
<1>2. c \in 0..SuspendAfter /\ m \in Nat
  BY <1>1, Bounds, Adding
<1> PICK s : s = [q EXCEPT !.consec = c, !.outN = m]
  OBVIOUS
<1>3. s \in Records
  BY <1>1, <1>2 DEF Records
<1>4. s.inflight = q.inflight /\ s.probing = q.probing /\ s.link = q.link /\ s.out = q.out
  BY <1>1 DEF Records
<1>5. Fewer(r, s, kind)
  BY <1>3, <1>4 DEF Fewer
<1>6. s = Lost(q, n)
  BY DEF Lost
<1> QED BY <1>5, <1>6

LEMMA OutcomeTyped ==
    ASSUME NEW r \in Records, NEW kind, NEW q, Fewer(r, q, kind), NEW m \in Nat
    PROVE  Fewer(r, [q EXCEPT !.outN = m], kind)
<1> PICK s : s = [q EXCEPT !.outN = m]
  OBVIOUS
<1>1. s \in Records
  BY DEF Fewer, Records
<1>2. s.inflight = q.inflight /\ s.probing = q.probing /\ s.link = q.link /\ s.out = q.out
  BY DEF Fewer, Records
<1> QED BY <1>1, <1>2 DEF Fewer

LEMMA Suspended ==
    ASSUME NEW r \in Records, NEW kind, NEW q, Fewer(r, q, kind), NEW b \in BOOLEAN
    PROVE  Fewer(r, [q EXCEPT !.suspended = b], kind)
<1> PICK s : s = [q EXCEPT !.suspended = b]
  OBVIOUS
<1>1. s \in Records
  BY DEF Fewer, Records
<1>2. s.inflight = q.inflight /\ s.probing = q.probing /\ s.link = q.link /\ s.out = q.out
  BY DEF Fewer, Records
<1> QED BY <1>1, <1>2 DEF Fewer

LEMMA SuspendedIf ==
    ASSUME NEW r \in Records, NEW kind, NEW q, Fewer(r, q, kind), NEW v
    PROVE  Fewer(r, [q EXCEPT !.suspended = @ \/ v], kind)
<1> PICK b : b \in BOOLEAN /\ b = (q.suspended \/ v)
  OBVIOUS
<1>1. Fewer(r, [q EXCEPT !.suspended = b], kind)
  BY Suspended
<1> QED BY <1>1

LEMMA Settled ==
    ASSUME NEW r \in Records, NEW kind, r.inflight > 0
    PROVE  Fewer(r, [r EXCEPT !.inflight = @ - 1, !.outN = Add(@, 1, PruneAfter),
                              !.probing = @ /\ kind # "probe"], kind)
<1> PICK q : q = [r EXCEPT !.inflight = @ - 1, !.probing = @ /\ kind # "probe"] /\ Fewer(r, q, kind)
  BY Taken
<1> PICK m : m = Add(r.outN, 1, PruneAfter)
  OBVIOUS
<1>1. m \in Nat
  <2>1. r.outN \in Nat
    BY DEF Records
  <2> QED BY <2>1, Bounds, Adding
<1>2. Fewer(r, [q EXCEPT !.outN = m], kind)
  BY <1>1, OutcomeTyped
<1>3. [q EXCEPT !.outN = m]
        = [r EXCEPT !.inflight = @ - 1, !.outN = Add(@, 1, PruneAfter), !.probing = @ /\ kind # "probe"]
  BY DEF Records
<1> QED BY <1>2, <1>3

(* A new record of one path. *)
LEMMA Placed ==
    ASSUME NEW ps \in [Paths -> Records], NEW p \in Paths, NEW x \in Records
    PROVE  /\ [ps EXCEPT ![p] = x] \in [Paths -> Records] /\ [ps EXCEPT ![p] = x][p] = x
           /\ \A o \in Paths \ {p} : [ps EXCEPT ![p] = x][o] = ps[o]
  OBVIOUS

(* The path of a live query has it among what it counts. *)
LEMMA LiveFacts ==
    ASSUME TypeOK, InflightExact, NEW t \in Live
    PROVE  /\ t \in Txns /\ t \in Out /\ pending[t] \in Queries /\ pending[t].p \in Paths
           /\ path[pending[t].p] \in Records
           /\ t \in LiveOn(pending[t].p) /\ path[pending[t].p].inflight > 0
<1>1. t \in Txns /\ t \in Out /\ pending[t] \in Queries /\ pending[t].p \in Paths
  BY DEF Live, TypeOK, Queries
<1>2. t \in LiveOn(pending[t].p)
  BY DEF LiveOn
<1>3. LiveOn(pending[t].p) \subseteq Txns
  BY DEF LiveOn, Live, TypeOK
<1>4. Cardinality(LiveOn(pending[t].p)) \in Nat /\ Cardinality(LiveOn(pending[t].p)) - 1 \in Nat
  BY <1>2, <1>3, Less
<1> QED BY <1>1, <1>2, <1>4 DEF TypeOK, InflightExact

LEMMA Failed ==
    ASSUME TypeOK, InflightExact, NEW t \in Live, NEW refused \in BOOLEAN, NEW old \in BOOLEAN
    PROVE  LET p == pending[t].p
               f == FailLocked(path, pending[t], refused, old)
           IN  /\ f \in [Paths -> Records]
               /\ \A o \in Paths \ {p} : f[o] = path[o]
               /\ Fewer(path[p], f[p], pending[t].kind)
<1> PICK p : p = pending[t].p
  OBVIOUS
<1> PICK r : r = path[p]
  OBVIOUS
<1> PICK kind : kind = pending[t].kind
  OBVIOUS
<1>q. PICK q : q = [r EXCEPT !.inflight = @ - 1, !.probing = @ /\ kind # "probe"]
  OBVIOUS
<1>l. PICK l : l = Lost(q, IF refused THEN 3 ELSE 1)
  OBVIOUS
<1>s. PICK s : s = [l EXCEPT !.suspended = @ \/ (l.consec = SuspendAfter /\ (old \/ ~l.verified))]
  OBVIOUS
<1>a. PICK a : a = [q EXCEPT !.aaaa = TRUE, !.outN = 0, !.consec = 0, !.suspended = FALSE]
  OBVIOUS
<1>0. p \in Paths /\ r \in Records /\ r.inflight > 0 /\ path \in [Paths -> Records]
  BY LiveFacts DEF TypeOK
<1>1. Fewer(r, q, kind)
  BY <1>0, <1>q, Taken
<1>2. Fewer(r, a, kind)
  BY <1>0, <1>1, <1>a, Refused
<1>3. Fewer(r, l, kind)
  BY <1>0, <1>1, <1>l, Counting
<1>4. Fewer(r, s, kind)
  BY <1>0, <1>3, <1>s, SuspendedIf
<1>5. Fewer(r, [s EXCEPT !.suspended = FALSE], kind)
  BY <1>0, <1>4, Suspended
<1> PICK f : f = FailLocked(path, pending[t], refused, old)
  OBVIOUS
<1>6. \/ f = [path EXCEPT ![p] = a]
      \/ f = [path EXCEPT ![p] = s]
      \/ f = [[path EXCEPT ![p] = s] EXCEPT ![p].suspended = FALSE]
  BY <1>q, <1>l, <1>s, <1>a DEF FailLocked
<1>7. [[path EXCEPT ![p] = s] EXCEPT ![p].suspended = FALSE] = [path EXCEPT ![p] = [s EXCEPT !.suspended = FALSE]]
  BY <1>0
<1>8. a \in Records /\ s \in Records /\ [s EXCEPT !.suspended = FALSE] \in Records
  BY <1>2, <1>4, <1>5 DEF Fewer
<1> PICK x : x \in Records /\ f = [path EXCEPT ![p] = x] /\ Fewer(r, x, kind)
  BY <1>2, <1>4, <1>5, <1>6, <1>7, <1>8
<1>9. f \in [Paths -> Records] /\ f[p] = x /\ \A o \in Paths \ {p} : f[o] = path[o]
  BY <1>0, Placed
<1> QED BY <1>9

LEMMA Heards ==
    ASSUME TypeOK, InflightExact, NEW t \in Out
    PROVE  LET p == pending[t].p
               f == Answered(pending[t])
           IN  /\ f \in [Paths -> Records]
               /\ \A o \in Paths \ {p} : f[o] = path[o]
               /\ t \in Live => Fewer(path[p], f[p], pending[t].kind)
               /\ t \notin Live => /\ f[p].inflight = path[p].inflight /\ f[p].probing = path[p].probing
                                   /\ f[p].link = path[p].link /\ f[p].out = path[p].out
<1> PICK p : p = pending[t].p
  OBVIOUS
<1> PICK r : r = path[p]
  OBVIOUS
<1> PICK kind : kind = pending[t].kind
  OBVIOUS
<1>0. p \in Paths /\ r \in Records /\ path \in [Paths -> Records] /\ pending[t].live \in BOOLEAN
  BY DEF TypeOK, Queries
<1>1. t \in Live <=> pending[t].live
  BY DEF Live
<1> PICK h : h = Heard(r)
  OBVIOUS
<1>2. h \in Records
  BY <1>0, Bounds DEF Heard, Records
<1>3. h.inflight = r.inflight /\ h.probing = r.probing /\ h.link = r.link /\ h.out = r.out
  BY <1>0 DEF Heard, Records
<1>g. PICK g : g = [h EXCEPT !.inflight = @ - 1, !.outN = Add(@, 1, PruneAfter), !.probing = @ /\ kind # "probe"]
  OBVIOUS
<1>4. t \in Live => Fewer(r, g, kind)
  <2> SUFFICES ASSUME t \in Live PROVE Fewer(r, g, kind)
    OBVIOUS
  <2>1. h.inflight > 0
    BY <1>3, LiveFacts
  <2>2. Fewer(h, g, kind)
    BY <1>g, <1>2, <2>1, Settled
  <2> QED BY <1>3, <2>2 DEF Fewer
<1> PICK f : f = Answered(pending[t])
  OBVIOUS
<1>5. f = [path EXCEPT ![p] = IF ~pending[t].live THEN h ELSE g]
  BY <1>g, <1>3 DEF Answered
<1>6. t \in Live => g \in Records
  BY <1>4 DEF Fewer
<1> PICK x : x \in Records /\ f = [path EXCEPT ![p] = x] /\ x = IF t \in Live THEN g ELSE h
  BY <1>1, <1>2, <1>5, <1>6
<1>7. f \in [Paths -> Records] /\ f[p] = x /\ \A o \in Paths \ {p} : f[o] = path[o]
  BY <1>0, Placed
<1> QED BY <1>3, <1>4, <1>7

----------------------------------------------------------------------------
(* A live query ends: it comes off its own path, and off no other. *)
LEMMA TakenOff ==
    ASSUME TypeOK, Counted, NEW t \in Live,
           Out' \subseteq Out, Live' = Live \ {t},
           \A u \in Live' : pending'[u].p = pending[u].p /\ pending'[u].kind = pending[u].kind,
           \A o \in Paths \ {pending[t].p} : path'[o] = path[o],
           Fewer(path[pending[t].p], path'[pending[t].p], pending[t].kind)
    PROVE  Counted'
<1> PICK p : p = pending[t].p
  OBVIOUS
<1> PICK k : k = pending[t].kind
  OBVIOUS
<1>0. t \in Out /\ p \in Paths /\ t \in LiveOn(p) /\ path[p].inflight > 0
  BY LiveFacts DEF Counted
<1>1. \A o \in Paths : LiveOn(o)' = IF o = p THEN LiveOn(o) \ {t} ELSE LiveOn(o)
  BY DEF LiveOn
<1>2. Out \subseteq Txns /\ Live \subseteq Txns /\ \A o \in Paths : LiveOn(o) \subseteq Txns
  BY DEF TypeOK, LiveOn, Live
<1>3. InflightExact'
  <2> SUFFICES ASSUME NEW o \in Paths PROVE path'[o].inflight = Cardinality(LiveOn(o)')
    BY DEF InflightExact
  <2>1. path[o].inflight = Cardinality(LiveOn(o))
    BY DEF Counted, InflightExact
  <2>2. CASE o = p
    <3>1. Cardinality(LiveOn(p) \ {t}) = Cardinality(LiveOn(p)) - 1
      BY <1>0, <1>2, Less
    <3> QED BY <1>1, <2>1, <2>2, <3>1 DEF Fewer
  <2>3. CASE o # p
    BY <1>1, <2>1, <2>3
  <2> QED BY <2>2, <2>3
<1>4. FlightBounded'
  <2>1. Cardinality(Live') <= Cardinality(Live) /\ Cardinality(Live') \in Nat /\ Cardinality(Live) \in Nat
    BY <1>2, Sizes2
  <2>2. Cardinality(Out') <= Cardinality(Out) /\ Cardinality(Out') \in Nat /\ Cardinality(Out) \in Nat
    BY <1>2, Sizes2
  <2> QED BY <2>1, <2>2, ClientAssumption DEF Counted, FlightBounded
<1>5. ProbingExact'
  <2> SUFFICES ASSUME NEW o \in Paths
               PROVE  (path'[o].probing <=> Probes(o)' # {}) /\ \A u, v \in Probes(o)' : u = v
    BY DEF ProbingExact
  <2>1. (path[o].probing <=> Probes(o) # {}) /\ \A u, v \in Probes(o) : u = v
    BY DEF Counted, ProbingExact
  <2>2. Probes(o)' = IF o = p THEN Probes(o) \ {t} ELSE Probes(o)
    <3>1. LiveOn(o)' \subseteq Live'
      BY DEF LiveOn
    <3>2. t \notin LiveOn(o) \/ o = p
      BY DEF LiveOn
    <3> QED BY <1>1, <3>1, <3>2 DEF Probes
  <2>3. t \in Probes(p) <=> k = "probe"
    BY <1>0 DEF Probes
  <2>4. CASE o = p /\ k = "probe"
    <3>1. Probes(o)' = {}
      BY <2>1, <2>2, <2>3, <2>4
    <3> QED BY <3>1, <2>4 DEF Fewer
  <2>5. CASE o = p /\ k # "probe"
    <3>1. Probes(o)' = Probes(o)
      BY <2>2, <2>3, <2>5
    <3>2. path'[p].probing <=> path[p].probing
      BY <2>5 DEF Fewer
    <3> QED BY <2>1, <2>5, <3>1, <3>2
  <2>6. CASE o # p
    BY <2>1, <2>2, <2>6
  <2> QED BY <2>4, <2>5, <2>6
<1> QED BY <1>3, <1>4, <1>5 DEF Counted

(* What changes no live query and no count of a path. *)
LEMMA Rest ==
    ASSUME TypeOK, Counted, Out' \subseteq Out, Live' = Live,
           \A u \in Live : pending'[u].p = pending[u].p /\ pending'[u].kind = pending[u].kind,
           \A o \in Paths : path'[o].inflight = path[o].inflight /\ (path'[o].probing <=> path[o].probing)
    PROVE  Counted'
<1>1. \A o \in Paths : LiveOn(o)' = LiveOn(o)
  BY DEF LiveOn
<1>2. \A o \in Paths : Probes(o)' = Probes(o)
  <2>1. \A o \in Paths : LiveOn(o) \subseteq Live
    BY DEF LiveOn
  <2> QED BY <1>1, <2>1 DEF Probes
<1>3. Cardinality(Out') <= Cardinality(Out) /\ Cardinality(Out') \in Nat /\ Cardinality(Out) \in Nat
  BY Sizes2 DEF TypeOK
<1>4. FlightBounded'
  BY <1>3, ClientAssumption DEF Counted, FlightBounded
<1>5. InflightExact'
  BY <1>1 DEF Counted, InflightExact
<1>6. ProbingExact'
  BY <1>2 DEF Counted, ProbingExact
<1> QED BY <1>4, <1>5, <1>6 DEF Counted

----------------------------------------------------------------------------
(* A query given up, and one left by its session. *)
LEMMA GiveUp ==
    ASSUME NEW q \in Queries, NEW v \in BOOLEAN
    PROVE  LET r == [q EXCEPT !.live = @ /\ v]
           IN  r \in Queries /\ r.p = q.p /\ r.kind = q.kind /\ r.own = q.own /\ (r.live <=> (q.live /\ v))
<1>b. PICK b : b \in BOOLEAN /\ b = (q.live /\ v)
  OBVIOUS
<1>1. LET r == [q EXCEPT !.live = b]
      IN  r \in Queries /\ r.p = q.p /\ r.kind = q.kind /\ r.own = q.own /\ r.live = b
  <2>1. b \in BOOLEAN
    BY <1>b
  <2> QED BY <2>1 DEF Queries
<1>2. b = (q.live /\ v) /\ (b <=> (q.live /\ v))
  BY <1>b
<1> QED BY <1>1, <1>2

LEMMA Disown ==
    ASSUME NEW q \in Queries
    PROVE  LET r == [q EXCEPT !.own = FALSE]
           IN  r \in Queries /\ r.p = q.p /\ r.kind = q.kind /\ r.live = q.live /\ ~r.own
  BY DEF Queries

(* The table without one query, and with some given up. *)
LEMMA Removed ==
    ASSUME TypeOK, NEW t, pending' = Without(t)
    PROVE  /\ Out' = Out \ {t} /\ Live' = Live \ {t}
           /\ \A u \in Out' : pending'[u] = pending[u] /\ pending'[u] \in Queries
<1>1. Out' = Out \ {t} /\ \A u \in Out' : pending'[u] = pending[u]
  BY DEF Without, Out
<1> QED BY <1>1 DEF Live, TypeOK

LEMMA Ended ==
    ASSUME TypeOK, NEW S, pending' = GivenUp(S)
    PROVE  /\ Out' = Out /\ Live' = Live \ S
           /\ \A u \in Out : /\ pending'[u].p = pending[u].p /\ pending'[u].kind = pending[u].kind
                              /\ pending'[u].own = pending[u].own /\ pending'[u] \in Queries
<1>1. Out' = Out
  BY DEF GivenUp, Out
<1>2. ASSUME NEW u \in Out
      PROVE  /\ pending'[u].p = pending[u].p /\ pending'[u].kind = pending[u].kind
             /\ pending'[u].own = pending[u].own /\ pending'[u] \in Queries
             /\ (pending'[u].live <=> (pending[u].live /\ u \notin S))
  <2>q. PICK q : q = pending[u]
    OBVIOUS
  <2>r. PICK r : r = pending'[u]
    OBVIOUS
  <2>1. q \in Queries
    BY <2>q DEF TypeOK
  <2>v. PICK v : v \in BOOLEAN /\ v = (u \notin S)
    OBVIOUS
  <2>2. v \in BOOLEAN /\ r = [q EXCEPT !.live = @ /\ v]
    BY <2>q, <2>r, <2>v DEF GivenUp, Out
  <2>3. /\ r \in Queries /\ r.p = q.p /\ r.kind = q.kind /\ r.own = q.own
        /\ (r.live <=> (q.live /\ v))
    BY <2>1, <2>2, GiveUp, Zenon
  <2>4. v <=> u \notin S
    BY <2>v
  <2> QED BY <2>3, <2>4, <2>q, <2>r
<1>3. Live' = Live \ S
  BY <1>1, <1>2 DEF Live
<1> QED BY <1>1, <1>2, <1>3

(* Nothing that the session waits for is added. *)
LEMMA Quiet ==
    ASSUME Watched, Out' \subseteq Out, Live' \subseteq Live,
           \A u \in Out' : (pending'[u].own => pending[u].own) /\ pending'[u].kind = pending[u].kind,
           sess' = sess
    PROVE  Watched'
<1>1. Live' \subseteq Out'
  BY DEF Live
<1> QED BY <1>1 DEF Watched, HelloAlone, ClockRuns

LEMMA SameLinks ==
    ASSUME LinksClean, \A p \in Paths : path'[p].link = path[p].link /\ path'[p].out = path[p].out
    PROVE  LinksClean'
  BY ClientAssumption DEF LinksClean

(* A table that keeps its queries *)
LEMMA SamePending ==
    ASSUME UNCHANGED pending
    PROVE  UNCHANGED <<Out, Live>> /\ \A p : UNCHANGED LiveOn(p)
  BY DEF Out, Live, LiveOn

----------------------------------------------------------------------------
LEMMA SessionKeeps == ASSUME IInv, Session PROVE IInv'
<1>0. TypeOK /\ Counted /\ Watched /\ LinksClean
  BY DEF IInv
<1>1. Out' = Out
  BY DEF Session, Out
<1>2. ASSUME NEW t \in Out
      PROVE  /\ pending'[t].p = pending[t].p /\ pending'[t].kind = pending[t].kind
             /\ pending'[t].live = pending[t].live /\ ~pending'[t].own /\ pending'[t] \in Queries
  <2>q. PICK q : q = pending[t]
    OBVIOUS
  <2>r. PICK r : r = pending'[t]
    OBVIOUS
  <2>1. q \in Queries
    BY <1>0, <2>q DEF TypeOK
  <2>2. r = [q EXCEPT !.own = FALSE]
    BY <2>q, <2>r DEF Session, Out
  <2>3. r \in Queries /\ r.p = q.p /\ r.kind = q.kind /\ r.live = q.live /\ ~r.own
    BY <2>1, <2>2, Disown
  <2> QED BY <2>3, <2>q, <2>r
<1>3. Live' = Live
  BY <1>1, <1>2 DEF Live
<1>4. path' = path /\ sess' = [phase |-> "hello", clock |-> FALSE]
  BY DEF Session
<1>5. TypeOK'
  BY <1>0, <1>1, <1>2, <1>4 DEF TypeOK
<1>6. Counted'
  <2>1. \A u \in Live : u \in Out
    BY DEF Live
  <2> QED BY <1>0, <1>1, <1>2, <1>3, <1>4, <2>1, Rest
<1>7. Watched'
  <2>1. HelloAlone'
    BY <1>1, <1>2 DEF HelloAlone
  <2>2. ClockRuns'
    BY <1>4 DEF ClockRuns
  <2> QED BY <2>1, <2>2 DEF Watched
<1>8. LinksClean'
  BY <1>0, <1>4, SameLinks
<1> QED BY <1>5, <1>6, <1>7, <1>8 DEF IInv

LEMMA ExpireKeeps ==
    ASSUME IInv, NEW t \in Out, NEW refused \in BOOLEAN, NEW old \in BOOLEAN, Expire(t, refused, old)
    PROVE  IInv'
<1>0. TypeOK /\ Counted /\ InflightExact /\ Watched /\ LinksClean
  BY DEF IInv, Counted
<1>1. t \in Live /\ path' = FailLocked(path, pending[t], refused, old) /\ pending' = GivenUp({t}) /\ sess' = sess
  BY DEF Expire
<1>2. /\ path' \in [Paths -> Records]
      /\ \A o \in Paths \ {pending[t].p} : path'[o] = path[o]
      /\ Fewer(path[pending[t].p], path'[pending[t].p], pending[t].kind)
  BY <1>0, <1>1, Failed
<1>3. /\ Out' = Out /\ Live' = Live \ {t}
      /\ \A u \in Out : /\ pending'[u].p = pending[u].p /\ pending'[u].kind = pending[u].kind
                         /\ pending'[u].own = pending[u].own /\ pending'[u] \in Queries
  BY <1>0, <1>1, Ended
<1>4. TypeOK'
  BY <1>0, <1>1, <1>2, <1>3 DEF TypeOK
<1>5. \A u \in Live' : u \in Out
  BY <1>3 DEF Live
<1>6. Counted'
  BY <1>0, <1>1, <1>2, <1>3, <1>5, TakenOff
<1>7. Watched'
  BY <1>0, <1>1, <1>3, Quiet
<1>8. LinksClean'
  BY <1>0, <1>2, SameLinks DEF Fewer
<1> QED BY <1>4, <1>6, <1>7, <1>8 DEF IInv

LEMMA ForgetKeeps == ASSUME IInv, NEW t \in Out, Forget(t) PROVE IInv'
<1>0. TypeOK /\ Counted /\ Watched /\ LinksClean
  BY DEF IInv
<1>1. t \notin Live /\ pending' = Without(t) /\ path' = path /\ sess' = sess
  BY DEF Forget
<1>2. /\ Out' = Out \ {t} /\ Live' = Live
      /\ \A u \in Out' : pending'[u] = pending[u] /\ pending'[u] \in Queries
  BY <1>0, <1>1, Removed
<1>3. \A u \in Live : u \in Out'
  BY <1>1, <1>2 DEF Live
<1>4. TypeOK'
  BY <1>0, <1>1, <1>2 DEF TypeOK
<1>5. Counted'
  BY <1>0, <1>1, <1>2, <1>3, Rest
<1>6. Watched'
  BY <1>0, <1>1, <1>2, Quiet
<1>7. LinksClean'
  BY <1>0, <1>1, SameLinks
<1> QED BY <1>4, <1>5, <1>6, <1>7 DEF IInv

(* An answer, whatever it says to the session, takes its query off.        *)
LEMMA AnswerCounts ==
    ASSUME IInv, NEW t \in Out, pending' = Without(t), path' = Answered(pending[t])
    PROVE  /\ path' \in [Paths -> Records] /\ Counted' /\ LinksClean'
           /\ Out' = Out \ {t} /\ Live' = Live \ {t}
           /\ \A u \in Out' : pending'[u] = pending[u] /\ pending'[u] \in Queries
<1>0. TypeOK /\ Counted /\ InflightExact /\ LinksClean
  BY DEF IInv, Counted
<1>1. /\ Out' = Out \ {t} /\ Live' = Live \ {t}
      /\ \A u \in Out' : pending'[u] = pending[u] /\ pending'[u] \in Queries
  BY <1>0, Removed
<1>2. /\ path' \in [Paths -> Records]
      /\ \A o \in Paths \ {pending[t].p} : path'[o] = path[o]
      /\ t \in Live => Fewer(path[pending[t].p], path'[pending[t].p], pending[t].kind)
      /\ t \notin Live => LET p == pending[t].p
                         IN  /\ path'[p].inflight = path[p].inflight /\ path'[p].probing = path[p].probing
                             /\ path'[p].link = path[p].link /\ path'[p].out = path[p].out
  BY <1>0, Heards
<1>3. \A u \in Live' : u \in Out'
  BY DEF Live
<1>4. Counted'
  <2>1. CASE t \in Live
    BY <1>0, <1>1, <1>2, <1>3, <2>1, TakenOff
  <2>2. CASE t \notin Live
    <3>1. Live' = Live
      BY <1>1, <2>2
    <3>2. \A o \in Paths : path'[o].inflight = path[o].inflight /\ (path'[o].probing <=> path[o].probing)
      BY <1>2, <2>2
    <3> QED BY <1>0, <1>1, <1>3, <3>1, <3>2, Rest
  <2> QED BY <2>1, <2>2
<1>5. LinksClean'
  BY <1>0, <1>2, SameLinks DEF Fewer
<1> QED BY <1>1, <1>2, <1>4, <1>5

LEMMA OnAnswerKeeps ==
    ASSUME IInv, NEW t \in Out, NEW bad \in BOOLEAN, OnAnswer(t, bad) PROVE IInv'
<1>0. TypeOK /\ Watched
  BY DEF IInv
<1>1. /\ pending[t].kind # "hello" /\ pending' = Without(t) /\ path' = Answered(pending[t])
      /\ sess' = IF ~pending[t].own THEN sess
                 ELSE [phase |-> IF bad THEN "closed" ELSE sess.phase, clock |-> ClockAfter(t)]
  BY DEF OnAnswer
<1>2. /\ path' \in [Paths -> Records] /\ Counted' /\ LinksClean'
      /\ Out' = Out \ {t} /\ Live' = Live \ {t}
      /\ \A u \in Out' : pending'[u] = pending[u] /\ pending'[u] \in Queries
  BY <1>1, AnswerCounts
<1>3. ClockAfter(t) \in BOOLEAN
  BY DEF ClockAfter
<1>4. TypeOK'
  <2>1. sess' \in [phase : {"none", "hello", "up", "closed"}, clock : BOOLEAN]
    BY <1>0, <1>1, <1>3 DEF TypeOK
  <2> QED BY <1>0, <1>2, <2>1 DEF TypeOK
<1>5. CASE ~pending[t].own
  <2>1. Watched'
    BY <1>0, <1>1, <1>2, <1>5, Quiet
  <2> QED BY <1>2, <1>4, <2>1 DEF IInv
<1>6. CASE pending[t].own
  <2>1. sess.phase # "hello"
    BY <1>0, <1>1, <1>6 DEF Watched, HelloAlone
  <2>2. sess'.phase # "hello" /\ (sess'.clock <=> ClockAfter(t))
    BY <1>1, <1>3, <1>6, <2>1
  <2>3. \A u \in Live' : u \in Live \ {t} /\ u \in Out'
    BY <1>2 DEF Live
  <2>4. ClockRuns'
    BY <1>2, <2>2, <2>3 DEF ClockRuns, ClockAfter
  <2>5. HelloAlone'
    BY <2>2 DEF HelloAlone
  <2> QED BY <1>2, <1>4, <2>4, <2>5 DEF IInv, Watched
<1> QED BY <1>5, <1>6

LEMMA OnHelloKeeps == ASSUME IInv, NEW t \in Out, OnHello(t) PROVE IInv'
<1>0. TypeOK /\ Watched
  BY DEF IInv
<1>1. /\ pending[t].kind = "hello" /\ pending' = Without(t) /\ path' = Answered(pending[t])
      /\ sess' = IF pending[t].own /\ sess.phase = "hello" THEN [sess EXCEPT !.phase = "up"] ELSE sess
  BY DEF OnHello
<1>2. /\ path' \in [Paths -> Records] /\ Counted' /\ LinksClean'
      /\ Out' = Out \ {t} /\ Live' = Live \ {t}
      /\ \A u \in Out' : pending'[u] = pending[u] /\ pending'[u] \in Queries
  BY <1>1, AnswerCounts
<1>3. TypeOK'
  BY <1>0, <1>1, <1>2 DEF TypeOK
<1>4. CASE pending[t].own /\ sess.phase = "hello"
  <2>1. sess'.phase = "up"
    BY <1>0, <1>1, <1>4 DEF TypeOK
  <2>2. \A u \in Live' : u \in Out' /\ (pending'[u].own => pending'[u].kind = "hello")
    BY <1>0, <1>2, <1>4 DEF Live, Watched, HelloAlone
  <2>3. Watched'
    BY <2>1, <2>2 DEF Watched, HelloAlone, ClockRuns
  <2> QED BY <1>2, <1>3, <2>3 DEF IInv
<1>5. CASE ~(pending[t].own /\ sess.phase = "hello")
  <2>1. Watched'
    BY <1>0, <1>1, <1>2, <1>5, Quiet
  <2> QED BY <1>2, <1>3, <2>1 DEF IInv
<1> QED BY <1>4, <1>5

LEMMA OnUnknownSessionKeeps ==
    ASSUME IInv, NEW t \in Out, NEW old \in BOOLEAN, OnUnknownSession(t, old) PROVE IInv'
<1>0. TypeOK /\ Counted /\ InflightExact /\ Watched /\ LinksClean
  BY DEF IInv, Counted
<1>1. /\ pending[t].kind # "hello"
      /\ sess' = IF pending[t].own THEN [sess EXCEPT !.phase = "closed"] ELSE sess
  BY DEF OnUnknownSession
<1>2. sess' \in [phase : {"none", "hello", "up", "closed"}, clock : BOOLEAN]
      /\ (sess' = sess \/ sess'.phase = "closed")
  BY <1>0, <1>1 DEF TypeOK
<1>3. CASE t \in Live
  <2>1. pending' = Without(t) /\ path' = FailLocked(path, pending[t], FALSE, old)
    BY <1>3 DEF OnUnknownSession
  <2>2. /\ Out' = Out \ {t} /\ Live' = Live \ {t}
        /\ \A u \in Out' : pending'[u] = pending[u] /\ pending'[u] \in Queries
    BY <1>0, <2>1, Removed
  <2>3. /\ path' \in [Paths -> Records]
        /\ \A o \in Paths \ {pending[t].p} : path'[o] = path[o]
        /\ Fewer(path[pending[t].p], path'[pending[t].p], pending[t].kind)
    BY <1>0, <1>3, <2>1, Failed
  <2>4. TypeOK'
    BY <1>0, <1>2, <2>2, <2>3 DEF TypeOK
  <2>5. \A u \in Live' : u \in Out'
    BY DEF Live
  <2>6. Counted'
    BY <1>0, <1>3, <2>2, <2>3, <2>5, TakenOff
  <2>7. Watched'
    <3>1. CASE sess' = sess
      BY <1>0, <2>2, <3>1, Quiet
    <3>2. CASE sess'.phase = "closed"
      BY <3>2 DEF Watched, HelloAlone, ClockRuns
    <3> QED BY <1>2, <3>1, <3>2
  <2>8. LinksClean'
    BY <1>0, <2>3, SameLinks DEF Fewer
  <2> QED BY <2>4, <2>6, <2>7, <2>8 DEF IInv
<1>4. CASE t \notin Live
  <2>1. pending' = pending /\ path' = path
    BY <1>4 DEF OnUnknownSession
  <2>2. Out' = Out /\ Live' = Live
    BY <2>1, SamePending
  <2>3. TypeOK'
    BY <1>0, <1>2, <2>1, <2>2 DEF TypeOK
  <2>4. Counted'
    BY <1>0, <2>1, <2>2, Rest
  <2>5. Watched'
    <3>1. CASE sess' = sess
      BY <1>0, <2>1, <2>2, <3>1, Quiet
    <3>2. CASE sess'.phase = "closed"
      BY <3>2 DEF Watched, HelloAlone, ClockRuns
    <3> QED BY <1>2, <3>1, <3>2
  <2>6. LinksClean'
    BY <1>0, <2>1, SameLinks
  <2> QED BY <2>3, <2>4, <2>5, <2>6 DEF IInv
<1> QED BY <1>3, <1>4

LEMMA CheckLivenessKeeps == ASSUME IInv, CheckLiveness PROVE IInv'
<1>0. TypeOK /\ Counted /\ Watched /\ LinksClean
  BY DEF IInv
<1>1. pending' = pending /\ path' = path /\ sess' = [sess EXCEPT !.phase = "closed"]
  BY DEF CheckLiveness
<1>2. Out' = Out /\ Live' = Live
  BY <1>1, SamePending
<1>3. TypeOK' /\ sess'.phase = "closed"
  BY <1>0, <1>1, <1>2 DEF TypeOK
<1>4. Counted'
  BY <1>0, <1>1, <1>2, Rest
<1>5. Watched'
  BY <1>3 DEF Watched, HelloAlone, ClockRuns
<1>6. LinksClean'
  BY <1>0, <1>1, SameLinks
<1> QED BY <1>3, <1>4, <1>5, <1>6 DEF IInv

----------------------------------------------------------------------------
(* The steps that change one path and no count of it. *)
LEMMA OnePath ==
    ASSUME IInv, NEW p \in Paths, NEW r \in Records, SetLink(p, r),
           r.inflight = path[p].inflight, r.probing <=> path[p].probing
    PROVE  TypeOK' /\ Counted' /\ Watched' /\ path' = [path EXCEPT ![p] = r]
<1>0. TypeOK /\ Counted /\ Watched
  BY DEF IInv
<1>1. path' = [path EXCEPT ![p] = r] /\ pending' = pending /\ sess' = sess
  BY DEF SetLink
<1>2. Out' = Out /\ Live' = Live
  BY <1>1, SamePending
<1>3. path' \in [Paths -> Records] /\ path'[p] = r /\ \A o \in Paths \ {p} : path'[o] = path[o]
  BY <1>0, <1>1, Placed DEF TypeOK
<1>4. TypeOK'
  BY <1>0, <1>1, <1>2, <1>3 DEF TypeOK
<1>5. Counted'
  BY <1>0, <1>1, <1>2, <1>3, Rest
<1>6. Watched'
  BY <1>0, <1>1, <1>2, Quiet
<1> QED BY <1>1, <1>4, <1>5, <1>6

LEMMA OnePathKeeps ==
    ASSUME IInv, NEW p \in Paths, NEW r \in Records, SetLink(p, r),
           r.inflight = path[p].inflight, r.probing <=> path[p].probing,
           p \in Tcp => /\ r.link = "dialling" => r.out = {}
                        /\ r.link = "up" => "old" \notin r.out
    PROVE  IInv'
<1>1. TypeOK' /\ Counted' /\ Watched' /\ path' = [path EXCEPT ![p] = r]
  BY OnePath
<1>2. path \in [Paths -> Records] /\ LinksClean
  BY DEF IInv, TypeOK
<1>3. path'[p] = r /\ \A o \in Paths \ {p} : path'[o] = path[o]
  BY <1>1, <1>2, Placed
<1>4. LinksClean'
  BY <1>2, <1>3, ClientAssumption DEF LinksClean
<1> QED BY <1>1, <1>4 DEF IInv

LEMMA UnsuspendKeeps == ASSUME IInv, NEW p \in Paths, Unsuspend(p) PROVE IInv'
<1> PICK r : r = [path[p] EXCEPT !.suspended = FALSE]
  OBVIOUS
<1>0. path \in [Paths -> Records] /\ LinksClean
  BY DEF IInv, TypeOK
<1>1. /\ r \in Records /\ r.inflight = path[p].inflight /\ r.probing = path[p].probing
      /\ r.link = path[p].link /\ r.out = path[p].out
  BY <1>0 DEF Records
<1>2. SetLink(p, r)
  BY <1>0 DEF Unsuspend, SetLink
<1> QED BY <1>0, <1>1, <1>2, OnePathKeeps DEF LinksClean

LEMMA PruneKeeps == ASSUME IInv, NEW p \in Paths, Prune(p) PROVE IInv'
<1> PICK k : k = CASE path[p].link = "up" -> "broken" [] path[p].link = "dialling" -> "gone"
                   [] OTHER -> path[p].link
  OBVIOUS
<1> PICK r : r = [path[p] EXCEPT !.listed = FALSE, !.link = k]
  OBVIOUS
<1>0. path \in [Paths -> Records]
  BY DEF IInv, TypeOK
<1>1. k \in {"none", "broken", "gone"}
  BY <1>0 DEF Records
<1>2. r \in Records /\ r.inflight = path[p].inflight /\ r.probing = path[p].probing /\ r.link = k
  BY <1>0, <1>1 DEF Records
<1>3. SetLink(p, r)
  BY DEF Prune
<1> QED BY <1>1, <1>2, <1>3, OnePathKeeps

LEMMA AddCandidateKeeps == ASSUME IInv, NEW p \in Paths, AddCandidate(p) PROVE IInv'
<1> PICK r : r = [path[p] EXCEPT !.listed = TRUE, !.tried = TRUE]
  OBVIOUS
<1>0. path \in [Paths -> Records] /\ LinksClean
  BY DEF IInv, TypeOK
<1>1. /\ r \in Records /\ r.inflight = path[p].inflight /\ r.probing = path[p].probing
      /\ r.link = path[p].link /\ r.out = path[p].out
  BY <1>0 DEF Records
<1>2. SetLink(p, r)
  BY DEF AddCandidate
<1> QED BY <1>0, <1>1, <1>2, OnePathKeeps DEF LinksClean

LEMMA DialledFacts ==
    ASSUME NEW r \in Records
    PROVE  LET u == [r EXCEPT !.link = "up", !.out = {}]
           IN  u \in Records /\ u.inflight = r.inflight /\ u.probing = r.probing /\ u.out = {} /\ u.link = "up"
  BY DEF Records

LEMMA DialledKeeps == ASSUME IInv, NEW p \in Tcp, Dialled(p) PROVE IInv'
<1>r. PICK r : r = [path[p] EXCEPT !.link = "up", !.out = {"old" : m \in @}]
  OBVIOUS
<1>0. p \in Paths /\ path \in [Paths -> Records] /\ LinksClean
  BY ClientAssumption DEF IInv, TypeOK
<1>1. path[p].out = {}
  BY <1>0 DEF Dialled, LinksClean
<1>2. r = [path[p] EXCEPT !.link = "up", !.out = {}]
  <2>1. {"old" : m \in path[p].out} = {}
    BY <1>1
  <2> QED BY <1>r, <2>1
<1>3. r \in Records /\ r.inflight = path[p].inflight /\ r.probing = path[p].probing /\ r.out = {} /\ r.link = "up"
  BY <1>0, <1>2, DialledFacts
<1>4. SetLink(p, r)
  BY <1>r DEF Dialled
<1> QED BY <1>0, <1>3, <1>4, OnePathKeeps

LEMMA ServeLinkKeeps == ASSUME IInv, NEW p \in Tcp, ServeLink(p) PROVE IInv'
<1> PICK r : r = [path[p] EXCEPT !.out = {}]
  OBVIOUS
<1>0. p \in Paths /\ path \in [Paths -> Records]
  BY ClientAssumption DEF IInv, TypeOK
<1>1. r \in Records /\ r.inflight = path[p].inflight /\ r.probing = path[p].probing /\ r.out = {}
  BY <1>0 DEF Records
<1>2. SetLink(p, r)
  BY DEF ServeLink
<1> QED BY <1>0, <1>1, <1>2, OnePathKeeps

LEMMA BreaksKeeps == ASSUME IInv, NEW p \in Tcp, Breaks(p) PROVE IInv'
<1> PICK r : r = [path[p] EXCEPT !.link = "broken"]
  OBVIOUS
<1>0. p \in Paths /\ path \in [Paths -> Records]
  BY ClientAssumption DEF IInv, TypeOK
<1>1. r \in Records /\ r.inflight = path[p].inflight /\ r.probing = path[p].probing /\ r.link = "broken"
  BY <1>0 DEF Records
<1>2. SetLink(p, r)
  BY DEF Breaks
<1> QED BY <1>0, <1>1, <1>2, OnePathKeeps

----------------------------------------------------------------------------
(* The record of a path whose link has ended. *)
Fallen(r, n, b) ==
    [r EXCEPT !.inflight = @ - n, !.consec = Add(@, n, SuspendAfter), !.outN = Add(@, n, PruneAfter), !.probing = b]

LEMMA FallenCounts ==
    ASSUME NEW r \in Records, NEW b \in BOOLEAN
    PROVE  LET f == Fallen(r, r.inflight, b) IN f \in Records /\ f.inflight = 0 /\ f.probing = b
<1>c. PICK c : c = Add(r.consec, r.inflight, SuspendAfter)
  OBVIOUS
<1>m. PICK m : m = Add(r.outN, r.inflight, PruneAfter)
  OBVIOUS
<1>1. r.consec \in Nat /\ r.outN \in Nat /\ r.inflight \in Nat
  BY Bounds DEF Records
<1>2. c \in 0..SuspendAfter /\ m \in Nat
  BY <1>c, <1>m, <1>1, Bounds, Adding
<1>3. Fallen(r, r.inflight, b) = [r EXCEPT !.inflight = 0, !.consec = c, !.outN = m, !.probing = b]
  <2>1. r.inflight - r.inflight = 0
    BY <1>1
  <2> QED BY <1>c, <1>m, <2>1 DEF Fallen
<1>f. PICK f : f = [r EXCEPT !.inflight = 0, !.consec = c, !.outN = m, !.probing = b]
  OBVIOUS
<1>4. f \in Records /\ f.inflight = 0 /\ f.probing = b
  BY <1>2, <1>f DEF Records
<1> QED BY <1>3, <1>4, <1>f

LEMMA FallenLink ==
    ASSUME NEW f \in Records
    PROVE  LET s == [f EXCEPT !.suspended = @ /\ ~f.listed, !.out = {},
                              !.link = IF f.listed THEN "dialling" ELSE "gone"]
           IN  s \in Records /\ s.inflight = f.inflight /\ s.probing = f.probing /\ s.out = {} /\ s.link # "up"
<1>v. PICK v : v \in BOOLEAN /\ v = (f.suspended /\ ~f.listed)
  OBVIOUS
<1>k. PICK k : k \in {"dialling", "gone"} /\ k = IF f.listed THEN "dialling" ELSE "gone"
  OBVIOUS
<1>1. v \in BOOLEAN /\ k \in {"dialling", "gone"}
  BY <1>v, <1>k
<1>s. PICK s : s = [f EXCEPT !.suspended = v, !.out = {}, !.link = k]
  OBVIOUS
<1>2. s \in Records /\ s.inflight = f.inflight /\ s.probing = f.probing /\ s.out = {} /\ s.link = k
  BY <1>1, <1>s DEF Records
<1>3. k # "up"
  BY <1>1
<1>4. s = [f EXCEPT !.suspended = @ /\ ~f.listed, !.out = {}, !.link = IF f.listed THEN "dialling" ELSE "gone"]
  BY <1>s, <1>v, <1>k
<1> QED BY <1>2, <1>3, <1>4

LEMMA LinkDownKeeps == ASSUME IInv, NEW p \in Tcp, LinkDown(p) PROVE IInv'
<1>b. PICK b : b \in BOOLEAN /\ b = (path[p].probing /\ ~\E t \in LiveOn(p) : pending[t].kind = "probe")
  OBVIOUS
<1>0. p \in Paths /\ TypeOK /\ Counted /\ Watched /\ LinksClean
  BY ClientAssumption DEF IInv
<1>1. path[p].inflight = Cardinality(LiveOn(p)) /\ path[p] \in Records /\ path \in [Paths -> Records]
  BY <1>0 DEF Counted, InflightExact, TypeOK
<1>f. PICK f : f = Fallen(path[p], path[p].inflight, b)
  OBVIOUS
<1>s. PICK s : s = [f EXCEPT !.suspended = @ /\ ~f.listed, !.out = {},
                           !.link = IF f.listed THEN "dialling" ELSE "gone"]
  OBVIOUS
<1>2. path' = [path EXCEPT ![p] = s]
  BY <1>b, <1>f, <1>s, <1>1 DEF LinkDown, Fallen
<1>3. pending' = GivenUp(LiveOn(p)) /\ sess' = sess
  BY DEF LinkDown
<1>4. s \in Records /\ s.inflight = 0 /\ s.probing = b /\ s.out = {} /\ s.link # "up"
  <2>1. b \in BOOLEAN
    BY <1>b
  <2>2. f \in Records /\ f.inflight = 0 /\ f.probing = b
    BY <1>1, <1>f, <2>1, FallenCounts
  <2> QED BY <1>s, <2>2, FallenLink
<1>5. path' \in [Paths -> Records] /\ path'[p] = s /\ \A o \in Paths \ {p} : path'[o] = path[o]
  BY <1>0, <1>1, <1>2, <1>4, Placed
<1>6. /\ Out' = Out /\ Live' = Live \ LiveOn(p)
      /\ \A u \in Out : /\ pending'[u].p = pending[u].p /\ pending'[u].kind = pending[u].kind
                         /\ pending'[u].own = pending[u].own /\ pending'[u] \in Queries
  BY <1>0, <1>3, Ended
<1>7. TypeOK'
  BY <1>0, <1>3, <1>5, <1>6 DEF TypeOK
<1>8. \A u \in Live : u \in Out
  BY DEF Live
<1>9. \A o \in Paths : LiveOn(o)' = IF o = p THEN {} ELSE LiveOn(o)
  BY <1>6, <1>8 DEF LiveOn
<1>10. InflightExact'
  <2>1. Cardinality({}) = 0
    BY FS_EmptySet
  <2> QED BY <1>0, <1>4, <1>5, <1>9, <2>1 DEF Counted, InflightExact
<1>11. FlightBounded'
  <2>1. Out \subseteq Txns /\ Live \subseteq Txns /\ Live' \subseteq Live
    BY <1>0, <1>6 DEF TypeOK, Live
  <2>2. Cardinality(Live') <= Cardinality(Live) /\ Cardinality(Live') \in Nat /\ Cardinality(Live) \in Nat
    BY <2>1, Sizes2
  <2> QED BY <1>0, <1>6, <2>2, ClientAssumption DEF Counted, FlightBounded
<1>12. ProbingExact'
  <2> SUFFICES ASSUME NEW o \in Paths
               PROVE  (path'[o].probing <=> Probes(o)' # {}) /\ \A u, v \in Probes(o)' : u = v
    BY DEF ProbingExact
  <2>1. (path[o].probing <=> Probes(o) # {}) /\ \A u, v \in Probes(o) : u = v
    BY <1>0 DEF Counted, ProbingExact
  <2>2. CASE o = p
    <3>1. Probes(o)' = {}
      BY <1>9, <2>2 DEF Probes
    <3>2. ~b
      BY <1>b, <2>1, <2>2 DEF Probes
    <3> QED BY <1>4, <1>5, <2>2, <3>1, <3>2
  <2>3. CASE o # p
    <3>1. LiveOn(o) \subseteq Out
      BY <1>8 DEF LiveOn
    <3>2. Probes(o)' = Probes(o)
      BY <1>6, <1>9, <2>3, <3>1 DEF Probes
    <3> QED BY <1>5, <2>1, <2>3, <3>2
  <2> QED BY <2>2, <2>3
<1>13. Watched'
  BY <1>0, <1>3, <1>6, Quiet
<1>14. LinksClean'
  BY <1>0, <1>4, <1>5, ClientAssumption DEF LinksClean
<1> QED BY <1>7, <1>10, <1>11, <1>12, <1>13, <1>14 DEF IInv, Counted

----------------------------------------------------------------------------
(* A batch *)
LEMMA BatchFacts ==
    ASSUME NEW kinds, kinds \subseteq Kinds, NEW batch \in Batches(kinds)
    PROVE  /\ DOMAIN batch \subseteq Txns \ Out
           /\ \A t \in DOMAIN batch : batch[t].p \in Paths /\ batch[t].kind \in kinds /\ batch[t].kind \in Kinds
<1>1. PICK T \in SUBSET (Txns \ Out) : batch \in [T -> [p : Paths, kind : kinds]]
  BY DEF Batches
<1> QED BY <1>1

LEMMA Sent ==
    ASSUME IInv, NEW kinds, kinds \subseteq Kinds, NEW batch \in Batches(kinds), SendLocked(batch), Fits(batch),
           \A t \in DOMAIN batch : Usable(path, batch[t].p),
           \A t \in OfKind(batch, "probe") :
              ~path[batch[t].p].probing /\ To(batch, batch[t].p) \cap OfKind(batch, "probe") = {t}
    PROVE  /\ path' \in [Paths -> Records] /\ Counted' /\ LinksClean'
           /\ Out' \subseteq Txns /\ Out' = Out \cup DOMAIN batch
           /\ \A t \in Out' : pending'[t] \in Queries
           /\ \A t \in Out : pending'[t] = pending[t]
           /\ \A t \in DOMAIN batch : t \notin Out /\ pending'[t].kind = batch[t].kind
<1>0. TypeOK /\ Counted /\ LinksClean
  BY DEF IInv
<1>1. /\ DOMAIN batch \subseteq Txns \ Out
      /\ \A t \in DOMAIN batch : batch[t].p \in Paths /\ batch[t].kind \in Kinds
  BY BatchFacts
<1>2. Out' = Out \cup DOMAIN batch
  BY DEF SendLocked, Out
<1>3. \A t \in Out : pending'[t] = pending[t]
  BY <1>2 DEF SendLocked
<1>4. \A t \in DOMAIN batch :
         pending'[t] = [p |-> batch[t].p, own |-> TRUE, kind |-> batch[t].kind, live |-> TRUE]
  BY <1>1, <1>2 DEF SendLocked
<1>5. /\ \A t \in DOMAIN batch : t \notin Out /\ pending'[t] \in Queries /\ pending'[t].live
      /\ \A t \in DOMAIN batch : pending'[t].p = batch[t].p /\ pending'[t].kind = batch[t].kind
  <2> SUFFICES ASSUME NEW t \in DOMAIN batch
               PROVE  /\ t \notin Out /\ pending'[t] \in Queries /\ pending'[t].live
                      /\ pending'[t].p = batch[t].p /\ pending'[t].kind = batch[t].kind
    OBVIOUS
  <2>p. PICK p : p = batch[t].p
    OBVIOUS
  <2>k. PICK k : k = batch[t].kind
    OBVIOUS
  <2>q. PICK q : q = pending'[t]
    OBVIOUS
  <2>1. t \notin Out /\ p \in Paths /\ k \in Kinds
    BY <1>1, <2>p, <2>k
  <2>2. q = [p |-> p, own |-> TRUE, kind |-> k, live |-> TRUE]
    BY <1>4, <2>p, <2>k, <2>q
  <2>3. q \in Queries /\ q.live /\ q.p = p /\ q.kind = k
    BY <2>1, <2>2 DEF Queries
  <2> QED BY <2>1, <2>3, <2>p, <2>k, <2>q
<1>6. Out' \subseteq Txns /\ \A t \in Out' : pending'[t] \in Queries
  BY <1>0, <1>1, <1>2, <1>3, <1>5 DEF TypeOK
<1>7. Live' = Live \cup DOMAIN batch
  BY <1>2, <1>3, <1>5 DEF Live
<1>8. \A p \in Paths : LiveOn(p)' = LiveOn(p) \cup To(batch, p)
  <2>1. \A t \in Live : t \in Out
    BY DEF Live
  <2> QED BY <1>3, <1>5, <1>7, <2>1 DEF LiveOn, To
<1>9. \A p \in Paths : LiveOn(p) \subseteq Live /\ To(batch, p) \subseteq DOMAIN batch
  BY DEF LiveOn, To
<1>10. Live \subseteq Out /\ Out \subseteq Txns
  BY <1>0 DEF Live, TypeOK
<1>11. ASSUME NEW p \in Paths
       PROVE  /\ path'[p] \in Records
              /\ path'[p].inflight = path[p].inflight + Cardinality(To(batch, p))
              /\ (path'[p].probing <=> (path[p].probing \/ To(batch, p) \cap OfKind(batch, "probe") # {}))
              /\ path'[p].out = IF To(batch, p) # {} /\ p \in Tcp THEN path[p].out \cup {"this"} ELSE path[p].out
              /\ path'[p].link = path[p].link
  <2>r. PICK r : r = path[p]
    OBVIOUS
  <2>n. PICK n : n = r.inflight + Cardinality(To(batch, p))
    OBVIOUS
  <2>b. PICK b : b \in BOOLEAN /\ b = (r.probing \/ To(batch, p) \cap OfKind(batch, "probe") # {})
    OBVIOUS
  <2>o. PICK o : o = IF To(batch, p) # {} /\ p \in Tcp THEN r.out \cup {"this"} ELSE r.out
    OBVIOUS
  <2>1. r \in Records
    BY <1>0, <2>r DEF TypeOK
  <2>2. n \in Nat
    <3>1. Cardinality(To(batch, p)) \in Nat
      BY <1>1, <1>9, Sizes
    <3>2. r.inflight \in Nat
      BY <2>1 DEF Records
    <3> QED BY <2>n, <3>1, <3>2
  <2>3. o \subseteq {"this", "old"}
    BY <2>1, <2>o DEF Records
  <2>5. b \in BOOLEAN
    BY <2>b
  <2>s. PICK s : s = path'[p]
    OBVIOUS
  <2>4. s = [r EXCEPT !.inflight = n, !.probing = b, !.out = o]
    BY <2>r, <2>n, <2>b, <2>o, <2>s DEF SendLocked
  <2>6. s \in Records /\ s.inflight = n /\ s.probing = b /\ s.out = o /\ s.link = r.link
    BY <2>1, <2>2, <2>3, <2>4, <2>5 DEF Records
  <2>7. b <=> (r.probing \/ To(batch, p) \cap OfKind(batch, "probe") # {})
    BY <2>b
  <2> QED BY <2>6, <2>7, <2>s, <2>r, <2>n, <2>o
<1>12. path' \in [Paths -> Records]
  <2>1. DOMAIN path' = Paths /\ path' = [p \in Paths |-> path'[p]]
    BY DEF SendLocked
  <2> QED BY <1>11, <2>1
<1>13. InflightExact'
  <2> SUFFICES ASSUME NEW p \in Paths PROVE path'[p].inflight = Cardinality(LiveOn(p)')
    BY DEF InflightExact
  <2>1. LiveOn(p) \subseteq Txns /\ To(batch, p) \subseteq Txns /\ LiveOn(p) \cap To(batch, p) = {}
    BY <1>1, <1>9, <1>10
  <2>2. Cardinality(LiveOn(p) \cup To(batch, p)) = Cardinality(LiveOn(p)) + Cardinality(To(batch, p))
    BY <2>1, Disjoint
  <2> QED BY <1>0, <1>8, <1>11, <2>2 DEF Counted, InflightExact
<1>14. FlightBounded'
  <2>1. Cardinality(Live \cup DOMAIN batch) = Cardinality(Live) + Cardinality(DOMAIN batch)
    BY <1>1, <1>10, Disjoint
  <2>2. Cardinality(Out \cup DOMAIN batch) = Cardinality(Out) + Cardinality(DOMAIN batch)
    BY <1>1, <1>10, Disjoint
  <2> QED BY <1>2, <1>7, <2>1, <2>2 DEF Fits, FlightBounded
<1>15. ProbingExact'
  <2> SUFFICES ASSUME NEW p \in Paths
               PROVE  (path'[p].probing <=> Probes(p)' # {}) /\ \A u, v \in Probes(p)' : u = v
    BY DEF ProbingExact
  <2>1. (path[p].probing <=> Probes(p) # {}) /\ \A u, v \in Probes(p) : u = v
    BY <1>0 DEF Counted, ProbingExact
  <2>2. Probes(p)' = Probes(p) \cup (To(batch, p) \cap OfKind(batch, "probe"))
    <3>1. \A t \in LiveOn(p) : pending'[t].kind = pending[t].kind
      BY <1>3, <1>9, <1>10
    <3>2. \A t \in To(batch, p) : pending'[t].kind = "probe" <=> t \in OfKind(batch, "probe")
      BY <1>5, <1>9 DEF OfKind
    <3> QED BY <1>8, <3>1, <3>2 DEF Probes
  <2>3. CASE To(batch, p) \cap OfKind(batch, "probe") = {}
    BY <1>11, <2>1, <2>2, <2>3
  <2>4. CASE To(batch, p) \cap OfKind(batch, "probe") # {}
    <3>1. PICK t : t \in To(batch, p) /\ t \in OfKind(batch, "probe")
      BY <2>4
    <3>2. batch[t].p = p
      BY <3>1 DEF To
    <3>3. ~path[p].probing /\ To(batch, p) \cap OfKind(batch, "probe") = {t}
      BY <3>1, <3>2
    <3> QED BY <1>11, <2>1, <2>2, <3>3
  <2> QED BY <2>3, <2>4
<1>16. LinksClean'
  <2> SUFFICES ASSUME NEW p \in Tcp
               PROVE  /\ path'[p].link = "dialling" => path'[p].out = {}
                      /\ path'[p].link = "up" => "old" \notin path'[p].out
    BY DEF LinksClean
  <2>1. p \in Paths
    BY ClientAssumption
  <2>2. /\ path[p].link = "dialling" => path[p].out = {}
        /\ path[p].link = "up" => "old" \notin path[p].out
    BY <1>0 DEF LinksClean
  <2>3. To(batch, p) # {} => path[p].link = "up"
    BY DEF To, Usable
  <2>4. /\ path'[p].out = IF To(batch, p) # {} /\ p \in Tcp THEN path[p].out \cup {"this"} ELSE path[p].out
        /\ path'[p].link = path[p].link
    BY <1>11, <2>1
  <2>5. CASE To(batch, p) # {}
    BY <2>2, <2>3, <2>4, <2>5
  <2>6. CASE To(batch, p) = {}
    BY <2>2, <2>4, <2>6
  <2> QED BY <2>5, <2>6
<1> QED BY <1>2, <1>3, <1>5, <1>6, <1>12, <1>13, <1>14, <1>15, <1>16 DEF Counted

LEMMA SendHellosKeeps == ASSUME IInv, NEW batch \in Batches({"hello"}), SendHellos(batch) PROVE IInv'
<1>0. TypeOK /\ Watched
  BY DEF IInv
<1>1. /\ sess.phase = "hello" /\ sess' = sess /\ Fits(batch) /\ SendLocked(batch)
      /\ \A t \in DOMAIN batch : batch[t].kind = "hello" /\ Usable(path, batch[t].p)
  BY DEF SendHellos
<1>2. OfKind(batch, "probe") = {}
  BY <1>1 DEF OfKind
<1>3. {"hello"} \subseteq Kinds
  BY DEF Kinds
<1>4. /\ path' \in [Paths -> Records] /\ Counted' /\ LinksClean'
      /\ Out' \subseteq Txns /\ Out' = Out \cup DOMAIN batch
      /\ \A t \in Out' : pending'[t] \in Queries
      /\ \A t \in Out : pending'[t] = pending[t]
      /\ \A t \in DOMAIN batch : pending'[t].kind = batch[t].kind
  BY <1>1, <1>2, <1>3, Sent
<1>5. TypeOK'
  BY <1>0, <1>1, <1>4 DEF TypeOK
<1>6. HelloAlone'
  BY <1>0, <1>1, <1>4 DEF Watched, HelloAlone
<1>7. ClockRuns'
  BY <1>1 DEF ClockRuns
<1> QED BY <1>4, <1>5, <1>6, <1>7 DEF IInv, Watched

LEMMA FillLockedKeeps ==
    ASSUME IInv, NEW batch \in Batches({"scout", "data", "probe"}), NEW alone, FillLocked(batch, alone) PROVE IInv'
<1>0. TypeOK /\ Watched
  BY DEF IInv
<1>1. /\ sess.phase = "up" /\ sess' = [sess EXCEPT !.clock = TRUE] /\ Fits(batch) /\ SendLocked(batch)
      /\ \A t \in DOMAIN batch : Usable(path, batch[t].p)
      /\ \A t \in OfKind(batch, "probe") :
            ~path[batch[t].p].probing /\ To(batch, batch[t].p) \cap OfKind(batch, "probe") = {t}
  BY DEF FillLocked
<1>2. {"scout", "data", "probe"} \subseteq Kinds
  BY DEF Kinds
<1>3. /\ path' \in [Paths -> Records] /\ Counted' /\ LinksClean'
      /\ Out' \subseteq Txns /\ \A t \in Out' : pending'[t] \in Queries
  BY <1>1, <1>2, Sent
<1>4. sess' \in [phase : {"none", "hello", "up", "closed"}, clock : BOOLEAN] /\ sess'.phase = "up" /\ sess'.clock
  BY <1>0, <1>1 DEF TypeOK
<1>5. TypeOK'
  BY <1>3, <1>4 DEF TypeOK
<1>6. Watched'
  BY <1>4 DEF Watched, HelloAlone, ClockRuns
<1> QED BY <1>3, <1>5, <1>6 DEF IInv

----------------------------------------------------------------------------
LEMMA NextKeeps == ASSUME IInv, [Next]_vars PROVE IInv'
<1>1. CASE Session
  BY <1>1, SessionKeeps
<1>2. CASE \E batch \in Batches({"hello"}) : SendHellos(batch)
  BY <1>2, SendHellosKeeps
<1>3. CASE \E batch \in Batches({"scout", "data", "probe"}), alone \in {FALSE, MaxInflight = 1} : FillLocked(batch, alone)
  BY <1>3, FillLockedKeeps
<1>4. CASE \E t \in Out, refused, old \in BOOLEAN : Expire(t, refused, old)
  BY <1>4, ExpireKeeps
<1>5. CASE \E t \in Out : Forget(t) \/ OnHello(t)
  BY <1>5, ForgetKeeps, OnHelloKeeps
<1>6. CASE \E t \in Out, bad \in BOOLEAN : OnAnswer(t, bad)
  BY <1>6, OnAnswerKeeps
<1>7. CASE \E t \in Out, old \in BOOLEAN : OnUnknownSession(t, old)
  BY <1>7, OnUnknownSessionKeeps
<1>8. CASE CheckLiveness
  BY <1>8, CheckLivenessKeeps
<1>9. CASE \E p \in Paths : Unsuspend(p) \/ Prune(p) \/ AddCandidate(p)
  BY <1>9, UnsuspendKeeps, PruneKeeps, AddCandidateKeeps
<1>10. CASE \E p \in Tcp : Dialled(p) \/ ServeLink(p) \/ Breaks(p) \/ LinkDown(p)
  BY <1>10, DialledKeeps, ServeLinkKeeps, BreaksKeeps, LinkDownKeeps
<1>11. CASE UNCHANGED vars
  <2>1. pending' = pending /\ path' = path /\ sess' = sess
    BY <1>11 DEF vars
  <2>2. Out' = Out /\ Live' = Live
    BY <2>1, SamePending
  <2>3. TypeOK /\ Counted /\ Watched /\ LinksClean
    BY DEF IInv
  <2>4. TypeOK' /\ Counted' /\ Watched' /\ LinksClean'
    BY <2>1, <2>2, <2>3, Rest, Quiet, SameLinks DEF TypeOK
  <2> QED BY <2>4 DEF IInv
<1> QED BY <1>1, <1>2, <1>3, <1>4, <1>5, <1>6, <1>7, <1>8, <1>9, <1>10, <1>11 DEF Next

(* The invariant holds of every run of the client. *)
THEOREM Invariance == Spec => []IInv
<1>1. Init => IInv
  BY Start
<1>2. IInv /\ [Next]_vars => IInv'
  BY NextKeeps
<1> QED BY <1>1, <1>2, PTL DEF Spec

(* Each query is taken off its path once, however it ends, and what is out *)
(* stays within its bounds (engine/client.go, failLocked, linkDown,        *)
(* expireLocked, onAnswer).                                                *)
THEOREM FlightIsSound == Spec => []FlightSound
<1>1. IInv => FlightSound
  BY DEF IInv, Counted, FlightSound
<1> QED BY <1>1, Invariance, PTL

(* While the session of now waits for an answer its liveness clock runs,   *)
(* and nothing queued for one connection goes out on the next (checkLive-  *)
(* ness, tcp.go).                                                          *)
THEOREM AnswersAreWatched == Spec => []AnswersWatched
<1>1. IInv => AnswersWatched
  BY DEF IInv, Watched, LinksClean, AnswersWatched, NothingReplayed
<1> QED BY <1>1, Invariance, PTL

-----------------------------------------------------------------------------
(* The sizes of a path: PathSize.                                          *)

Window == [n : Nat, lost : BOOLEAN]
Size   == [ok : 0 .. MaxClass, ceil : 1 .. MaxClass + 1, test : 0 .. MaxClass, since : Nat,
           blocked : BOOLEAN, testWin : Window, baseWin : Window]
Name   == [long : BOOLEAN, probing : BOOLEAN, fails : 0 .. 2, retry : {"none", "later", "due"},
           backoffs : Nat, earned : BOOLEAN]

(* What the two windows say of the size on trial, or of the one in use. *)
Judged(s) == IF s.test # 0 THEN s.test ELSE s.ok
Sound(s) ==
    /\ s \in Size
    /\ fits < s.ceil /\ s.ok < s.ceil /\ (~shrunk => s.ok <= fits)
    /\ s.test # 0 => s.ok < s.test /\ s.test < s.ceil
    /\ s.testWin.lost => fits < Judged(s)
    /\ s.test # 0 /\ s.baseWin.lost => fits < s.ok
    /\ s.test # 0 /\ s.testWin.n > 0 /\ ~s.testWin.lost /\ ~shrunk => s.test <= fits

SizesInv ==
    /\ fits \in 0 .. MaxClass /\ shrunk \in BOOLEAN
    /\ Sound(size)
    /\ IsABag(asked) /\ BagToSet(asked) \subseteq 0 .. MaxClass
    /\ name \in Name /\ NamesRetried

(* What the record is that a step makes. *)
LEMMA ProvenForm ==
    ASSUME NEW s \in Size, NEW ok, NEW w,
           NEW t, t = [s EXCEPT !.ok = ok, !.test = 0, !.since = 0, !.testWin = w, !.baseWin = w]
    PROVE  t = [ok |-> ok, ceil |-> s.ceil, test |-> 0, since |-> 0, blocked |-> s.blocked, testWin |-> w, baseWin |-> w]
BY DEF Size

LEMMA BackoffForm ==
    ASSUME NEW n \in Name, NEW k, NEW b, b = [n EXCEPT !.retry = "later", !.backoffs = k, !.fails = 2]
    PROVE  b = [long |-> n.long, probing |-> n.probing, fails |-> 2, retry |-> "later", backoffs |-> k,
                earned |-> n.earned]
BY DEF Name

LEMMA ProbingForm ==
    ASSUME NEW n \in Name, NEW probing, NEW k, NEW b, b = [n EXCEPT !.probing = probing, !.fails = k]
    PROVE  b = [long |-> n.long, probing |-> probing, fails |-> k, retry |-> n.retry, backoffs |-> n.backoffs,
                earned |-> n.earned]
BY DEF Name

LEMMA AnsweredForm ==
    ASSUME NEW n \in Name, NEW b, b = [n EXCEPT !.probing = FALSE, !.long = TRUE, !.fails = 0, !.backoffs = 0,
                                                 !.retry = "none", !.earned = TRUE]
    PROVE  b = [long |-> TRUE, probing |-> FALSE, fails |-> 0, retry |-> "none", backoffs |-> 0, earned |-> TRUE]
BY DEF Name

USE SizeAssumption

LEMMA MinOfTwo ==
    ASSUME NEW a \in Int, NEW b \in Int
    PROVE  Min({a, b}) = IF a <= b THEN a ELSE b
<1> DEFINE m == IF a <= b THEN a ELSE b
<1>1. m \in {a, b} /\ \A y \in {a, b} : m <= y
  OBVIOUS
<1>2. \A x \in {a, b} : (\A y \in {a, b} : x <= y) => x = m
  OBVIOUS
<1> QED BY <1>1, <1>2 DEF Min

LEMMA MaxOfTwo ==
    ASSUME NEW a \in Int, NEW b \in Int
    PROVE  Max({a, b}) = IF a >= b THEN a ELSE b
<1> DEFINE m == IF a >= b THEN a ELSE b
<1>1. m \in {a, b} /\ \A y \in {a, b} : m >= y
  OBVIOUS
<1>2. \A x \in {a, b} : (\A y \in {a, b} : x >= y) => x = m
  OBVIOUS
<1> QED BY <1>1, <1>2 DEF Max

LEMMA RecordedOne ==
    ASSUME NEW w \in Window, NEW lost \in BOOLEAN
    PROVE  Recorded(w, lost) \in Window /\ Recorded(w, lost).lost = lost /\ Recorded(w, lost).n > 0
BY MinOfTwo DEF Window, Recorded

LEMMA NoWindowType == NoWindow \in Window /\ ~NoWindow.lost /\ NoWindow.n = 0
BY DEF NoWindow, Window

(* A size that is too large is ruled out, and the path falls back. *)
LEMMA SizeFailedSound ==
    ASSUME fits \in 0 .. MaxClass, NEW s \in Size, fits < s.ceil,
           NEW class \in 0 .. MaxClass, fits < class,
           NEW back \in 0 .. MaxClass, ~shrunk => back <= fits
    PROVE  Sound(SizeFailed(s, class, back)) /\ SizeFailed(s, class, back).test = 0
<1> DEFINE ceil == Min({s.ceil, Max({class, 1})})
           ok == Min({back, ceil - 1})
           t == [s EXCEPT !.ceil = ceil, !.ok = ok, !.test = 0, !.since = 0,
                          !.testWin = NoWindow, !.baseWin = NoWindow, !.blocked = TRUE]
<1>1. s.ceil \in 1 .. MaxClass + 1
  BY DEF Size
<1>2. ceil \in 1 .. MaxClass + 1 /\ fits < ceil
  BY <1>1, MinOfTwo, MaxOfTwo
<1> HIDE DEF ceil
<1>3. ok \in 0 .. MaxClass /\ ok < ceil /\ (~shrunk => ok <= fits)
  BY <1>2, MinOfTwo
<1> HIDE DEF ok
<1>4. /\ t \in Size /\ t.ceil = ceil /\ t.ok = ok /\ t.test = 0
      /\ t.testWin = NoWindow /\ t.baseWin = NoWindow
  <2>0. t = [s EXCEPT !.ceil = ceil, !.ok = ok, !.test = 0, !.since = 0,
                      !.testWin = NoWindow, !.baseWin = NoWindow, !.blocked = TRUE]
    OBVIOUS
  <2> HIDE DEF t
  <2>1. t = [ok |-> ok, ceil |-> ceil, test |-> 0, since |-> 0, blocked |-> TRUE,
             testWin |-> NoWindow, baseWin |-> NoWindow]
    BY <2>0 DEF Size
  <2> QED BY <1>2, <1>3, <2>1, NoWindowType DEF Size
<1>5. SizeFailed(s, class, back) = t
  BY DEF SizeFailed, ceil, ok
<1> HIDE DEF t
<1>6. Sound(t)
  BY <1>2, <1>3, <1>4, NoWindowType DEF Sound
<1> QED BY <1>4, <1>5, <1>6

LEMMA InTrialSound ==
    ASSUME fits \in 0 .. MaxClass, NEW s, Sound(s), s.test > 0, NEW class \in 0 .. MaxClass
    PROVE  Sound(InTrial(s, class, class > fits))
<1> DEFINE lost == class > fits
           t == IF class = s.test THEN Recorded(s.testWin, lost) ELSE s.testWin
           b == IF class = s.ok THEN Recorded(s.baseWin, lost) ELSE s.baseWin
           full == t.n = Full /\ b.n = Full
           r == [s EXCEPT !.testWin = t, !.baseWin = b]
           up == [r EXCEPT !.ok = s.test, !.test = 0, !.since = 0, !.testWin = NoWindow, !.baseWin = NoWindow]
<1>1. /\ s \in Size /\ s.testWin \in Window /\ s.baseWin \in Window /\ s.test \in 0 .. MaxClass
      /\ s.ok \in 0 .. MaxClass /\ s.ceil \in 1 .. MaxClass + 1
      /\ fits < s.ceil /\ s.ok < s.ceil /\ (~shrunk => s.ok <= fits)
      /\ s.ok < s.test /\ s.test < s.ceil
      /\ s.testWin.lost => fits < s.test
      /\ s.baseWin.lost => fits < s.ok
      /\ s.testWin.n > 0 /\ ~s.testWin.lost /\ ~shrunk => s.test <= fits
  BY DEF Sound, Size, Judged
<1>9. lost \in BOOLEAN /\ (lost <=> class > fits)
  OBVIOUS
<1> HIDE DEF lost
<1>0. \A w \in Window : /\ Recorded(w, lost) \in Window /\ (Recorded(w, lost).lost <=> class > fits)
                        /\ Recorded(w, lost).n > 0
  BY <1>9, RecordedOne
<1>2. /\ t \in Window /\ (t.lost => fits < s.test)
      /\ t.n > 0 /\ ~t.lost /\ ~shrunk => s.test <= fits
  <2>1. CASE class = s.test
    BY <1>0, <1>1, <2>1
  <2>2. CASE class # s.test
    BY <1>1, <2>2
  <2> QED BY <2>1, <2>2
<1>3. b \in Window /\ (b.lost => fits < s.ok)
  <2>1. CASE class = s.ok
    BY <1>0, <1>1, <2>1
  <2>2. CASE class # s.ok
    BY <1>1, <2>2
  <2> QED BY <2>1, <2>2
<1> HIDE DEF t, b
<1>4. /\ r \in Size /\ r.testWin = t /\ r.baseWin = b /\ r.test = s.test /\ r.ok = s.ok /\ r.ceil = s.ceil
  BY <1>1, <1>2, <1>3 DEF Size
<1>5. Sound(r)
  BY <1>1, <1>2, <1>3, <1>4 DEF Sound, Judged
<1>6. CASE Blatant(t, b) \/ (full /\ Worse(t, b))
  <2>1. fits < s.test
    BY <1>2, <1>6 DEF Blatant, Worse
  <2>2. Sound(SizeFailed(r, s.test, s.ok))
    <3> HIDE DEF r
    <3> QED BY <1>1, <1>4, <2>1, SizeFailedSound
  <2> QED BY <1>1, <1>6, <2>2 DEF InTrial, t, b, lost
<1>7. CASE ~(Blatant(t, b) \/ (full /\ Worse(t, b))) /\ full
  <2>1. ~shrunk => s.test <= fits
    BY <1>1, <1>2, <1>3, <1>7 DEF Worse, Window
  <2>2. /\ up \in Size /\ up.testWin = NoWindow /\ up.baseWin = NoWindow /\ up.test = 0
        /\ up.ok = s.test /\ up.ceil = s.ceil
    <3>1. up = [r EXCEPT !.ok = s.test, !.test = 0, !.since = 0, !.testWin = NoWindow, !.baseWin = NoWindow]
      OBVIOUS
    <3> HIDE DEF r, up
    <3>2. up = [ok |-> s.test, ceil |-> r.ceil, test |-> 0, since |-> 0, blocked |-> r.blocked,
                testWin |-> NoWindow, baseWin |-> NoWindow]
      BY <1>4, <3>1, ProvenForm
    <3> QED BY <1>1, <1>4, <3>2, NoWindowType DEF Size
  <2>3. Sound(up)
    BY <1>1, <2>1, <2>2, NoWindowType DEF Sound
  <2> QED BY <1>1, <1>7, <2>3 DEF InTrial, t, b, lost
<1>8. CASE ~(Blatant(t, b) \/ (full /\ Worse(t, b))) /\ ~full
  BY <1>5, <1>8 DEF InTrial, t, b, lost
<1> QED BY <1>6, <1>7, <1>8

LEMMA GuardedSound ==
    ASSUME fits \in 0 .. MaxClass, NEW s, Sound(s), s.test = 0, s.ok # 0, NEW class \in {0, s.ok}
    PROVE  Sound(Guarded(s, class, class > fits)) /\ Guarded(s, class, class > fits).test = 0
<1> DEFINE lost == class > fits
           t == IF class # 0 THEN Recorded(s.testWin, lost) ELSE s.testWin
           b == IF class = 0 THEN Recorded(s.baseWin, lost) ELSE s.baseWin
           full == t.n = Full /\ b.n >= GuardBase
           r == [s EXCEPT !.testWin = t, !.baseWin = b]
           on == [r EXCEPT !.testWin = NoWindow, !.baseWin = NoWindow]
<1>1. /\ s \in Size /\ s.testWin \in Window /\ s.baseWin \in Window /\ s.test = 0
      /\ s.ok \in 0 .. MaxClass /\ s.ceil \in 1 .. MaxClass + 1
      /\ fits < s.ceil /\ s.ok < s.ceil /\ (~shrunk => s.ok <= fits)
      /\ s.testWin.lost => fits < s.ok
  BY DEF Sound, Size, Judged
<1>9. lost \in BOOLEAN /\ (lost <=> class > fits)
  OBVIOUS
<1> HIDE DEF lost
<1>0. \A w \in Window : Recorded(w, lost) \in Window /\ (Recorded(w, lost).lost <=> class > fits)
  BY <1>9, RecordedOne
<1>2. t \in Window /\ (t.lost => fits < s.ok)
  <2>1. CASE class # 0
    BY <1>0, <1>1, <2>1
  <2>2. CASE class = 0
    BY <1>1, <2>2
  <2> QED BY <2>1, <2>2
<1>3. b \in Window
  BY <1>0, <1>1
<1> HIDE DEF t, b
<1>4. /\ r \in Size /\ r.testWin = t /\ r.baseWin = b /\ r.test = 0 /\ r.ok = s.ok /\ r.ceil = s.ceil
  BY <1>1, <1>2, <1>3 DEF Size
<1>5. Sound(r)
  BY <1>1, <1>2, <1>3, <1>4 DEF Sound, Judged
<1>6. CASE Blatant(t, b) \/ (full /\ Worse(t, b))
  <2>1. fits < s.ok
    BY <1>2, <1>6 DEF Blatant, Worse
  <2>2. Sound(SizeFailed(r, s.ok, 0)) /\ SizeFailed(r, s.ok, 0).test = 0
    <3> HIDE DEF r
    <3> QED BY <1>1, <1>4, <2>1, SizeFailedSound
  <2> QED BY <1>6, <2>2 DEF Guarded, t, b, lost
<1>7. CASE ~(Blatant(t, b) \/ (full /\ Worse(t, b))) /\ full
  <2>1. /\ on \in Size /\ on.testWin = NoWindow /\ on.baseWin = NoWindow /\ on.test = 0
        /\ on.ok = s.ok /\ on.ceil = s.ceil
    BY <1>1, <1>4, NoWindowType DEF Size
  <2>2. Sound(on)
    BY <1>1, <2>1, NoWindowType DEF Sound
  <2> QED BY <1>7, <2>1, <2>2 DEF Guarded, t, b, lost
<1>8. CASE ~(Blatant(t, b) \/ (full /\ Worse(t, b))) /\ ~full
  BY <1>4, <1>5, <1>8 DEF Guarded, t, b, lost
<1> QED BY <1>6, <1>7, <1>8

LEMMA EarnedSound ==
    ASSUME fits \in 0 .. MaxClass, NEW s, Sound(s), s.test = 0, NEW class \in 0 .. MaxClass, NEW lost \in BOOLEAN
    PROVE  Sound(Earned(s, class, lost))
<1> DEFINE since == IF class = s.ok /\ ~lost THEN Min({s.since + 1, EarnTrial}) ELSE s.since
           r == [s EXCEPT !.since = since]
           next == IF s.ceil > MaxClass THEN MaxClass ELSE (s.ok + s.ceil) \div 2
           try == [r EXCEPT !.test = next, !.testWin = NoWindow, !.baseWin = NoWindow]
<1>1. /\ s \in Size /\ s.testWin \in Window /\ s.baseWin \in Window /\ s.test = 0 /\ s.since \in Nat
      /\ s.ok \in 0 .. MaxClass /\ s.ceil \in 1 .. MaxClass + 1
      /\ fits < s.ceil /\ s.ok < s.ceil /\ (~shrunk => s.ok <= fits)
      /\ s.testWin.lost => fits < s.ok
  BY DEF Sound, Size, Judged
<1>2. since \in Nat
  BY <1>1, MinOfTwo
<1>3. next \in 0 .. MaxClass /\ next < s.ceil
  BY <1>1
<1>4. Earned(s, class, lost) = IF r.since = EarnTrial /\ ~r.blocked /\ r.ok + 1 < r.ceil /\ next > r.ok THEN try ELSE r
  <2>1. r = [s EXCEPT !.since = IF class = s.ok /\ ~lost THEN Min({@ + 1, EarnTrial}) ELSE @]
    OBVIOUS
  <2>2. r.ok = s.ok /\ r.ceil = s.ceil
    BY <1>1 DEF Size
  <2> QED BY <2>1, <2>2 DEF Earned
<1> HIDE DEF since, next
<1>5. /\ r \in Size /\ r.testWin = s.testWin /\ r.baseWin = s.baseWin /\ r.test = 0 /\ r.ok = s.ok /\ r.ceil = s.ceil
  BY <1>1, <1>2 DEF Size
<1>6. Sound(r)
  BY <1>1, <1>5 DEF Sound, Judged
<1>7. /\ try \in Size /\ try.testWin = NoWindow /\ try.baseWin = NoWindow /\ try.test = next /\ try.ok = s.ok /\ try.ceil = s.ceil
  BY <1>1, <1>3, <1>5, NoWindowType DEF Size
<1>8. next > s.ok => Sound(try)
  BY <1>1, <1>3, <1>7, NoWindowType DEF Sound
<1> QED BY <1>4, <1>5, <1>6, <1>8

LEMMA SizeOutcomeSound ==
    ASSUME fits \in 0 .. MaxClass, NEW s, Sound(s), NEW class \in 0 .. MaxClass
    PROVE  Sound(SizeOutcome(s, class, class > fits))
<1> DEFINE lost == class > fits
           g == Guarded(s, class, lost)
<1>0. lost \in BOOLEAN /\ s.test \in Nat /\ s.ok \in 0 .. MaxClass
  BY DEF Sound, Size
<1>4. lost = (class > fits)
  OBVIOUS
<1> HIDE DEF lost
<1>1. CASE s.test > 0
  BY <1>1, <1>4, InTrialSound DEF SizeOutcome
<1>2. CASE s.test = 0 /\ (s.ok = 0 \/ class \notin {s.ok, 0})
  <2>1. Sound(Earned(s, class, lost))
    BY <1>0, <1>2, EarnedSound
  <2> QED BY <1>2, <1>4, <2>1 DEF SizeOutcome
<1>3. CASE s.test = 0 /\ ~(s.ok = 0 \/ class \notin {s.ok, 0})
  <2>1. Sound(g) /\ g.test = 0
    <3>1. class \in {0, s.ok} /\ s.test = 0 /\ s.ok # 0
      BY <1>3
    <3> QED BY <1>4, <3>1, GuardedSound
  <2>2. Sound(Earned(g, class, lost))
    BY <1>0, <2>1, EarnedSound
  <2> QED BY <1>3, <1>4, <2>1, <2>2 DEF SizeOutcome
<1> QED BY <1>0, <1>1, <1>2, <1>3

LEMMA InitHolds == SizesInit => SizesInv
<1> SUFFICES ASSUME SizesInit PROVE SizesInv
  OBVIOUS
<1>1. /\ size \in Size /\ size.ok = 0 /\ size.ceil = MaxClass + 1 /\ size.test = 0
      /\ size.testWin = NoWindow /\ size.baseWin = NoWindow
  BY NoWindowType DEF SizesInit, Size
<1>2. Sound(size)
  BY <1>1, NoWindowType DEF Sound, SizesInit
<1>3. IsABag(asked) /\ BagToSet(asked) = {}
  BY DEF SizesInit, EmptyBag, SetToBag, IsABag, BagToSet
<1>4. name \in Name /\ NamesRetried
  BY DEF SizesInit, Name, NamesRetried
<1> QED BY <1>2, <1>3, <1>4 DEF SizesInv, SizesInit

LEMMA AskKeeps ==
    ASSUME SizesInv, NEW class \in 0 .. MaxClass, Ask(class)
    PROVE  SizesInv'
<1>1. asked' = asked (+) SetToBag({class}) /\ UNCHANGED <<fits, shrunk, size, name>>
  BY DEF Ask
<1>2. IsABag(asked') /\ DOMAIN asked' = DOMAIN asked \cup {class}
  BY <1>1 DEF SizesInv, IsABag, SetToBag, (+)
<1> QED BY <1>1, <1>2 DEF SizesInv, Sound, Judged, NamesRetried, BagToSet

LEMMA OutcomeKeeps ==
    ASSUME SizesInv, NEW class \in 0 .. MaxClass, NEW cut \in BOOLEAN, Outcome(class, cut)
    PROVE  SizesInv'
<1> DEFINE lost == class > fits
           back == Min({size.ok, class - 1})
           s == IF lost /\ cut /\ class > 0 THEN SizeFailed(size, class, back) ELSE size
<1>1. /\ asked' = asked (-) SetToBag({class}) /\ size' = SizeOutcome(s, class, lost)
      /\ UNCHANGED <<fits, shrunk, name>>
  BY DEF Outcome
<1>2. IsABag(asked') /\ DOMAIN asked' \subseteq DOMAIN asked
  BY <1>1 DEF SizesInv, IsABag, SetToBag, (-)
<1>3. /\ fits \in 0 .. MaxClass /\ size \in Size /\ size.ok \in 0 .. MaxClass /\ fits < size.ceil
      /\ ~shrunk => size.ok <= fits
  BY DEF SizesInv, Sound, Size
<1>4. Sound(s)
  <2>1. CASE lost /\ cut /\ class > 0
    <3>1. back \in 0 .. MaxClass /\ back <= size.ok
      BY <1>3, <2>1, MinOfTwo
    <3>2. Sound(SizeFailed(size, class, back))
      BY <1>3, <2>1, <3>1, SizeFailedSound
    <3> QED BY <2>1, <3>2
  <2>2. CASE ~(lost /\ cut /\ class > 0)
    BY <2>2 DEF SizesInv
  <2> QED BY <2>1, <2>2
<1> HIDE DEF s
<1>5. Sound(SizeOutcome(s, class, lost))
  BY <1>3, <1>4, SizeOutcomeSound
<1>6. Sound(size)'
  BY <1>1, <1>5 DEF Sound, Judged
<1> QED BY <1>1, <1>2, <1>6 DEF SizesInv, NamesRetried, BagToSet

LEMMA ShrinkKeeps ==
    ASSUME SizesInv, NEW f \in 0 .. MaxClass, Shrink(f)
    PROVE  SizesInv'
<1>1. f < fits /\ fits' = f /\ shrunk' = TRUE /\ UNCHANGED <<size, asked, name>>
  BY DEF Shrink
<1>2. Sound(size)'
  BY <1>1 DEF SizesInv, Sound, Judged, Size
<1> QED BY <1>1, <1>2 DEF SizesInv, NamesRetried

(* A step of the names alone. *)
LEMMA NamedKeeps ==
    ASSUME SizesInv, NEW n \in Name, Named(n), n.fails >= 2 => n.retry # "none"
    PROVE  SizesInv'
BY DEF SizesInv, Named, NamesRetried, Sound, Judged

LEMMA BackoffNamed ==
    ASSUME NEW n \in Name
    PROVE  /\ BackoffNameProbe(n) \in Name /\ BackoffNameProbe(n).retry = "later"
           /\ [BackoffNameProbe(n) EXCEPT !.long = FALSE] \in Name
           /\ [BackoffNameProbe(n) EXCEPT !.long = FALSE].retry = "later"
<1>1. Min({n.backoffs + 1, MaxBackoffs}) \in Nat
  BY MinOfTwo DEF Name
<1> DEFINE k == Min({n.backoffs + 1, MaxBackoffs})
           b == [n EXCEPT !.retry = "later", !.backoffs = k, !.fails = 2]
<1>2. BackoffNameProbe(n) = b
  BY DEF BackoffNameProbe
<1> HIDE DEF k
<1>3. b = [long |-> n.long, probing |-> n.probing, fails |-> 2, retry |-> "later", backoffs |-> k, earned |-> n.earned]
  BY BackoffForm
<1> HIDE DEF b
<1>4. b \in Name /\ b.retry = "later"
  BY <1>1, <1>3 DEF Name, k
<1>5. [b EXCEPT !.long = FALSE] \in Name /\ [b EXCEPT !.long = FALSE].retry = "later"
  BY <1>4 DEF Name
<1> QED BY <1>2, <1>4, <1>5

LEMMA QueryFailedKeeps ==
    ASSUME SizesInv, NEW probe \in BOOLEAN, NEW run \in BOOLEAN, QueryFailed(probe, run)
    PROVE  SizesInv'
<1> DEFINE n == IF ~probe THEN name ELSE [name EXCEPT !.probing = FALSE, !.fails = Min({@ + 1, 2})]
           b == IF probe /\ n.fails >= 2 THEN BackoffNameProbe(n) ELSE n
           c == IF b.long /\ run THEN [BackoffNameProbe(b) EXCEPT !.long = FALSE] ELSE b
<1>0. name \in Name
  BY DEF SizesInv
<1>1. n \in Name /\ (~probe => n = name)
  <2>1. Min({name.fails + 1, 2}) \in 0 .. 2
    BY <1>0, MinOfTwo DEF Name
  <2> DEFINE k == Min({name.fails + 1, 2})
             p == [name EXCEPT !.probing = FALSE, !.fails = k]
  <2>2. probe => n = p
    OBVIOUS
  <2> HIDE DEF k
  <2>3. p \in Name
    BY <1>0, <2>1 DEF Name, k
  <2> QED BY <1>0, <2>2, <2>3
<1>2. Named(c)
  BY DEF QueryFailed
<1> HIDE DEF n
<1>3. b \in Name /\ (b.fails >= 2 => b.retry # "none")
  BY <1>1, BackoffNamed DEF SizesInv, NamesRetried
<1> HIDE DEF b
<1>4. c \in Name /\ (c.fails >= 2 => c.retry # "none")
  BY <1>3, BackoffNamed
<1> QED BY <1>2, <1>4, NamedKeeps

LEMMA QueryAnsweredKeeps ==
    ASSUME SizesInv, NEW probe \in BOOLEAN, QueryAnswered(probe)
    PROVE  SizesInv'
<1> DEFINE n == IF probe THEN [name EXCEPT !.probing = FALSE, !.long = TRUE, !.fails = 0, !.backoffs = 0,
                                           !.retry = "none", !.earned = TRUE]
                ELSE [name EXCEPT !.earned = TRUE]
<1>1. n \in Name /\ (n.fails >= 2 => n.retry # "none")
  <2> DEFINE p == [name EXCEPT !.probing = FALSE, !.long = TRUE, !.fails = 0, !.backoffs = 0,
                               !.retry = "none", !.earned = TRUE]
             q == [name EXCEPT !.earned = TRUE]
  <2>5. n = IF probe THEN p ELSE q
    OBVIOUS
  <2> HIDE DEF n
  <2>1. name \in Name /\ (name.fails >= 2 => name.retry # "none")
    BY DEF SizesInv, NamesRetried
  <2>2. p = [long |-> TRUE, probing |-> FALSE, fails |-> 0, retry |-> "none", backoffs |-> 0, earned |-> TRUE]
    BY <2>1, AnsweredForm
  <2> HIDE DEF p
  <2>3. p \in Name /\ p.fails = 0
    BY <2>2 DEF Name
  <2>4. q \in Name /\ q.fails = name.fails /\ q.retry = name.retry
    BY <2>1 DEF Name
  <2> QED BY <2>1, <2>3, <2>4, <2>5
<1>2. Named(n)
  BY DEF QueryAnswered
<1> HIDE DEF n
<1> QED BY <1>1, <1>2, NamedKeeps

LEMMA StepHolds == SizesInv /\ [SizesNext]_sizesVars => SizesInv'
<1> SUFFICES ASSUME SizesInv, [SizesNext]_sizesVars PROVE SizesInv'
  OBVIOUS
<1>1. ASSUME NEW class \in 0 .. MaxClass, Ask(class) PROVE SizesInv'
  BY <1>1, AskKeeps
<1>2. ASSUME NEW class \in 0 .. MaxClass, NEW cut \in BOOLEAN, Outcome(class, cut) PROVE SizesInv'
  BY <1>2, OutcomeKeeps
<1>3. CASE Unblock
  <2>1. Sound([size EXCEPT !.blocked = FALSE])
    BY DEF SizesInv, Sound, Judged, Size
  <2> QED BY <1>3, <2>1 DEF Unblock, SizesInv, Sound, Judged, NamesRetried
<1>4. ASSUME NEW f \in 0 .. MaxClass, Shrink(f) PROVE SizesInv'
  BY <1>4, ShrinkKeeps
<1>5. CASE RetryTime
  <2>1. [name EXCEPT !.retry = "due"] \in Name
    BY DEF SizesInv, Name
  <2> QED BY <1>5, <2>1, NamedKeeps DEF RetryTime, Name
<1>6. CASE BeginNameProbe
  <2> DEFINE n == [name EXCEPT !.probing = TRUE, !.fails = IF @ >= 2 THEN 1 ELSE @]
  <2>1. n \in Name /\ ~(n.fails >= 2) /\ Named(n)
    <3>1. name \in Name
      BY DEF SizesInv
    <3>2. n \in Name /\ n.fails = IF name.fails >= 2 THEN 1 ELSE name.fails
      <4> DEFINE k == IF name.fails >= 2 THEN 1 ELSE name.fails
      <4>1. k \in 0 .. 2
        BY <3>1 DEF Name
      <4> HIDE DEF k
      <4>2. n = [long |-> name.long, probing |-> TRUE, fails |-> k, retry |-> name.retry,
                 backoffs |-> name.backoffs, earned |-> name.earned]
        BY <3>1, ProbingForm DEF k
      <4> HIDE DEF n
      <4>3. n \in Name /\ n.fails = k
        BY <3>1, <4>1, <4>2 DEF Name
      <4> QED BY <4>3 DEF k
    <3>3. ~(n.fails >= 2)
      BY <3>1, <3>2 DEF Name
    <3> QED BY <1>6, <3>2, <3>3 DEF BeginNameProbe
  <2> HIDE DEF n
  <2> QED BY <2>1, NamedKeeps
<1>7. ASSUME NEW probe \in BOOLEAN, NEW run \in BOOLEAN, QueryFailed(probe, run) PROVE SizesInv'
  BY <1>7, QueryFailedKeeps
<1>8. ASSUME NEW probe \in BOOLEAN, QueryAnswered(probe) PROVE SizesInv'
  BY <1>8, QueryAnsweredKeeps
<1>9. CASE UNCHANGED sizesVars
  BY <1>9 DEF SizesInv, sizesVars, Sound, Judged, NamesRetried
<1> QED BY <1>1, <1>2, <1>3, <1>4, <1>5, <1>6, <1>7, <1>8, <1>9 DEF SizesNext

THEOREM LimitIsFound == SizesSpec => []SizesFound
<1>1. SizesInv => SizesFound
  BY DEF SizesInv, Sound, Size, SizesFound, SizesTypeOK, Bracketed, TrialUseful
<1> QED BY <1>1, InitHolds, StepHolds, PTL DEF SizesSpec
=============================================================================
