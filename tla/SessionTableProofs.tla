------------------------- MODULE SessionTableProofs -------------------------
(***************************************************************************)
(* Proofs about what the servers keep of sessions and of the connections   *)
(* that carry them. The CottenMax server's table first,                    *)
(* SoarServer: why its slots are those of the streams its sessions hold,   *)
(* why no stream opens twice, and why the table loses no session, for any  *)
(* number of keys, IDs, streams and sessions. A handler works on one       *)
(* session and on the slots that it gives back: PairKept says what every   *)
(* operation on that pair preserves. The pair is then put back             *)
(* (ApplyKeeps), and the table is argued about on its own.                 *)
(*                                                                         *)
(* Then SessionStore: for any table size, cap and timeouts the signature   *)
(* index leads to the right sessions, the counts are exact and the lazy    *)
(* sweep is never late; an INIT makes one session while its reuse time     *)
(* lasts, and acting by ID hits the session meant while no format has gone *)
(* through its IDs.                                                        *)
(*                                                                         *)
(* Then ConnLimits: every counter is what the connections hold.            *)
(***************************************************************************)
EXTENDS SoarServer, SessionStore, ConnLimits, FiniteSetTheorems, TLAPS

(* A session: a stream accepted is below next and in no gap, so that it is *)
(* not opened again.                                                       *)
Fine(s) ==
    /\ s \in Sessions /\ ~s.reopened
    /\ s.closed => s.streams = {}
    /\ \A g \in s.gaps : g < s.next
    /\ ~s.closed => \A a \in s.accepted : a < s.next /\ a \notin s.gaps

(* The pair of a session and the slots it gives back, which owes due more. *)
Pairs == [s : Sessions, free : Int]
PairKept(s, r, due) ==
    /\ r \in Pairs /\ Fine(r.s)
    /\ r.s.key = s.key /\ r.s.sid = s.sid /\ (s.closed => r.s.closed)
    /\ r.free = Cardinality(s.streams) - Cardinality(r.s.streams) + due

AllFine     == \A i \in DOMAIN ses : Fine(ses[i])
TableOwn    == \A s \in Sids : table[s] # 0 => ses[table[s]].sid = s
SweptClosed == swept # 0 => ses[swept].closed
TableInv == TableTypeOK /\ SlotsExact /\ AllFine /\ TableOwn /\ SweptClosed /\ TableSound

----------------------------------------------------------------------------
LEMMA Sizes ==
    ASSUME NEW S, S \subseteq StreamIds
    PROVE  IsFiniteSet(S) /\ Cardinality(S) \in Nat
  BY ServerAssumption, FS_Subset, FS_CardinalityType

LEMMA StreamsOf == ASSUME NEW s \in Sessions PROVE s.streams \subseteq StreamIds
  BY DEF Sessions

(* One stream less, and one more. *)
LEMMA Less ==
    ASSUME NEW S, S \subseteq StreamIds, NEW id \in S
    PROVE  Cardinality(S \ {id}) = Cardinality(S) - 1
<1>1. IsFiniteSet(S)
  BY Sizes
<1> QED BY <1>1, FS_RemoveElement

LEMMA More ==
    ASSUME NEW S, S \subseteq StreamIds, NEW id, id \notin S
    PROVE  Cardinality(S \cup {id}) = Cardinality(S) + 1
<1>1. IsFiniteSet(S)
  BY Sizes
<1> QED BY <1>1, FS_AddElement

(* The slots held, of a table of sessions. *)
SlotsOf(f) == {p \in (DOMAIN f) \X StreamIds : p[2] \in f[p[1]].streams}

LEMMA SlotsFinite ==
    ASSUME NEW f, IsFiniteSet(DOMAIN f)
    PROVE  IsFiniteSet(SlotsOf(f))
<1>1. IsFiniteSet((DOMAIN f) \X StreamIds)
  BY ServerAssumption, FS_Product
<1> QED BY <1>1, FS_Subset DEF SlotsOf

LEMMA Pillar ==
    ASSUME NEW i, NEW S, S \subseteq StreamIds
    PROVE  IsFiniteSet({i} \X S) /\ Cardinality({i} \X S) = Cardinality(S)
<1>1. IsFiniteSet(S) /\ Cardinality(S) \in Nat
  BY Sizes
<1>2. IsFiniteSet({i}) /\ Cardinality({i}) = 1
  BY FS_Singleton
<1>3. IsFiniteSet({i} \X S) /\ Cardinality({i} \X S) = Cardinality({i}) * Cardinality(S)
  BY <1>1, <1>2, FS_Product
<1> QED BY <1>1, <1>2, <1>3

(* The slots of all are those of one session and of the others. *)
LEMMA Apart ==
    ASSUME NEW f, IsFiniteSet(DOMAIN f), NEW i \in DOMAIN f, f[i].streams \subseteq StreamIds
    PROVE  LET others == {p \in SlotsOf(f) : p[1] # i}
           IN  /\ Cardinality(others) \in Nat /\ Cardinality(f[i].streams) \in Nat
               /\ Cardinality(SlotsOf(f)) = Cardinality(others) + Cardinality(f[i].streams)
<1> PICK others : others = {p \in SlotsOf(f) : p[1] # i}
  OBVIOUS
<1> PICK mine : mine = {i} \X f[i].streams
  OBVIOUS
<1>1. SlotsOf(f) = others \cup mine /\ others \cap mine = {} /\ others \subseteq SlotsOf(f)
  BY DEF SlotsOf
<1>2. IsFiniteSet(others) /\ Cardinality(others) \in Nat
  BY <1>1, SlotsFinite, FS_Subset, FS_CardinalityType
<1>3. IsFiniteSet(mine) /\ Cardinality(mine) = Cardinality(f[i].streams) /\ Cardinality(mine) \in Nat
  BY Pillar, Sizes
<1>4. Cardinality(others \cap mine) = 0
  BY <1>1, FS_EmptySet
<1>5. Cardinality(others \cup mine) = Cardinality(others) + Cardinality(mine) - Cardinality(others \cap mine)
  BY <1>2, <1>3, FS_Union
<1>6. Cardinality(SlotsOf(f)) = Cardinality(others) + Cardinality(mine)
  <2>1. Cardinality(SlotsOf(f)) = Cardinality(others \cup mine)
    BY <1>1
  <2> QED BY <1>2, <1>3, <1>4, <1>5, <2>1
<1>7. /\ Cardinality(others) \in Nat /\ Cardinality(f[i].streams) \in Nat
      /\ Cardinality(SlotsOf(f)) = Cardinality(others) + Cardinality(f[i].streams)
  BY <1>2, <1>3, <1>6
<1> QED BY <1>7

LEMMA Replaced ==
    ASSUME NEW f, IsFiniteSet(DOMAIN f), NEW i \in DOMAIN f, NEW g, DOMAIN g = DOMAIN f,
           \A j \in DOMAIN f : j # i => g[j] = f[j],
           f[i].streams \subseteq StreamIds, g[i].streams \subseteq StreamIds
    PROVE  /\ Cardinality(SlotsOf(f)) \in Nat /\ Cardinality(SlotsOf(g)) \in Nat
           /\ Cardinality(SlotsOf(g)) = Cardinality(SlotsOf(f)) - Cardinality(f[i].streams) + Cardinality(g[i].streams)
<1> PICK others : others = {p \in SlotsOf(f) : p[1] # i}
  OBVIOUS
<1>2. others = {p \in SlotsOf(g) : p[1] # i}
  BY DEF SlotsOf
<1>3. /\ Cardinality(others) \in Nat /\ Cardinality(f[i].streams) \in Nat
      /\ Cardinality(SlotsOf(f)) = Cardinality(others) + Cardinality(f[i].streams)
  BY Apart
<1>4. /\ Cardinality(g[i].streams) \in Nat
      /\ Cardinality(SlotsOf(g)) = Cardinality(others) + Cardinality(g[i].streams)
  BY <1>2, Apart
<1> QED BY <1>3, <1>4

----------------------------------------------------------------------------
(* The operations on a session and its slots *)

ClosedOf(s) == [NewSession(s.key, s.sid) EXCEPT !.used = s.used, !.reopened = s.reopened, !.closed = TRUE]

LEMMA NewFine ==
    ASSUME NEW k \in Keys, NEW i \in Sids
    PROVE  LET n == NewSession(k, i)
           IN  n \in Sessions /\ Fine(n) /\ n.key = k /\ n.sid = i /\ n.streams = {}
<1>1. NewSession(k, i) \in Sessions
  BY DEF NewSession, Sessions
<1> QED BY <1>1 DEF NewSession, Fine

LEMMA ClosedFine ==
    ASSUME NEW s \in Sessions, ~s.reopened
    PROVE  LET c == ClosedOf(s)
           IN  Fine(c) /\ c.key = s.key /\ c.sid = s.sid /\ c.closed /\ c.streams = {}
<1>n. PICK n : n = NewSession(s.key, s.sid)
  OBVIOUS
<1>c. PICK c : c = ClosedOf(s)
  OBVIOUS
<1>1. s.key \in Keys /\ s.sid \in Sids /\ s.used \in BOOLEAN /\ s.reopened \in BOOLEAN
  BY DEF Sessions
<1>2. n \in Sessions /\ n.key = s.key /\ n.sid = s.sid /\ n.streams = {} /\ n.gaps = {}
  BY <1>n, <1>1, NewFine DEF NewSession
<1>3. /\ c \in Sessions /\ c.key = n.key /\ c.sid = n.sid /\ c.closed /\ c.streams = n.streams
      /\ c.gaps = n.gaps /\ c.reopened = s.reopened
  <2>u. PICK u : u = s.used
    OBVIOUS
  <2>v. PICK v : v = s.reopened
    OBVIOUS
  <2>1. c = [n EXCEPT !.used = u, !.reopened = v, !.closed = TRUE]
    BY <1>n, <1>c, <2>u, <2>v DEF ClosedOf
  <2>2. u \in BOOLEAN /\ v \in BOOLEAN
    BY <1>1, <2>u, <2>v
  <2>3. /\ c \in Sessions /\ c.key = n.key /\ c.sid = n.sid /\ c.closed /\ c.streams = n.streams
        /\ c.gaps = n.gaps /\ c.reopened = v
    BY <1>2, <2>1, <2>2 DEF Sessions
  <2> QED BY <2>3, <2>v
<1>4. Fine(c)
  BY <1>2, <1>3 DEF Fine
<1> QED BY <1>2, <1>3, <1>4, <1>c

LEMMA CloseKept ==
    ASSUME NEW s \in Sessions, NEW due \in Int, NEW r, PairKept(s, r, due)
    PROVE  PairKept(s, CloseLocked(r), due) /\ CloseLocked(r).s.closed /\ CloseLocked(r).s.streams = {}
<1>c. PICK c : c = CloseLocked(r)
  OBVIOUS
<1>0. r \in Pairs /\ r.s \in Sessions /\ r.free \in Int /\ ~r.s.reopened /\ (r.s.closed => r.s.streams = {})
  BY DEF PairKept, Fine, Pairs
<1>1. CASE r.s.closed
  BY <1>0, <1>1 DEF CloseLocked
<1>2. CASE ~r.s.closed
  <2>1. c = [s |-> ClosedOf(r.s), free |-> r.free + Cardinality(r.s.streams)]
    BY <1>2, <1>c DEF CloseLocked, ClosedOf
  <2>2. Fine(c.s) /\ c.s.key = r.s.key /\ c.s.sid = r.s.sid /\ c.s.closed /\ c.s.streams = {}
    BY <1>0, <2>1, ClosedFine
  <2>3. Cardinality(r.s.streams) \in Nat /\ Cardinality(s.streams) \in Nat
    BY <1>0, StreamsOf, Sizes
  <2>4. Cardinality(c.s.streams) = 0
    BY <2>2, FS_EmptySet
  <2>5. c.free = Cardinality(s.streams) - Cardinality(c.s.streams) + due
    BY <1>0, <2>1, <2>3, <2>4 DEF PairKept
  <2>6. c \in Pairs
    BY <1>0, <2>1, <2>2, <2>3 DEF Fine, Pairs
  <2>7. PairKept(s, c, due)
    BY <2>2, <2>5, <2>6 DEF PairKept
  <2> QED BY <1>c, <2>2, <2>7
<1> QED BY <1>1, <1>2

Commands == {"reset", "max"} \X StreamIds

(* A control is queued, or finds the queue full, which ends the session.   *)
LEMMA CtrlKept ==
    ASSUME NEW s \in Sessions, NEW due \in Int, NEW r, PairKept(s, r, due), NEW c \in Commands,
           NEW q, q = QueueCtrl(r, c)
    PROVE  /\ PairKept(s, q, due)
           /\ \/ q.s.closed /\ q.s.streams = {}
              \/ /\ q.s.streams = r.s.streams /\ q.s.next = r.s.next /\ q.s.gaps = r.s.gaps
                 /\ q.s.accepted = r.s.accepted /\ (q.s.closed <=> r.s.closed) /\ q.free = r.free
<1>0. r \in Pairs /\ r.s \in Sessions /\ Fine(r.s)
  BY DEF PairKept, Fine
<1>1. CASE q = r
  BY <1>0, <1>1
<1>2. CASE q = CloseLocked(r)
  BY <1>2, CloseKept
<1>3. CASE q = [r EXCEPT !.s.ctrls = @ \cup {c}]
  <2>n. PICK n : n = r.s.ctrls \cup {c}
    OBVIOUS
  <2>t. PICK t : t = r.s
    OBVIOUS
  <2>1. n \subseteq {"reset", "max"} \X StreamIds
    BY <1>0, <2>n DEF Sessions, Commands
  <2>u. PICK u : u = [t EXCEPT !.ctrls = n]
    OBVIOUS
  <2>2. /\ u \in Sessions /\ u.key = t.key /\ u.sid = t.sid /\ (u.closed <=> t.closed) /\ u.streams = t.streams
        /\ u.next = t.next /\ u.gaps = t.gaps /\ u.accepted = t.accepted /\ (u.reopened <=> t.reopened)
    BY <1>0, <2>1, <2>t, <2>u DEF Sessions
  <2>3. q = [s |-> u, free |-> r.free]
    BY <1>0, <1>3, <2>n, <2>t, <2>u DEF Pairs
  <2>4. Fine(u)
    BY <1>0, <2>2, <2>t DEF Fine
  <2>5. q.s = u /\ q.free = r.free /\ q \in Pairs
    BY <1>0, <2>2, <2>3 DEF Pairs
  <2>6. PairKept(s, q, due)
    BY <2>2, <2>4, <2>5, <2>t DEF PairKept
  <2> QED BY <2>2, <2>5, <2>6, <2>t
<1> QED BY <1>1, <1>2, <1>3 DEF QueueCtrl

LEMMA GoneFine ==
    ASSUME NEW t, Fine(t), NEW id, NEW g, g = Gone(t, id)
    PROVE  /\ Fine(g) /\ g.key = t.key /\ g.sid = t.sid /\ (g.closed <=> t.closed)
           /\ g.streams = t.streams \ {id}
<1>a. PICK a : a = t.streams \ {id}
  OBVIOUS
<1>b. PICK b : b = t.over \ {id}
  OBVIOUS
<1>c. PICK c : c = t.quiet \ {id}
  OBVIOUS
<1>0. t \in Sessions
  BY DEF Fine
<1>1. a \subseteq StreamIds /\ b \subseteq StreamIds /\ c \subseteq StreamIds
  BY <1>0, <1>a, <1>b, <1>c DEF Sessions
<1>2. g = [t EXCEPT !.streams = a, !.over = b, !.quiet = c]
  BY <1>a, <1>b, <1>c DEF Gone
<1>3. /\ g \in Sessions /\ g.key = t.key /\ g.sid = t.sid /\ (g.closed <=> t.closed) /\ g.streams = a
      /\ g.next = t.next /\ g.gaps = t.gaps /\ g.accepted = t.accepted /\ (g.reopened <=> t.reopened)
  BY <1>0, <1>1, <1>2 DEF Sessions
<1>4. t.streams = {} => a = {}
  BY <1>a
<1>5. Fine(g)
  BY <1>3, <1>4 DEF Fine
<1> QED BY <1>3, <1>5, <1>a

(* A stream that is done leaves, with its slot, even when the reset that   *)
(* it is owed finds the queue full.                                        *)
LEMMA RemoveKept ==
    ASSUME NEW s \in Sessions, NEW r, PairKept(s, r, 0), NEW id \in StreamIds, NEW m, m = MaybeRemove(r, id)
    PROVE  PairKept(s, m, 0) /\ m.s.streams \subseteq r.s.streams
<1>1. CASE m = r
  BY <1>1
<1>2. CASE Done(r.s, id)
  <2>c. PICK c : c = <<"reset", id>>
    OBVIOUS
  <2>1. c \in Commands
    BY <2>c DEF Commands
  <2>t. PICK told : told = IF id \in r.s.quiet THEN QueueCtrl(r, c) ELSE r
    OBVIOUS
  <2>2. PairKept(s, told, 0) /\ told.s.streams \subseteq r.s.streams
    <3>1. CASE told = r
      BY <3>1
    <3>2. CASE told = QueueCtrl(r, c)
      BY <2>1, <3>2, CtrlKept
    <3> QED BY <2>t, <3>1, <3>2
  <2>3. CASE id \notin told.s.streams
    <3>1. m = told
      BY <1>2, <2>t, <2>c, <2>3 DEF MaybeRemove
    <3> QED BY <2>2, <3>1
  <2>4. CASE id \in told.s.streams
    <3>1. m = [s |-> Gone(told.s, id), free |-> told.free + 1]
      BY <1>2, <2>t, <2>c, <2>4 DEF MaybeRemove
    <3>2. told \in Pairs /\ told.s \in Sessions /\ told.free \in Int /\ Fine(told.s)
      BY <2>2 DEF PairKept, Fine, Pairs
    <3>3. /\ Fine(m.s) /\ m.s.key = told.s.key /\ m.s.sid = told.s.sid /\ (m.s.closed <=> told.s.closed)
          /\ m.s.streams = told.s.streams \ {id}
      BY <3>1, <3>2, GoneFine
    <3>4. Cardinality(m.s.streams) = Cardinality(told.s.streams) - 1
      BY <2>4, <3>2, <3>3, StreamsOf, Less
    <3>5. Cardinality(told.s.streams) \in Nat /\ Cardinality(s.streams) \in Nat
      BY <3>2, StreamsOf, Sizes
    <3>6. m.free = Cardinality(s.streams) - Cardinality(m.s.streams) + 0
      BY <2>2, <3>1, <3>2, <3>4, <3>5 DEF PairKept
    <3>7. m \in Pairs
      BY <3>1, <3>2, <3>3 DEF Fine, Pairs
    <3>8. PairKept(s, m, 0)
      BY <2>2, <3>3, <3>6, <3>7 DEF PairKept
    <3> QED BY <2>2, <3>3, <3>8
  <2> QED BY <2>3, <2>4
<1>3. CASE ~Done(r.s, id)
  BY <1>1, <1>3 DEF MaybeRemove
<1> QED BY <1>2, <1>3

(* A stream that may open was never accepted, and its number is taken.     *)
LEMMA NumberedFine ==
    ASSUME NEW t, Fine(t), NEW id \in StreamIds, Openable(t, id), NEW n, n = Numbered(t, id)
    PROVE  /\ Fine(n) /\ n.key = t.key /\ n.sid = t.sid /\ ~n.closed /\ n.streams = t.streams
           /\ n.serving = t.serving /\ n.accepted = t.accepted /\ n.reopened = t.reopened
           /\ id < n.next /\ id \notin n.gaps /\ id \notin t.accepted
<1>0. t \in Sessions /\ t.next \in Nat /\ t.gaps \subseteq Nat /\ id \in Nat /\ ~t.closed
  BY ServerAssumption DEF Fine, Sessions, Openable
<1>1. id \notin t.accepted
  BY <1>0 DEF Fine, Openable
<1>2. CASE id < t.next
  <2>g. PICK g : g = t.gaps \ {id}
    OBVIOUS
  <2>1. g \subseteq Nat /\ g \subseteq t.gaps /\ id \notin g
    BY <1>0, <2>g
  <2>2. n = [t EXCEPT !.gaps = g]
    BY <1>2, <2>g DEF Numbered
  <2>3. /\ n \in Sessions /\ n.key = t.key /\ n.sid = t.sid /\ (n.closed <=> t.closed) /\ n.streams = t.streams
        /\ n.serving = t.serving /\ n.accepted = t.accepted /\ n.reopened = t.reopened
        /\ n.next = t.next /\ n.gaps = g
    BY <1>0, <2>1, <2>2 DEF Sessions
  <2>4. Fine(n)
    BY <1>0, <2>1, <2>3 DEF Fine
  <2> QED BY <1>0, <1>1, <1>2, <2>1, <2>3, <2>4
<1>3. CASE ~(id < t.next)
  <2>x. PICK x : x = id + 1
    OBVIOUS
  <2>g. PICK g : g = {h \in t.gaps \cup (t.next..(id - 1)) : h >= id + 1 - 2 * MaxStreams}
    OBVIOUS
  <2>1. x \in Nat /\ id < x /\ t.next < x
    BY <1>0, <1>3, <2>x
  <2>2. /\ g \subseteq Nat /\ id \notin g
        /\ \A h \in g : h < x /\ (h \in t.gaps \/ h >= t.next)
    <3>1. \A h \in t.gaps : h < t.next
      BY DEF Fine
    <3>2. \A h \in g : h \in t.gaps \/ h \in t.next..(id - 1)
      BY <2>g
    <3> QED BY <1>0, <1>3, <2>1, <2>x, <3>1, <3>2
  <2>3. n = [t EXCEPT !.next = x, !.gaps = g]
    BY <1>3, <2>x, <2>g DEF Numbered
  <2>4. /\ n \in Sessions /\ n.key = t.key /\ n.sid = t.sid /\ (n.closed <=> t.closed) /\ n.streams = t.streams
        /\ n.serving = t.serving /\ n.accepted = t.accepted /\ n.reopened = t.reopened
        /\ n.next = x /\ n.gaps = g
    BY <1>0, <2>1, <2>2, <2>3 DEF Sessions
  <2>5. \A a \in t.accepted : a < x /\ a \notin g
    <3>1. \A a \in t.accepted : a < t.next /\ a \notin t.gaps /\ a \in Nat
      BY <1>0, ServerAssumption DEF Fine, Sessions
    <3> QED BY <1>0, <2>1, <2>2, <3>1
  <2>6. Fine(n)
    BY <1>0, <2>2, <2>4, <2>5 DEF Fine
  <2> QED BY <1>0, <1>1, <2>1, <2>2, <2>4, <2>6
<1> QED BY <1>2, <1>3

(* A packet for a stream: it is held, refused, or opened for a slot.       *)
LEMMA PeerKept ==
    ASSUME NEW s, Fine(s), NEW id \in StreamIds, NEW taken, NEW p, p = PeerStream(s, id, taken)
    PROVE  /\ PairKept(s, p, 0)
           /\ p.s.streams \subseteq s.streams \/ (~(taken >= MaxTotalStreams) /\ p.free = -1)
<1>n. PICK n : n = Numbered(s, id)
  OBVIOUS
<1>0. s \in Sessions /\ Cardinality(s.streams) \in Nat
  BY StreamsOf, Sizes DEF Fine
<1>1. CASE id \in s.streams \/ ~Openable(s, id)
  <2>1. p = [s |-> s, free |-> 0]
    BY <1>1 DEF PeerStream
  <2>2. p \in Pairs /\ p.s = s /\ p.free = 0
    BY <1>0, <2>1 DEF Pairs
  <2> QED BY <1>0, <2>2 DEF PairKept
<1>2. CASE id \notin s.streams /\ Openable(s, id)
  <2>1. /\ Fine(n) /\ n.key = s.key /\ n.sid = s.sid /\ ~n.closed /\ n.streams = s.streams
        /\ n.accepted = s.accepted /\ id < n.next /\ id \notin n.gaps /\ id \notin s.accepted
    BY <1>2, <1>n, NumberedFine
  <2>s. ~s.closed
    BY <1>2 DEF Openable
  <2>2. CASE Cardinality(n.streams) >= MaxStreams \/ taken >= MaxTotalStreams
    <3>r. PICK r : r = [s |-> n, free |-> 0]
      OBVIOUS
    <3>1. r \in Pairs /\ r.s = n /\ r.free = 0
      BY <2>1, <3>r DEF Fine, Pairs
    <3>2. PairKept(s, r, 0)
      BY <1>0, <2>1, <2>s, <3>1 DEF PairKept
    <3>c. PICK c : c = <<"reset", id>>
      OBVIOUS
    <3>3. c \in Commands
      BY <3>c DEF Commands
    <3>4. p = QueueCtrl(r, c)
      BY <1>2, <1>n, <2>2, <3>r, <3>c DEF PeerStream
    <3>5. PairKept(s, p, 0) /\ p.s.streams \subseteq r.s.streams
      BY <1>0, <3>2, <3>3, <3>4, CtrlKept
    <3> QED BY <2>1, <3>1, <3>5
  <2>3. CASE ~(Cardinality(n.streams) >= MaxStreams \/ taken >= MaxTotalStreams)
    <3>r. PICK r : r = [s |-> n, free |-> -1]
      OBVIOUS
    <3>1. r \in Pairs /\ r.s = n /\ r.free = -1
      BY <2>1, <3>r DEF Fine, Pairs
    <3>2. PairKept(s, r, -1)
      BY <1>0, <2>1, <2>s, <3>1 DEF PairKept
    <3>c. PICK c : c = <<"max", id>>
      OBVIOUS
    <3>3. c \in Commands
      BY <3>c DEF Commands
    <3>g. PICK g : g = QueueCtrl(r, c)
      OBVIOUS
    <3>4. /\ PairKept(s, g, -1)
          /\ \/ g.s.closed /\ g.s.streams = {}
             \/ /\ g.s.streams = r.s.streams /\ g.s.next = r.s.next /\ g.s.gaps = r.s.gaps
                /\ g.s.accepted = r.s.accepted /\ (g.s.closed <=> r.s.closed) /\ g.free = r.free
      BY <1>0, <3>2, <3>3, <3>g, CtrlKept
    <3>5. /\ g \in Pairs /\ Fine(g.s) /\ g.free \in Int /\ g.s \in Sessions /\ Cardinality(g.s.streams) \in Nat
          /\ g.s.key = s.key /\ g.s.sid = s.sid
          /\ g.free = Cardinality(s.streams) - Cardinality(g.s.streams) - 1
      <4>1. g.s \in Sessions /\ g.free \in Int
        BY <3>4 DEF PairKept, Pairs
      <4> QED BY <1>0, <3>4, <4>1, StreamsOf, Sizes DEF PairKept
    <3>6. CASE g.s.closed
      <4>1. p = [g EXCEPT !.free = @ + 1]
        BY <1>2, <1>n, <2>3, <3>r, <3>c, <3>g, <3>6 DEF PeerStream
      <4>2. p.s = g.s /\ p.free = g.free + 1 /\ p \in Pairs
        BY <3>5, <4>1 DEF Pairs
      <4>3. p.free = Cardinality(s.streams) - Cardinality(p.s.streams) + 0
        BY <1>0, <3>5, <4>2
      <4>4. p.s.streams = {}
        BY <3>5, <3>6, <4>2 DEF Fine
      <4> QED BY <3>5, <3>6, <4>2, <4>3, <4>4 DEF PairKept
    <3>7. CASE ~g.s.closed
      <4>a. PICK a : a = [g.s EXCEPT !.streams = @ \cup {id}, !.serving = @ \cup {id}, !.accepted = @ \cup {id},
                                     !.reopened = @ \/ id \in g.s.accepted]
        OBVIOUS
      <4>1. /\ g.s.streams = s.streams /\ g.s.accepted = s.accepted
            /\ id < g.s.next /\ id \notin g.s.gaps /\ id \notin g.s.accepted /\ g.free = -1
        BY <2>1, <3>1, <3>4, <3>7
      <4>2. Fine(a) /\ a.key = g.s.key /\ a.sid = g.s.sid /\ ~a.closed /\ a.streams = g.s.streams \cup {id}
        <5>t. PICK t : t = g.s
          OBVIOUS
        <5>x. PICK x : x = t.streams \cup {id}
          OBVIOUS
        <5>y. PICK y : y = t.serving \cup {id}
          OBVIOUS
        <5>z. PICK z : z = t.accepted \cup {id}
          OBVIOUS
        <5>o. PICK o : o \in BOOLEAN /\ o = (t.reopened \/ id \in t.accepted)
          OBVIOUS
        <5>1. t \in Sessions /\ Fine(t) /\ ~t.closed /\ id < t.next /\ id \notin t.gaps /\ id \notin t.accepted
          BY <3>5, <3>7, <4>1, <5>t
        <5>2. x \subseteq StreamIds /\ y \subseteq StreamIds /\ z \subseteq StreamIds
          BY <5>1, <5>x, <5>y, <5>z DEF Sessions
        <5>3. o \in BOOLEAN /\ ~o
          BY <5>1, <5>o DEF Fine
        <5>4. a = [t EXCEPT !.streams = x, !.serving = y, !.accepted = z, !.reopened = o]
          BY <4>a, <5>t, <5>x, <5>y, <5>z, <5>o
        <5>5. /\ a \in Sessions /\ a.key = t.key /\ a.sid = t.sid /\ (a.closed <=> t.closed) /\ a.streams = x
              /\ a.next = t.next /\ a.gaps = t.gaps /\ a.accepted = z /\ a.reopened = o
          BY <5>1, <5>2, <5>3, <5>4 DEF Sessions
        <5>6. \A b \in z : b < t.next /\ b \notin t.gaps
          BY <5>1, <5>z DEF Fine
        <5>7. Fine(a)
          BY <5>1, <5>3, <5>5, <5>6 DEF Fine
        <5> QED BY <5>1, <5>5, <5>7, <5>t, <5>x
      <4>3. p = [g EXCEPT !.s.streams = @ \cup {id}, !.s.serving = @ \cup {id},
                          !.s.accepted = @ \cup {id}, !.s.reopened = @ \/ id \in s.accepted]
        BY <1>2, <1>n, <2>3, <3>r, <3>c, <3>g, <3>7 DEF PeerStream
      <4>4. p = [s |-> a, free |-> g.free]
        BY <3>5, <4>1, <4>3, <4>a DEF Pairs
      <4>5. p.s = a /\ p.free = -1 /\ p \in Pairs
        BY <3>5, <4>1, <4>2, <4>4 DEF Fine, Pairs
      <4>6. Cardinality(a.streams) = Cardinality(s.streams) + 1
        BY <1>0, <1>2, <4>1, <4>2, StreamsOf, More
      <4>7. p.free = Cardinality(s.streams) - Cardinality(p.s.streams) + 0
        BY <1>0, <4>5, <4>6
      <4>8. PairKept(s, p, 0)
        BY <2>s, <3>5, <4>2, <4>5, <4>7 DEF PairKept
      <4> QED BY <2>3, <4>5, <4>8
    <3> QED BY <3>6, <3>7
  <2> QED BY <2>2, <2>3
<1> QED BY <1>1, <1>2

(* What a query leaves of its session. *)
Used(r, e) == [r EXCEPT !.s.used = TRUE, !.s.ctrls = IF e THEN {} ELSE @]

LEMMA UsedKept ==
    ASSUME NEW s, NEW r, PairKept(s, r, 0), NEW e, NEW u, u = Used(r, e)
    PROVE  PairKept(s, u, 0) /\ u.s.streams = r.s.streams /\ u.free = r.free
<1>t. PICK t : t = r.s
  OBVIOUS
<1>c. PICK c : c = IF e THEN {} ELSE t.ctrls
  OBVIOUS
<1>v. PICK v : v = [t EXCEPT !.used = TRUE, !.ctrls = c]
  OBVIOUS
<1>0. r \in Pairs /\ t \in Sessions /\ Fine(t) /\ r.free \in Int
  BY <1>t DEF PairKept, Fine, Pairs
<1>1. c \subseteq {"reset", "max"} \X StreamIds
  BY <1>0, <1>c DEF Sessions
<1>2. /\ v \in Sessions /\ v.key = t.key /\ v.sid = t.sid /\ (v.closed <=> t.closed) /\ v.streams = t.streams
      /\ v.next = t.next /\ v.gaps = t.gaps /\ v.accepted = t.accepted /\ (v.reopened <=> t.reopened)
  BY <1>0, <1>1, <1>v DEF Sessions
<1>3. u = [s |-> v, free |-> r.free]
  BY <1>0, <1>t, <1>c, <1>v DEF Pairs, Used
<1>4. Fine(v)
  BY <1>0, <1>2 DEF Fine
<1>5. u.s = v /\ u.free = r.free /\ u \in Pairs
  <2>f. PICK f : f = r.free
    OBVIOUS
  <2>1. v \in Sessions /\ f \in Int
    BY <1>0, <1>2, <2>f
  <2>2. u = [s |-> v, free |-> f]
    BY <1>3, <2>f
  <2>3. u.s = v /\ u.free = f
    BY <2>2
  <2>4. u \in Pairs
    BY <2>1, <2>2 DEF Pairs
  <2> QED BY <2>3, <2>4, <2>f
<1>6. PairKept(s, u, 0)
  BY <1>2, <1>4, <1>5, <1>t DEF PairKept
<1> QED BY <1>2, <1>5, <1>6, <1>t

LEMMA Begun ==
    ASSUME NEW s, Fine(s), NEW t \in Sessions, t.key = s.key, t.sid = s.sid, t.closed <=> s.closed,
           t.streams = s.streams, t.next = s.next, t.gaps = s.gaps, t.accepted = s.accepted,
           t.reopened <=> s.reopened
    PROVE  PairKept(s, [s |-> t, free |-> 0], 0)
<1>1. Fine(t)
  BY DEF Fine
<1>2. Cardinality(s.streams) \in Nat
  BY StreamsOf, Sizes DEF Fine
<1>r. PICK r : r = [s |-> t, free |-> 0]
  OBVIOUS
<1>3. r \in Pairs /\ r.s = t /\ r.free = 0
  BY <1>r DEF Pairs
<1>4. PairKept(s, r, 0)
  BY <1>1, <1>2, <1>3 DEF PairKept
<1> QED BY <1>4, <1>r

LEMMA Untouched == ASSUME NEW s, Fine(s) PROVE PairKept(s, [s |-> s, free |-> 0], 0)
  BY Begun DEF Fine

LEMMA ServedKept ==
    ASSUME NEW s, Fine(s), NEW id \in StreamIds,
           NEW r, r = MaybeRemove([s |-> [s EXCEPT !.serving = @ \ {id}], free |-> 0], id)
    PROVE  PairKept(s, r, 0) /\ r.s.streams \subseteq s.streams
<1>x. PICK x : x = s.serving \ {id}
  OBVIOUS
<1>t. PICK t : t = [s EXCEPT !.serving = x]
  OBVIOUS
<1>0. s \in Sessions
  BY DEF Fine
<1>1. x \subseteq StreamIds
  BY <1>0, <1>x DEF Sessions
<1>2. /\ t \in Sessions /\ t.key = s.key /\ t.sid = s.sid /\ (t.closed <=> s.closed) /\ t.streams = s.streams
      /\ t.next = s.next /\ t.gaps = s.gaps /\ t.accepted = s.accepted /\ (t.reopened <=> s.reopened)
  BY <1>0, <1>1, <1>t DEF Sessions
<1>q. PICK q : q = [s |-> t, free |-> 0]
  OBVIOUS
<1>3. PairKept(s, q, 0) /\ q.s = t
  BY <1>2, <1>q, Begun
<1>4. r = MaybeRemove(q, id)
  BY <1>x, <1>t, <1>q
<1> QED BY <1>0, <1>2, <1>3, <1>4, RemoveKept

Finished(s, id, quietly) ==
    MaybeRemove([s |-> [s EXCEPT !.over = @ \cup {id}, !.quiet = IF quietly THEN @ \cup {id} ELSE @], free |-> 0], id)

LEMMA FinishedKept ==
    ASSUME NEW s, Fine(s), NEW id \in StreamIds, NEW quietly, NEW r, r = Finished(s, id, quietly)
    PROVE  PairKept(s, r, 0) /\ r.s.streams \subseteq s.streams
<1>x. PICK x : x = s.over \cup {id}
  OBVIOUS
<1>y. PICK y : y = IF quietly THEN s.quiet \cup {id} ELSE s.quiet
  OBVIOUS
<1>t. PICK t : t = [s EXCEPT !.over = x, !.quiet = y]
  OBVIOUS
<1>0. s \in Sessions
  BY DEF Fine
<1>1. x \subseteq StreamIds /\ y \subseteq StreamIds
  BY <1>0, <1>x, <1>y DEF Sessions
<1>2. /\ t \in Sessions /\ t.key = s.key /\ t.sid = s.sid /\ (t.closed <=> s.closed) /\ t.streams = s.streams
      /\ t.next = s.next /\ t.gaps = s.gaps /\ t.accepted = s.accepted /\ (t.reopened <=> s.reopened)
  BY <1>0, <1>1, <1>t DEF Sessions
<1>q. PICK q : q = [s |-> t, free |-> 0]
  OBVIOUS
<1>3. PairKept(s, q, 0) /\ q.s = t
  BY <1>2, <1>q, Begun
<1>4. r = MaybeRemove(q, id)
  BY <1>x, <1>y, <1>t, <1>q DEF Finished
<1> QED BY <1>0, <1>2, <1>3, <1>4, RemoveKept

----------------------------------------------------------------------------
(* The session is put back, its slots too. *)
Room(s, r) == r.s.streams \subseteq s.streams \/ (~(slots >= MaxTotalStreams) /\ r.free = -1)

SameOwners ==
    \A j \in DOMAIN ses : /\ ses'[j].key = ses[j].key /\ ses'[j].sid = ses[j].sid
                          /\ ses[j].closed => ses'[j].closed

LEMMA ApplyKeeps ==
    ASSUME TableInv, NEW i \in DOMAIN ses, NEW r, PairKept(ses[i], r, 0), Apply(i, r), Room(ses[i], r)
    PROVE  /\ ses' \in Seq(Sessions) /\ Len(ses') = Len(ses) /\ DOMAIN ses' = DOMAIN ses
           /\ slots' \in Nat /\ SlotsExact' /\ AllFine'
           /\ SameOwners
           /\ ses'[i] = r.s
<1>0. /\ ses \in Seq(Sessions) /\ slots \in Nat /\ slots = Cardinality(HeldSlots) /\ slots <= MaxTotalStreams
      /\ AllFine
  BY DEF TableInv, TableTypeOK, SlotsExact
<1>1. ses' = [ses EXCEPT ![i] = r.s] /\ slots' = slots - r.free
  BY DEF Apply
<1>2. r.s \in Sessions /\ r.free \in Int /\ Fine(r.s)
  BY DEF PairKept, Pairs
<1>3. /\ ses' \in Seq(Sessions) /\ Len(ses') = Len(ses) /\ DOMAIN ses' = DOMAIN ses
      /\ ses'[i] = r.s /\ \A j \in DOMAIN ses : j # i => ses'[j] = ses[j]
  BY <1>0, <1>1, <1>2
<1>4. ses[i] \in Sessions /\ ses[i].streams \subseteq StreamIds /\ r.s.streams \subseteq StreamIds
  BY <1>0, <1>2, StreamsOf
<1>5. IsFiniteSet(DOMAIN ses)
  <2>1. DOMAIN ses = 1 .. Len(ses) /\ Len(ses) \in Nat
    BY <1>0
  <2> QED BY <2>1, FS_Interval
<1>6. HeldSlots = SlotsOf(ses) /\ HeldSlots' = SlotsOf(ses')
  BY DEF HeldSlots, SlotsOf
<1>7. /\ Cardinality(SlotsOf(ses)) \in Nat /\ Cardinality(SlotsOf(ses')) \in Nat
      /\ Cardinality(SlotsOf(ses'))
            = Cardinality(SlotsOf(ses)) - Cardinality(ses[i].streams) + Cardinality(r.s.streams)
  <2>f. PICK f : f = ses
    OBVIOUS
  <2>g. PICK g : g = ses'
    OBVIOUS
  <2>1. /\ IsFiniteSet(DOMAIN f) /\ i \in DOMAIN f /\ DOMAIN g = DOMAIN f
        /\ f[i].streams \subseteq StreamIds /\ g[i].streams \subseteq StreamIds
    BY <1>3, <1>4, <1>5, <2>f, <2>g
  <2>2. \A j \in DOMAIN f : j # i => g[j] = f[j]
    BY <1>3, <2>f, <2>g
  <2>3. /\ Cardinality(SlotsOf(f)) \in Nat /\ Cardinality(SlotsOf(g)) \in Nat
        /\ Cardinality(SlotsOf(g)) = Cardinality(SlotsOf(f)) - Cardinality(f[i].streams) + Cardinality(g[i].streams)
    BY <2>1, <2>2, Replaced
  <2> QED BY <1>3, <2>3, <2>f, <2>g
<1>8. Cardinality(ses[i].streams) \in Nat /\ Cardinality(r.s.streams) \in Nat
  BY <1>4, Sizes
<1>9. r.free = Cardinality(ses[i].streams) - Cardinality(r.s.streams)
  BY <1>2, <1>8 DEF PairKept
<1>10. slots' = Cardinality(HeldSlots') /\ slots' \in Nat
  BY <1>0, <1>1, <1>2, <1>6, <1>7, <1>8, <1>9
<1>11. slots' <= MaxTotalStreams
  <2>1. MaxTotalStreams \in Nat
    BY ServerAssumption
  <2>2. CASE r.s.streams \subseteq ses[i].streams
    <3>1. Cardinality(r.s.streams) <= Cardinality(ses[i].streams)
      BY <1>4, <2>2, Sizes, FS_Subset
    <3> QED BY <1>0, <1>1, <1>8, <1>9, <2>1, <3>1
  <2>3. CASE ~(slots >= MaxTotalStreams) /\ r.free = -1
    BY <1>0, <1>1, <2>1, <2>3
  <2> QED BY <2>2, <2>3 DEF Room
<1>12. AllFine'
  BY <1>0, <1>2, <1>3 DEF AllFine
<1>13. SlotsExact'
  <2>1. \A j \in DOMAIN ses' : ses'[j].closed => ses'[j].streams = {}
    BY <1>12 DEF AllFine, Fine
  <2> QED BY <1>10, <1>11, <2>1 DEF SlotsExact
<1>14. SameOwners
  BY <1>3 DEF PairKept, SameOwners
<1>15. ses' \in Seq(Sessions) /\ Len(ses') = Len(ses) /\ DOMAIN ses' = DOMAIN ses /\ ses'[i] = r.s
  BY <1>3
<1> QED BY <1>10, <1>12, <1>13, <1>14, <1>15

LEMMA Facts ==
    ASSUME TableInv
    PROVE  /\ ses \in Seq(Sessions) /\ DOMAIN ses = 1..Len(ses) /\ Len(ses) \in Nat /\ slots \in Nat
           /\ \A j \in DOMAIN ses : /\ ses[j] \in Sessions /\ ses[j].sid \in Sids /\ ses[j].key \in Keys
                                    /\ Fine(ses[j])
<1>1. ses \in Seq(Sessions) /\ slots \in Nat /\ AllFine
  BY DEF TableInv, TableTypeOK
<1>2. DOMAIN ses = 1..Len(ses) /\ Len(ses) \in Nat /\ \A j \in DOMAIN ses : ses[j] \in Sessions
  BY <1>1
<1>3. \A s \in Sessions : s.sid \in Sids /\ s.key \in Keys
  BY DEF Sessions
<1> QED BY <1>1, <1>2, <1>3 DEF AllFine

(* What ends a session or works in it disturbs the table in no way.        *)
LEMMA AppliedKeeps ==
    ASSUME TableInv, NEW i \in DOMAIN ses, NEW r, PairKept(ses[i], r, 0), Apply(i, r), Room(ses[i], r),
           UNCHANGED <<table, hellos, jobs>>,
           batch' \subseteq batch, doomed' \subseteq doomed, looked' \subseteq looked,
           swept' = swept \/ (swept' = i /\ r.s.closed),
           \A d \in doomed : d \in doomed' \/ (d = i /\ r.s.closed)
    PROVE  TableInv'
<1>1. /\ ses' \in Seq(Sessions) /\ Len(ses') = Len(ses) /\ DOMAIN ses' = DOMAIN ses
      /\ slots' \in Nat /\ SlotsExact' /\ AllFine' /\ SameOwners /\ ses'[i] = r.s
  BY ApplyKeeps
<1>2. /\ table \in [Sids -> 0..Len(ses)] /\ hellos \in [Keys -> 0..Len(ses)] /\ jobs \in [Keys -> Nat]
      /\ doomed \cup batch \cup ({swept} \ {0}) \subseteq DOMAIN ses
      /\ looked \subseteq [inc : DOMAIN ses, id : StreamIds]
      /\ TableOwn /\ SweptClosed /\ TableSound
  BY DEF TableInv, TableTypeOK
<1>3. TableTypeOK'
  BY <1>1, <1>2 DEF TableTypeOK
<1>4. DOMAIN ses = 1..Len(ses) /\ Len(ses) \in Nat /\ \A j \in DOMAIN ses : ses[j].sid \in Sids
  BY Facts
<1>5. TableOwn'
  BY <1>1, <1>2, <1>4 DEF TableOwn, SameOwners
<1>6. SweptClosed'
  BY <1>1, <1>2, <1>4 DEF SweptClosed, SameOwners
<1>7. NoOrphan'
  BY <1>1, <1>2, <1>4 DEF NoOrphan, TableSound, SameOwners
<1>8. HelloNamesOwn'
  BY <1>1, <1>2, <1>4 DEF HelloNamesOwn, TableSound, SameOwners
<1> QED BY <1>1, <1>3, <1>5, <1>6, <1>7, <1>8 DEF TableInv, TableSound

----------------------------------------------------------------------------
(* The actions *)

(* A session in the table takes with it the replies that name it, and no   *)
(* other entry.                                                            *)
LEMMA Leaves ==
    ASSUME TableInv, NEW i \in DOMAIN ses, table[ses[i].sid] = i
    PROVE  /\ Without(i) = [s \in Sids |-> IF table[s] = i THEN 0 ELSE table[s]]
           /\ Forget(i) = [h \in Keys |-> IF hellos[h] = i THEN 0 ELSE hellos[h]]
<1>1. /\ table \in [Sids -> 0..Len(ses)] /\ i # 0 /\ ses[i].sid \in Sids
      /\ TableOwn /\ HelloNamesOwn
  BY Facts DEF TableInv, TableTypeOK, TableSound
<1>2. \A s \in Sids : table[s] = i <=> s = ses[i].sid
  BY <1>1 DEF TableOwn
<1>3. Without(i) = [s \in Sids |-> IF table[s] = i THEN 0 ELSE table[s]]
  BY <1>1, <1>2 DEF Without
<1>4. \A h \in Keys : hellos[h] = i <=> hellos[h] # 0 /\ ses[hellos[h]].sid = ses[i].sid
  BY <1>1 DEF HelloNamesOwn
<1> QED BY <1>3, <1>4 DEF Forget

LEMMA Still ==
    ASSUME TableInv, UNCHANGED <<ses, slots>>
    PROVE  SlotsExact' /\ AllFine'
  BY DEF TableInv, SlotsExact, AllFine, HeldSlots

LEMMA HelloKeeps == ASSUME TableInv, NEW k \in Keys, Hello(k) PROVE TableInv'
<1>1. /\ UNCHANGED <<ses, table, hellos, slots, doomed, batch, swept, looked>>
      /\ jobs' = [jobs EXCEPT ![k] = @ + 1]
  BY DEF Hello
<1>2. TableTypeOK'
  BY <1>1 DEF TableInv, TableTypeOK
<1> QED BY <1>1, <1>2, Still DEF TableInv, TableOwn, SweptClosed, TableSound, NoOrphan, HelloNamesOwn

LEMMA SparedKeeps == ASSUME TableInv, NEW k \in Keys, jobs[k] > 0, Spared(k) PROVE TableInv'
<1>1. /\ UNCHANGED <<ses, table, hellos, slots, doomed, batch, swept, looked>>
      /\ jobs' = [jobs EXCEPT ![k] = @ - 1]
  BY DEF Spared
<1>2. TableTypeOK'
  BY <1>1 DEF TableInv, TableTypeOK
<1> QED BY <1>1, <1>2, Still DEF TableInv, TableOwn, SweptClosed, TableSound, NoOrphan, HelloNamesOwn

LEMMA LookupKeeps == ASSUME TableInv, NEW sid \in Sids, NEW id \in StreamIds, Lookup(sid, id) PROVE TableInv'
<1>1. /\ UNCHANGED <<ses, table, hellos, jobs, slots, doomed, batch, swept>>
      /\ table[sid] # 0 /\ looked' = looked \cup {[inc |-> table[sid], id |-> id]}
  BY DEF Lookup
<1>2. table[sid] \in DOMAIN ses
  BY <1>1, Facts DEF TableInv, TableTypeOK
<1>3. TableTypeOK'
  BY <1>1, <1>2 DEF TableInv, TableTypeOK
<1> QED BY <1>1, <1>3, Still DEF TableInv, TableOwn, SweptClosed, TableSound, NoOrphan, HelloNamesOwn

LEMMA SweepStartsKeeps == ASSUME TableInv, NEW old, SweepStarts(old) PROVE TableInv'
<1>1. /\ UNCHANGED <<ses, table, jobs, slots, doomed, swept, looked>> /\ batch' = InTable
      /\ hellos' = [k \in Keys |-> IF k \in old THEN 0 ELSE hellos[k]]
  BY DEF SweepStarts
<1>2. InTable \subseteq DOMAIN ses
  BY Facts DEF TableInv, TableTypeOK, InTable
<1>3. TableTypeOK'
  BY <1>1, <1>2 DEF TableInv, TableTypeOK
<1>4. HelloNamesOwn'
  BY <1>1 DEF TableInv, TableSound, HelloNamesOwn
<1> QED BY <1>1, <1>3, <1>4, Still DEF TableInv, TableOwn, SweptClosed, TableSound, NoOrphan

LEMMA CloseVictimKeeps == ASSUME TableInv, NEW i \in doomed, CloseVictim(i) PROVE TableInv'
<1>r. PICK r : r = CloseLocked(Held(i))
  OBVIOUS
<1>1. i \in DOMAIN ses
  BY DEF TableInv, TableTypeOK
<1>2. Fine(ses[i]) /\ ses[i] \in Sessions
  BY <1>1, Facts
<1>3. PairKept(ses[i], Held(i), 0)
  BY <1>2, Untouched DEF Held
<1>4. PairKept(ses[i], r, 0) /\ r.s.closed /\ r.s.streams = {}
  BY <1>r, <1>2, <1>3, CloseKept
<1>5. Room(ses[i], r)
  BY <1>4 DEF Room
<1>6. Apply(i, r) /\ UNCHANGED <<table, hellos, jobs, batch, swept, looked>> /\ doomed' = doomed \ {i}
  BY <1>r DEF CloseVictim
<1> QED BY <1>1, <1>4, <1>5, <1>6, AppliedKeeps

LEMMA SweepLooksKeeps == ASSUME TableInv, NEW i \in batch, NEW idle \in BOOLEAN, SweepLooks(i, idle) PROVE TableInv'
<1>1. i \in DOMAIN ses
  BY DEF TableInv, TableTypeOK
<1>2. UNCHANGED <<table, hellos, jobs, doomed, looked>> /\ batch' = batch \ {i}
  BY DEF SweepLooks
<1>3. CASE idle
  <2>h. PICK h : h = Held(i)
    OBVIOUS
  <2>r. PICK r : r = CloseLocked(h)
    OBVIOUS
  <2>2. Fine(ses[i]) /\ ses[i] \in Sessions
    BY <1>1, Facts
  <2>3. PairKept(ses[i], h, 0)
    BY <2>h, <2>2, Untouched DEF Held
  <2>4. PairKept(ses[i], r, 0) /\ r.s.closed /\ r.s.streams = {}
    BY <2>r, <2>2, <2>3, CloseKept
  <2>5. Room(ses[i], r)
    BY <2>4 DEF Room
  <2>6. Apply(i, r) /\ swept' = i
    BY <1>3, <2>h, <2>r DEF SweepLooks
  <2> QED BY <1>1, <1>2, <2>4, <2>5, <2>6, AppliedKeeps
<1>4. CASE ~idle
  <2>1. UNCHANGED <<ses, slots, swept>>
    BY <1>4 DEF SweepLooks
  <2>2. TableTypeOK'
    BY <1>2, <2>1 DEF TableInv, TableTypeOK
  <2> QED BY <1>2, <2>1, <2>2, Still DEF TableInv, TableOwn, SweptClosed, TableSound, NoOrphan, HelloNamesOwn
<1> QED BY <1>3, <1>4

(* The session swept is closed, so that it may leave the table: it is no   *)
(* longer looked for.                                                      *)
LEMMA SweepRemovesKeeps == ASSUME TableInv, SweepRemoves PROVE TableInv'
<1>1. UNCHANGED <<ses, jobs, slots, doomed, batch, looked>> /\ swept # 0 /\ swept' = 0
  BY DEF SweepRemoves
<1>2. swept \in DOMAIN ses /\ ses[swept].closed /\ ses[swept].sid \in Sids
  <2>1. swept \in DOMAIN ses
    BY <1>1 DEF TableInv, TableTypeOK
  <2> QED BY <1>1, <2>1, Facts DEF TableInv, SweptClosed
<1>3. CASE UNCHANGED <<table, hellos>>
  <2>1. TableTypeOK'
    BY <1>1, <1>3 DEF TableInv, TableTypeOK
  <2> QED BY <1>1, <1>3, <2>1, Still DEF TableInv, TableOwn, SweptClosed, TableSound, NoOrphan, HelloNamesOwn
<1>4. CASE table[ses[swept].sid] = swept /\ table' = Without(swept) /\ hellos' = Forget(swept)
  <2>o. PICK o : o = ses[swept].sid
    OBVIOUS
  <2>1. /\ table' = [table EXCEPT ![o] = 0] /\ o \in Sids /\ table[o] = swept
        /\ hellos' = [h \in Keys |-> IF hellos[h] = swept THEN 0 ELSE hellos[h]]
    BY <1>2, <1>4, <2>o, Leaves DEF Without
  <2>2. /\ table \in [Sids -> 0..Len(ses)] /\ hellos \in [Keys -> 0..Len(ses)] /\ Len(ses) \in Nat
        /\ TableOwn /\ NoOrphan /\ HelloNamesOwn
    BY Facts DEF TableInv, TableTypeOK, TableSound
  <2>3. table' \in [Sids -> 0..Len(ses)] /\ hellos' \in [Keys -> 0..Len(ses)]
    BY <2>1, <2>2
  <2>4. TableTypeOK'
    BY <1>1, <2>3 DEF TableInv, TableTypeOK
  <2>5. TableOwn'
    BY <1>1, <2>1, <2>2 DEF TableOwn
  <2>6. NoOrphan'
    <3> SUFFICES ASSUME NEW i \in DOMAIN ses
                 PROVE  ses[i].closed \/ table'[ses[i].sid] = i \/ i \in doomed
      BY <1>1 DEF NoOrphan
    <3>1. ses[i].sid \in Sids
      BY Facts
    <3> QED BY <1>2, <2>1, <2>2, <3>1 DEF NoOrphan
  <2>7. HelloNamesOwn'
    <3> SUFFICES ASSUME NEW h \in Keys, hellos'[h] # 0
                 PROVE  ses[hellos'[h]].key = h /\ table'[ses[hellos'[h]].sid] = hellos'[h]
      BY <1>1 DEF HelloNamesOwn
    <3>1. hellos'[h] = hellos[h] /\ hellos[h] # swept /\ hellos[h] # 0
      BY <2>1
    <3>2. ses[hellos[h]].key = h /\ table[ses[hellos[h]].sid] = hellos[h]
      BY <2>2, <3>1 DEF HelloNamesOwn
    <3>3. ses[hellos[h]].sid # o /\ hellos[h] \in DOMAIN ses
      BY <2>1, <2>2, <3>1, <3>2, Facts
    <3>4. ses[hellos[h]].sid \in Sids
      BY <3>3, Facts
    <3> QED BY <2>1, <2>2, <3>1, <3>2, <3>3, <3>4
  <2> QED BY <1>1, <2>4, <2>5, <2>6, <2>7, Still DEF TableInv, SweptClosed, TableSound
<1> QED BY <1>3, <1>4 DEF SweepRemoves

(* A query works on its session through peerStream.                        *)
LEMMA OnQueryKeeps ==
    ASSUME TableInv, NEW l \in looked, NEW bad \in BOOLEAN, NEW sent \in BOOLEAN, OnQuery(l, bad, sent)
    PROVE  TableInv'
<1>s. PICK s : s = ses[l.inc]
  OBVIOUS
<1>p. PICK p : p = PeerStream(s, l.id, slots)
  OBVIOUS
<1>r. PICK r : r = IF bad THEN CloseLocked(p) ELSE p
  OBVIOUS
<1>u. PICK u : u = Used(r, sent \/ r.s.closed)
  OBVIOUS
<1>1. l.inc \in DOMAIN ses /\ l.id \in StreamIds
  BY DEF TableInv, TableTypeOK
<1>2. Fine(s) /\ s \in Sessions
  BY <1>1, <1>s, Facts
<1>3. PairKept(s, p, 0) /\ Room(s, p)
  BY <1>1, <1>2, <1>p, PeerKept DEF Room
<1>4. PairKept(s, r, 0) /\ Room(s, r)
  <2>1. CASE r = p
    BY <1>3, <2>1
  <2>2. CASE r = CloseLocked(p)
    <3>1. PairKept(s, r, 0) /\ r.s.streams = {}
      BY <1>2, <1>3, <2>2, CloseKept
    <3> QED BY <3>1 DEF Room
  <2> QED BY <1>r, <2>1, <2>2
<1>5. PairKept(s, u, 0) /\ Room(s, u)
  <2>1. PairKept(s, u, 0) /\ u.s.streams = r.s.streams /\ u.free = r.free
    BY <1>4, <1>u, UsedKept
  <2> QED BY <1>4, <2>1 DEF Room
<1>6. Apply(l.inc, u)
  BY <1>s, <1>p, <1>r, <1>u DEF OnQuery, Used
<1>7. UNCHANGED <<table, hellos, jobs, doomed, batch, swept>> /\ looked' = looked \ {l}
  BY DEF OnQuery
<1> QED BY <1>1, <1>5, <1>6, <1>7, <1>s, AppliedKeeps

LEMMA ServedKeeps ==
    ASSUME TableInv, NEW i \in DOMAIN ses, NEW id \in StreamIds, Served(i, id)
    PROVE  TableInv'
<1>r. PICK r : r = MaybeRemove([s |-> [ses[i] EXCEPT !.serving = @ \ {id}], free |-> 0], id)
  OBVIOUS
<1>1. Fine(ses[i])
  BY Facts
<1>2. PairKept(ses[i], r, 0) /\ r.s.streams \subseteq ses[i].streams
  BY <1>r, <1>1, ServedKept
<1>3. Apply(i, r) /\ UNCHANGED <<table, hellos, jobs, doomed, batch, swept, looked>>
  BY <1>r DEF Served
<1> QED BY <1>2, <1>3, AppliedKeeps DEF Room

LEMMA FinishesKeeps ==
    ASSUME TableInv, NEW i \in DOMAIN ses, NEW id \in StreamIds, NEW quietly \in BOOLEAN, Finishes(i, id, quietly)
    PROVE  TableInv'
<1>r. PICK r : r = Finished(ses[i], id, quietly)
  OBVIOUS
<1>1. Fine(ses[i])
  BY Facts
<1>2. PairKept(ses[i], r, 0) /\ r.s.streams \subseteq ses[i].streams
  BY <1>r, <1>1, FinishedKept
<1>3. Apply(i, r) /\ UNCHANGED <<table, hellos, jobs, doomed, batch, swept, looked>>
  BY <1>r DEF Finishes, Finished
<1> QED BY <1>2, <1>3, AppliedKeeps DEF Room

(* A session that makes room is off the table and about to be closed; one  *)
(* that is created takes an ID that leads to no other.                     *)
LEMMA HandshakeKeeps ==
    ASSUME TableInv, NEW k \in Keys, NEW sid \in Sids, NEW v \in Victims, jobs[k] > 0, Handshake(k, sid, v)
    PROVE  TableInv'
<1>f. PICK freed : freed = [s \in Sids |-> IF table[s] = v THEN 0 ELSE table[s]]
  OBVIOUS
<1>h. PICK kept : kept = [h \in Keys |-> IF hellos[h] = v THEN 0 ELSE hellos[h]]
  OBVIOUS
<1>n. PICK n : n = NewSession(k, sid)
  OBVIOUS
<1>0. /\ ses \in Seq(Sessions) /\ DOMAIN ses = 1..Len(ses) /\ Len(ses) \in Nat
      /\ \A j \in DOMAIN ses : ses[j].sid \in Sids
      /\ table \in [Sids -> 0..Len(ses)] /\ hellos \in [Keys -> 0..Len(ses)] /\ jobs \in [Keys -> Nat]
      /\ doomed \cup batch \cup ({swept} \ {0}) \subseteq DOMAIN ses
      /\ looked \subseteq [inc : DOMAIN ses, id : StreamIds] /\ slots \in Nat
  BY Facts DEF TableInv, TableTypeOK
<1>1. AllFine /\ TableOwn /\ SweptClosed /\ NoOrphan /\ HelloNamesOwn /\ SlotsExact
  BY DEF TableInv, TableSound
<1>2. v = 0 \/ (v \in DOMAIN ses /\ table[ses[v].sid] = v)
  BY <1>0, <1>1 DEF Victims, Unused, InTable, TableOwn
<1>g. /\ freed = IF v = 0 THEN table ELSE Without(v)
      /\ kept = IF v = 0 THEN hellos ELSE Forget(v)
  <2>1. CASE v = 0
    BY <1>0, <1>f, <1>h, <2>1
  <2>2. CASE v # 0
    BY <1>2, <1>f, <1>h, <2>2, Leaves
  <2> QED BY <2>1, <2>2
<1>3. UNCHANGED <<slots, batch, swept, looked>> /\ doomed' = doomed \cup ({v} \ {0})
  BY DEF Handshake
<1>4. jobs' \in [Keys -> Nat]
  <2>1. PICK done \in BOOLEAN : jobs' = [jobs EXCEPT ![k] = @ - (IF done THEN 1 ELSE 0)]
    BY DEF Handshake
  <2> QED BY <1>0, <2>1
<1>5. freed \in [Sids -> 0..Len(ses)] /\ kept \in [Keys -> 0..Len(ses)]
  BY <1>0, <1>f, <1>h
<1>6. CASE freed[sid] # 0
  <2>1. ses' = ses /\ table' = freed /\ hellos' = kept
    BY <1>6, <1>g DEF Handshake
  <2>2. TableTypeOK'
    BY <1>0, <1>2, <1>3, <1>4, <1>5, <2>1 DEF TableTypeOK
  <2>3. TableOwn'
    BY <1>1, <1>f, <2>1 DEF TableOwn
  <2>4. NoOrphan'
    <3> SUFFICES ASSUME NEW i \in DOMAIN ses
                 PROVE  ses[i].closed \/ freed[ses[i].sid] = i \/ i \in doomed'
      BY <2>1 DEF NoOrphan
    <3>1. ses[i].sid \in Sids /\ i # 0
      BY <1>0
    <3> QED BY <1>1, <1>3, <1>f, <3>1 DEF NoOrphan
  <2>5. HelloNamesOwn'
    <3> SUFFICES ASSUME NEW h \in Keys, kept[h] # 0
                 PROVE  ses[kept[h]].key = h /\ freed[ses[kept[h]].sid] = kept[h]
      BY <2>1 DEF HelloNamesOwn
    <3>1. kept[h] = hellos[h] /\ hellos[h] # v /\ hellos[h] \in DOMAIN ses
      BY <1>0, <1>h
    <3> QED BY <1>0, <1>1, <1>f, <3>1 DEF HelloNamesOwn
  <2> QED BY <1>1, <1>3, <2>1, <2>2, <2>3, <2>4, <2>5, Still DEF TableInv, TableSound, SweptClosed
<1>7. CASE freed[sid] = 0
  <2>l. PICK new : new = Len(ses) + 1
    OBVIOUS
  <2>1. ses' = Append(ses, n) /\ table' = [freed EXCEPT ![sid] = new] /\ hellos' = [kept EXCEPT ![k] = new]
    BY <1>7, <1>g, <1>n, <2>l DEF Handshake
  <2>2. n \in Sessions /\ Fine(n) /\ n.key = k /\ n.sid = sid /\ n.streams = {}
    BY <1>n, NewFine
  <2>3. /\ ses' \in Seq(Sessions) /\ Len(ses') = new /\ DOMAIN ses' = 1..new /\ new \in Nat
        /\ ses'[new] = n /\ \A j \in DOMAIN ses : ses'[j] = ses[j]
    BY <1>0, <2>1, <2>2, <2>l
  <2>4. /\ DOMAIN ses' = DOMAIN ses \cup {new} /\ new \notin DOMAIN ses /\ new # 0
        /\ 0..Len(ses) \subseteq 0..new /\ new \in 0..new
    BY <1>0, <2>3, <2>l
  <2>5. table' \in [Sids -> 0..new] /\ hellos' \in [Keys -> 0..new]
    BY <1>5, <2>1, <2>4
  <2>6. TableTypeOK'
    BY <1>0, <1>2, <1>3, <1>4, <2>3, <2>4, <2>5 DEF TableTypeOK
  <2>7. AllFine'
    BY <1>1, <2>2, <2>3, <2>4 DEF AllFine
  <2>8. SlotsExact'
    <3>1. HeldSlots' = HeldSlots
      BY <2>2, <2>3, <2>4 DEF HeldSlots
    <3>2. \A i \in DOMAIN ses' : ses'[i].closed => ses'[i].streams = {}
      BY <2>7 DEF AllFine, Fine
    <3> QED BY <1>1, <1>3, <3>1, <3>2 DEF SlotsExact
  <2>9. TableOwn'
    <3> SUFFICES ASSUME NEW s \in Sids, table'[s] # 0
                 PROVE  ses'[table'[s]].sid = s
      BY DEF TableOwn
    <3>1. CASE s = sid
      BY <1>5, <2>1, <2>2, <2>3, <3>1
    <3>2. CASE s # sid
      <4>1. table'[s] = table[s] /\ table[s] # 0
        BY <1>5, <1>f, <2>1, <3>2
      <4>2. table[s] \in DOMAIN ses /\ ses[table[s]].sid = s
        BY <1>0, <1>1, <4>1 DEF TableOwn
      <4> QED BY <2>3, <4>1, <4>2
    <3> QED BY <3>1, <3>2
  <2>10. SweptClosed'
    <3> SUFFICES ASSUME swept # 0
                 PROVE  ses'[swept].closed
      BY <1>3 DEF SweptClosed
    <3>1. swept \in DOMAIN ses
      BY <1>0
    <3> QED BY <1>1, <2>3, <3>1 DEF SweptClosed
  <2>11. NoOrphan'
    <3> SUFFICES ASSUME NEW i \in DOMAIN ses'
                 PROVE  ses'[i].closed \/ table'[ses'[i].sid] = i \/ i \in doomed'
      BY DEF NoOrphan
    <3>1. CASE i = new
      BY <1>5, <2>1, <2>2, <2>3, <3>1
    <3>2. CASE i \in DOMAIN ses
      <4>1. ses'[i] = ses[i] /\ ses[i].sid \in Sids /\ i # 0
        BY <1>0, <2>3, <3>2
      <4>2. CASE ses[i].closed \/ i \in doomed \/ i = v
        BY <1>3, <4>1, <4>2
      <4>3. CASE table[ses[i].sid] = i /\ i # v
        <5>1. freed[ses[i].sid] = i /\ ses[i].sid # sid
          BY <1>7, <1>f, <4>1, <4>3
        <5> QED BY <1>5, <2>1, <4>1, <5>1
      <4> QED BY <1>1, <3>2, <4>2, <4>3 DEF NoOrphan
    <3> QED BY <2>4, <3>1, <3>2
  <2>12. HelloNamesOwn'
    <3> SUFFICES ASSUME NEW h \in Keys, hellos'[h] # 0
                 PROVE  ses'[hellos'[h]].key = h /\ table'[ses'[hellos'[h]].sid] = hellos'[h]
      BY DEF HelloNamesOwn
    <3>1. CASE h = k
      <4>1. hellos'[h] = new
        BY <1>5, <2>1, <3>1
      <4> QED BY <1>5, <2>1, <2>2, <2>3, <3>1, <4>1
    <3>2. CASE h # k
      <4>1. hellos'[h] = hellos[h] /\ hellos[h] # 0 /\ hellos[h] # v
        BY <1>5, <1>h, <2>1, <3>2
      <4>o. PICK o : o = hellos[h]
        OBVIOUS
      <4>2. o \in DOMAIN ses /\ ses[o].key = h /\ table[ses[o].sid] = o /\ ses[o].sid \in Sids
        BY <1>0, <1>1, <4>1, <4>o DEF HelloNamesOwn
      <4>3. freed[ses[o].sid] = o /\ ses[o].sid # sid
        BY <1>7, <1>f, <4>1, <4>2, <4>o
      <4>4. ses'[o] = ses[o] /\ table'[ses[o].sid] = o
        BY <1>5, <2>1, <2>3, <4>2, <4>3
      <4> QED BY <4>1, <4>2, <4>4, <4>o
    <3> QED BY <3>1, <3>2
  <2> QED BY <2>6, <2>7, <2>8, <2>9, <2>10, <2>11, <2>12 DEF TableInv, TableSound
<1> QED BY <1>6, <1>7

----------------------------------------------------------------------------
LEMMA InitKeeps == TableInit => TableInv
<1> SUFFICES ASSUME TableInit PROVE TableInv
  OBVIOUS
<1>1. HeldSlots = {} /\ ses = <<>> /\ slots = 0 /\ swept = 0 /\ DOMAIN ses = {}
  BY DEF TableInit, HeldSlots
<1>2. TableTypeOK
  BY <1>1 DEF TableInit, TableTypeOK
<1>3. SlotsExact
  BY <1>1, FS_EmptySet, ServerAssumption DEF SlotsExact
<1>4. TableOwn /\ HelloNamesOwn
  BY DEF TableInit, TableOwn, HelloNamesOwn
<1> QED BY <1>1, <1>2, <1>3, <1>4 DEF TableInv, AllFine, SweptClosed, TableSound, NoOrphan

LEMMA NextKeeps == TableInv /\ [TableNext]_tableVars => TableInv'
<1> SUFFICES ASSUME TableInv, [TableNext]_tableVars PROVE TableInv'
  OBVIOUS
<1>1. CASE UNCHANGED tableVars
  <2>1. UNCHANGED <<ses, table, hellos, jobs, slots, doomed, batch, swept, looked>>
    BY <1>1 DEF tableVars
  <2>2. TableTypeOK'
    BY <2>1 DEF TableInv, TableTypeOK
  <2> QED BY <2>1, <2>2, Still DEF TableInv, TableOwn, SweptClosed, TableSound, NoOrphan, HelloNamesOwn
<1>2. ASSUME NEW k \in Keys, Hello(k) PROVE TableInv'
  BY <1>2, HelloKeeps
<1>3. ASSUME NEW k \in Keys, HelloWorker(k) PROVE TableInv'
  <2>1. jobs[k] > 0
    BY <1>3 DEF HelloWorker
  <2>2. CASE Spared(k)
    BY <2>1, <2>2, SparedKeeps
  <2>3. CASE \E sid \in Sids, victim \in Victims : Handshake(k, sid, victim)
    BY <2>1, <2>3, HandshakeKeeps
  <2> QED BY <1>3, <2>2, <2>3 DEF HelloWorker
<1>4. ASSUME NEW i \in doomed, CloseVictim(i) PROVE TableInv'
  BY <1>4, CloseVictimKeeps
<1>5. ASSUME NEW old \in SUBSET Keys, SweepStarts(old) PROVE TableInv'
  BY <1>5, SweepStartsKeeps
<1>6. ASSUME NEW i \in batch, NEW idle \in BOOLEAN, SweepLooks(i, idle) PROVE TableInv'
  BY <1>6, SweepLooksKeeps
<1>7. CASE SweepRemoves
  BY <1>7, SweepRemovesKeeps
<1>8. ASSUME NEW sid \in Sids, NEW id \in StreamIds, Lookup(sid, id) PROVE TableInv'
  BY <1>8, LookupKeeps
<1>9. ASSUME NEW l \in looked, NEW bad \in BOOLEAN, NEW sent \in BOOLEAN, OnQuery(l, bad, sent) PROVE TableInv'
  BY <1>9, OnQueryKeeps
<1>10. ASSUME NEW i \in DOMAIN ses, NEW id \in StreamIds, Served(i, id) PROVE TableInv'
  BY <1>10, ServedKeeps
<1>11. ASSUME NEW i \in DOMAIN ses, NEW id \in StreamIds, NEW quietly \in BOOLEAN, Finishes(i, id, quietly) PROVE TableInv'
  BY <1>11, FinishesKeeps
<1> QED BY <1>1, <1>2, <1>3, <1>4, <1>5, <1>6, <1>7, <1>8, <1>9, <1>10, <1>11 DEF TableNext

(* The invariant holds of every reachable table (engine/server.go).        *)
THEOREM Invariance == TableSpec => []TableInv
  BY InitKeeps, NextKeeps, PTL DEF TableSpec

(* The slots taken are those of the streams that the sessions hold, within *)
(* the server's limit, whichever way sessions end and whatever a full      *)
(* control queue interrupts, and no stream is accepted twice in a session. *)
THEOREM SlotsAreHeld == TableSpec => []SlotsHeld
<1>1. TableInv => SlotsHeld
  BY DEF TableInv, SlotsHeld, AllFine, Fine, OpensOnce
<1> QED BY <1>1, Invariance, PTL

(* No interleaving of handshakes, evictions and sweeps loses a session     *)
(* that is not closed, or lets a cached hello name another key's session.  *)
THEOREM TableIsSound == TableSpec => []TableSound
<1>1. TableInv => TableSound
  BY DEF TableInv
<1> QED BY <1>1, Invariance, PTL

-----------------------------------------------------------------------------
(* The session table of the DNS tunnel: SessionStore.                      *)

(* Serials are those given out. *)
SerialsGiven == \A i \in Live : byId[i].serial \in 1 .. created

IInv == TypeOK /\ IndexSound /\ CountsExact /\ SweepNeverLate /\ SerialsGiven

USE StoreAssumption

----------------------------------------------------------------------------
(* Sets of IDs are finite, and counting them is counting naturals. *)
LEMMA IdSetsFinite ==
    ASSUME NEW S \in SUBSET Ids
    PROVE  IsFiniteSet(S) /\ Cardinality(S) \in Nat
<1>1. IsFiniteSet(1 .. MaxId)
  BY FS_Interval
<1> QED
  BY <1>1, FS_Subset, FS_CardinalityType DEF Ids

LEMMA CountAdd ==
    ASSUME NEW S \in SUBSET Ids, NEW i \in Ids, i \notin S
    PROVE  Cardinality(S \cup {i}) = Cardinality(S) + 1
BY IdSetsFinite, FS_AddElement

LEMMA CountDifference ==
    ASSUME NEW S \in SUBSET Ids, NEW D \in SUBSET S
    PROVE  /\ Cardinality(S \ D) = Cardinality(S) - Cardinality(D)
           /\ Cardinality(S) - Cardinality(D) \in Nat
           /\ Cardinality(D) \in Nat
<1>1. S \cap D = D
  OBVIOUS
<1>2. D \in SUBSET Ids
  OBVIOUS
<1>3. IsFiniteSet(S) /\ IsFiniteSet(D) /\ Cardinality(S) \in Nat /\ Cardinality(D) \in Nat
  BY <1>2, IdSetsFinite
<1>4. Cardinality(S \ D) = Cardinality(S) - Cardinality(S \cap D)
  BY <1>3, FS_Difference
<1>5. Cardinality(D) <= Cardinality(S)
  BY <1>3, FS_Subset
<1>6. Cardinality(S \ D) = Cardinality(S) - Cardinality(D)
  BY <1>1, <1>4
<1>7. Cardinality(S) - Cardinality(D) \in Nat
  BY <1>3, <1>5
<1> QED
  BY <1>3, <1>6, <1>7

(* A free ID holds no record. *)
LEMMA NoSessionIsNoRecord == NoSession \notin Records
BY DEF NoSession, Records

----------------------------------------------------------------------------
LEMMA InitHolds == Init => IInv
<1> SUFFICES ASSUME Init PROVE IInv
  OBVIOUS
<1>1. Live = {} /\ \A f \in Formats : LiveOf(f) = {}
  BY DEF Init, Live, LiveOf
<1>2. \A f \in Formats : Low(f) \in Half(f) /\ Low(f) \in Ids
  BY DEF Ids, Low, High, Half, Formats
<1>3. TypeOK
  BY <1>2 DEF Init, TypeOK, Ids
<1>4. CountsExact
  <2>1. Cardinality({}) = 0
    BY FS_EmptySet
  <2>2. total = 0 /\ \A f \in Formats : count[f] = 0
    BY DEF Init
  <2>3. \A f \in Formats : count[f] = Cardinality(LiveOf(f))
    BY <1>1, <2>1, <2>2
  <2>4. total = Cardinality(Live) /\ total <= Cap
    BY <1>1, <2>1, <2>2
  <2> QED
    BY <1>1, <2>3, <2>4 DEF CountsExact
<1>5. IndexSound /\ SweepNeverLate /\ SerialsGiven
  BY <1>1 DEF Init, IndexSound, SweepNeverLate, SerialsGiven
<1> QED
  BY <1>3, <1>4, <1>5 DEF IInv

(* What the sweep of signatures leaves was there before. *)
LEMMA SweptIsIndexed ==
    ASSUME TypeOK
    PROVE  /\ SweptSig \in [Signatures -> 0 .. MaxId]
           /\ \A g \in Signatures : SweptSig[g] # 0 => g \in Kept /\ SweptSig[g] = bySig[g]
BY DEF TypeOK, SweptSig

(* The time of the next sweep is set, and is no later than any expiry.     *)
LEMMA NextSweepBounds ==
    ASSUME IInv, NEW t \in Nat, NextSweep(t), NEW g \in Kept, bySig[g] # 0
    PROVE  t # 0 /\ t <= byId[bySig[g]].until
<1>1. g \in Signatures /\ g \in Indexed
  BY DEF Kept, Indexed
<1>2. \A h \in Signatures : bySig[h] # 0 => byId[bySig[h]] \in Records
  BY DEF IInv, TypeOK, IndexSound, Ids
<1>3. CASE ~SweepDue
  BY <1>1, <1>3 DEF NextSweep, IInv, SweepNeverLate
<1>4. CASE SweepDue
  <2>1. PICK h \in Kept : t = byId[bySig[h]].until
    BY <1>1, <1>4 DEF NextSweep
  <2>2. h \in Signatures /\ bySig[h] # 0
    BY <2>1, <1>4 DEF Kept, Reusable
  <2>3. t # 0
    BY <2>1, <2>2, <1>2 DEF Records
  <2>4. t <= byId[bySig[g]].until
    BY <1>1, <1>4 DEF NextSweep
  <2> QED
    BY <2>3, <2>4
<1> QED
  BY <1>3, <1>4

(* An INIT that changes no record but an activity stamp.                   *)
LEMMA TouchKeeps ==
    ASSUME IInv, NEW i \in Live, byId' = [byId EXCEPT ![i].active = now],
           UNCHANGED <<total, count, created>>
    PROVE  /\ byId' \in [Ids -> Records \cup {NoSession}]
           /\ CountsExact' /\ SerialsGiven'
           /\ \A j \in Ids : /\ byId'[j] = NoSession <=> byId[j] = NoSession
                             /\ byId[j] # NoSession => /\ byId'[j].sig = byId[j].sig
                                                       /\ byId'[j].until = byId[j].until
<1>1. byId[i] \in Records /\ i \in Ids
  BY DEF IInv, TypeOK, Live
<1>2. [byId[i] EXCEPT !.active = now] \in Records
  <2>1. now \in Nat
    BY DEF IInv, TypeOK
  <2> QED
    BY <1>1, <2>1 DEF Records
<1>3. byId' = [byId EXCEPT ![i] = [byId[i] EXCEPT !.active = now]]
  BY <1>1 DEF IInv, TypeOK
<1>4. byId' \in [Ids -> Records \cup {NoSession}]
  BY <1>2, <1>3 DEF IInv, TypeOK
<1>5. /\ byId'[i].sig = byId[i].sig /\ byId'[i].until = byId[i].until
      /\ byId'[i].serial = byId[i].serial /\ byId'[i].format = byId[i].format
      /\ byId'[i] # NoSession
  BY <1>1, <1>2, <1>3, NoSessionIsNoRecord DEF IInv, TypeOK, Records
<1>6. \A j \in Ids : j # i => byId'[j] = byId[j]
  BY <1>3 DEF IInv, TypeOK
<1>7. \A j \in Ids : /\ byId'[j] = NoSession <=> byId[j] = NoSession
                     /\ byId[j] # NoSession => /\ byId'[j].sig = byId[j].sig
                                               /\ byId'[j].until = byId[j].until
                                               /\ byId'[j].serial = byId[j].serial
                                               /\ byId'[j].format = byId[j].format
  BY <1>5, <1>6 DEF Live
<1>8. Live' = Live /\ \A f \in Formats : LiveOf(f)' = LiveOf(f)
  BY <1>7 DEF Live, LiveOf
<1>9. CountsExact' /\ SerialsGiven'
  BY <1>7, <1>8 DEF IInv, CountsExact, SerialsGiven, Live
<1> QED
  BY <1>4, <1>7, <1>9

----------------------------------------------------------------------------
(* findOrCreate *)
LEMMA ReuseKeeps ==
    ASSUME IInv, NEW g \in Signatures, NEW f \in Formats, NEW k \in Codecs, Reuse(g, f, k)
    PROVE  IInv'
<1> DEFINE i == bySig[g]
<1>1. i \in Live
  BY DEF IInv, TypeOK, Reuse, Reuses, Reusable, Live, Ids
<1>2. PICK t \in 0 .. MaxTime + ReuseTTL : NextSweep(t) /\ sweepAt' = t
  BY DEF Reuse
<1>3. byId' = [byId EXCEPT ![i].active = now] /\ UNCHANGED <<total, count, created>>
  BY DEF Reuse
<1> HIDE DEF i
<1>4. /\ byId' \in [Ids -> Records \cup {NoSession}]
      /\ CountsExact' /\ SerialsGiven'
      /\ \A j \in Ids : /\ byId'[j] = NoSession <=> byId[j] = NoSession
                        /\ byId[j] # NoSession => /\ byId'[j].sig = byId[j].sig
                                                  /\ byId'[j].until = byId[j].until
  BY <1>1, <1>3, TouchKeeps
<1>5. TypeOK
  BY DEF IInv
<1>6. /\ bySig' \in [Signatures -> 0 .. MaxId]
      /\ \A h \in Signatures : bySig'[h] # 0 => h \in Kept /\ bySig'[h] = bySig[h]
  BY <1>5, SweptIsIndexed DEF Reuse
<1>7. TypeOK'
  BY <1>2, <1>4, <1>5, <1>6 DEF TypeOK, Reuse
<1>8. \A h \in Signatures : bySig'[h] # 0 =>
         /\ bySig'[h] \in Ids /\ byId[bySig[h]] # NoSession /\ byId[bySig[h]].sig = h
  BY <1>6 DEF IInv, IndexSound, TypeOK, Ids
<1>9. IndexSound'
  BY <1>4, <1>6, <1>8 DEF IndexSound
<1>10. \A h \in Signatures : bySig'[h] # 0 => t # 0 /\ t <= byId[bySig[h]].until
  BY <1>2, <1>6, NextSweepBounds
<1>11. SweepNeverLate'
  BY <1>2, <1>4, <1>6, <1>8, <1>10 DEF SweepNeverLate
<1> QED
  BY <1>4, <1>7, <1>9, <1>11 DEF IInv

LEMMA TableFullKeeps ==
    ASSUME IInv, NEW g \in Signatures, NEW f \in Formats, NEW k \in Codecs, TableFull(g, f, k)
    PROVE  IInv'
<1>1. PICK t \in 0 .. MaxTime + ReuseTTL : NextSweep(t) /\ sweepAt' = t
  BY DEF TableFull
<1>2. TypeOK
  BY DEF IInv
<1>3. /\ bySig' \in [Signatures -> 0 .. MaxId]
      /\ \A h \in Signatures : bySig'[h] # 0 => h \in Kept /\ bySig'[h] = bySig[h]
  BY <1>2, SweptIsIndexed DEF TableFull
<1>4. TypeOK'
  BY <1>1, <1>2, <1>3 DEF TypeOK, TableFull
<1>5. IndexSound'
  BY <1>3 DEF IInv, IndexSound, TableFull
<1>6. Live' = Live /\ \A h \in Formats : LiveOf(h)' = LiveOf(h)
  BY DEF TableFull, Live, LiveOf
<1>7. CountsExact' /\ SerialsGiven'
  BY <1>6 DEF IInv, CountsExact, SerialsGiven, TableFull
<1>8. SweepNeverLate'
  BY <1>1, <1>3, NextSweepBounds DEF SweepNeverLate, TableFull
<1> QED
  BY <1>4, <1>5, <1>7, <1>8 DEF IInv

LEMMA CreateKeeps ==
    ASSUME IInv, NEW g \in Signatures, NEW f \in Formats, NEW k \in Codecs, Create(g, f, k)
    PROVE  IInv'
<1> DEFINE r == [serial |-> created + 1, sig |-> g, format |-> f, codec |-> k,
                 until |-> now + ReuseTTL, active |-> now]
<1>1. PICK i \in Half(f) :
         /\ IsSlot(f, i)
         /\ byId' = [byId EXCEPT ![i] = r]
         /\ bySig' = [SweptSig EXCEPT ![g] = i]
         /\ nextId' = [nextId EXCEPT ![f] = After(f, i)]
         /\ recent' = [recent EXCEPT ![i] = 0]
  BY DEF Create
<1>2. PICK t \in 0 .. MaxTime + ReuseTTL : NextSweep(t) /\ sweepAt' = Earliest(t, now + ReuseTTL)
  BY DEF Create
<1>3. i \in Ids /\ i \notin Live
  BY <1>1 DEF IsSlot, Free, Live, Half, Low, High, Ids, Formats
<1>4. now \in 1 .. MaxTime /\ created \in 0 .. MaxSerial
  BY DEF IInv, TypeOK
<1>5. r \in Records /\ r.sig = g /\ r.format = f /\ r.until = now + ReuseTTL /\ r.serial = created + 1
  BY <1>4 DEF Records
<1> HIDE DEF r
<1>6. r # NoSession
  BY <1>5, NoSessionIsNoRecord
<1>7. /\ byId' \in [Ids -> Records \cup {NoSession}]
      /\ byId'[i] = r
      /\ \A j \in Ids : j # i => byId'[j] = byId[j]
  BY <1>1, <1>3, <1>5 DEF IInv, TypeOK
<1>8. Live' = Live \cup {i}
  BY <1>3, <1>6, <1>7 DEF Live
<1>9. /\ LiveOf(f)' = LiveOf(f) \cup {i}
      /\ \A h \in Formats : h # f => LiveOf(h)' = LiveOf(h)
  BY <1>3, <1>5, <1>7, <1>8 DEF LiveOf, Live
<1>10. CountsExact'
  <2>1. Cardinality(Live') = Cardinality(Live) + 1
    BY <1>3, <1>8, CountAdd DEF Live
  <2>2. Cardinality(LiveOf(f)') = Cardinality(LiveOf(f)) + 1
    <3>1. LiveOf(f) \in SUBSET Ids /\ i \notin LiveOf(f)
      BY <1>3 DEF LiveOf, Live
    <3>2. Cardinality(LiveOf(f) \cup {i}) = Cardinality(LiveOf(f)) + 1
      BY <1>3, <3>1, CountAdd
    <3> QED
      BY <1>9, <3>2
  <2>3. total' = total + 1 /\ count' = [count EXCEPT ![f] = @ + 1]
    BY DEF Create
  <2>4. /\ total = Cardinality(Live) /\ total \in Nat /\ count \in [Formats -> Nat]
        /\ \A h \in Formats : count[h] = Cardinality(LiveOf(h))
    BY DEF IInv, CountsExact, TypeOK
  <2>5. total' <= Cap
    <3>1. ~(total >= Cap)
      BY DEF Create, Full
    <3> QED
      BY <2>3, <2>4, <3>1
  <2>6. total' = Cardinality(Live')
    BY <2>1, <2>3, <2>4
  <2>7. \A h \in Formats : count'[h] = Cardinality(LiveOf(h)')
    <3>1. count'[f] = Cardinality(LiveOf(f)')
      BY <2>2, <2>3, <2>4
    <3>2. \A h \in Formats : h # f => count'[h] = Cardinality(LiveOf(h)')
      BY <1>9, <2>3, <2>4
    <3> QED
      BY <3>1, <3>2
  <2>8. \A j \in Live' : j \in Half(byId'[j].format)
    BY <1>1, <1>3, <1>5, <1>7, <1>8 DEF IInv, CountsExact, Live
  <2> QED
    BY <2>5, <2>6, <2>7, <2>8 DEF CountsExact, Half, Low, High
<1>11. created' = created + 1 /\ created < MaxSerial
  BY DEF Create
<1>12. SerialsGiven'
  <2>1. \A j \in Live : byId[j].serial \in 1 .. created
    BY DEF IInv, SerialsGiven
  <2> QED
    BY <1>3, <1>4, <1>5, <1>7, <1>8, <1>11, <2>1 DEF SerialsGiven, Live
<1>13. SweptSig \in [Signatures -> 0 .. MaxId]
       /\ \A h \in Signatures : SweptSig[h] # 0 => h \in Kept /\ SweptSig[h] = bySig[h]
  BY SweptIsIndexed DEF IInv
<1>14. /\ bySig' \in [Signatures -> 0 .. MaxId]
       /\ bySig'[g] = i
       /\ \A h \in Signatures : h # g => bySig'[h] = SweptSig[h]
  BY <1>1, <1>3, <1>13 DEF Ids
<1>15. \A h \in Signatures : h # g /\ bySig'[h] # 0 =>
          /\ h \in Kept /\ bySig'[h] = bySig[h]
          /\ bySig[h] \in Live /\ bySig[h] # i /\ byId[bySig[h]].sig = h
  <2>1. \A h \in Signatures : bySig[h] # 0 => bySig[h] \in Live /\ byId[bySig[h]].sig = h
    BY DEF IInv, TypeOK, IndexSound, Live, Ids
  <2> QED
    BY <1>3, <1>13, <1>14, <2>1
<1>16. IndexSound'
  BY <1>5, <1>6, <1>7, <1>14, <1>15 DEF IndexSound, Live
<1>17. sweepAt' \in 0 .. MaxTime + ReuseTTL /\ sweepAt' # 0 /\ sweepAt' <= now + ReuseTTL
       /\ (t # 0 => sweepAt' <= t)
  BY <1>2, <1>4 DEF Earliest
<1>18. SweepNeverLate'
  <2>1. \A h \in Signatures : h # g /\ bySig'[h] # 0 => sweepAt' <= byId'[bySig'[h]].until
    <3> SUFFICES ASSUME NEW h \in Signatures, h # g, bySig'[h] # 0
                 PROVE  sweepAt' <= byId'[bySig'[h]].until
      OBVIOUS
    <3>1. h \in Kept /\ bySig[h] # 0 /\ byId'[bySig'[h]] = byId[bySig[h]] /\ bySig[h] \in Live
      BY <1>7, <1>15 DEF Live
    <3>2. t # 0 /\ t <= byId[bySig[h]].until
      BY <1>2, <3>1, NextSweepBounds
    <3>3. byId[bySig[h]].until \in Nat
      BY <3>1, NoSessionIsNoRecord DEF IInv, TypeOK, Live, Records
    <3> QED
      BY <1>17, <3>1, <3>2, <3>3
  <2>2. sweepAt' <= byId'[bySig'[g]].until
    BY <1>5, <1>7, <1>14, <1>17
  <2> QED
    BY <1>17, <2>1, <2>2 DEF SweepNeverLate
<1>19. nextId'[f] \in Half(f) /\ \A h \in Formats : h # f => nextId'[h] = nextId[h]
  <2>1. After(f, i) \in Half(f)
    BY <1>1 DEF After, Half, Low, High, Formats
  <2> QED
    BY <1>1, <2>1 DEF IInv, TypeOK
<1>20. nextId' \in [Formats -> Ids]
  <2>1. After(f, i) \in Ids
    BY <1>1, <1>3 DEF After, Half, Low, High, Formats, Ids
  <2> QED
    BY <1>1, <2>1 DEF IInv, TypeOK
<1>21. TypeOK'
  <2>1. TypeOK
    BY DEF IInv
  <2>2. recent' \in [Ids -> Nat]
    BY <1>1, <2>1 DEF TypeOK
  <2>3. total' \in Nat /\ count' \in [Formats -> Nat]
    <3>1. total \in Nat /\ count \in [Formats -> Nat]
      BY <2>1 DEF TypeOK
    <3>2. total' = total + 1 /\ count' = [count EXCEPT ![f] = @ + 1]
      BY DEF Create
    <3> QED
      BY <3>1, <3>2
  <2>4. created' \in 0 .. MaxSerial
    BY <1>4, <1>11
  <2>5. UNCHANGED <<now, notice, cleaning, work, harm, mislaid>>
    BY DEF Create
  <2>6. \A h \in Formats : nextId'[h] \in Half(h)
    BY <1>19, <2>1 DEF TypeOK
  <2> QED
    BY <1>7, <1>14, <1>17, <1>20, <2>1, <2>2, <2>3, <2>4, <2>5, <2>6 DEF TypeOK
<1> QED
  BY <1>10, <1>12, <1>16, <1>18, <1>21 DEF IInv

----------------------------------------------------------------------------
(* The removal of sessions, by notice or by the sweep: dropping each one's *)
(* signature, wherever it leads, leaves no entry that leads to a free ID.  *)
LEMMA RemoveKeeps ==
    ASSUME IInv, NEW gone \in SUBSET Live, RemoveAll(gone), UNCHANGED created,
           NEW index \in [Signatures -> 0 .. MaxId],
           \A g \in Signatures : index[g] # 0 => index[g] = bySig[g],
           bySig' = Dropped(index, gone)
    PROVE  /\ byId' \in [Ids -> Records \cup {NoSession}]
           /\ bySig' \in [Signatures -> 0 .. MaxId]
           /\ total' \in Nat /\ count' \in [Formats -> Nat]
           /\ cleaning' \subseteq Ids \X (1 .. MaxSerial)
           /\ CountsExact' /\ IndexSound' /\ SerialsGiven'
           /\ \A g \in Signatures : bySig'[g] # 0 =>
                 /\ index[g] # 0 /\ bySig'[g] = bySig[g]
                 /\ byId'[bySig[g]] = byId[bySig[g]]
<1>1. TypeOK /\ IndexSound /\ CountsExact /\ SerialsGiven
  BY DEF IInv
<1>2. gone \in SUBSET Ids /\ Live \in SUBSET Ids
  BY DEF Live
<1>3. \A i \in Ids : byId'[i] = IF i \in gone THEN NoSession ELSE byId[i]
  BY DEF RemoveAll
<1>4. byId' \in [Ids -> Records \cup {NoSession}]
  BY <1>1 DEF RemoveAll, TypeOK
<1>5. Live' = Live \ gone
  BY <1>3 DEF Live
<1>6. \A f \in Formats : LiveOf(f)' = LiveOf(f) \ Departed(f, gone)
  BY <1>3, <1>5 DEF LiveOf, Departed, Live
<1>7. total' = Cardinality(Live') /\ total' \in Nat /\ total' <= Cap
  <2>1. Cardinality(Live \ gone) = Cardinality(Live) - Cardinality(gone)
        /\ Cardinality(Live) - Cardinality(gone) \in Nat /\ Cardinality(gone) \in Nat
    BY <1>2, CountDifference
  <2>2. total' = total - Cardinality(gone)
    BY DEF RemoveAll
  <2>3. total = Cardinality(Live) /\ total <= Cap /\ total \in Nat
    BY <1>1 DEF CountsExact, TypeOK
  <2>4. total' = Cardinality(Live')
    BY <1>5, <2>1, <2>2, <2>3
  <2> QED
    BY <2>1, <2>2, <2>3, <2>4
<1>8. \A f \in Formats : count'[f] = Cardinality(LiveOf(f)') /\ count'[f] \in Nat
  <2> SUFFICES ASSUME NEW f \in Formats
               PROVE  count'[f] = Cardinality(LiveOf(f)') /\ count'[f] \in Nat
    OBVIOUS
  <2>1. LiveOf(f) \in SUBSET Ids /\ Departed(f, gone) \in SUBSET LiveOf(f)
    BY <1>2 DEF LiveOf, Departed
  <2>2. Cardinality(LiveOf(f) \ Departed(f, gone))
          = Cardinality(LiveOf(f)) - Cardinality(Departed(f, gone))
        /\ Cardinality(LiveOf(f)) - Cardinality(Departed(f, gone)) \in Nat
    BY <2>1, CountDifference
  <2>3. count'[f] = count[f] - Cardinality(Departed(f, gone))
    BY DEF RemoveAll
  <2>4. count[f] = Cardinality(LiveOf(f))
    BY <1>1 DEF CountsExact
  <2>5. count'[f] = Cardinality(LiveOf(f)) - Cardinality(Departed(f, gone))
    BY <2>3, <2>4
  <2>6. count'[f] = Cardinality(LiveOf(f)')
    BY <1>6, <2>2, <2>5
  <2> QED
    BY <2>2, <2>5, <2>6
<1>9. count' \in [Formats -> Nat]
  <2>1. count' = [f \in Formats |-> count[f] - Cardinality(Departed(f, gone))]
    BY DEF RemoveAll
  <2>2. \A f \in Formats : count[f] - Cardinality(Departed(f, gone)) \in Nat
    BY <1>8, <2>1
  <2> QED
    BY <2>1, <2>2
<1>10. \A i \in Live' : i \in Live /\ byId'[i] = byId[i]
  BY <1>3, <1>5 DEF Live
<1>11. CountsExact'
  <2>1. \A i \in Live' : i \in Half(byId'[i].format)
    BY <1>1, <1>10 DEF CountsExact
  <2> QED
    BY <1>7, <1>8, <2>1 DEF CountsExact, Half, Low, High
<1>12. SerialsGiven'
  BY <1>1, <1>10 DEF SerialsGiven
<1>13. bySig' \in [Signatures -> 0 .. MaxId]
  BY DEF Dropped
<1>14. \A g \in Signatures : bySig'[g] # 0 =>
          index[g] # 0 /\ bySig'[g] = bySig[g] /\ ~ \E i \in gone : byId[i].sig = g
  BY DEF Dropped
<1>15. \A g \in Signatures : bySig'[g] # 0 =>
          bySig[g] \in Ids /\ byId[bySig[g]] # NoSession /\ byId[bySig[g]].sig = g /\ bySig[g] \notin gone
  BY <1>1, <1>14 DEF IndexSound, TypeOK, Ids
<1>16. \A g \in Signatures : bySig'[g] # 0 => byId'[bySig[g]] = byId[bySig[g]]
  BY <1>3, <1>15
<1>17. IndexSound'
  BY <1>14, <1>15, <1>16 DEF IndexSound
<1>18. cleaning' \subseteq Ids \X (1 .. MaxSerial)
  <2>1. \A i \in gone : <<i, byId[i].serial>> \in Ids \X (1 .. MaxSerial)
    BY <1>1 DEF SerialsGiven, TypeOK, Live
  <2> QED
    BY <1>1, <2>1 DEF RemoveAll, TypeOK
<1> QED
  BY <1>4, <1>7, <1>9, <1>11, <1>12, <1>13, <1>14, <1>16, <1>17, <1>18

LEMMA CloseByNoticeKeeps ==
    ASSUME IInv, CloseByNotice
    PROVE  IInv'
<1> DEFINE i == notice[1]
<1>1. TypeOK /\ SweepNeverLate
  BY DEF IInv
<1>2. UNCHANGED <<now, sweepAt, nextId, created, work>> /\ notice' = <<>>
  BY DEF CloseByNotice
<1>3. CASE i \in Live
  <2>1. /\ bySig' = Dropped(bySig, {i}) /\ RemoveAll({i})
        /\ recent' = [recent EXCEPT ![i] = IF Retention > 0 THEN now + Retention ELSE 0]
        /\ harm' \in {harm, harm \cup {<<"closed", i>>}}
        /\ mislaid' = mislaid \cup Mislays(bySig, {i})
    BY <1>3 DEF CloseByNotice
  <2>2. /\ {i} \in SUBSET Live /\ bySig \in [Signatures -> 0 .. MaxId]
        /\ i \in Ids
    BY <1>1, <1>3 DEF TypeOK, Live
  <2> HIDE DEF i
  <2>3. /\ byId' \in [Ids -> Records \cup {NoSession}]
        /\ bySig' \in [Signatures -> 0 .. MaxId]
        /\ total' \in Nat /\ count' \in [Formats -> Nat]
        /\ cleaning' \subseteq Ids \X (1 .. MaxSerial)
        /\ CountsExact' /\ IndexSound' /\ SerialsGiven'
        /\ \A g \in Signatures : bySig'[g] # 0 =>
              bySig'[g] = bySig[g] /\ byId'[bySig[g]] = byId[bySig[g]]
    BY <1>2, <2>1, <2>2, RemoveKeeps
  <2>4. now + Retention \in Nat
    BY <1>1 DEF TypeOK
  <2>5. recent' \in [Ids -> Nat]
    BY <1>1, <2>1, <2>4 DEF TypeOK
  <2>6. harm' \subseteq {"closed", "cancelled"} \X Ids
    BY <1>1, <2>1, <2>2 DEF TypeOK
  <2>7. TypeOK'
    BY <1>1, <1>2, <2>1, <2>3, <2>5, <2>6 DEF TypeOK, Mislays
  <2>8. SweepNeverLate'
    BY <1>1, <1>2, <2>3 DEF SweepNeverLate
  <2> QED
    BY <2>3, <2>7, <2>8 DEF IInv
<1>4. CASE i \notin Live
  <2>1. UNCHANGED <<bySig, byId, total, count, cleaning, recent, harm, mislaid>>
    BY <1>4 DEF CloseByNotice
  <2> QED
    BY <1>2, <2>1 DEF IInv, TypeOK, IndexSound, CountsExact, SweepNeverLate, SerialsGiven, Live, LiveOf
<1> QED
  BY <1>3, <1>4

LEMMA SweepKeeps ==
    ASSUME IInv, Sweep
    PROVE  IInv'
<1>1. TypeOK
  BY DEF IInv
<1>2. PICK t \in 0 .. MaxTime + ReuseTTL : NextSweep(t) /\ sweepAt' = t
  BY DEF Sweep
<1>3. /\ SweptSig \in [Signatures -> 0 .. MaxId]
      /\ \A g \in Signatures : SweptSig[g] # 0 => g \in Kept /\ SweptSig[g] = bySig[g]
  BY <1>1, SweptIsIndexed
<1>4. RemoveAll(Idle) /\ bySig' = Dropped(SweptSig, Idle) /\ Idle \in SUBSET Live
      /\ mislaid' = mislaid \cup Mislays(SweptSig, Idle)
      /\ UNCHANGED <<now, nextId, created, notice, work, harm>>
  BY DEF Sweep, Idle
<1>5. /\ byId' \in [Ids -> Records \cup {NoSession}]
      /\ bySig' \in [Signatures -> 0 .. MaxId]
      /\ total' \in Nat /\ count' \in [Formats -> Nat]
      /\ cleaning' \subseteq Ids \X (1 .. MaxSerial)
      /\ CountsExact' /\ IndexSound' /\ SerialsGiven'
      /\ \A g \in Signatures : bySig'[g] # 0 =>
            /\ SweptSig[g] # 0 /\ bySig'[g] = bySig[g]
            /\ byId'[bySig[g]] = byId[bySig[g]]
  BY <1>3, <1>4, RemoveKeeps
<1>6. recent' \in [Ids -> Nat]
  BY <1>1 DEF Sweep, TypeOK
<1>7. TypeOK'
  BY <1>1, <1>2, <1>4, <1>5, <1>6 DEF TypeOK, Mislays
<1>8. \A g \in Signatures : bySig'[g] # 0 => t # 0 /\ t <= byId[bySig[g]].until
  BY <1>2, <1>3, <1>5, NextSweepBounds
<1>9. SweepNeverLate'
  BY <1>2, <1>5, <1>8 DEF SweepNeverLate
<1> QED
  BY <1>5, <1>7, <1>9 DEF IInv

----------------------------------------------------------------------------
(* The steps that leave the table's records and index as they are, or only *)
(* stamp a session's activity.                                             *)
LEMMA PacketKeeps ==
    ASSUME IInv, NEW i \in Ids, Packet(i)
    PROVE  IInv'
<1>1. i \in Live /\ byId' = [byId EXCEPT ![i].active = now]
      /\ UNCHANGED <<now, bySig, sweepAt, nextId, total, count, recent, created, notice, cleaning, harm, mislaid>>
  BY DEF Packet
<1>2. TypeOK /\ IndexSound /\ SweepNeverLate
  BY DEF IInv
<1>3. /\ byId' \in [Ids -> Records \cup {NoSession}]
      /\ CountsExact' /\ SerialsGiven'
      /\ \A j \in Ids : /\ byId'[j] = NoSession <=> byId[j] = NoSession
                        /\ byId[j] # NoSession => /\ byId'[j].sig = byId[j].sig
                                                  /\ byId'[j].until = byId[j].until
  BY <1>1, TouchKeeps
<1>4. byId[i].serial \in 1 .. MaxSerial
  BY <1>1, <1>2 DEF IInv, SerialsGiven, TypeOK
<1>5. work' \in [Ids -> SUBSET (1 .. MaxSerial)]
  BY <1>2, <1>4 DEF Packet, TypeOK
<1>6. TypeOK'
  BY <1>1, <1>2, <1>3, <1>5 DEF TypeOK
<1>7. \A g \in Signatures : bySig[g] # 0 => bySig[g] \in Ids /\ byId[bySig[g]] # NoSession
  BY <1>2 DEF TypeOK, IndexSound, Ids
<1>8. IndexSound' /\ SweepNeverLate'
  BY <1>1, <1>2, <1>3, <1>7 DEF IndexSound, SweepNeverLate
<1> QED
  BY <1>3, <1>6, <1>8 DEF IInv

LEMMA QuietKeeps ==
    ASSUME IInv, UNCHANGED <<byId, bySig, sweepAt, nextId, total, count, recent, created>>, TypeOK'
    PROVE  IInv'
BY DEF IInv, IndexSound, CountsExact, SweepNeverLate, SerialsGiven, Live, LiveOf

LEMMA StepHolds == IInv /\ [Next]_vars => IInv'
<1> SUFFICES ASSUME IInv, [Next]_vars PROVE IInv'
  OBVIOUS
<1>1. TypeOK /\ SerialsGiven
  BY DEF IInv
<1>2. ASSUME NEW g \in Signatures, NEW f \in Formats, NEW k \in Codecs, Reuse(g, f, k) \/ TableFull(g, f, k) \/ Create(g, f, k)
      PROVE  IInv'
  BY <1>2, ReuseKeeps, TableFullKeeps, CreateKeeps
<1>3. ASSUME NEW i \in Ids, Packet(i)
      PROVE  IInv'
  BY <1>3, PacketKeeps
<1>4. ASSUME NEW i \in Ids, LookupNotice(i)
      PROVE  IInv'
  <2>1. byId[i].serial \in 1 .. MaxSerial
    BY <1>1, <1>4 DEF LookupNotice, SerialsGiven, TypeOK
  <2>2. TypeOK'
    BY <1>1, <1>4, <2>1 DEF LookupNotice, TypeOK
  <2> QED
    BY <1>4, <2>2, QuietKeeps DEF LookupNotice
<1>5. CASE CloseByNotice
  BY <1>5, CloseByNoticeKeeps
<1>6. CASE Sweep
  BY <1>6, SweepKeeps
<1>7. CASE Tick
  <2>1. TypeOK'
    BY <1>1, <1>7 DEF Tick, TypeOK
  <2> QED
    BY <1>7, <2>1, QuietKeeps DEF Tick
<1>8. ASSUME NEW c \in cleaning, CleanUp(c)
      PROVE  IInv'
  <2>1. c \in Ids \X (1 .. MaxSerial)
    BY <1>1, <1>8 DEF TypeOK
  <2>2. harm' \subseteq {"closed", "cancelled"} \X Ids
    BY <1>1, <1>8, <2>1 DEF CleanUp, TypeOK
  <2>3. TypeOK'
    BY <1>1, <1>8, <2>1, <2>2 DEF CleanUp, TypeOK
  <2> QED
    BY <1>8, <2>3, QuietKeeps DEF CleanUp
<1>9. CASE UNCHANGED vars
  <2>1. TypeOK'
    BY <1>1, <1>9 DEF vars, TypeOK
  <2> QED
    BY <1>9, <2>1, QuietKeeps DEF vars
<1> QED
  BY <1>2, <1>3, <1>4, <1>5, <1>6, <1>7, <1>8, <1>9 DEF Next

LEMMA InvariantHolds == Spec => []IInv
BY InitHolds, StepHolds, PTL DEF Spec

----------------------------------------------------------------------------
(* Whose session an ID, a signature or a removal means.                    *)

(* An INIT that comes in one form finds the one session it has, unless its *)
(* entry was taken by an older one.                                        *)
Found(i) == OneForm(byId[i].sig) /\ now <= byId[i].until /\ byId[i].sig \notin mislaid

FreshIndex ==
    \A i \in Live :
        /\ <<byId[i].sig, byId[i].format, byId[i].codec>> \in Inits
        /\ Found(i) => bySig[byId[i].sig] = i

(* The format has had an ID for each session there was.                    *)
Ample(f) == created <= Cardinality(Half(f))

(* Something still knows the session of this serial by this ID. *)
Knows(i, serial) ==
    \/ i \in Live /\ byId[i].serial = serial
    \/ notice = <<i, serial>>
    \/ <<i, serial>> \in cleaning
    \/ serial \in work[i]

(* Its IDs are handed out in order, so an ID that was never handed out is  *)
(* unknown; and what knows an ID knows it as the ID of one session.        *)
InOrder ==
    \A f \in Formats : Ample(f) =>
        \/ created = Cardinality(Half(f))
        \/ /\ nextId[f] - Low(f) <= created
           /\ \A i \in Half(f) : i >= nextId[f] => \A s \in 1 .. MaxSerial : ~Knows(i, s)

OneOwner ==
    \A f \in Formats : Ample(f) =>
        \A i \in Half(f) : \A s, t \in 1 .. MaxSerial : Knows(i, s) /\ Knows(i, t) => s = t

Harmless == \A f \in Formats : Ample(f) => \A h \in harm : h[2] \notin Half(f)

IdInv == IInv /\ FreshIndex /\ InOrder /\ OneOwner /\ Harmless

LEMMA LiveRecord ==
    ASSUME IInv, NEW i \in Live
    PROVE  i \in Ids /\ byId[i] \in Records /\ byId[i].sig \in Signatures /\ byId[i].format \in Formats
           /\ byId[i].codec \in Codecs /\ byId[i].until \in Nat
BY DEF IInv, TypeOK, Live, Records, Formats

LEMMA HalfIds ==
    \A f \in Formats : /\ Half(f) \subseteq Ids /\ Low(f) \in Half(f) /\ High(f) \in Half(f)
                        /\ Low(f) \in Nat /\ High(f) \in Nat
                        /\ \A h \in Formats, i \in Half(f) : i \in Half(h) => f = h
BY DEF Formats, Half, Low, High, Ids

LEMMA HalfSize ==
    ASSUME NEW f \in Formats
    PROVE  Cardinality(Half(f)) = High(f) - Low(f) + 1
<1>1. PICK a \in Int, b \in Int : a = Low(f) /\ b = High(f) /\ a <= b
  BY HalfIds DEF Half
<1>2. Cardinality(a .. b) = IF a > b THEN 0 ELSE b - a + 1
  BY FS_Interval
<1> QED
  BY <1>1, <1>2 DEF Half

(* A sweep of signatures drops none of a session that may be reused. *)
LEMMA FreshIsKept ==
    ASSUME IInv, FreshIndex, NEW i \in Live, Found(i)
    PROVE  LET g == byId[i].sig
           IN  bySig[g] = i /\ g \in Kept /\ Reusable(g) /\ SweptSig[g] = i
<1> DEFINE g == byId[i].sig
<1>1. i \in Ids /\ g \in Signatures /\ now <= byId[i].until
  BY LiveRecord DEF Found
<1>2. bySig[g] = i
  BY DEF FreshIndex
<1>3. Reusable(g)
  BY <1>1, <1>2 DEF Reusable, Live, Ids
<1>4. g \in Kept
  BY <1>1, <1>2, <1>3 DEF Kept, Indexed, Ids
<1> QED
  BY <1>1, <1>2, <1>3, <1>4 DEF SweptSig

(* Steps that leave the sessions' signatures as they are and what leads to *)
(* them as it was.                                                         *)
LEMMA FreshKept ==
    ASSUME IInv, FreshIndex, now' >= now, now' \in Nat, mislaid \subseteq mislaid', Live' \subseteq Live,
           \A i \in Live' : /\ byId'[i].sig = byId[i].sig /\ byId'[i].format = byId[i].format
                            /\ byId'[i].codec = byId[i].codec /\ byId'[i].until = byId[i].until,
           \A i \in Live' : Found(i) /\ byId[i].sig \notin mislaid' => bySig'[byId[i].sig] = i
    PROVE  FreshIndex'
<1> SUFFICES ASSUME NEW i \in Live'
             PROVE  /\ <<byId'[i].sig, byId'[i].format, byId'[i].codec>> \in Inits
                    /\ Found(i)' => bySig'[byId'[i].sig] = i
  BY DEF FreshIndex
<1>1. i \in Live /\ byId[i].until \in Nat /\ now \in Nat
  BY LiveRecord DEF IInv, TypeOK
<1>2. Found(i)' => Found(i) /\ byId[i].sig \notin mislaid'
  BY <1>1 DEF Found, OneForm
<1> QED
  BY <1>1, <1>2 DEF FreshIndex

LEMMA KnowsLess ==
    ASSUME InOrder, OneOwner, UNCHANGED <<nextId, created>>,
           \A i \in Ids, s \in 1 .. MaxSerial : Knows(i, s)' => Knows(i, s)
    PROVE  InOrder' /\ OneOwner'
<1>1. \A f \in Formats : Ample(f)' = Ample(f) /\ Half(f)' = Half(f) /\ Low(f)' = Low(f)
  BY DEF Ample, Half, Low, High
<1> QED
  BY <1>1, HalfIds DEF InOrder, OneOwner

LEMMA HarmLess ==
    ASSUME IInv, Harmless, harm' \subseteq harm, created' \in {created, created + 1}
    PROVE  Harmless'
<1>1. \A f \in Formats : Half(f)' = Half(f) /\ Cardinality(Half(f)) \in Nat
  BY HalfIds, IdSetsFinite DEF Half, Low, High
<1>2. created \in Nat
  BY DEF IInv, TypeOK
<1>3. \A f \in Formats : Ample(f)' => Ample(f)
  BY <1>1, <1>2 DEF Ample
<1> QED
  BY <1>1, <1>3 DEF Harmless

(* A session that acts on a mark of an ID acts on its own.                 *)
LEMMA HarmsNone ==
    ASSUME IdInv, NEW f \in Formats, Ample(f), NEW i \in Half(f),
           NEW s, NEW t, Knows(i, s), Knows(i, t)
    PROVE  s = t
<1>1. i \in Ids
  BY HalfIds
<1>2. \A x : Knows(i, x) => x \in 1 .. MaxSerial
  <2>1. TypeOK /\ SerialsGiven
    BY DEF IdInv, IInv
  <2>2. \A x : i \in Live /\ byId[i].serial = x => x \in 1 .. MaxSerial
    BY <2>1 DEF SerialsGiven, TypeOK
  <2>3. \A x : notice = <<i, x>> => x \in 1 .. MaxSerial
    BY <2>1 DEF TypeOK
  <2>4. \A x : <<i, x>> \in cleaning => x \in 1 .. MaxSerial
    BY <2>1 DEF TypeOK
  <2>5. \A x : x \in work[i] => x \in 1 .. MaxSerial
    BY <1>1, <2>1 DEF TypeOK
  <2> QED
    BY <2>2, <2>3, <2>4, <2>5 DEF Knows
<1> QED
  BY <1>2 DEF IdInv, OneOwner

LEMMA IdInit == Init => IdInv
<1> SUFFICES ASSUME Init PROVE IdInv
  OBVIOUS
<1>1. IInv /\ Live = {}
  BY InitHolds DEF Init, Live
<1>2. FreshIndex
  BY <1>1 DEF FreshIndex
<1>3. \A i \in Ids, s \in 1 .. MaxSerial : ~Knows(i, s)
  BY <1>1 DEF Init, Knows
<1>4. InOrder /\ OneOwner
  <2>1. \A f \in Formats : nextId[f] = Low(f) /\ Low(f) \in Nat /\ Half(f) \subseteq Ids
    BY HalfIds DEF Init
  <2>2. created = 0 /\ \A f \in Formats : Cardinality(Half(f)) \in Nat
    BY HalfIds, IdSetsFinite DEF Init
  <2> QED
    BY <1>3, <2>1, <2>2 DEF InOrder, OneOwner
<1>5. Harmless
  BY DEF Init, Harmless
<1> QED
  BY <1>1, <1>2, <1>4, <1>5 DEF IdInv

LEMMA IdReuse ==
    ASSUME IdInv, NEW g \in Signatures, NEW f \in Formats, NEW k \in Codecs, Reuse(g, f, k)
    PROVE  IdInv'
<1>1. IInv /\ FreshIndex /\ InOrder /\ OneOwner /\ Harmless
  BY DEF IdInv
<1>2. IInv'
  BY <1>1, ReuseKeeps
<1>3. bySig[g] \in Live /\ byId[bySig[g]] \in Records /\ now \in Nat
  BY <1>1 DEF Reuse, Reuses, Reusable, Live, IInv, TypeOK, Ids
<1>4. byId' = [byId EXCEPT ![bySig[g]] = [byId[bySig[g]] EXCEPT !.active = now]]
  BY <1>3 DEF Reuse
<1>5. [byId[bySig[g]] EXCEPT !.active = now] \in Records
  BY <1>3 DEF Records
<1>6. \A i \in Ids : /\ i \in Live' <=> i \in Live
                     /\ i \in Live => /\ byId'[i].sig = byId[i].sig /\ byId'[i].until = byId[i].until
                                      /\ byId'[i].format = byId[i].format /\ byId'[i].codec = byId[i].codec
                                      /\ byId'[i].serial = byId[i].serial
  BY <1>1, <1>3, <1>4, <1>5, NoSessionIsNoRecord DEF Live, IInv, TypeOK, Records
<1>7. Live' = Live
  BY <1>6 DEF Live
<1>8. FreshIndex'
  <2>1. bySig' = SweptSig /\ UNCHANGED <<now, mislaid>>
    BY DEF Reuse
  <2>2. \A i \in Live : Found(i) => bySig'[byId[i].sig] = i
    BY <1>1, <2>1, FreshIsKept
  <2> QED
    BY <1>1, <1>3, <1>6, <1>7, <2>1, <2>2, LiveRecord, FreshKept
<1>9. InOrder' /\ OneOwner'
  <2>1. UNCHANGED <<nextId, created, notice, cleaning, work>>
    BY DEF Reuse
  <2>2. \A i \in Ids, s \in 1 .. MaxSerial : Knows(i, s)' => Knows(i, s)
    BY <1>6, <1>7, <2>1 DEF Knows
  <2> QED
    BY <1>1, <2>1, <2>2, KnowsLess
<1>10. Harmless'
  BY <1>1, HarmLess DEF Reuse
<1> QED
  BY <1>2, <1>8, <1>9, <1>10 DEF IdInv

LEMMA IdTableFull ==
    ASSUME IdInv, NEW g \in Signatures, NEW f \in Formats, NEW k \in Codecs, <<g, f, k>> \in Inits, TableFull(g, f, k)
    PROVE  IdInv'
<1>1. IInv /\ FreshIndex /\ InOrder /\ OneOwner /\ Harmless
  BY DEF IdInv
<1>2. IInv'
  BY <1>1, TableFullKeeps
<1>3. UNCHANGED <<now, byId, nextId, created, notice, cleaning, work, harm, mislaid>> /\ ~Reuses(g, f, k)
      /\ bySig' = [SweptSig EXCEPT ![g] = 0] /\ now \in Nat
  BY <1>1 DEF TableFull, IInv, TypeOK
<1>4. Live' = Live
  BY <1>3 DEF Live
<1>5. ASSUME NEW i \in Live, Found(i)
      PROVE  bySig'[byId[i].sig] = i
  <2>1. byId[i].sig \in Kept /\ Reusable(byId[i].sig) /\ SweptSig[byId[i].sig] = i /\ bySig[byId[i].sig] = i
    BY <1>1, <1>5, FreshIsKept
  <2>2. ASSUME byId[i].sig = g PROVE FALSE
    <3>1. <<g, byId[i].format, byId[i].codec>> \in Inits /\ byId[i].format \in Formats /\ byId[i].codec \in Codecs
      BY <1>1, <2>2, LiveRecord DEF FreshIndex
    <3>2. byId[i].format = f /\ byId[i].codec = k
      BY <1>5, <2>2, <3>1 DEF Found, OneForm
    <3> QED
      BY <1>3, <2>1, <2>2, <3>2 DEF Reuses
  <2> QED
    BY <1>3, <2>1, <2>2 DEF SweptSig
<1>6. FreshIndex'
  BY <1>1, <1>3, <1>4, <1>5, FreshKept
<1>7. InOrder' /\ OneOwner'
  <2>1. \A i \in Ids, s \in 1 .. MaxSerial : Knows(i, s)' => Knows(i, s)
    BY <1>3, <1>4 DEF Knows
  <2> QED
    BY <1>1, <1>3, <2>1, KnowsLess
<1>8. Harmless'
  BY <1>1, <1>3, HarmLess
<1> QED
  BY <1>2, <1>6, <1>7, <1>8 DEF IdInv

(* The IDs from nextId on were never handed out, so the next one is taken  *)
(* there and nothing knows it.                                             *)
LEMMA FreshSlot ==
    ASSUME IdInv, NEW f \in Formats, created < Cardinality(Half(f)),
           NEW i \in Half(f), IsSlot(f, i)
    PROVE  /\ i = nextId[f] /\ \A s \in 1 .. MaxSerial : ~Knows(i, s)
           /\ nextId[f] - Low(f) <= created
<1>1. IInv /\ InOrder /\ TypeOK /\ SerialsGiven
  BY DEF IdInv, IInv
<1>2. nextId[f] \in Half(f) /\ nextId[f] \in Int /\ created \in Nat /\ Cardinality(Half(f)) \in Nat
  BY <1>1, HalfIds, IdSetsFinite DEF TypeOK, Ids
<1>3. nextId[f] - Low(f) <= created /\ \A j \in Half(f) : j >= nextId[f] => \A s \in 1 .. MaxSerial : ~Knows(j, s)
  BY <1>1, <1>2 DEF InOrder, Ample
<1>4. \A j \in Half(f) : j >= nextId[f] => j \in Free(f)
  <2> SUFFICES ASSUME NEW j \in Half(f), j >= nextId[f], j \notin Free(f) PROVE FALSE
    OBVIOUS
  <2>1. j \in Live
    BY HalfIds DEF Free, Live
  <2>2. byId[j].serial \in 1 .. MaxSerial
    BY <1>1, <2>1 DEF SerialsGiven, TypeOK
  <2> QED
    BY <1>3, <2>1, <2>2 DEF Knows
<1>5. nextId[f] \in Free(f) /\ nextId[f] >= nextId[f]
  BY <1>2, <1>4
<1>6. i \in Int /\ i >= nextId[f]
  BY <1>2, <1>5, HalfIds DEF IsSlot, Ids
<1>7. i <= nextId[f]
  BY <1>5, <1>6 DEF IsSlot
<1> QED
  BY <1>2, <1>3, <1>6, <1>7

LEMMA IdCreate ==
    ASSUME IdInv, NEW g \in Signatures, NEW f \in Formats, NEW k \in Codecs, <<g, f, k>> \in Inits, Create(g, f, k)
    PROVE  IdInv'
<1>1. IInv /\ FreshIndex /\ InOrder /\ OneOwner /\ Harmless /\ TypeOK
  BY DEF IdInv, IInv
<1>2. IInv'
  BY <1>1, CreateKeeps
<1> DEFINE r == [serial |-> created + 1, sig |-> g, format |-> f, codec |-> k,
                 until |-> now + ReuseTTL, active |-> now]
<1>3. PICK i \in Half(f) :
         /\ IsSlot(f, i) /\ byId' = [byId EXCEPT ![i] = r]
         /\ bySig' = [SweptSig EXCEPT ![g] = i]
         /\ nextId' = [nextId EXCEPT ![f] = After(f, i)]
  BY DEF Create
<1>4. now \in 1 .. MaxTime /\ created \in Nat /\ created' = created + 1 /\ created < MaxSerial
      /\ MaxSerial \in Nat /\ ~Reuses(g, f, k) /\ UNCHANGED <<now, notice, cleaning, work, harm, mislaid>>
  BY <1>1 DEF Create, TypeOK
<1>5. /\ r \in Records /\ r # NoSession /\ r.sig = g /\ r.format = f /\ r.codec = k /\ r.serial = created + 1
      /\ r.until = now + ReuseTTL
  BY <1>4, NoSessionIsNoRecord DEF Records
<1> HIDE DEF r
<1>6. /\ i \in Ids /\ i \notin Live /\ byId'[i] = r
      /\ \A j \in Ids : j # i => byId'[j] = byId[j]
  BY <1>1, <1>3, HalfIds DEF IsSlot, Free, Live, TypeOK
<1>7. Live' = Live \cup {i}
  BY <1>5, <1>6 DEF Live
<1>8. \A j \in Live : j # i /\ j \in Ids /\ byId'[j] = byId[j]
  BY <1>6 DEF Live
<1>9. FreshIndex'
  <2>1. \A j \in Live' : <<byId'[j].sig, byId'[j].format, byId'[j].codec>> \in Inits
    BY <1>1, <1>5, <1>6, <1>7, <1>8 DEF FreshIndex
  <2>2. ASSUME NEW j \in Live, Found(j)
        PROVE  bySig'[byId[j].sig] = j
    <3>1. byId[j].sig \in Kept /\ Reusable(byId[j].sig) /\ SweptSig[byId[j].sig] = j
          /\ bySig[byId[j].sig] = j /\ byId[j].sig \in Signatures
      BY <1>1, <2>2, FreshIsKept, LiveRecord
    <3>2. ASSUME byId[j].sig = g PROVE FALSE
      <4>1. <<g, byId[j].format, byId[j].codec>> \in Inits /\ byId[j].format \in Formats /\ byId[j].codec \in Codecs
        BY <1>1, <3>2, LiveRecord DEF FreshIndex
      <4>2. byId[j].format = f /\ byId[j].codec = k
        BY <2>2, <3>2, <4>1 DEF Found, OneForm
      <4> QED
        BY <1>4, <3>1, <3>2, <4>2 DEF Reuses
    <3> QED
      BY <1>3, <3>1, <3>2 DEF SweptSig
  <2>3. bySig'[g] = i
    BY <1>3 DEF SweptSig
  <2>4. ASSUME NEW j \in Live', Found(j)'
        PROVE  bySig'[byId'[j].sig] = j
    <3>1. CASE j = i
      BY <1>5, <1>6, <2>3, <3>1
    <3>2. CASE j # i
      <4>1. j \in Live /\ byId'[j] = byId[j]
        BY <1>7, <1>8, <3>2
      <4>2. Found(j)
        BY <1>4, <2>4, <4>1 DEF Found, OneForm
      <4> QED
        BY <2>2, <4>1, <4>2
    <3> QED
      BY <3>1, <3>2
  <2> QED
    BY <2>1, <2>4 DEF FreshIndex
<1>10. \A j \in Ids, s \in 1 .. MaxSerial :
          Knows(j, s)' => Knows(j, s) \/ (j = i /\ s = created + 1)
  BY <1>4, <1>5, <1>6, <1>7, <1>8 DEF Knows
<1>11. ASSUME NEW h \in Formats, h # f
       PROVE  /\ \A j \in Half(h), s \in 1 .. MaxSerial : Knows(j, s)' => Knows(j, s)
              /\ nextId'[h] = nextId[h]
  BY <1>1, <1>3, <1>10, <1>11, HalfIds DEF TypeOK
<1>12. ASSUME created + 1 <= Cardinality(Half(f))
       PROVE  i = nextId[f] /\ (\A s \in 1 .. MaxSerial : ~Knows(i, s)) /\ nextId[f] - Low(f) <= created
  BY <1>3, <1>4, <1>12, FreshSlot, HalfIds, IdSetsFinite
<1>13. ASSUME NEW h \in Formats, created + 1 <= Cardinality(Half(h))
       PROVE  \A j \in Half(h), s, t \in 1 .. MaxSerial : Knows(j, s)' /\ Knows(j, t)' => s = t
  <2>0. Ample(h)
    BY <1>4, <1>13, HalfIds, IdSetsFinite DEF Ample
  <2>1. CASE h = f
    BY <1>1, <1>10, <1>12, <1>13, <2>0, <2>1, HalfIds DEF OneOwner
  <2>2. CASE h # f
    BY <1>1, <1>11, <2>0, <2>2 DEF OneOwner
  <2> QED
    BY <2>1, <2>2
<1>14. ASSUME NEW h \in Formats, created + 1 <= Cardinality(Half(h)), created' # Cardinality(Half(h))
       PROVE  /\ nextId'[h] - Low(h) <= created'
              /\ \A j \in Half(h) : j >= nextId'[h] => \A s \in 1 .. MaxSerial : ~Knows(j, s)'
  <2>1. CASE h = f
    <3>1. /\ i = nextId[f] /\ (\A s \in 1 .. MaxSerial : ~Knows(i, s)) /\ nextId[f] - Low(f) <= created
          /\ nextId'[f] = After(f, i) /\ i \in Nat
      BY <1>1, <1>3, <1>6, <1>12, <1>14, <2>1 DEF TypeOK, Ids
    <3>2. /\ Low(f) \in Nat /\ High(f) \in Nat /\ i >= Low(f) /\ i <= High(f)
          /\ created + 1 < High(f) - Low(f) + 1
      BY <1>4, <1>14, <2>1, <3>1, HalfIds, HalfSize DEF Half
    <3>3. i < High(f)
      BY <1>4, <1>14, <3>1, <3>2
    <3>4. nextId'[f] = i + 1
      BY <3>1, <3>2, <3>3 DEF After
    <3>5. \A j \in Half(f) : j \in Nat /\ j \in Ids
      BY HalfIds DEF Ids
    <3>6. ASSUME NEW j \in Half(f), j >= nextId'[f], NEW s \in 1 .. MaxSerial PROVE ~Knows(j, s)'
      <4>0. j \in Nat /\ j \in Ids /\ i \in Nat /\ j >= i + 1 /\ nextId[f] = i
        BY <3>1, <3>4, <3>5, <3>6
      <4>1. j # i /\ j >= nextId[f] /\ j \in Ids
        BY <4>0
      <4>2. Ample(f) /\ created # Cardinality(Half(f))
        BY <1>4, <1>14, <2>1, HalfIds, IdSetsFinite DEF Ample
      <4> QED
        BY <1>1, <1>10, <4>1, <4>2 DEF InOrder
    <3> QED
      BY <1>4, <2>1, <3>1, <3>2, <3>4, <3>6
  <2>2. CASE h # f
    <3>1. nextId'[h] = nextId[h] /\ nextId[h] \in Int /\ Low(h) \in Int
      BY <1>1, <1>11, <1>14, <2>2, HalfIds DEF TypeOK, Ids
    <3>2. nextId[h] - Low(h) <= created /\ \A j \in Half(h) : j >= nextId[h] => \A s \in 1 .. MaxSerial : ~Knows(j, s)
      <4>1. Ample(h) /\ created # Cardinality(Half(h))
        BY <1>4, <1>14, HalfIds, IdSetsFinite DEF Ample
      <4> QED
        BY <1>1, <4>1 DEF InOrder
    <3> QED
      BY <1>4, <1>11, <2>2, <3>1, <3>2
  <2> QED
    BY <2>1, <2>2
<1>15. InOrder' /\ OneOwner'
  <2>1. \A h \in Formats : /\ Ample(h)' => created + 1 <= Cardinality(Half(h))
                           /\ Half(h)' = Half(h) /\ Low(h)' = Low(h)
    BY <1>4 DEF Ample, Half, Low, High
  <2> QED
    BY <1>13, <1>14, <2>1 DEF InOrder, OneOwner
<1>16. Harmless'
  BY <1>1, <1>4, HarmLess
<1> QED
  BY <1>2, <1>9, <1>15, <1>16 DEF IdInv

LEMMA IdRemove ==
    ASSUME IdInv, NEW gone \in SUBSET Live, RemoveAll(gone), UNCHANGED <<now, created, nextId, work>>,
           NEW index \in [Signatures -> 0 .. MaxId],
           index = bySig \/ index = SweptSig,
           bySig' = Dropped(index, gone), mislaid' = mislaid \cup Mislays(index, gone),
           notice' \in {notice, <<>>}
    PROVE  FreshIndex' /\ InOrder' /\ OneOwner'
<1>1. IInv /\ FreshIndex /\ InOrder /\ OneOwner
  BY DEF IdInv
<1>2. Live' = Live \ gone /\ \A j \in Live' : j \in Live /\ byId'[j] = byId[j]
  BY DEF RemoveAll, Live
<1>3. FreshIndex'
  <2>1. ASSUME NEW j \in Live', Found(j), byId[j].sig \notin mislaid'
        PROVE  bySig'[byId[j].sig] = j
    <3>1. bySig[byId[j].sig] = j /\ index[byId[j].sig] = j /\ byId[j].sig \in Signatures
          /\ j \in Live /\ j \in Ids /\ j \notin gone /\ j # 0
      BY <1>1, <1>2, <2>1, FreshIsKept, LiveRecord DEF Ids
    <3>2. ASSUME NEW i \in gone, byId[i].sig = byId[j].sig
          PROVE  FALSE
      <4>0. i \in Live /\ i # j
        BY <3>1
      <4>1. byId[i].until \in Nat /\ now \in Nat
        <5>1. now \in Nat
          BY <1>1 DEF IInv, TypeOK
        <5> QED
          BY <1>1, <4>0, <5>1, LiveRecord
      <4>2. ~(now > byId[i].until)
        BY <2>1, <3>1, <3>2 DEF Mislays, Found
      <4>3. Found(i)
        BY <2>1, <3>2, <4>1, <4>2 DEF Found
      <4> QED
        BY <1>1, <3>1, <3>2, <4>0, <4>3 DEF FreshIndex
    <3> QED
      BY <3>1, <3>2 DEF Dropped
  <2>2. now \in Nat /\ mislaid \subseteq mislaid'
    BY <1>1 DEF IInv, TypeOK
  <2> QED
    BY <1>1, <1>2, <2>1, <2>2, FreshKept
<1>4. \A i \in Ids, s \in 1 .. MaxSerial : Knows(i, s)' => Knows(i, s)
  <2> SUFFICES ASSUME NEW i \in Ids, NEW s \in 1 .. MaxSerial, Knows(i, s)'
               PROVE  Knows(i, s)
    OBVIOUS
  <2>1. CASE i \in Live' /\ byId'[i].serial = s
    BY <1>2, <2>1 DEF Knows
  <2>2. CASE notice' = <<i, s>>
    BY <2>2 DEF Knows
  <2>3. CASE <<i, s>> \in cleaning'
    <3>1. \/ <<i, s>> \in cleaning
          \/ \E j \in gone : <<i, s>> = <<j, byId[j].serial>>
      BY <2>3 DEF RemoveAll
    <3>2. (\E j \in gone : <<i, s>> = <<j, byId[j].serial>>) => i \in Live /\ byId[i].serial = s
      OBVIOUS
    <3> QED
      BY <3>1, <3>2 DEF Knows
  <2>4. CASE s \in work'[i]
    BY <2>4 DEF Knows
  <2> QED
    BY <2>1, <2>2, <2>3, <2>4 DEF Knows
<1> QED
  BY <1>1, <1>3, <1>4, KnowsLess

LEMMA IdCloseByNotice == IdInv /\ CloseByNotice => IdInv'
<1> SUFFICES ASSUME IdInv, CloseByNotice PROVE IdInv'
  OBVIOUS
<1>1. IInv /\ FreshIndex /\ InOrder /\ OneOwner /\ Harmless /\ TypeOK
  BY DEF IdInv, IInv
<1>2. IInv'
  BY <1>1, CloseByNoticeKeeps
<1>3. PICK i \in Ids, s \in 1 .. MaxSerial : notice = <<i, s>>
  BY <1>1 DEF CloseByNotice, TypeOK
<1>4. UNCHANGED <<now, nextId, created, work>> /\ notice' = <<>>
  BY DEF CloseByNotice
<1>5. CASE i \in Live
  <2>1. /\ bySig' = Dropped(bySig, {i}) /\ RemoveAll({i})
        /\ mislaid' = mislaid \cup Mislays(bySig, {i})
        /\ harm' = IF byId[i].serial = s THEN harm ELSE harm \cup {<<"closed", i>>}
    BY <1>3, <1>5 DEF CloseByNotice
  <2>2. {i} \in SUBSET Live /\ bySig \in [Signatures -> 0 .. MaxId]
    BY <1>1, <1>5 DEF TypeOK
  <2>3. FreshIndex' /\ InOrder' /\ OneOwner'
    BY <1>4, <2>1, <2>2, IdRemove
  <2>4. Harmless'
    <3>1. CASE byId[i].serial = s
      BY <1>1, <1>4, <2>1, <3>1, HarmLess
    <3>2. CASE byId[i].serial # s
      <4>1. \A f \in Formats : Ample(f) => i \notin Half(f)
        <5>1. Knows(i, s) /\ Knows(i, byId[i].serial)
          BY <1>3, <1>5 DEF Knows
        <5> QED
          BY <3>2, <5>1, HarmsNone
      <4> QED
        BY <1>1, <1>4, <2>1, <3>2, <4>1 DEF Harmless, Ample, Half, Low, High
    <3> QED
      BY <3>1, <3>2
  <2> QED
    BY <1>2, <2>3, <2>4 DEF IdInv
<1>6. CASE i \notin Live
  <2>1. UNCHANGED <<bySig, byId, total, count, cleaning, recent, harm, mislaid>>
    BY <1>3, <1>6 DEF CloseByNotice
  <2>2. Live' = Live
    BY <2>1 DEF Live
  <2>3. FreshIndex'
    BY <1>1, <1>4, <2>1, <2>2 DEF FreshIndex, Found, OneForm
  <2>4. \A j \in Ids, t \in 1 .. MaxSerial : Knows(j, t)' => Knows(j, t)
    BY <1>4, <2>1, <2>2 DEF Knows
  <2> QED
    BY <1>1, <1>2, <1>4, <2>1, <2>3, <2>4, KnowsLess, HarmLess DEF IdInv
<1> QED
  BY <1>5, <1>6

LEMMA IdSweep == IdInv /\ Sweep => IdInv'
<1> SUFFICES ASSUME IdInv, Sweep PROVE IdInv'
  OBVIOUS
<1>1. IInv /\ TypeOK /\ Harmless
  BY DEF IdInv, IInv
<1>2. IInv'
  BY <1>1, SweepKeeps
<1>3. /\ RemoveAll(Idle) /\ bySig' = Dropped(SweptSig, Idle) /\ Idle \in SUBSET Live
      /\ mislaid' = mislaid \cup Mislays(SweptSig, Idle)
      /\ UNCHANGED <<now, nextId, created, notice, work, harm>>
  BY DEF Sweep, Idle
<1>4. SweptSig \in [Signatures -> 0 .. MaxId]
  BY <1>1, SweptIsIndexed
<1> QED
  BY <1>1, <1>2, <1>3, <1>4, IdRemove, HarmLess DEF IdInv

LEMMA IdPacket ==
    ASSUME IdInv, NEW i \in Ids, Packet(i)
    PROVE  IdInv'
<1>1. IInv /\ FreshIndex /\ InOrder /\ OneOwner /\ Harmless /\ TypeOK
  BY DEF IdInv, IInv
<1>2. IInv'
  BY <1>1, PacketKeeps
<1>3. i \in Live /\ byId[i] \in Records /\ now \in Nat
      /\ UNCHANGED <<now, bySig, nextId, created, notice, cleaning, harm, mislaid>>
  BY <1>1, LiveRecord DEF Packet, TypeOK
<1>4. byId' = [byId EXCEPT ![i] = [byId[i] EXCEPT !.active = now]]
  BY DEF Packet
<1>5. [byId[i] EXCEPT !.active = now] \in Records
  BY <1>3 DEF Records
<1>6. \A j \in Ids : /\ j \in Live' <=> j \in Live
                     /\ j \in Live => /\ byId'[j].sig = byId[j].sig /\ byId'[j].until = byId[j].until
                                      /\ byId'[j].format = byId[j].format /\ byId'[j].codec = byId[j].codec
                                      /\ byId'[j].serial = byId[j].serial
  BY <1>1, <1>3, <1>4, <1>5, NoSessionIsNoRecord DEF Live, TypeOK, Records
<1>7. Live' = Live
  BY <1>6 DEF Live
<1>8. FreshIndex'
  <2>1. \A j \in Live : Found(j) => bySig'[byId[j].sig] = j
    BY <1>1, <1>3 DEF FreshIndex
  <2> QED
    BY <1>1, <1>3, <1>6, <1>7, <2>1, LiveRecord, FreshKept
<1>9. \A j \in Ids : work'[j] \subseteq work[j] \cup (IF j = i THEN {byId[i].serial} ELSE {})
  <2>1. PICK w \in {work[i], work[i] \cup {byId[i].serial}} : work' = [work EXCEPT ![i] = w]
    BY DEF Packet
  <2> QED
    BY <1>1, <2>1 DEF TypeOK
<1>10. \A j \in Ids, s \in 1 .. MaxSerial : Knows(j, s)' => Knows(j, s)
  BY <1>3, <1>6, <1>7, <1>9 DEF Knows
<1> QED
  BY <1>1, <1>2, <1>3, <1>8, <1>10, KnowsLess, HarmLess DEF IdInv

LEMMA IdCleanUp ==
    ASSUME IdInv, NEW c \in cleaning, CleanUp(c), IInv'
    PROVE  IdInv'
<1>1. IInv /\ FreshIndex /\ InOrder /\ OneOwner /\ Harmless /\ TypeOK
  BY DEF IdInv, IInv
<1>2. PICK i \in Ids, s \in 1 .. MaxSerial : c = <<i, s>>
  BY <1>1 DEF TypeOK
<1>3. /\ cleaning' \subseteq cleaning /\ work' = [work EXCEPT ![i] = {}]
      /\ harm' = IF work[i] \subseteq 1 .. s THEN harm ELSE harm \cup {<<"cancelled", i>>}
      /\ UNCHANGED <<now, byId, bySig, nextId, created, notice, mislaid>>
  BY <1>2 DEF CleanUp
<1>4. Live' = Live
  BY <1>3 DEF Live
<1>5. FreshIndex'
  BY <1>1, <1>3, <1>4 DEF FreshIndex, Found, OneForm
<1>6. \A j \in Ids : work'[j] \subseteq work[j]
  BY <1>1, <1>3 DEF TypeOK
<1>7. \A j \in Ids, t \in 1 .. MaxSerial : Knows(j, t)' => Knows(j, t)
  BY <1>3, <1>4, <1>6 DEF Knows
<1>8. Harmless'
  <2>1. CASE work[i] \subseteq 1 .. s
    BY <1>1, <1>3, <2>1, HarmLess
  <2>2. CASE ~(work[i] \subseteq 1 .. s)
    <3>1. PICK t \in work[i] : t \notin 1 .. s
      BY <2>2
    <3>2. Knows(i, s) /\ Knows(i, t) /\ s # t
      BY <1>2, <3>1 DEF Knows
    <3>3. \A f \in Formats : Ample(f) => i \notin Half(f)
      BY <3>2, HarmsNone
    <3> QED
      BY <1>1, <1>3, <2>2, <3>3 DEF Harmless, Ample, Half, Low, High
  <2> QED
    BY <2>1, <2>2
<1> QED
  BY <1>1, <1>3, <1>5, <1>7, <1>8, KnowsLess, IInv' DEF IdInv

LEMMA IdStep == IdInv /\ [Next]_vars => IdInv'
<1> SUFFICES ASSUME IdInv, [Next]_vars PROVE IdInv'
  OBVIOUS
<1>1. IInv /\ IInv' /\ FreshIndex /\ InOrder /\ OneOwner /\ Harmless /\ TypeOK /\ SerialsGiven
  BY StepHolds DEF IdInv, IInv
<1>2. CASE \E g \in Signatures, f \in Formats, k \in Codecs :
               <<g, f, k>> \in Inits /\ (Reuse(g, f, k) \/ TableFull(g, f, k) \/ Create(g, f, k))
  BY <1>2, IdReuse, IdTableFull, IdCreate
<1>3. CASE \E i \in Ids : Packet(i)
  BY <1>3, IdPacket
<1>4. ASSUME NEW i \in Ids, LookupNotice(i) PROVE IdInv'
  <2>1. /\ i \in Live /\ notice' = <<i, byId[i].serial>>
        /\ UNCHANGED <<now, byId, bySig, nextId, created, cleaning, work, harm, mislaid>>
    BY <1>4 DEF LookupNotice
  <2>2. Live' = Live
    BY <2>1 DEF Live
  <2>3. FreshIndex'
    BY <1>1, <2>1, <2>2 DEF FreshIndex, Found, OneForm
  <2>4. \A j \in Ids, s \in 1 .. MaxSerial : Knows(j, s)' => Knows(j, s)
    BY <2>1, <2>2 DEF Knows
  <2> QED
    BY <1>1, <2>1, <2>3, <2>4, KnowsLess, HarmLess DEF IdInv
<1>5. CASE CloseByNotice \/ Sweep
  BY <1>5, IdCloseByNotice, IdSweep
<1>6. CASE Tick \/ UNCHANGED vars
  <2>1. now <= now' /\ now \in Nat /\ now' \in Nat
        /\ UNCHANGED <<byId, bySig, nextId, created, notice, cleaning, work, harm, mislaid>>
    BY <1>1, <1>6 DEF Tick, vars, IInv, TypeOK
  <2>2. Live' = Live
    BY <2>1 DEF Live
  <2>3. FreshIndex'
    <3>1. \A i \in Live' : Found(i) => bySig'[byId[i].sig] = i
      BY <1>1, <2>1, <2>2 DEF FreshIndex
    <3> QED
      BY <1>1, <2>1, <2>2, <3>1, FreshKept
  <2>4. \A j \in Ids, s \in 1 .. MaxSerial : Knows(j, s)' => Knows(j, s)
    BY <2>1, <2>2 DEF Knows
  <2> QED
    BY <1>1, <2>1, <2>3, <2>4, KnowsLess, HarmLess DEF IdInv
<1>7. CASE \E c \in cleaning : CleanUp(c)
  BY <1>1, <1>7, IdCleanUp
<1> QED
  BY <1>2, <1>3, <1>4, <1>5, <1>6, <1>7 DEF Next

LEMMA IdInvariantHolds == Spec => []IdInv
BY IdInit, IdStep, PTL DEF Spec

----------------------------------------------------------------------------
(* Every variable stays in its type, for every size of the table. *)
THEOREM TypeCorrect == Spec => []TypeOK
<1>1. IInv => TypeOK
  BY DEF IInv
<1> QED
  BY <1>1, InvariantHolds, PTL

(* findOrCreate, Close and Cleanup keep the signature index sound: what it *)
(* holds leads to a live session of that signature.                        *)
THEOREM IndexIsSound == Spec => []IndexSound
<1>1. IInv => IndexSound
  BY DEF IInv
<1> QED
  BY <1>1, InvariantHolds, PTL

(* activeCount, activeNative and activeLegacy are the sizes of what they   *)
(* count; the table keeps to maxActiveSessions and each format to its IDs. *)
THEOREM CountsAreExact == Spec => []CountsExact
<1>1. IInv => CountsExact
  BY DEF IInv
<1> QED
  BY <1>1, InvariantHolds, PTL

(* expireReuseLocked never skips a sweep that has something to drop.       *)
THEOREM SweepIsNeverLate == Spec => []SweepNeverLate
<1>1. IInv => SweepNeverLate
  BY DEF IInv
<1> QED
  BY <1>1, InvariantHolds, PTL

(* All of it together, for every table size, cap and timeout.             *)
THEOREM TableIsExact == Spec => []TableExact
<1>1. IInv => TableExact
  BY DEF IInv, TableExact
<1> QED
  BY <1>1, InvariantHolds, PTL

(* A SESSION_INIT that comes in one format and with one codec, repeated    *)
(* while the session it made may be reused, finds that one, until an older *)
(* session of that INIT, whose own time is over, is closed or swept.       *)
THEOREM OneSessionPerInit == Spec => []OnePerFreshInit
<1>1. IdInv => OnePerFreshInit
  BY DEF IdInv, FreshIndex, Found, OnePerFreshInit, OneEach
<1> QED
  BY <1>1, IdInvariantHolds, PTL

(* A close notice and a cleanup, which go by the ID of a session looked up *)
(* before, hit no other session until more sessions were created than that *)
(* session's format has IDs.                                               *)
THEOREM IdentityIsNotMistaken == Spec => []NoMistakenIdentity
<1>1. IdInv => NoMistakenIdentity
  <2> SUFFICES ASSUME IdInv, NEW h \in harm, NEW f \in Formats, h[2] \in Half(f)
               PROVE  Cardinality(Half(f)) < created
    BY DEF NoMistakenIdentity
  <2>1. ~Ample(f)
    BY DEF IdInv, Harmless
  <2>2. Cardinality(Half(f)) \in Nat /\ created \in Nat
    BY HalfIds, IdSetsFinite DEF IdInv, IInv, TypeOK
  <2> QED
    BY <2>1, <2>2 DEF Ample
<1> QED
  BY <1>1, IdInvariantHolds, PTL

(***************************************************************************)
(* The limits of stream connections. A step takes one connection from one  *)
(* place to the next (Turns), and each counter changes by what it holds    *)
(* there more or less than before (Follows): TalliedKept counts once for   *)
(* all steps, and each step shows that it is one of those (AllowedIf).     *)
(***************************************************************************)

Places == {"none", "asks", "child", "undo", "listener", "back", "backParent", "loop", "open", "shut",
           "parent", "counted", "closed"}
Links  == [at : Places, by : Listeners, ip : IPs, reading : BOOLEAN, flying : Int, asked : Int, served : BOOLEAN]

(* What a connection holds: its part of each counter. *)
Bit(b) == IF b THEN 1 ELSE 0
Counting == {"loop", "open", "shut", "parent", "counted"}
InBudget(x)    == Bit(x.at \in Budgeted)
InEncrypted(x) == Bit(x.at \in Encrypting /\ x.by = Dot)
InActive(x, l) == Bit(x.at \in Counting /\ x.by = l)
InByIP(x, l, i)    == Bit(x.at \in Counting /\ x.by = l /\ x.ip = i)
InServing(x, l)    == Bit(x.by = l /\ x.served)
InServingIP(x, l, i) == Bit(x.by = l /\ x.served /\ x.ip = i)

Encrypteds       == At(Encrypting) \cap Of(Dot)
Active(l)        == At(Counting) \cap Of(l)
ByIP(l, i)       == {c \in Active(l) : conn[c].ip = i}
Serving(l)       == {c \in Of(l) : conn[c].served}
ServingIP(l, i)  == {c \in Serving(l) : conn[c].ip = i}

LimitsTyped ==
    /\ conn \in [Conns -> Links]
    /\ budget \in Int /\ encrypted \in Int
    /\ active \in [Listeners -> Int] /\ serving \in [Listeners -> Int]
    /\ byIP \in [Listeners -> [IPs -> Int]] /\ servingIP \in [Listeners -> [IPs -> Int]]

Tallied ==
    /\ budget = Cardinality(At(Budgeted))
    /\ encrypted = Cardinality(Encrypteds)
    /\ \A l \in Listeners :
         /\ active[l] = Cardinality(Active(l)) /\ serving[l] = Cardinality(Serving(l))
         /\ \A i \in IPs : byIP[l][i] = Cardinality(ByIP(l, i)) /\ servingIP[l][i] = Cardinality(ServingIP(l, i))

WithinMax ==
    /\ budget <= TotalMax /\ encrypted <= EncryptedMax
    /\ \A l \in Listeners : active[l] <= ListenerMax /\ \A i \in IPs : byIP[l][i] <= PerIP

(* A plain connection has one budget, and none is served before its loop took it. *)
Fit(x) ==
    /\ x.by = Plain => x.at \notin {"child", "undo", "back", "shut"}
    /\ x.at \in {"open", "closed"} => x.served
    /\ x.at \in {"none"} \cup Accepting => ~x.served
Fitting == \A c \in Conns : Fit(conn[c])

(* A listener accepts one connection at a time. *)
InTurn ==
    \A c, d \in Conns :
        conn[c].at \in Accepting /\ conn[d].at \in Accepting /\ conn[c].by = conn[d].by => c = d

LimitsInv == LimitsTyped /\ Tallied /\ WithinMax /\ Fitting /\ InTurn /\ wronged = FALSE

HIDE StoreAssumption
USE LimitsAssumption

LEMMA ConnsFinite ==
    ASSUME NEW S, S \subseteq Conns
    PROVE  IsFiniteSet(S) /\ Cardinality(S) \in Nat
<1>1. S \in SUBSET Conns
  OBVIOUS
<1> QED BY <1>1, FS_Subset, FS_CardinalityType

(* One connection is in a set or not; the others are where they were. *)
LEMMA OneChanges ==
    ASSUME NEW S, NEW T, S \subseteq Conns, T \subseteq Conns, NEW c \in Conns, S \ {c} = T \ {c}
    PROVE  /\ Cardinality(S) \in Nat /\ Cardinality(T) \in Nat
           /\ Cardinality(T) = Cardinality(S) + Bit(c \in T) - Bit(c \in S)
<1> DEFINE R == S \ {c}
<1>1. /\ IsFiniteSet(R) /\ Cardinality(R) \in Nat /\ Cardinality(S) \in Nat /\ Cardinality(T) \in Nat
      /\ c \notin R /\ Cardinality(R \cup {c}) = Cardinality(R) + 1
  <2>1. IsFiniteSet(R) /\ Cardinality(R) \in Nat /\ c \notin R
    BY ConnsFinite
  <2>2. Cardinality(S) \in Nat /\ Cardinality(T) \in Nat
    BY ConnsFinite
  <2>3. Cardinality(R \cup {c}) = Cardinality(R) + 1
    BY <2>1, FS_AddElement
  <2> QED BY <2>1, <2>2, <2>3
<1>2. /\ c \in S => S = R \cup {c}
      /\ c \notin S => S = R
      /\ c \in T => T = R \cup {c}
      /\ c \notin T => T = R
  OBVIOUS
<1>3. Cardinality(S) = Cardinality(R) + Bit(c \in S)
  <2>1. CASE c \in S
    <3>1. Cardinality(S) = Cardinality(R \cup {c})
      BY <1>2, <2>1
    <3> QED BY <1>1, <2>1, <3>1 DEF Bit
  <2>2. CASE c \notin S
    <3>1. Cardinality(S) = Cardinality(R)
      BY <1>2, <2>2
    <3> QED BY <1>1, <2>2, <3>1 DEF Bit
  <2> QED BY <2>1, <2>2
<1>4. Cardinality(T) = Cardinality(R) + Bit(c \in T)
  <2>1. CASE c \in T
    <3>1. Cardinality(T) = Cardinality(R \cup {c})
      BY <1>2, <2>1
    <3> QED BY <1>1, <2>1, <3>1 DEF Bit
  <2>2. CASE c \notin T
    <3>1. Cardinality(T) = Cardinality(R)
      BY <1>2, <2>2
    <3> QED BY <1>1, <2>2, <3>1 DEF Bit
  <2> QED BY <2>1, <2>2
<1> HIDE DEF R
<1>5. Bit(c \in S) \in Int /\ Bit(c \in T) \in Int
  BY DEF Bit
<1> QED BY <1>1, <1>3, <1>4, <1>5

(* The connection c becomes w, and the counters follow what it holds. *)
Turns(c, w) == w \in Links /\ conn' = [conn EXCEPT ![c] = w]

Follows(c, w) ==
    /\ budget' = budget + InBudget(w) - InBudget(conn[c])
    /\ encrypted' = encrypted + InEncrypted(w) - InEncrypted(conn[c])
    /\ active' = [l \in Listeners |-> active[l] + InActive(w, l) - InActive(conn[c], l)]
    /\ serving' = [l \in Listeners |-> serving[l] + InServing(w, l) - InServing(conn[c], l)]
    /\ byIP' = [l \in Listeners |-> [i \in IPs |-> byIP[l][i] + InByIP(w, l, i) - InByIP(conn[c], l, i)]]
    /\ servingIP' = [l \in Listeners |-> [i \in IPs |->
                       servingIP[l][i] + InServingIP(w, l, i) - InServingIP(conn[c], l, i)]]

LEMMA BitsInt ==
    \A x, l, i : /\ InBudget(x) \in Int /\ InEncrypted(x) \in Int /\ InActive(x, l) \in Int
                 /\ InByIP(x, l, i) \in Int /\ InServing(x, l) \in Int /\ InServingIP(x, l, i) \in Int
  BY DEF InBudget, InEncrypted, InActive, InByIP, InServing, InServingIP, Bit

LEMMA TurnsOne ==
    ASSUME LimitsTyped, NEW c \in Conns, NEW w, Turns(c, w)
    PROVE  /\ conn' \in [Conns -> Links] /\ conn'[c] = w
           /\ \A d \in Conns \ {c} : conn'[d] = conn[d]
  BY DEF LimitsTyped, Turns

LEMMA TalliedKept ==
    ASSUME LimitsTyped, Tallied, NEW c \in Conns, NEW w, Turns(c, w), Follows(c, w)
    PROVE  LimitsTyped' /\ Tallied'
<1>1. /\ conn' \in [Conns -> Links] /\ conn'[c] = w
      /\ \A d \in Conns \ {c} : conn'[d] = conn[d]
  BY TurnsOne
<1>2. LimitsTyped'
  <2>1. budget' \in Int /\ encrypted' \in Int
    BY BitsInt DEF LimitsTyped, Follows
  <2>2. ASSUME NEW l \in Listeners
        PROVE  /\ active[l] + InActive(w, l) - InActive(conn[c], l) \in Int
               /\ serving[l] + InServing(w, l) - InServing(conn[c], l) \in Int
    <3>1. active[l] \in Int /\ serving[l] \in Int
      BY DEF LimitsTyped
    <3>2. /\ InActive(w, l) \in Int /\ InActive(conn[c], l) \in Int
          /\ InServing(w, l) \in Int /\ InServing(conn[c], l) \in Int
      BY BitsInt
    <3> QED BY <3>1, <3>2
  <2>3. ASSUME NEW l \in Listeners, NEW i \in IPs
        PROVE  /\ byIP[l][i] + InByIP(w, l, i) - InByIP(conn[c], l, i) \in Int
               /\ servingIP[l][i] + InServingIP(w, l, i) - InServingIP(conn[c], l, i) \in Int
    BY BitsInt DEF LimitsTyped
  <2>4. /\ active' \in [Listeners -> Int] /\ serving' \in [Listeners -> Int]
        /\ byIP' \in [Listeners -> [IPs -> Int]] /\ servingIP' \in [Listeners -> [IPs -> Int]]
    BY <2>2, <2>3 DEF Follows
  <2> QED BY <1>1, <2>1, <2>4 DEF LimitsTyped
<1>3. budget' = Cardinality(At(Budgeted))'
  <2>1. At(Budgeted) \ {c} = At(Budgeted)' \ {c}
    <3>1. \A d \in Conns \ {c} : d \in At(Budgeted) <=> d \in At(Budgeted)'
      BY <1>1 DEF At
    <3> QED BY <3>1 DEF At
  <2>2. /\ InBudget(conn[c]) = Bit(c \in At(Budgeted))
        /\ InBudget(w) = Bit(c \in At(Budgeted)')
    BY <1>1 DEF At, InBudget, Bit
  <2>3. At(Budgeted) \subseteq Conns /\ At(Budgeted)' \subseteq Conns
    BY DEF At
  <2>4. Cardinality(At(Budgeted)') = Cardinality(At(Budgeted)) + InBudget(w) - InBudget(conn[c])
    BY <2>1, <2>2, <2>3, OneChanges
  <2> QED BY <2>4 DEF Follows, Tallied
<1>4. encrypted' = Cardinality(Encrypteds)'
  <2>1. Encrypteds \ {c} = Encrypteds' \ {c}
    BY <1>1 DEF At, Of, Encrypteds
  <2>2. /\ InEncrypted(conn[c]) = Bit(c \in Encrypteds)
        /\ InEncrypted(w) = Bit(c \in Encrypteds')
    BY <1>1 DEF At, Of, Encrypteds, InEncrypted, Bit
  <2>3. Encrypteds \subseteq Conns /\ Encrypteds' \subseteq Conns
    BY DEF At, Encrypteds
  <2>4. Cardinality(Encrypteds') = Cardinality(Encrypteds) + InEncrypted(w) - InEncrypted(conn[c])
    <3>1. \A S, T \in SUBSET Conns : S \ {c} = T \ {c} =>
             Cardinality(T) = Cardinality(S) + Bit(c \in T) - Bit(c \in S)
      BY OneChanges
    <3>2. Cardinality(Encrypteds') = Cardinality(Encrypteds) + Bit(c \in Encrypteds') - Bit(c \in Encrypteds)
      BY <2>1, <2>3, <3>1
    <3> QED BY <2>2, <3>2
  <2> QED BY <2>4 DEF Follows, Tallied
<1>5. ASSUME NEW l \in Listeners PROVE active'[l] = Cardinality(Active(l))'
  <2>1. Active(l) \ {c} = Active(l)' \ {c}
    BY <1>1 DEF At, Of, Active
  <2>2. /\ InActive(conn[c], l) = Bit(c \in Active(l))
        /\ InActive(w, l) = Bit(c \in Active(l)')
    BY <1>1 DEF At, Of, Active, InActive, Bit
  <2>3. Active(l) \subseteq Conns /\ Active(l)' \subseteq Conns
    BY DEF At, Active
  <2>4. Cardinality(Active(l)') = Cardinality(Active(l)) + InActive(w, l) - InActive(conn[c], l)
    BY <2>1, <2>2, <2>3, OneChanges
  <2> QED BY <2>4 DEF Follows, Tallied
<1>6. ASSUME NEW l \in Listeners PROVE serving'[l] = Cardinality(Serving(l))'
  <2>1. Serving(l) \ {c} = Serving(l)' \ {c}
    BY <1>1 DEF Of, Serving
  <2>2. /\ InServing(conn[c], l) = Bit(c \in Serving(l))
        /\ InServing(w, l) = Bit(c \in Serving(l)')
    BY <1>1 DEF Of, Serving, InServing, Bit
  <2>3. Serving(l) \subseteq Conns /\ Serving(l)' \subseteq Conns
    BY DEF Of, Serving
  <2>4. Cardinality(Serving(l)') = Cardinality(Serving(l)) + InServing(w, l) - InServing(conn[c], l)
    BY <2>1, <2>2, <2>3, OneChanges
  <2> QED BY <2>4 DEF Follows, Tallied
<1>7. ASSUME NEW l \in Listeners, NEW i \in IPs PROVE byIP'[l][i] = Cardinality(ByIP(l, i))'
  <2>1. ByIP(l, i) \ {c} = ByIP(l, i)' \ {c}
    BY <1>1 DEF At, Of, Active, ByIP
  <2>2. /\ InByIP(conn[c], l, i) = Bit(c \in ByIP(l, i))
        /\ InByIP(w, l, i) = Bit(c \in ByIP(l, i)')
    BY <1>1 DEF At, Of, Active, ByIP, InByIP, Bit
  <2>3. ByIP(l, i) \subseteq Conns /\ ByIP(l, i)' \subseteq Conns
    BY DEF At, Active, ByIP
  <2>4. Cardinality(ByIP(l, i)') = Cardinality(ByIP(l, i)) + InByIP(w, l, i) - InByIP(conn[c], l, i)
    BY <2>1, <2>2, <2>3, OneChanges
  <2> QED BY <2>4 DEF Follows, Tallied
<1>8. ASSUME NEW l \in Listeners, NEW i \in IPs PROVE servingIP'[l][i] = Cardinality(ServingIP(l, i))'
  <2>1. ServingIP(l, i) \ {c} = ServingIP(l, i)' \ {c}
    BY <1>1 DEF Of, Serving, ServingIP
  <2>2. /\ InServingIP(conn[c], l, i) = Bit(c \in ServingIP(l, i))
        /\ InServingIP(w, l, i) = Bit(c \in ServingIP(l, i)')
    BY <1>1 DEF Of, Serving, ServingIP, InServingIP, Bit
  <2>3. ServingIP(l, i) \subseteq Conns /\ ServingIP(l, i)' \subseteq Conns
    BY DEF Of, Serving, ServingIP
  <2>4. Cardinality(ServingIP(l, i)') = Cardinality(ServingIP(l, i)) + InServingIP(w, l, i) - InServingIP(conn[c], l, i)
    BY <2>1, <2>2, <2>3, OneChanges
  <2> QED BY <2>4 DEF Follows, Tallied
<1> QED BY <1>2, <1>3, <1>4, <1>5, <1>6, <1>7, <1>8 DEF Tallied

(* What the connection becomes keeps to its listener's turn. *)
LEMMA InTurnKept ==
    ASSUME LimitsTyped, InTurn, NEW c \in Conns, NEW w, Turns(c, w),
           w.at \in Accepting => \/ conn[c].at \in Accepting /\ conn[c].by = w.by
                                 \/ \A d \in Conns : conn[d].at \in Accepting => conn[d].by # w.by
    PROVE  InTurn'
<1>1. /\ conn'[c] = w
      /\ \A d \in Conns \ {c} : conn'[d] = conn[d]
  BY TurnsOne
<1>2. ASSUME NEW d \in Conns, NEW e \in Conns, conn'[d].at \in Accepting, conn'[e].at \in Accepting,
             conn'[d].by = conn'[e].by
      PROVE  d = e
  <2>1. CASE d # c /\ e # c
    BY <1>1, <1>2, <2>1 DEF InTurn
  <2>2. CASE d = c /\ e # c
    BY <1>1, <1>2, <2>2 DEF InTurn
  <2>3. CASE d # c /\ e = c
    BY <1>1, <1>2, <2>3 DEF InTurn
  <2>4. CASE d = c /\ e = c
    BY <2>4
  <2> QED BY <2>1, <2>2, <2>3, <2>4
<1> QED BY <1>2 DEF InTurn

LEMMA FittingKept ==
    ASSUME LimitsTyped, Fitting, NEW c \in Conns, NEW w, Turns(c, w), Fit(w)
    PROVE  Fitting'
<1>1. /\ conn'[c] = w
      /\ \A d \in Conns \ {c} : conn'[d] = conn[d]
  BY TurnsOne
<1>2. \A d \in Conns : Fit(conn'[d])
  BY <1>1 DEF Fitting
<1>3. \A d \in Conns : Fit(conn[d])'
  BY <1>2 DEF Fit
<1> QED BY <1>3 DEF Fitting

(* A step of the connection c that takes what it needs within the limits. *)
Allowed(c, w) ==
    /\ Turns(c, w) /\ Follows(c, w) /\ Fit(w)
    /\ w.at \in Accepting => \/ conn[c].at \in Accepting /\ conn[c].by = w.by
                             \/ \A d \in Conns : conn[d].at \in Accepting => conn[d].by # w.by
    /\ InBudget(w) > InBudget(conn[c]) => budget < TotalMax
    /\ InEncrypted(w) > InEncrypted(conn[c]) => encrypted < EncryptedMax
    /\ \A l \in Listeners :
         /\ InActive(w, l) > InActive(conn[c], l) => active[l] < ListenerMax
         /\ \A i \in IPs : InByIP(w, l, i) > InByIP(conn[c], l, i) => byIP[l][i] < PerIP

LEMMA BitIs == \A b \in BOOLEAN : Bit(b) \in {0, 1}
  BY DEF Bit

LEMMA WithinKept ==
    ASSUME LimitsTyped, WithinMax, NEW c \in Conns, NEW w, Allowed(c, w)
    PROVE  WithinMax'
<1>1. \A n, m \in Int : \A a, b \in {0, 1} : n <= m /\ (a > b => n < m) => n + a - b <= m
  OBVIOUS
<1>2. budget' <= TotalMax
  <2>1. InBudget(w) \in {0, 1} /\ InBudget(conn[c]) \in {0, 1}
    BY DEF InBudget, Bit
  <2> QED BY <1>1, <2>1 DEF LimitsTyped, WithinMax, Allowed, Follows
<1>3. encrypted' <= EncryptedMax
  <2>1. InEncrypted(w) \in {0, 1} /\ InEncrypted(conn[c]) \in {0, 1}
    BY DEF InEncrypted, Bit
  <2> QED BY <1>1, <2>1 DEF LimitsTyped, WithinMax, Allowed, Follows
<1>4. ASSUME NEW l \in Listeners PROVE active'[l] <= ListenerMax
  <2>1. InActive(w, l) \in {0, 1} /\ InActive(conn[c], l) \in {0, 1}
    BY DEF InActive, Bit
  <2>2. active[l] \in Int /\ active[l] <= ListenerMax /\ (InActive(w, l) > InActive(conn[c], l) => active[l] < ListenerMax)
    BY DEF LimitsTyped, WithinMax, Allowed
  <2>3. active'[l] = active[l] + InActive(w, l) - InActive(conn[c], l)
    BY DEF Allowed, Follows
  <2> QED BY <1>1, <2>1, <2>2, <2>3
<1>5. ASSUME NEW l \in Listeners, NEW i \in IPs PROVE byIP'[l][i] <= PerIP
  <2>1. InByIP(w, l, i) \in {0, 1} /\ InByIP(conn[c], l, i) \in {0, 1}
    BY DEF InByIP, Bit
  <2>2. byIP[l][i] \in Int /\ byIP[l][i] <= PerIP /\ (InByIP(w, l, i) > InByIP(conn[c], l, i) => byIP[l][i] < PerIP)
    BY DEF LimitsTyped, WithinMax, Allowed
  <2>3. byIP'[l][i] = byIP[l][i] + InByIP(w, l, i) - InByIP(conn[c], l, i)
    BY DEF Allowed, Follows
  <2> QED BY <1>1, <2>1, <2>2, <2>3
<1> QED BY <1>2, <1>3, <1>4, <1>5 DEF WithinMax

LEMMA AllowedKeeps ==
    ASSUME LimitsInv, NEW c \in Conns, NEW w, Allowed(c, w), UNCHANGED wronged
    PROVE  LimitsInv'
<1>1. Turns(c, w) /\ Follows(c, w) /\ Fit(w)
  BY DEF Allowed
<1>2. LimitsTyped' /\ Tallied'
  BY <1>1, TalliedKept DEF LimitsInv
<1>3. InTurn'
  BY <1>1, InTurnKept DEF LimitsInv, Allowed
<1>4. Fitting'
  BY <1>1, FittingKept DEF LimitsInv
<1>5. WithinMax'
  BY WithinKept DEF LimitsInv
<1> QED BY <1>2, <1>3, <1>4, <1>5 DEF LimitsInv

FollowsActive(c, w) ==
    /\ active' = [l \in Listeners |-> active[l] + InActive(w, l) - InActive(conn[c], l)]
    /\ byIP' = [l \in Listeners |-> [i \in IPs |-> byIP[l][i] + InByIP(w, l, i) - InByIP(conn[c], l, i)]]
    /\ \A l \in Listeners :
         /\ InActive(w, l) > InActive(conn[c], l) => active[l] < ListenerMax
         /\ \A i \in IPs : InByIP(w, l, i) > InByIP(conn[c], l, i) => byIP[l][i] < PerIP
FollowsServing(c, w) ==
    /\ serving' = [l \in Listeners |-> serving[l] + InServing(w, l) - InServing(conn[c], l)]
    /\ servingIP' = [l \in Listeners |-> [i \in IPs |->
                       servingIP[l][i] + InServingIP(w, l, i) - InServingIP(conn[c], l, i)]]

LEMMA ActiveStays ==
    ASSUME LimitsTyped, NEW c \in Conns, NEW w, UNCHANGED <<active, byIP>>,
           \/ w.at \notin Counting /\ conn[c].at \notin Counting
           \/ w.at \in Counting /\ conn[c].at \in Counting /\ w.by = conn[c].by /\ w.ip = conn[c].ip
    PROVE  FollowsActive(c, w)
<1>1. \A l \in Listeners : InActive(w, l) = InActive(conn[c], l) /\ InActive(w, l) \in {0, 1}
  BY DEF InActive, Bit
<1>2. \A l \in Listeners, i \in IPs : InByIP(w, l, i) = InByIP(conn[c], l, i) /\ InByIP(w, l, i) \in {0, 1}
  BY DEF InByIP, Bit
<1>3. \A l \in Listeners : active[l] \in Int /\ byIP[l] \in [IPs -> Int]
  BY DEF LimitsTyped
<1>4. \A l \in Listeners : active[l] + InActive(w, l) - InActive(conn[c], l) = active[l]
  BY <1>1, <1>3
<1>5. \A l \in Listeners : [i \in IPs |-> byIP[l][i] + InByIP(w, l, i) - InByIP(conn[c], l, i)] = byIP[l]
  <2> SUFFICES ASSUME NEW l \in Listeners
               PROVE  [i \in IPs |-> byIP[l][i] + InByIP(w, l, i) - InByIP(conn[c], l, i)] = byIP[l]
    OBVIOUS
  <2>1. byIP[l] \in [IPs -> Int]
    BY <1>3
  <2>2. \A i \in IPs : byIP[l][i] + InByIP(w, l, i) - InByIP(conn[c], l, i) = byIP[l][i]
    <3> TAKE i \in IPs
    <3>1. byIP[l][i] \in Int
      BY <2>1
    <3> QED BY <1>2, <3>1
  <2> QED BY <2>1, <2>2
<1>6. active' = [l \in Listeners |-> active[l] + InActive(w, l) - InActive(conn[c], l)]
  BY <1>4 DEF LimitsTyped
<1>7. byIP' = [l \in Listeners |-> [i \in IPs |-> byIP[l][i] + InByIP(w, l, i) - InByIP(conn[c], l, i)]]
  BY <1>5 DEF LimitsTyped
<1>8. \A l \in Listeners :
         /\ InActive(w, l) > InActive(conn[c], l) => active[l] < ListenerMax
         /\ \A i \in IPs : InByIP(w, l, i) > InByIP(conn[c], l, i) => byIP[l][i] < PerIP
  BY <1>1, <1>2
<1> QED BY <1>6, <1>7, <1>8 DEF FollowsActive

LEMMA ServingStays ==
    ASSUME LimitsTyped, NEW c \in Conns, NEW w, UNCHANGED <<serving, servingIP>>,
           \/ ~w.served /\ ~conn[c].served
           \/ w.served = conn[c].served /\ w.by = conn[c].by /\ w.ip = conn[c].ip
    PROVE  FollowsServing(c, w)
<1>1. \A l \in Listeners : InServing(w, l) = InServing(conn[c], l) /\ InServing(w, l) \in {0, 1}
  BY DEF InServing, Bit
<1>2. \A l \in Listeners, i \in IPs :
         InServingIP(w, l, i) = InServingIP(conn[c], l, i) /\ InServingIP(w, l, i) \in {0, 1}
  BY DEF InServingIP, Bit
<1>3. \A l \in Listeners : serving[l] \in Int /\ servingIP[l] \in [IPs -> Int]
  BY DEF LimitsTyped
<1>4. \A l \in Listeners : serving[l] + InServing(w, l) - InServing(conn[c], l) = serving[l]
  BY <1>1, <1>3
<1>5. \A l \in Listeners :
         [i \in IPs |-> servingIP[l][i] + InServingIP(w, l, i) - InServingIP(conn[c], l, i)] = servingIP[l]
  <2> SUFFICES ASSUME NEW l \in Listeners
               PROVE  [i \in IPs |-> servingIP[l][i] + InServingIP(w, l, i) - InServingIP(conn[c], l, i)] = servingIP[l]
    OBVIOUS
  <2>1. servingIP[l] \in [IPs -> Int]
    BY <1>3
  <2>2. \A i \in IPs : servingIP[l][i] + InServingIP(w, l, i) - InServingIP(conn[c], l, i) = servingIP[l][i]
    <3> TAKE i \in IPs
    <3>1. servingIP[l][i] \in Int
      BY <2>1
    <3> QED BY <1>2, <3>1
  <2> QED BY <2>1, <2>2
<1>6. serving' = [l \in Listeners |-> serving[l] + InServing(w, l) - InServing(conn[c], l)]
  BY <1>4 DEF LimitsTyped
<1>7. servingIP' = [l \in Listeners |-> [i \in IPs |->
                     servingIP[l][i] + InServingIP(w, l, i) - InServingIP(conn[c], l, i)]]
  BY <1>5 DEF LimitsTyped
<1> QED BY <1>6, <1>7 DEF FollowsServing

(* The loop or a listener takes one more, or one fewer, of an address. *)
Moves(counter, next, k, d)      == next = [counter EXCEPT ![k] = @ + d]
MovesBy(counter, next, k, j, d) == next = [counter EXCEPT ![k][j] = @ + d]

LEMMA ActiveChanges ==
    ASSUME LimitsTyped, NEW c \in Conns, NEW w, NEW d \in {1, -1}, NEW k \in Listeners, NEW j \in IPs,
           conn[c].by = k, conn[c].ip = j,
           Moves(active, active', k, d), MovesBy(byIP, byIP', k, j, d),
           d = 1 => /\ conn[c].at \notin Counting /\ w.at \in Counting /\ w.by = k /\ w.ip = j
                    /\ active[k] < ListenerMax /\ byIP[k][j] < PerIP,
           d = -1 => conn[c].at \in Counting /\ w.at \notin Counting
    PROVE  FollowsActive(c, w)
<1>1. \A l \in Listeners : /\ InActive(w, l) = (IF d = 1 /\ l = k THEN 1 ELSE 0)
                           /\ InActive(conn[c], l) = (IF d = -1 /\ l = k THEN 1 ELSE 0)
  BY DEF InActive, Bit
<1>2. \A l \in Listeners, i \in IPs :
         /\ InByIP(w, l, i) = (IF d = 1 /\ l = k /\ i = j THEN 1 ELSE 0)
         /\ InByIP(conn[c], l, i) = (IF d = -1 /\ l = k /\ i = j THEN 1 ELSE 0)
  BY DEF InByIP, Bit
<1>3. \A l \in Listeners : active[l] \in Int /\ byIP[l] \in [IPs -> Int]
  BY DEF LimitsTyped
<1>4. \A l \in Listeners : active'[l] = active[l] + InActive(w, l) - InActive(conn[c], l)
  BY <1>1, <1>3 DEF LimitsTyped, Moves
<1>5. \A l \in Listeners : byIP'[l] = [i \in IPs |-> byIP[l][i] + InByIP(w, l, i) - InByIP(conn[c], l, i)]
  <2> SUFFICES ASSUME NEW l \in Listeners
               PROVE  byIP'[l] = [i \in IPs |-> byIP[l][i] + InByIP(w, l, i) - InByIP(conn[c], l, i)]
    OBVIOUS
  <2>1. byIP'[l] = IF l = k THEN [byIP[k] EXCEPT ![j] = @ + d] ELSE byIP[l]
    BY DEF LimitsTyped, MovesBy
  <2>2. byIP'[l] \in [IPs -> Int]
    <3>1. byIP[k] \in [IPs -> Int] /\ byIP[l] \in [IPs -> Int]
      BY <1>3
    <3>2. PICK n \in Int : n = byIP[k][j] + d
      BY <3>1
    <3>3. [byIP[k] EXCEPT ![j] = n] \in [IPs -> Int]
      BY <3>1
    <3>4. [byIP[k] EXCEPT ![j] = @ + d] \in [IPs -> Int]
      BY <3>2, <3>3
    <3> QED BY <2>1, <3>1, <3>4
  <2>3. \A i \in IPs : byIP'[l][i] = byIP[l][i] + InByIP(w, l, i) - InByIP(conn[c], l, i)
    BY <1>2, <1>3, <2>1
  <2> QED BY <2>2, <2>3
<1>6. active' = [l \in Listeners |-> active[l] + InActive(w, l) - InActive(conn[c], l)]
  BY <1>4 DEF LimitsTyped, Moves
<1>7. byIP' = [l \in Listeners |-> [i \in IPs |-> byIP[l][i] + InByIP(w, l, i) - InByIP(conn[c], l, i)]]
  BY <1>5 DEF LimitsTyped, MovesBy
<1>8. \A l \in Listeners :
         /\ InActive(w, l) > InActive(conn[c], l) => active[l] < ListenerMax
         /\ \A i \in IPs : InByIP(w, l, i) > InByIP(conn[c], l, i) => byIP[l][i] < PerIP
  BY <1>1, <1>2
<1> QED BY <1>6, <1>7, <1>8 DEF FollowsActive

LEMMA ServingChanges ==
    ASSUME LimitsTyped, NEW c \in Conns, NEW w, NEW d \in {1, -1}, NEW k \in Listeners, NEW j \in IPs,
           conn[c].by = k, conn[c].ip = j,
           Moves(serving, serving', k, d), MovesBy(servingIP, servingIP', k, j, d),
           d = 1 => ~conn[c].served /\ w.served /\ w.by = k /\ w.ip = j,
           d = -1 => conn[c].served /\ ~w.served
    PROVE  FollowsServing(c, w)
<1>1. \A l \in Listeners : /\ InServing(w, l) = (IF d = 1 /\ l = k THEN 1 ELSE 0)
                           /\ InServing(conn[c], l) = (IF d = -1 /\ l = k THEN 1 ELSE 0)
  BY DEF InServing, Bit
<1>2. \A l \in Listeners, i \in IPs :
         /\ InServingIP(w, l, i) = (IF d = 1 /\ l = k /\ i = j THEN 1 ELSE 0)
         /\ InServingIP(conn[c], l, i) = (IF d = -1 /\ l = k /\ i = j THEN 1 ELSE 0)
  BY DEF InServingIP, Bit
<1>3. \A l \in Listeners : serving[l] \in Int /\ servingIP[l] \in [IPs -> Int]
  BY DEF LimitsTyped
<1>4. \A l \in Listeners : serving'[l] = serving[l] + InServing(w, l) - InServing(conn[c], l)
  BY <1>1, <1>3 DEF LimitsTyped, Moves
<1>5. \A l \in Listeners :
         servingIP'[l] = [i \in IPs |-> servingIP[l][i] + InServingIP(w, l, i) - InServingIP(conn[c], l, i)]
  <2> SUFFICES ASSUME NEW l \in Listeners
      PROVE  servingIP'[l] = [i \in IPs |-> servingIP[l][i] + InServingIP(w, l, i) - InServingIP(conn[c], l, i)]
    OBVIOUS
  <2>1. servingIP'[l] = IF l = k THEN [servingIP[k] EXCEPT ![j] = @ + d] ELSE servingIP[l]
    BY DEF LimitsTyped, MovesBy
  <2>2. servingIP'[l] \in [IPs -> Int]
    <3>1. servingIP[k] \in [IPs -> Int] /\ servingIP[l] \in [IPs -> Int]
      BY <1>3
    <3>2. PICK n \in Int : n = servingIP[k][j] + d
      BY <3>1
    <3>3. [servingIP[k] EXCEPT ![j] = n] \in [IPs -> Int]
      BY <3>1
    <3>4. [servingIP[k] EXCEPT ![j] = @ + d] \in [IPs -> Int]
      BY <3>2, <3>3
    <3> QED BY <2>1, <3>1, <3>4
  <2>3. \A i \in IPs : servingIP'[l][i] = servingIP[l][i] + InServingIP(w, l, i) - InServingIP(conn[c], l, i)
    BY <1>2, <1>3, <2>1
  <2> QED BY <2>2, <2>3
<1>6. serving' = [l \in Listeners |-> serving[l] + InServing(w, l) - InServing(conn[c], l)]
  BY <1>4 DEF LimitsTyped, Moves
<1>7. servingIP' = [l \in Listeners |-> [i \in IPs |->
                     servingIP[l][i] + InServingIP(w, l, i) - InServingIP(conn[c], l, i)]]
  BY <1>5 DEF LimitsTyped, MovesBy
<1> QED BY <1>6, <1>7 DEF FollowsServing

LEMMA FollowsIs ==
    ASSUME LimitsTyped, NEW c \in Conns, NEW w, FollowsActive(c, w), FollowsServing(c, w),
           budget' = budget + InBudget(w) - InBudget(conn[c]),
           encrypted' = encrypted + InEncrypted(w) - InEncrypted(conn[c])
    PROVE  Follows(c, w)
  BY DEF Follows, FollowsActive, FollowsServing

LEMMA FreshLinkIs == Fresh \in Links /\ Fresh.at = "none" /\ Fresh.by = Plain /\ ~Fresh.served /\ Fit(Fresh)
<1>1. (CHOOSE i \in IPs : TRUE) \in IPs
  OBVIOUS
<1> QED BY <1>1 DEF Fresh, Links, Places, Listeners, Fit, Accepting

(* The steps that change nothing but what the connection is at. *)
LEMMA BecomesIs ==
    ASSUME LimitsTyped, NEW c \in Conns, NEW p \in Places, Becomes(c, p)
    PROVE  \E w \in Links : /\ Turns(c, w) /\ w.at = p /\ w.by = conn[c].by /\ w.ip = conn[c].ip
                            /\ w.served = conn[c].served
<1> DEFINE w == [conn[c] EXCEPT !.at = p]
<1>1. conn[c] \in Links
  BY DEF LimitsTyped
<1>2. w \in Links /\ w.at = p /\ w.by = conn[c].by /\ w.ip = conn[c].ip /\ w.served = conn[c].served
  BY <1>1 DEF Links
<1>3. conn' = [conn EXCEPT ![c] = w]
  BY DEF Becomes, LimitsTyped
<1> QED BY <1>2, <1>3 DEF Turns

(* A step whose parts are all right is allowed. *)
LEMMA AllowedIf ==
    ASSUME LimitsInv, NEW c \in Conns, NEW w \in Links, Turns(c, w), Fit(w), UNCHANGED wronged,
           FollowsActive(c, w), FollowsServing(c, w),
           w.at \in Accepting => \/ conn[c].at \in Accepting /\ conn[c].by = w.by
                                 \/ \A d \in Conns : conn[d].at \in Accepting => conn[d].by # w.by,
           budget' = budget + InBudget(w) - InBudget(conn[c]),
           encrypted' = encrypted + InEncrypted(w) - InEncrypted(conn[c]),
           InBudget(w) > InBudget(conn[c]) => budget < TotalMax,
           InEncrypted(w) > InEncrypted(conn[c]) => encrypted < EncryptedMax
    PROVE  LimitsInv'
<1>1. Follows(c, w)
  BY FollowsIs DEF LimitsInv
<1>2. Allowed(c, w)
  BY <1>1 DEF Allowed, FollowsActive
<1> QED BY <1>2, AllowedKeeps

(* A place of connections: which counters it is in. *)
LEMMA PlaceCounts ==
    ASSUME NEW x \in Links
    PROVE  /\ InBudget(x) = IF x.at \in {"none", "asks", "counted", "closed"} THEN 0 ELSE 1
           /\ InEncrypted(x) = IF x.by = Dot /\ x.at \in {"listener", "back", "loop", "open", "shut"} THEN 1 ELSE 0
           /\ x.at \in Counting <=> x.at \in {"loop", "open", "shut", "parent", "counted"}
           /\ x.by = Plain \/ x.by = Dot
           /\ x.at \in Places
  BY DEF InBudget, InEncrypted, Bit, Budgeted, Encrypting, Counting, Links, Places, Listeners

LEMMA QueryKeeps ==
    ASSUME LimitsInv, NEW c \in Conns,
           \/ Query(c) \/ StopReading(c)
           \/ Answer(c)
    PROVE  LimitsInv'
<1>0. conn[c] \in Links /\ LimitsTyped /\ Fit(conn[c])
  BY DEF LimitsInv, LimitsTyped, Fitting
<1>1. PICK w \in Links : /\ Turns(c, w) /\ w.by = conn[c].by /\ w.ip = conn[c].ip /\ w.served = conn[c].served
                         /\ w.at = conn[c].at \/ w.at = Closes(c)
  <2>1. CASE Query(c)
    <3> DEFINE w == [conn[c] EXCEPT !.asked = @ + 1, !.flying = @ + 1]
    <3>1. w \in Links /\ w.by = conn[c].by /\ w.ip = conn[c].ip /\ w.served = conn[c].served /\ w.at = conn[c].at
      <4>1. conn[c].asked + 1 \in Int /\ conn[c].flying + 1 \in Int
        BY <1>0 DEF Links
      <4>2. PICK n \in Int, m \in Int : n = conn[c].asked + 1 /\ m = conn[c].flying + 1
        BY <4>1
      <4>3. PICK x \in Links : x = conn[c]
        BY <1>0
      <4>4. w = [x EXCEPT !.asked = n, !.flying = m]
        BY <4>2, <4>3
      <4> HIDE DEF w
      <4> QED BY <4>3, <4>4 DEF Links
    <3>2. conn' = [conn EXCEPT ![c] = w]
      BY <1>0, <2>1 DEF Query, LimitsTyped
    <3> QED BY <3>1, <3>2 DEF Turns
  <2>2. CASE StopReading(c)
    <3> DEFINE w == [conn[c] EXCEPT !.reading = FALSE]
    <3>1. w \in Links /\ w.by = conn[c].by /\ w.ip = conn[c].ip /\ w.served = conn[c].served /\ w.at = conn[c].at
      BY <1>0 DEF Links
    <3>2. conn' = [conn EXCEPT ![c] = w]
      BY <1>0, <2>2 DEF StopReading, LimitsTyped
    <3> QED BY <3>1, <3>2 DEF Turns
  <2>3. CASE Answer(c) /\ conn' = [conn EXCEPT ![c].flying = @ - 1]
    <3> DEFINE w == [conn[c] EXCEPT !.flying = @ - 1]
    <3>1. w \in Links /\ w.by = conn[c].by /\ w.ip = conn[c].ip /\ w.served = conn[c].served /\ w.at = conn[c].at
      BY <1>0 DEF Links
    <3>2. conn' = [conn EXCEPT ![c] = w]
      BY <1>0, <2>3 DEF LimitsTyped
    <3> QED BY <3>1, <3>2 DEF Turns
  <2>4. CASE Answer(c) /\ conn' = [conn EXCEPT ![c].flying = @ - 1, ![c].at = Closes(c)]
    <3> DEFINE w == [conn[c] EXCEPT !.flying = @ - 1, !.at = Closes(c)]
    <3>1. Closes(c) \in Places
      BY <1>0 DEF Closes, Links, Places
    <3>2. w \in Links /\ w.by = conn[c].by /\ w.ip = conn[c].ip /\ w.served = conn[c].served /\ w.at = Closes(c)
      <4>1. conn[c].flying - 1 \in Int
        BY <1>0 DEF Links
      <4>2. PICK m \in Int, p \in Places : m = conn[c].flying - 1 /\ p = Closes(c)
        BY <3>1, <4>1
      <4>3. PICK x \in Links : x = conn[c]
        BY <1>0
      <4>4. w = [x EXCEPT !.flying = m, !.at = p]
        BY <4>2, <4>3
      <4> HIDE DEF w
      <4> QED BY <4>2, <4>3, <4>4 DEF Links
    <3>3. conn' = [conn EXCEPT ![c] = w]
      BY <1>0, <2>4 DEF LimitsTyped
    <3> QED BY <3>2, <3>3 DEF Turns
  <2> QED BY <2>1, <2>2, <2>3, <2>4 DEF Answer
<1>2. UNCHANGED <<budget, encrypted, active, byIP, serving, servingIP, wronged>>
  BY DEF Query, StopReading, Answer
<1>3. w.at \in Places /\ (w.at = conn[c].at \/ (conn[c].at = "open" /\ w.at = IF w.by = Plain THEN "parent" ELSE "shut"))
  BY <1>0, <1>1 DEF Closes, Links
<1>4. FollowsActive(c, w) /\ FollowsServing(c, w)
  <2>1. \/ w.at \notin Counting /\ conn[c].at \notin Counting
        \/ w.at \in Counting /\ conn[c].at \in Counting /\ w.by = conn[c].by /\ w.ip = conn[c].ip
    BY <1>1, <1>3 DEF Counting
  <2> QED BY <1>0, <1>1, <1>2, <2>1, ActiveStays, ServingStays
<1>5. InBudget(w) = InBudget(conn[c]) /\ InEncrypted(w) = InEncrypted(conn[c])
  BY <1>0, <1>1, <1>3 DEF InBudget, InEncrypted, Budgeted, Encrypting, Plain, Dot, Fit, Links, Listeners
<1>6. InBudget(w) \in Int /\ InEncrypted(w) \in Int
  BY BitsInt
<1>7. Follows(c, w)
  BY <1>0, <1>2, <1>4, <1>5, <1>6, FollowsIs DEF LimitsTyped
<1>8. Fit(w)
  BY <1>0, <1>1, <1>3 DEF Fit, Accepting, Plain, Dot, Links, Listeners
<1>9. w.at \in Accepting => conn[c].at \in Accepting /\ conn[c].by = w.by
  BY <1>1, <1>3 DEF Accepting
<1>10. Allowed(c, w)
  BY <1>1, <1>4, <1>5, <1>6, <1>7, <1>8, <1>9 DEF Allowed, FollowsActive
<1> QED BY <1>2, <1>10, AllowedKeeps

LEMMA ReserveTotalKeeps ==
    ASSUME LimitsInv, NEW c \in Conns, ReserveTotal(c), budget < TotalMax
    PROVE  LimitsInv'
<1>0. conn[c] \in Links /\ LimitsTyped /\ Fit(conn[c]) /\ budget \in Int /\ encrypted \in Int
  BY DEF LimitsInv, LimitsTyped, Fitting
<1> DEFINE p == IF conn[c].by = Plain THEN "listener" ELSE "child"
<1>1. conn[c].at = "asks" /\ budget' = budget + 1 /\ Becomes(c, p) /\ p \in Places
  BY DEF ReserveTotal, Places
<1>2. UNCHANGED <<encrypted, active, byIP, serving, servingIP, wronged>>
  BY DEF ReserveTotal
<1>3. PICK w \in Links : /\ Turns(c, w) /\ w.at = p /\ w.by = conn[c].by /\ w.ip = conn[c].ip
                         /\ w.served = conn[c].served
  BY <1>0, <1>1, BecomesIs
<1>4. /\ InBudget(w) = 1 /\ InBudget(conn[c]) = 0 /\ InEncrypted(w) = 0 /\ InEncrypted(conn[c]) = 0
      /\ w.at \notin Counting /\ conn[c].at \notin Counting
  BY <1>0, <1>1, <1>3, PlaceCounts DEF Plain, Dot
<1>5. Fit(w) /\ conn[c].at \in Accepting
  BY <1>0, <1>1, <1>3 DEF Fit, Accepting
<1>6. FollowsActive(c, w) /\ FollowsServing(c, w)
  BY <1>0, <1>2, <1>3, <1>4, ActiveStays, ServingStays
<1>7. /\ budget' = budget + InBudget(w) - InBudget(conn[c])
      /\ encrypted' = encrypted + InEncrypted(w) - InEncrypted(conn[c])
      /\ InBudget(w) > InBudget(conn[c]) => budget < TotalMax
      /\ InEncrypted(w) > InEncrypted(conn[c]) => encrypted < EncryptedMax
  BY <1>0, <1>1, <1>2, <1>4
<1> QED BY <1>2, <1>3, <1>5, <1>6, <1>7, AllowedIf

LEMMA ReserveEncryptedKeeps ==
    ASSUME LimitsInv, NEW c \in Conns, ReserveEncrypted(c)
    PROVE  LimitsInv'
<1>0. conn[c] \in Links /\ LimitsTyped /\ Fit(conn[c]) /\ budget \in Int /\ encrypted \in Int
  BY DEF LimitsInv, LimitsTyped, Fitting
<1> DEFINE p == IF encrypted < EncryptedMax THEN "listener" ELSE "undo"
<1>1. /\ conn[c].at = "child" /\ Becomes(c, p) /\ p \in Places
      /\ encrypted' = IF encrypted < EncryptedMax THEN encrypted + 1 ELSE encrypted
  BY DEF ReserveEncrypted, Places
<1>2. UNCHANGED <<budget, active, byIP, serving, servingIP, wronged>>
  BY DEF ReserveEncrypted
<1>3. PICK w \in Links : /\ Turns(c, w) /\ w.at = p /\ w.by = conn[c].by /\ w.ip = conn[c].ip
                         /\ w.served = conn[c].served
  BY <1>0, <1>1, BecomesIs
<1>4. /\ InBudget(w) = 1 /\ InBudget(conn[c]) = 1
      /\ InEncrypted(w) = IF encrypted < EncryptedMax THEN 1 ELSE 0
      /\ InEncrypted(conn[c]) = 0
      /\ w.at \notin Counting /\ conn[c].at \notin Counting
  BY <1>0, <1>1, <1>3, PlaceCounts DEF Fit
<1>5. Fit(w) /\ conn[c].at \in Accepting
  BY <1>0, <1>1, <1>3 DEF Fit, Accepting
<1>6. FollowsActive(c, w) /\ FollowsServing(c, w)
  BY <1>0, <1>2, <1>3, <1>4, ActiveStays, ServingStays
<1>7. /\ budget' = budget + InBudget(w) - InBudget(conn[c])
      /\ encrypted' = encrypted + InEncrypted(w) - InEncrypted(conn[c])
      /\ InBudget(w) > InBudget(conn[c]) => budget < TotalMax
      /\ InEncrypted(w) > InEncrypted(conn[c]) => encrypted < EncryptedMax
  BY <1>0, <1>1, <1>2, <1>4
<1> QED BY <1>2, <1>3, <1>5, <1>6, <1>7, AllowedIf

(* A connection that is refused, and one whose handler has returned. *)
LEMMA RefusedIs ==
    ASSUME LimitsTyped, NEW c \in Conns, Refused(c)
    PROVE  Turns(c, Fresh) /\ InBudget(Fresh) = 0 /\ InEncrypted(Fresh) = 0
           /\ Fresh.at \notin Counting /\ Fresh.at \notin Accepting
<1>1. Turns(c, Fresh)
  BY FreshLinkIs DEF Refused, Turns
<1>2. InBudget(Fresh) = 0 /\ InEncrypted(Fresh) = 0 /\ Fresh.at \notin Counting /\ Fresh.at \notin Accepting
  BY FreshLinkIs DEF InBudget, InEncrypted, Budgeted, Encrypting, Counting, Accepting, Bit
<1> QED BY <1>1, <1>2

LEMMA GivenUpKeeps ==
    ASSUME LimitsInv, NEW c \in Conns,
           conn[c].at \in {"undo", "backParent"}, budget' = budget - 1, Refused(c),
           UNCHANGED <<encrypted, active, byIP, serving, servingIP, wronged>>
    PROVE  LimitsInv'
<1>0. conn[c] \in Links /\ LimitsTyped /\ Fit(conn[c]) /\ budget \in Int /\ encrypted \in Int
  BY DEF LimitsInv, LimitsTyped, Fitting
<1>1. /\ Turns(c, Fresh) /\ InBudget(Fresh) = 0 /\ InEncrypted(Fresh) = 0
      /\ Fresh.at \notin Counting /\ Fresh.at \notin Accepting
  BY <1>0, RefusedIs
<1>2. InBudget(conn[c]) = 1 /\ InEncrypted(conn[c]) = 0 /\ conn[c].at \notin Counting
  BY <1>0, PlaceCounts
<1>3. ~conn[c].served
  BY <1>0 DEF Fit, Accepting
<1>4. FollowsActive(c, Fresh) /\ FollowsServing(c, Fresh)
  BY <1>0, <1>1, <1>2, <1>3, FreshLinkIs, ActiveStays, ServingStays
<1>5. /\ budget' = budget + InBudget(Fresh) - InBudget(conn[c])
      /\ encrypted' = encrypted + InEncrypted(Fresh) - InEncrypted(conn[c])
      /\ InBudget(Fresh) > InBudget(conn[c]) => budget < TotalMax
      /\ InEncrypted(Fresh) > InEncrypted(conn[c]) => encrypted < EncryptedMax
  BY <1>0, <1>1, <1>2
<1> QED BY <1>1, <1>4, <1>5, FreshLinkIs, AllowedIf

LEMMA GiveBackKeeps ==
    ASSUME LimitsInv, NEW c \in Conns, GiveBack(c)
    PROVE  LimitsInv'
<1>1. CASE conn[c].at = "backParent"
  <2>1. /\ budget' = budget - 1 /\ Refused(c)
        /\ UNCHANGED <<encrypted, active, byIP, serving, servingIP, wronged>>
    BY <1>1 DEF GiveBack
  <2> QED BY <1>1, <2>1, GivenUpKeeps
<1>2. CASE conn[c].at = "back"
  <2>0. conn[c] \in Links /\ LimitsTyped /\ Fit(conn[c]) /\ budget \in Int /\ encrypted \in Int
    BY DEF LimitsInv, LimitsTyped, Fitting
  <2>1. encrypted' = encrypted - 1 /\ Becomes(c, "backParent") /\ "backParent" \in Places
    BY <1>2 DEF GiveBack, Places
  <2>2. UNCHANGED <<budget, active, byIP, serving, servingIP, wronged>>
    BY <1>2 DEF GiveBack
  <2>3. PICK w \in Links : /\ Turns(c, w) /\ w.at = "backParent" /\ w.by = conn[c].by /\ w.ip = conn[c].ip
                           /\ w.served = conn[c].served
    BY <2>0, <2>1, BecomesIs
  <2>4. /\ InBudget(w) = 1 /\ InBudget(conn[c]) = 1 /\ InEncrypted(w) = 0 /\ InEncrypted(conn[c]) = 1
        /\ w.at \notin Counting /\ conn[c].at \notin Counting
    BY <1>2, <2>0, <2>3, PlaceCounts DEF Fit
  <2>5. Fit(w) /\ conn[c].at \in Accepting
    BY <1>2, <2>0, <2>3 DEF Fit, Accepting
  <2>6. FollowsActive(c, w) /\ FollowsServing(c, w)
    BY <2>0, <2>2, <2>3, <2>4, ActiveStays, ServingStays
  <2>7. /\ budget' = budget + InBudget(w) - InBudget(conn[c])
        /\ encrypted' = encrypted + InEncrypted(w) - InEncrypted(conn[c])
        /\ InBudget(w) > InBudget(conn[c]) => budget < TotalMax
        /\ InEncrypted(w) > InEncrypted(conn[c]) => encrypted < EncryptedMax
    BY <2>0, <2>1, <2>2, <2>4
  <2> QED BY <2>2, <2>3, <2>5, <2>6, <2>7, AllowedIf
<1> QED BY <1>1, <1>2 DEF GiveBack

LEMMA ReserveListenerKeeps ==
    ASSUME LimitsInv, NEW c \in Conns, ReserveListener(c)
    PROVE  LimitsInv'
<1>0. /\ conn[c] \in Links /\ LimitsTyped /\ Fit(conn[c]) /\ budget \in Int /\ encrypted \in Int
      /\ conn[c].by \in Listeners /\ conn[c].ip \in IPs
  BY DEF LimitsInv, LimitsTyped, Fitting, Links
<1> DEFINE l == conn[c].by
           i == conn[c].ip
           p == IF active[l] < ListenerMax /\ byIP[l][i] < PerIP THEN "loop"
                ELSE IF l = Plain THEN "backParent" ELSE "back"
<1>1. conn[c].at = "listener" /\ Becomes(c, p) /\ p \in Places
  BY DEF ReserveListener, Places
<1>2. UNCHANGED <<budget, encrypted, serving, servingIP, wronged>>
  BY DEF ReserveListener
<1>3. PICK w \in Links : /\ Turns(c, w) /\ w.at = p /\ w.by = conn[c].by /\ w.ip = conn[c].ip
                         /\ w.served = conn[c].served
  BY <1>0, <1>1, BecomesIs
<1>4. /\ InBudget(w) = 1 /\ InBudget(conn[c]) = 1 /\ InEncrypted(w) = InEncrypted(conn[c])
      /\ InEncrypted(w) \in {0, 1} /\ conn[c].at \notin Counting
      /\ w.at \in Counting <=> w.at = "loop"
  BY <1>0, <1>1, <1>3, PlaceCounts DEF Plain, Dot
<1>5. Fit(w) /\ conn[c].at \in Accepting
  BY <1>0, <1>1, <1>3 DEF Fit, Accepting, Plain
<1>6. FollowsServing(c, w)
  BY <1>0, <1>2, <1>3, ServingStays
<1>7. FollowsActive(c, w)
  <2>1. CASE active[l] < ListenerMax /\ byIP[l][i] < PerIP
    <3>1. PICK d \in {1, -1}, k \in Listeners, j \in IPs : d = 1 /\ k = l /\ j = i
      BY <1>0
    <3>2. Moves(active, active', k, d) /\ MovesBy(byIP, byIP', k, j, d)
      BY <2>1, <3>1 DEF ReserveListener, Moves, MovesBy
    <3>3. /\ w.at \in Counting /\ w.by = k /\ w.ip = j /\ conn[c].by = k /\ conn[c].ip = j
          /\ active[k] < ListenerMax /\ byIP[k][j] < PerIP
      BY <1>3, <1>4, <2>1, <3>1
    <3> QED BY <1>0, <1>4, <3>1, <3>2, <3>3, ActiveChanges
  <2>2. CASE ~(active[l] < ListenerMax /\ byIP[l][i] < PerIP)
    <3>1. UNCHANGED <<active, byIP>>
      BY <2>2 DEF ReserveListener
    <3>2. w.at \notin Counting
      BY <1>3, <1>4, <2>2
    <3> QED BY <1>0, <1>4, <3>1, <3>2, ActiveStays
  <2> QED BY <2>1, <2>2
<1>8. /\ budget' = budget + InBudget(w) - InBudget(conn[c])
      /\ encrypted' = encrypted + InEncrypted(w) - InEncrypted(conn[c])
      /\ InBudget(w) > InBudget(conn[c]) => budget < TotalMax
      /\ InEncrypted(w) > InEncrypted(conn[c]) => encrypted < EncryptedMax
  BY <1>0, <1>2, <1>4
<1> QED BY <1>2, <1>3, <1>5, <1>6, <1>7, <1>8, AllowedIf

LEMMA ServeKeeps ==
    ASSUME LimitsInv, NEW c \in Conns, Serve(c)
    PROVE  LimitsInv'
<1>0. /\ conn[c] \in Links /\ LimitsTyped /\ Fit(conn[c]) /\ budget \in Int /\ encrypted \in Int
      /\ conn[c].by \in Listeners /\ conn[c].ip \in IPs
  BY DEF LimitsInv, LimitsTyped, Fitting, Links
<1> DEFINE l == conn[c].by
           i == conn[c].ip
           room == serving[l] < ListenerMax /\ servingIP[l][i] < PerIP
<1>1. conn[c].at = "loop" /\ ~conn[c].served
  BY <1>0 DEF Serve, Fit, Accepting
<1>2. UNCHANGED <<budget, encrypted, active, byIP, wronged>>
  BY DEF Serve
<1>3. PICK w \in Links : /\ Turns(c, w) /\ w.by = conn[c].by /\ w.ip = conn[c].ip
                         /\ w.at = IF room THEN "open" ELSE IF l = Plain THEN "parent" ELSE "shut"
                         /\ w.served = room
  <2>1. CASE room
    <3> DEFINE w == [conn[c] EXCEPT !.at = "open", !.reading = TRUE, !.served = TRUE]
    <3>1. w \in Links /\ w.by = conn[c].by /\ w.ip = conn[c].ip /\ w.at = "open" /\ w.served = TRUE
      BY <1>0 DEF Links, Places
    <3>2. conn' = [conn EXCEPT ![c] = w]
      BY <1>0, <2>1 DEF Serve, LimitsTyped
    <3> HIDE DEF w
    <3> QED BY <2>1, <3>1, <3>2 DEF Turns
  <2>2. CASE ~room
    <3> DEFINE p == IF l = Plain THEN "parent" ELSE "shut"
    <3>1. Becomes(c, p) /\ p \in Places
      BY <2>2 DEF Serve, Places
    <3>2. PICK w \in Links : /\ Turns(c, w) /\ w.at = p /\ w.by = conn[c].by /\ w.ip = conn[c].ip
                             /\ w.served = conn[c].served
      BY <1>0, <3>1, BecomesIs
    <3>3. w.served = room
      BY <1>0, <1>1, <2>2, <3>2 DEF Links
    <3> HIDE DEF room
    <3> QED BY <2>2, <3>2, <3>3
  <2> QED BY <2>1, <2>2
<1>4. /\ InBudget(w) = 1 /\ InBudget(conn[c]) = 1 /\ InEncrypted(w) = InEncrypted(conn[c])
      /\ InEncrypted(w) \in {0, 1} /\ conn[c].at \in Counting /\ w.at \in Counting
  BY <1>0, <1>1, <1>3, PlaceCounts DEF Plain, Dot
<1>5. Fit(w) /\ w.at \notin Accepting
  BY <1>0, <1>1, <1>3 DEF Fit, Accepting, Plain
<1>6. FollowsActive(c, w)
  BY <1>0, <1>2, <1>3, <1>4, ActiveStays
<1>7. FollowsServing(c, w)
  <2>1. CASE room
    <3>1. PICK d \in {1, -1}, k \in Listeners, j \in IPs : d = 1 /\ k = l /\ j = i
      BY <1>0
    <3>2. Moves(serving, serving', k, d) /\ MovesBy(servingIP, servingIP', k, j, d)
      BY <2>1, <3>1 DEF Serve, Moves, MovesBy
    <3>3. w.served /\ w.by = k /\ w.ip = j /\ conn[c].by = k /\ conn[c].ip = j
      BY <1>3, <2>1, <3>1
    <3> QED BY <1>0, <1>1, <3>1, <3>2, <3>3, ServingChanges
  <2>2. CASE ~room
    <3>1. UNCHANGED <<serving, servingIP>>
      BY <2>2 DEF Serve
    <3>2. ~w.served
      BY <1>3, <2>2
    <3> QED BY <1>0, <1>1, <3>1, <3>2, ServingStays
  <2> QED BY <2>1, <2>2
<1>8. /\ budget' = budget + InBudget(w) - InBudget(conn[c])
      /\ encrypted' = encrypted + InEncrypted(w) - InEncrypted(conn[c])
      /\ InBudget(w) > InBudget(conn[c]) => budget < TotalMax
      /\ InEncrypted(w) > InEncrypted(conn[c]) => encrypted < EncryptedMax
  BY <1>0, <1>2, <1>4
<1> QED BY <1>2, <1>3, <1>5, <1>6, <1>7, <1>8, AllowedIf

LEMMA HangUpKeeps ==
    ASSUME LimitsInv, NEW c \in Conns, HangUp(c)
    PROVE  LimitsInv'
<1>0. conn[c] \in Links /\ LimitsTyped /\ Fit(conn[c]) /\ budget \in Int /\ encrypted \in Int
  BY DEF LimitsInv, LimitsTyped, Fitting
<1> DEFINE p == IF conn[c].by = Plain THEN "parent" ELSE "shut"
<1>1. conn[c].at = "open" /\ Becomes(c, p) /\ p \in Places
  BY DEF HangUp, Closes, Places
<1>2. UNCHANGED <<budget, encrypted, active, byIP, serving, servingIP, wronged>>
  BY DEF HangUp
<1>3. PICK w \in Links : /\ Turns(c, w) /\ w.at = p /\ w.by = conn[c].by /\ w.ip = conn[c].ip
                         /\ w.served = conn[c].served
  BY <1>0, <1>1, BecomesIs
<1>4. /\ InBudget(w) = 1 /\ InBudget(conn[c]) = 1 /\ InEncrypted(w) = InEncrypted(conn[c])
      /\ InEncrypted(w) \in {0, 1} /\ conn[c].at \in Counting /\ w.at \in Counting
  BY <1>0, <1>1, <1>3, PlaceCounts DEF Plain, Dot
<1>5. Fit(w) /\ w.at \notin Accepting
  BY <1>0, <1>1, <1>3 DEF Fit, Accepting, Plain
<1>6. FollowsActive(c, w) /\ FollowsServing(c, w)
  BY <1>0, <1>2, <1>3, <1>4, ActiveStays, ServingStays
<1>7. /\ budget' = budget + InBudget(w) - InBudget(conn[c])
      /\ encrypted' = encrypted + InEncrypted(w) - InEncrypted(conn[c])
      /\ InBudget(w) > InBudget(conn[c]) => budget < TotalMax
      /\ InEncrypted(w) > InEncrypted(conn[c]) => encrypted < EncryptedMax
  BY <1>0, <1>2, <1>4
<1> QED BY <1>2, <1>3, <1>5, <1>6, <1>7, AllowedIf

LEMMA ReleaseEncryptedKeeps ==
    ASSUME LimitsInv, NEW c \in Conns, ReleaseEncrypted(c)
    PROVE  LimitsInv'
<1>0. conn[c] \in Links /\ LimitsTyped /\ Fit(conn[c]) /\ budget \in Int /\ encrypted \in Int
  BY DEF LimitsInv, LimitsTyped, Fitting
<1>1. conn[c].at = "shut" /\ encrypted' = encrypted - 1 /\ Becomes(c, "parent") /\ "parent" \in Places
  BY DEF ReleaseEncrypted, Places
<1>2. UNCHANGED <<budget, active, byIP, serving, servingIP, wronged>>
  BY DEF ReleaseEncrypted
<1>3. PICK w \in Links : /\ Turns(c, w) /\ w.at = "parent" /\ w.by = conn[c].by /\ w.ip = conn[c].ip
                         /\ w.served = conn[c].served
  BY <1>0, <1>1, BecomesIs
<1>4. /\ InBudget(w) = 1 /\ InBudget(conn[c]) = 1 /\ InEncrypted(w) = 0 /\ InEncrypted(conn[c]) = 1
      /\ w.at \in Counting /\ conn[c].at \in Counting
  BY <1>0, <1>1, <1>3, PlaceCounts DEF Fit
<1>5. Fit(w) /\ w.at \notin Accepting
  BY <1>0, <1>1, <1>3 DEF Fit, Accepting
<1>6. FollowsActive(c, w) /\ FollowsServing(c, w)
  BY <1>0, <1>2, <1>3, <1>4, ActiveStays, ServingStays
<1>7. /\ budget' = budget + InBudget(w) - InBudget(conn[c])
      /\ encrypted' = encrypted + InEncrypted(w) - InEncrypted(conn[c])
      /\ InBudget(w) > InBudget(conn[c]) => budget < TotalMax
      /\ InEncrypted(w) > InEncrypted(conn[c]) => encrypted < EncryptedMax
  BY <1>0, <1>1, <1>2, <1>4
<1> QED BY <1>2, <1>3, <1>5, <1>6, <1>7, AllowedIf

LEMMA ReleaseTotalKeeps ==
    ASSUME LimitsInv, NEW c \in Conns, ReleaseTotal(c)
    PROVE  LimitsInv'
<1>0. conn[c] \in Links /\ LimitsTyped /\ Fit(conn[c]) /\ budget \in Int /\ encrypted \in Int
  BY DEF LimitsInv, LimitsTyped, Fitting
<1>1. conn[c].at = "parent" /\ budget' = budget - 1 /\ Becomes(c, "counted") /\ "counted" \in Places
  BY DEF ReleaseTotal, Places
<1>2. UNCHANGED <<encrypted, active, byIP, serving, servingIP, wronged>>
  BY DEF ReleaseTotal
<1>3. PICK w \in Links : /\ Turns(c, w) /\ w.at = "counted" /\ w.by = conn[c].by /\ w.ip = conn[c].ip
                         /\ w.served = conn[c].served
  BY <1>0, <1>1, BecomesIs
<1>4. /\ InBudget(w) = 0 /\ InBudget(conn[c]) = 1 /\ InEncrypted(w) = 0 /\ InEncrypted(conn[c]) = 0
      /\ w.at \in Counting /\ conn[c].at \in Counting
  BY <1>0, <1>1, <1>3, PlaceCounts
<1>5. Fit(w) /\ w.at \notin Accepting
  BY <1>0, <1>1, <1>3 DEF Fit, Accepting
<1>6. FollowsActive(c, w) /\ FollowsServing(c, w)
  BY <1>0, <1>2, <1>3, <1>4, ActiveStays, ServingStays
<1>7. /\ budget' = budget + InBudget(w) - InBudget(conn[c])
      /\ encrypted' = encrypted + InEncrypted(w) - InEncrypted(conn[c])
      /\ InBudget(w) > InBudget(conn[c]) => budget < TotalMax
      /\ InEncrypted(w) > InEncrypted(conn[c]) => encrypted < EncryptedMax
  BY <1>0, <1>1, <1>2, <1>4
<1> QED BY <1>2, <1>3, <1>5, <1>6, <1>7, AllowedIf

LEMMA ReleaseListenerKeeps ==
    ASSUME LimitsInv, NEW c \in Conns, ReleaseListener(c)
    PROVE  LimitsInv'
<1>0. /\ conn[c] \in Links /\ LimitsTyped /\ Fit(conn[c]) /\ budget \in Int /\ encrypted \in Int
      /\ conn[c].by \in Listeners /\ conn[c].ip \in IPs
  BY DEF LimitsInv, LimitsTyped, Fitting, Links
<1>1. conn[c].at = "counted" /\ UNCHANGED <<budget, encrypted, serving, servingIP, wronged>>
  BY DEF ReleaseListener
<1>2. PICK w \in Links : /\ Turns(c, w) /\ w.at \in {"closed", "none"} /\ Fit(w)
                         /\ \/ ~w.served /\ ~conn[c].served
                            \/ w.served = conn[c].served /\ w.by = conn[c].by /\ w.ip = conn[c].ip
  <2>1. CASE conn[c].served
    <3>1. Becomes(c, "closed") /\ "closed" \in Places
      BY <2>1 DEF ReleaseListener, Places
    <3>2. PICK w \in Links : /\ Turns(c, w) /\ w.at = "closed" /\ w.by = conn[c].by /\ w.ip = conn[c].ip
                             /\ w.served = conn[c].served
      BY <1>0, <3>1, BecomesIs
    <3>3. Fit(w)
      BY <2>1, <3>2 DEF Fit, Accepting
    <3> QED BY <3>2, <3>3
  <2>2. CASE ~conn[c].served
    <3>1. Refused(c)
      BY <2>2 DEF ReleaseListener
    <3>2. Turns(c, Fresh)
      BY <1>0, <3>1, RefusedIs
    <3> QED BY <2>2, <3>2, FreshLinkIs
  <2> QED BY <2>1, <2>2
<1>3. /\ InBudget(w) = 0 /\ InBudget(conn[c]) = 0 /\ InEncrypted(w) = 0 /\ InEncrypted(conn[c]) = 0
      /\ w.at \notin Counting /\ conn[c].at \in Counting /\ w.at \notin Accepting
  BY <1>0, <1>1, <1>2, PlaceCounts DEF Accepting
<1>4. FollowsActive(c, w)
  <2>1. PICK d \in {1, -1}, k \in Listeners, j \in IPs : d = -1 /\ k = conn[c].by /\ j = conn[c].ip
    BY <1>0
  <2>2. Moves(active, active', k, d) /\ MovesBy(byIP, byIP', k, j, d)
    <3>1. active[k] - 1 = active[k] + d /\ byIP[k][j] - 1 = byIP[k][j] + d
      BY <1>0, <2>1 DEF LimitsTyped
    <3> QED BY <2>1, <3>1 DEF ReleaseListener, Moves, MovesBy
  <2> QED BY <1>0, <1>3, <2>1, <2>2, ActiveChanges
<1>5. FollowsServing(c, w)
  BY <1>0, <1>1, <1>2, ServingStays
<1>6. /\ budget' = budget + InBudget(w) - InBudget(conn[c])
      /\ encrypted' = encrypted + InEncrypted(w) - InEncrypted(conn[c])
      /\ InBudget(w) > InBudget(conn[c]) => budget < TotalMax
      /\ InEncrypted(w) > InEncrypted(conn[c]) => encrypted < EncryptedMax
  BY <1>0, <1>1, <1>3
<1> QED BY <1>1, <1>2, <1>3, <1>4, <1>5, <1>6, AllowedIf

LEMMA LeaveKeeps ==
    ASSUME LimitsInv, NEW c \in Conns, Leave(c)
    PROVE  LimitsInv'
<1>0. /\ conn[c] \in Links /\ LimitsTyped /\ Fit(conn[c]) /\ budget \in Int /\ encrypted \in Int
      /\ conn[c].by \in Listeners /\ conn[c].ip \in IPs
  BY DEF LimitsInv, LimitsTyped, Fitting, Links
<1>1. conn[c].at = "closed" /\ conn[c].served /\ UNCHANGED <<budget, encrypted, active, byIP, wronged>>
  BY <1>0 DEF Leave, Fit
<1>2. /\ Turns(c, Fresh) /\ InBudget(Fresh) = 0 /\ InEncrypted(Fresh) = 0
      /\ Fresh.at \notin Counting /\ Fresh.at \notin Accepting
  BY <1>0, RefusedIs DEF Leave
<1>3. InBudget(conn[c]) = 0 /\ InEncrypted(conn[c]) = 0 /\ conn[c].at \notin Counting
  BY <1>0, <1>1, PlaceCounts
<1>4. FollowsActive(c, Fresh)
  BY <1>0, <1>1, <1>2, <1>3, ActiveStays
<1>5. FollowsServing(c, Fresh)
  <2>1. PICK d \in {1, -1}, k \in Listeners, j \in IPs : d = -1 /\ k = conn[c].by /\ j = conn[c].ip
    BY <1>0
  <2>2. Moves(serving, serving', k, d) /\ MovesBy(servingIP, servingIP', k, j, d)
    <3>1. serving[k] - 1 = serving[k] + d /\ servingIP[k][j] - 1 = servingIP[k][j] + d
      BY <1>0, <2>1 DEF LimitsTyped
    <3> QED BY <2>1, <3>1 DEF Leave, Moves, MovesBy
  <2> QED BY <1>0, <1>1, <2>1, <2>2, FreshLinkIs, ServingChanges
<1>6. /\ budget' = budget + InBudget(Fresh) - InBudget(conn[c])
      /\ encrypted' = encrypted + InEncrypted(Fresh) - InEncrypted(conn[c])
      /\ InBudget(Fresh) > InBudget(conn[c]) => budget < TotalMax
      /\ InEncrypted(Fresh) > InEncrypted(conn[c]) => encrypted < EncryptedMax
  BY <1>0, <1>1, <1>2, <1>3
<1> QED BY <1>1, <1>2, <1>4, <1>5, <1>6, FreshLinkIs, AllowedIf

LEMMA ArriveKeeps ==
    ASSUME LimitsInv, NEW c \in Conns, NEW l \in Listeners, NEW i \in IPs, Arrive(c, l, i)
    PROVE  LimitsInv'
<1>0. conn[c] \in Links /\ LimitsTyped /\ Fit(conn[c]) /\ budget \in Int /\ encrypted \in Int
  BY DEF LimitsInv, LimitsTyped, Fitting
<1> DEFINE w == [Fresh EXCEPT !.at = "asks", !.by = l, !.ip = i]
<1>1. w \in Links /\ w.at = "asks" /\ w.by = l /\ ~w.served
  BY FreshLinkIs DEF Links, Places
<1>2. Turns(c, w) /\ conn[c].at = "none"
  BY <1>1 DEF Arrive, Turns
<1>3. UNCHANGED <<budget, encrypted, active, byIP, serving, servingIP, wronged>>
  BY DEF Arrive
<1>4. \A d \in Conns : conn[d].at \in Accepting => conn[d].by # w.by
  BY <1>1 DEF Arrive, At, Of
<1> HIDE DEF w
<1>5. /\ InBudget(w) = 0 /\ InBudget(conn[c]) = 0 /\ InEncrypted(w) = 0 /\ InEncrypted(conn[c]) = 0
      /\ w.at \notin Counting /\ conn[c].at \notin Counting
  BY <1>0, <1>1, <1>2, PlaceCounts
<1>6. Fit(w) /\ ~conn[c].served
  BY <1>0, <1>1, <1>2 DEF Fit, Accepting
<1>7. FollowsActive(c, w) /\ FollowsServing(c, w)
  BY <1>0, <1>1, <1>3, <1>5, <1>6, ActiveStays, ServingStays
<1>8. /\ budget' = budget + InBudget(w) - InBudget(conn[c])
      /\ encrypted' = encrypted + InEncrypted(w) - InEncrypted(conn[c])
      /\ InBudget(w) > InBudget(conn[c]) => budget < TotalMax
      /\ InEncrypted(w) > InEncrypted(conn[c]) => encrypted < EncryptedMax
  BY <1>0, <1>3, <1>5
<1> QED BY <1>1, <1>2, <1>3, <1>4, <1>6, <1>7, <1>8, AllowedIf

(* When a plain connection finds no budget, the plain ones hold their share. *)
LEMMA PlainHasShare ==
    ASSUME LimitsInv, NEW c \in Conns, conn[c].at = "asks", conn[c].by = Plain, budget >= TotalMax
    PROVE  ~(PlainHeld + Between < TotalMax - EncryptedMax)
<1> DEFINE P == At(Holding \ {"shut"}) \cap Of(Plain)
           B == At({"child", "undo", "backParent", "parent"}) \cap Of(Dot)
           E == At(Encrypting) \cap Of(Dot)
<1>0. LimitsTyped /\ Fitting /\ InTurn
  BY DEF LimitsInv
<1>1. At(Budgeted) \subseteq (P \cup B) \cup E
  <2> SUFFICES ASSUME NEW d \in Conns, conn[d].at \in Budgeted PROVE d \in (P \cup B) \cup E
    BY DEF At
  <2>1. conn[d].by \in Listeners /\ Fit(conn[d])
    BY <1>0 DEF LimitsTyped, Links, Fitting
  <2>2. CASE conn[d].by = Plain
    <3>1. conn[d].at # "backParent"
      BY <1>0, <2>2 DEF InTurn, Accepting
    <3> QED BY <2>1, <2>2, <3>1 DEF At, Of, Budgeted, Holding, Fit
  <2>3. CASE conn[d].by = Dot
    BY <2>3 DEF At, Of, Budgeted, Encrypting
  <2> QED BY <2>1, <2>2, <2>3 DEF Listeners
<1>2. /\ P \subseteq Conns /\ B \subseteq Conns /\ E \subseteq Conns /\ At(Budgeted) \subseteq Conns
  BY DEF At
<1>3. PlainHeld = Cardinality(P) /\ Between = Cardinality(B)
  BY DEF PlainHeld, Between
<1>4. encrypted = Cardinality(E) /\ budget = Cardinality(At(Budgeted)) /\ encrypted <= EncryptedMax
  BY DEF LimitsInv, Tallied, Encrypteds, WithinMax
<1> HIDE DEF P, B, E
<1>5. /\ IsFiniteSet(P) /\ IsFiniteSet(B) /\ IsFiniteSet(E) /\ IsFiniteSet(P \cup B)
      /\ Cardinality(P) \in Nat /\ Cardinality(B) \in Nat /\ Cardinality(E) \in Nat
      /\ Cardinality(P \cap B) \in Nat /\ Cardinality((P \cup B) \cap E) \in Nat
      /\ Cardinality(P \cup B) \in Nat /\ Cardinality(At(Budgeted)) \in Nat
  <2>1. P \cup B \subseteq Conns /\ P \cap B \subseteq Conns /\ (P \cup B) \cap E \subseteq Conns
    BY <1>2
  <2> QED BY <1>2, <2>1, ConnsFinite
<1>6. Cardinality(P \cup B) <= Cardinality(P) + Cardinality(B)
  <2>1. Cardinality(P \cup B) = Cardinality(P) + Cardinality(B) - Cardinality(P \cap B)
    BY <1>5, FS_Union
  <2> QED BY <1>5, <2>1
<1>7. /\ IsFiniteSet((P \cup B) \cup E) /\ Cardinality((P \cup B) \cup E) \in Nat
      /\ Cardinality((P \cup B) \cup E) <= Cardinality(P \cup B) + Cardinality(E)
  <2>1. Cardinality((P \cup B) \cup E) = Cardinality(P \cup B) + Cardinality(E) - Cardinality((P \cup B) \cap E)
    BY <1>5, FS_Union
  <2>2. (P \cup B) \cup E \subseteq Conns
    BY <1>2
  <2>3. IsFiniteSet((P \cup B) \cup E) /\ Cardinality((P \cup B) \cup E) \in Nat
    BY <2>2, ConnsFinite
  <2> QED BY <1>5, <2>1, <2>3
<1>8. Cardinality(At(Budgeted)) <= Cardinality((P \cup B) \cup E)
  <2>1. At(Budgeted) \in SUBSET ((P \cup B) \cup E)
    BY <1>1
  <2> QED BY <1>7, <2>1, FS_Subset
<1> QED BY <1>3, <1>4, <1>5, <1>6, <1>7, <1>8

LEMMA ReserveRefusedKeeps ==
    ASSUME LimitsInv, NEW c \in Conns, ReserveTotal(c), ~(budget < TotalMax)
    PROVE  LimitsInv'
<1>0. conn[c] \in Links /\ LimitsTyped /\ Fit(conn[c]) /\ budget \in Int /\ encrypted \in Int /\ wronged = FALSE
  BY DEF LimitsInv, LimitsTyped, Fitting
<1>1. conn[c].at = "asks" /\ Refused(c) /\ UNCHANGED <<budget, encrypted, active, byIP, serving, servingIP>>
  BY DEF ReserveTotal
<1>2. UNCHANGED wronged
  <2>1. conn[c].by = Plain => ~(PlainHeld + Between < TotalMax - EncryptedMax)
    BY <1>0, <1>1, PlainHasShare
  <2> QED BY <1>0, <2>1 DEF ReserveTotal
<1>3. /\ Turns(c, Fresh) /\ InBudget(Fresh) = 0 /\ InEncrypted(Fresh) = 0
      /\ Fresh.at \notin Counting /\ Fresh.at \notin Accepting
  BY <1>0, <1>1, RefusedIs
<1>4. InBudget(conn[c]) = 0 /\ InEncrypted(conn[c]) = 0 /\ conn[c].at \notin Counting
  BY <1>0, <1>1, PlaceCounts
<1>5. ~conn[c].served
  BY <1>0, <1>1 DEF Fit, Accepting
<1>6. FollowsActive(c, Fresh) /\ FollowsServing(c, Fresh)
  BY <1>0, <1>1, <1>3, <1>4, <1>5, FreshLinkIs, ActiveStays, ServingStays
<1>7. /\ budget' = budget + InBudget(Fresh) - InBudget(conn[c])
      /\ encrypted' = encrypted + InEncrypted(Fresh) - InEncrypted(conn[c])
      /\ InBudget(Fresh) > InBudget(conn[c]) => budget < TotalMax
      /\ InEncrypted(Fresh) > InEncrypted(conn[c]) => encrypted < EncryptedMax
  BY <1>0, <1>1, <1>3, <1>4
<1> QED BY <1>2, <1>3, <1>6, <1>7, FreshLinkIs, AllowedIf

LEMMA LimitsStart == LimitsInit => LimitsInv
<1> SUFFICES ASSUME LimitsInit PROVE LimitsInv
  OBVIOUS
<1>1. conn \in [Conns -> Links] /\ \A c \in Conns : conn[c] = Fresh
  BY FreshLinkIs DEF LimitsInit
<1>2. LimitsTyped
  BY <1>1 DEF LimitsInit, LimitsTyped
<1>3. /\ At(Budgeted) = {} /\ Encrypteds = {}
      /\ \A l \in Listeners : Active(l) = {} /\ Serving(l) = {} /\ \A i \in IPs : ByIP(l, i) = {} /\ ServingIP(l, i) = {}
  BY <1>1, FreshLinkIs DEF At, Encrypteds, Active, Serving, ByIP, ServingIP, Budgeted, Encrypting, Counting, Of
<1>4. Tallied
  <2>1. Cardinality({}) = 0
    BY FS_EmptySet
  <2> QED BY <1>3, <2>1 DEF LimitsInit, Tallied
<1>5. WithinMax
  BY DEF LimitsInit, WithinMax
<1>6. Fitting /\ InTurn /\ wronged = FALSE
  BY <1>1, FreshLinkIs DEF Fitting, InTurn, LimitsInit, Accepting
<1> QED BY <1>2, <1>4, <1>5, <1>6 DEF LimitsInv

LEMMA LimitsKept == LimitsInv /\ [LimitsNext]_limitVars => LimitsInv'
<1> SUFFICES ASSUME LimitsInv, [LimitsNext]_limitVars PROVE LimitsInv'
  OBVIOUS
<1>1. CASE UNCHANGED limitVars
  <2>1. UNCHANGED <<conn, budget, encrypted, active, byIP, serving, servingIP, wronged>>
    BY <1>1 DEF limitVars
  <2>2. LimitsTyped' /\ WithinMax' /\ Fitting' /\ InTurn' /\ wronged' = FALSE
    BY <2>1 DEF LimitsInv, LimitsTyped, WithinMax, Fitting, Fit, InTurn
  <2>3. At(Budgeted)' = At(Budgeted) /\ Encrypteds' = Encrypteds
    BY <2>1 DEF At, Of, Encrypteds
  <2>4. ASSUME NEW l \in Listeners
        PROVE  /\ Active(l)' = Active(l) /\ Serving(l)' = Serving(l)
               /\ \A i \in IPs : ByIP(l, i)' = ByIP(l, i) /\ ServingIP(l, i)' = ServingIP(l, i)
    BY <2>1 DEF At, Of, Active, Serving, ByIP, ServingIP
  <2>5. Tallied'
    BY <2>1, <2>3, <2>4 DEF LimitsInv, Tallied
  <2> QED BY <2>2, <2>5 DEF LimitsInv
<1>2. ASSUME NEW c \in Conns, NEW l \in Listeners, NEW i \in IPs, Arrive(c, l, i) PROVE LimitsInv'
  BY <1>2, ArriveKeeps
<1>3. ASSUME NEW c \in Conns, ReserveTotal(c) PROVE LimitsInv'
  BY <1>3, ReserveTotalKeeps, ReserveRefusedKeeps
<1>4. ASSUME NEW c \in Conns, ReserveEncrypted(c) \/ ReserveListener(c) \/ GiveBack(c) \/ Serve(c) PROVE LimitsInv'
  BY <1>4, ReserveEncryptedKeeps, ReserveListenerKeeps, GiveBackKeeps, ServeKeeps
<1>5. ASSUME NEW c \in Conns, Undo(c) PROVE LimitsInv'
  BY <1>5, GivenUpKeeps DEF Undo
<1>6. ASSUME NEW c \in Conns, Query(c) \/ Answer(c) \/ StopReading(c) \/ HangUp(c) PROVE LimitsInv'
  BY <1>6, QueryKeeps, HangUpKeeps
<1>7. ASSUME NEW c \in Conns, ReleaseEncrypted(c) \/ ReleaseTotal(c) \/ ReleaseListener(c) \/ Leave(c) PROVE LimitsInv'
  BY <1>7, ReleaseEncryptedKeeps, ReleaseTotalKeeps, ReleaseListenerKeeps, LeaveKeeps
<1> QED
  <2>1. CASE LimitsNext
    <3>1. PICK c \in Conns :
             \/ \E l \in Listeners, i \in IPs : Arrive(c, l, i)
             \/ ReserveTotal(c) \/ ReserveEncrypted(c) \/ Undo(c) \/ ReserveListener(c) \/ GiveBack(c) \/ Serve(c)
             \/ Query(c) \/ Answer(c) \/ StopReading(c) \/ HangUp(c)
             \/ ReleaseEncrypted(c) \/ ReleaseTotal(c) \/ ReleaseListener(c) \/ Leave(c)
      BY <2>1, Zenon DEF LimitsNext
    <3> QED BY <3>1, <1>2, <1>3, <1>4, <1>5, <1>6, <1>7, Zenon
  <2> QED BY <1>1, <2>1

LEMMA LimitsInvImplies == LimitsInv => ConnsSound
<1> SUFFICES ASSUME LimitsInv PROVE ConnsSound
  OBVIOUS
<1>1. budget \in 0..TotalMax /\ encrypted \in 0..EncryptedMax
  <2>1. Cardinality(At(Budgeted)) \in Nat /\ Cardinality(Encrypteds) \in Nat
    BY ConnsFinite DEF At, Encrypteds
  <2> QED BY <2>1 DEF LimitsInv, Tallied, WithinMax
<1>2. ASSUME NEW l \in Listeners PROVE active[l] \in 0..ListenerMax /\ \A i \in IPs : byIP[l][i] \in 0..PerIP
  <2>1. Cardinality(Active(l)) \in Nat /\ \A i \in IPs : Cardinality(ByIP(l, i)) \in Nat
    BY ConnsFinite DEF At, Active, ByIP
  <2> QED BY <2>1 DEF LimitsInv, Tallied, WithinMax
<1>3. LimitsTypeOK
  <2>1. wronged = FALSE
    BY DEF LimitsInv
  <2> QED BY <1>1, <1>2, <2>1 DEF LimitsTypeOK
<1>4. Exact
  BY DEF LimitsInv, Tallied, Exact, Encrypteds, Active, Serving, Counting
<1> QED BY <1>3, <1>4 DEF ConnsSound, Headroom, LimitsInv

(* Whatever connections come, close and are refused in whatever order, each   *)
(* counter is exactly what the connections hold, and a plain one is refused   *)
(* only when its share is taken, for any number of connections and any limits. *)
THEOREM ConnsAreSound == LimitsSpec => []ConnsSound
<1>1. LimitsSpec => []LimitsInv
  BY LimitsStart, LimitsKept, PTL DEF LimitsSpec
<1> QED BY <1>1, LimitsInvImplies, PTL
=============================================================================
