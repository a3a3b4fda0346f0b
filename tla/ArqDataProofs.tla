--------------------------- MODULE ArqDataProofs ---------------------------
(***************************************************************************)
(* The safety properties of ArqData, for every number space, window, limit *)
(* on unacknowledged chunks and number of dispatchers and chunks that keep *)
(* to SizesAssumption: what the ARQ promises its applications, and why no  *)
(* chunk is forgotten on the way.                                          *)
(***************************************************************************)
EXTENDS ArqData, FiniteSetTheorems, TLAPS

----------------------------------------------------------------------------
(* Remainders                                                              *)

LEMMA Division ==
    ASSUME NEW M \in Nat \ {0}, NEW a \in Int
    PROVE  (a % M) \in 0 .. M - 1 /\ \E q \in Int : a = M * q + (a % M)
<1>1. a \div M \in Int /\ (a % M) \in 0 .. M - 1 /\ a = M * (a \div M) + (a % M)
  OBVIOUS
<1> QED
  BY <1>1

LEMMA SmallMultiple ==
    ASSUME NEW M \in Nat \ {0}, NEW d \in Int, M * d < M, -M < M * d
    PROVE  d = 0
<1>1. CASE d >= 1
  BY <1>1
<1>2. CASE d <= -1
  BY <1>2
<1> QED
  BY <1>1, <1>2

LEMMA Distrib == ASSUME NEW M \in Int, NEW a \in Int, NEW b \in Int
  PROVE M * (a - b) = M * a - M * b /\ M * (a+b) = M*a + M*b
OBVIOUS

(* a and b are the same modulo M. *)
Congruent(a, b, M) == \E q \in Int : a = M * q + b

LEMMA ByDivision ==
    ASSUME NEW M \in Nat \ {0}, NEW a \in Int
    PROVE  Congruent(a, a % M, M) /\ Congruent(a % M, a, M)
<1>1. PICK r \in 0 .. M - 1 : r = (a % M)
  BY Division
<1>2. PICK q \in Int : a = M * q + r
  BY <1>1, Division
<1>3. PICK p \in Int : p = 0 - q
  OBVIOUS
<1>4. M * p = M * 0 - M * q
  BY <1>3, Distrib
<1>5. r = M * p + a
  BY <1>2, <1>4
<1> QED
  BY <1>1, <1>2, <1>5 DEF Congruent

LEMMA Plus ==
    ASSUME NEW M \in Nat \ {0}, NEW a \in Int, NEW b \in Int, NEW c \in Int, NEW d \in Int,
           Congruent(a, b, M), Congruent(c, d, M), NEW x \in Int, NEW y \in Int
    PROVE  /\ x = a + c /\ y = b + d => Congruent(x, y, M)
           /\ x = a - c /\ y = b - d => Congruent(x, y, M)
<1>1. PICK p \in Int : a = M * p + b
  BY DEF Congruent
<1>2. PICK q \in Int : c = M * q + d
  BY DEF Congruent
<1>3. PICK s \in Int, r \in Int : s = p + q /\ r = p - q
  OBVIOUS
<1>4. M * s = M * p + M * q /\ M * r = M * p - M * q
  BY <1>3, Distrib
<1>5. a + c = M * s + (b + d) /\ a - c = M * r + (b - d)
  BY <1>1, <1>2, <1>4
<1> QED
  BY <1>5 DEF Congruent

LEMMA Transitive ==
    ASSUME NEW M \in Nat \ {0}, NEW a \in Int, NEW b \in Int, NEW c \in Int,
           Congruent(a, b, M), Congruent(b, c, M)
    PROVE  Congruent(a, c, M)
<1>1. PICK p \in Int : a = M * p + b
  BY DEF Congruent
<1>2. PICK q \in Int : b = M * q + c
  BY DEF Congruent
<1>3. PICK s \in Int : s = p + q
  OBVIOUS
<1>4. M * s = M * p + M * q
  BY <1>3, Distrib
<1>5. a = M * s + c
  BY <1>1, <1>2, <1>4
<1> QED
  BY <1>5 DEF Congruent

LEMMA Near ==
    ASSUME NEW M \in Nat \ {0}, NEW a \in Int, NEW b \in Int,
           Congruent(a, b, M), a - b < M, b - a < M
    PROVE  a = b
<1>1. PICK p \in Int : a = M * p + b
  BY DEF Congruent
<1>2. M * p < M /\ -M < M * p
  BY <1>1
<1>3. p = 0
  BY <1>2, SmallMultiple
<1> QED
  BY <1>1, <1>3

LEMMA Unique ==
    ASSUME NEW M \in Nat \ {0}, NEW a \in Int, NEW r \in 0 .. M - 1, Congruent(a, r, M)
    PROVE  (a % M) = r
<1>1. PICK s \in 0 .. M - 1 : s = (a % M)
  BY Division
<1>2. Congruent(s, r, M)
  BY <1>1, ByDivision, Transitive
<1>3. s - r < M /\ r - s < M
  OBVIOUS
<1>4. s = r
  BY <1>2, <1>3, Near
<1> QED
  BY <1>1, <1>4

(* Same remainder, same class; and the other way round. *)
LEMMA Classes ==
    ASSUME NEW M \in Nat \ {0}, NEW a \in Int, NEW b \in Int
    PROVE  (a % M) = (b % M) <=> Congruent(a, b, M)
<1>1. ASSUME (a % M) = (b % M) PROVE Congruent(a, b, M)
  BY <1>1, ByDivision, Transitive, Division
<1>2. ASSUME Congruent(a, b, M) PROVE (a % M) = (b % M)
  <2>1. Congruent(a, b % M, M)
    BY <1>2, ByDivision, Transitive, Division
  <2> QED
    BY <2>1, Unique, Division
<1> QED
  BY <1>1, <1>2
----------------------------------------------------------------------------
(* The invariant                                                           *)

(* When t chunks have been read: a chunk among them, not so old that its   *)
(* wire number could be another one's.                                     *)
Recent(t, d) == d \in 0 .. t - 1 /\ t - d <= Half

Sound(t, p) == Recent(t, p.data) /\ p.sn = (p.data % SeqMod)

Received(d) == d < Delivered \/ \E sn \in DOMAIN rcvBuf : rcvBuf[sn] = d

(* Whatever stands for a chunk carries the chunk's own number. *)
NumbersSound ==
    /\ sndNxt = (taken % SeqMod)
    /\ \A sn \in DOMAIN sndBuf : Recent(taken, sndBuf[sn].data) /\ sn = (sndBuf[sn].data % SeqMod)
    /\ \A p \in queue \cup popped \cup dataNet \cup ackNet : Sound(taken, p)
    /\ \A p \in {ioPush, rtxPush, nackPush} : p # None => Sound(taken, p)
    /\ ioPush # None => ioPush.data = taken - 1

(* What the receiver has given out, and what it holds of the next chunks. *)
Given ==
    /\ Delivered <= taken
    /\ rcvNxt = (Delivered % SeqMod)
    /\ \A k \in 1 .. Len(written) : written[k] = k - 1
    /\ \A k \in 1 .. Len(toWrite) : toWrite[k] = Len(written) + k - 1

Ahead ==
    \A sn \in DOMAIN rcvBuf :
        /\ rcvBuf[sn] \in Delivered .. Delivered + Window /\ rcvBuf[sn] < taken
        /\ sn = (rcvBuf[sn] % SeqMod)

AcksTrue == \A m \in ackNet : Received(m.data)

InFlight == Cardinality(DOMAIN sndBuf) <= scene.limit

Finite == IsFiniteSet(popped)

IInv ==
    /\ TypeOK /\ NumbersSound /\ Given /\ Ahead /\ AcksTrue
    /\ NothingForgotten /\ InFlight /\ Armed /\ Finite

----------------------------------------------------------------------------
(* What the scene and the invariant say of numbers                         *)

LEMMA Sizes ==
    ASSUME scene \in Scenes
    PROVE  /\ SeqMod \in Nat \ {0} /\ Half \in Nat /\ SeqMod = 2 * Half
           /\ Window \in Nat \ {0} /\ scene.limit \in Nat \ {0} /\ scene.chunks \in Nat
           /\ Window + scene.limit < Half
           /\ scene.poppers \in Nat
<1> DEFINE sc == scene
<1>1. /\ sc \in [seqMod : Nat, window : Nat \ {0}, limit : Nat \ {0}, poppers : Nat \ {0},
                 chunks : Nat, lossy : BOOLEAN]
      /\ sc.seqMod = 2 * (sc.seqMod \div 2)
      /\ sc.window + sc.limit < sc.seqMod \div 2
  BY SizesAssumption
<1>2. sc.seqMod \div 2 \in Nat
  BY <1>1
<1> QED
  BY <1>1, <1>2 DEF SeqMod, Half, Window

(* Two recent chunks have different wire numbers. *)
LEMMA SameNumber ==
    ASSUME NEW M \in Nat \ {0}, NEW a \in Int, NEW b \in Int,
           (a % M) = (b % M), a - b < M, b - a < M
    PROVE  a = b
BY Classes, Near

LEMMA Successor ==
    ASSUME NEW M \in Nat \ {0}, NEW a \in Int, NEW k \in Int
    PROVE  (((a % M) + k) % M) = ((a + k) % M)
<1>1. PICK r \in 0 .. M - 1 : r = (a % M)
  BY Division
<1>2. PICK x \in Int, y \in Int : x = r + k /\ y = a + k
  OBVIOUS
<1>3. Congruent(r, a, M)
  BY <1>1, ByDivision
<1>4. Congruent(k, k, M)
  <2>1. 0 \in Int /\ k = M * 0 + k
    OBVIOUS
  <2> QED
    BY <2>1 DEF Congruent
<1>5. Congruent(x, y, M)
  BY <1>2, <1>3, <1>4, Plus
<1> QED
  BY <1>1, <1>2, <1>5, Classes

(* How far a wire number is from the one the receiver waits for. *)
LEMMA DistanceOf ==
    ASSUME NEW M \in Nat \ {0}, NEW d \in Int, NEW e \in Int, d - e < M, e - d <= M
    PROVE  (((d % M) - (e % M)) % M) = IF d >= e THEN d - e ELSE d - e + M
<1>1. PICK r \in 0 .. M - 1, s \in 0 .. M - 1 : r = (d % M) /\ s = (e % M)
  BY Division
<1>2a. PICK x \in Int : x = r - s
  OBVIOUS
<1>2b. PICK y \in Int : y = d - e
  OBVIOUS
<1>2c. PICK z \in Int : z = d - e + M
  OBVIOUS
<1>2. x = r - s /\ y = d - e /\ z = d - e + M
  BY <1>2a, <1>2b, <1>2c
<1>3. Congruent(r, d, M) /\ Congruent(s, e, M)
  BY <1>1, ByDivision
<1>4. Congruent(x, y, M)
  BY <1>2, <1>3, Plus
<1>5. Congruent(y, z, M)
  <2>1. -1 \in Int /\ y = M * (-1) + z
    BY <1>2
  <2> QED
    BY <2>1 DEF Congruent
<1>6. Congruent(x, z, M)
  BY <1>4, <1>5, Transitive
<1>7. CASE d >= e
  <2>1. y \in 0 .. M - 1
    BY <1>7, <1>2
  <2>2. (x % M) = y
    BY <2>1, <1>4, Unique
  <2> QED
    BY <2>2, <1>1, <1>2, <1>7
<1>8. CASE d < e
  <2>1. z \in 0 .. M - 1
    BY <1>8, <1>2
  <2>2. (x % M) = z
    BY <2>1, <1>6, Unique
  <2> QED
    BY <2>2, <1>1, <1>2, <1>8
<1> QED
  BY <1>7, <1>8

LEMMA Interval ==
    ASSUME NEW a \in Int, NEW b \in Int
    PROVE  IsFiniteSet(a .. b) /\ Cardinality(a .. b) = IF a > b THEN 0 ELSE b - a + 1
BY FS_Interval

LEMMA Domains ==
    ASSUME TypeOK
    PROVE  IsFiniteSet(DOMAIN sndBuf) /\ IsFiniteSet(DOMAIN rcvBuf)
<1>1. PICK n \in Int : n = SeqMod - 1
  BY Sizes DEF TypeOK
<1>2. IsFiniteSet(0 .. n)
  BY Interval
<1> QED
  BY <1>1, <1>2, FS_Subset DEF TypeOK, WireNumbers

(* What the receiver has, the sender has read; so the chunks the receiver  *)
(* may not hold yet are in sndBuf, and limit bounds how many they are.     *)
LEMMA Lead ==
    ASSUME IInv PROVE LeadBounded /\ Delivered \in Nat /\ taken \in Nat
<1>1. /\ SeqMod \in Nat \ {0} /\ Half \in Nat /\ SeqMod = 2 * Half
      /\ Window \in Nat \ {0} /\ scene.limit \in Nat \ {0} /\ scene.chunks \in Nat
      /\ taken \in Nat
  BY Sizes DEF IInv, TypeOK
<1>2. Delivered \in Nat
  BY DEF IInv, TypeOK, Delivered
<1> DEFINE I == Delivered + Window + 1 .. taken - 1
           g == [d \in I |-> d % SeqMod]
<1>3. ASSUME NEW d \in I PROVE Recent(taken, d) /\ (d % SeqMod) \in DOMAIN sndBuf
  <2>1. d \in 0 .. taken - 1 /\ ~ d < Delivered /\ d > Delivered + Window
    BY <1>1, <1>2
  <2>2. \A sn \in DOMAIN rcvBuf : rcvBuf[sn] # d
    BY <2>1, <1>1, <1>2 DEF IInv, Ahead
  <2>3. PICK sn \in DOMAIN sndBuf : sndBuf[sn].data = d
    BY <2>1, <2>2 DEF IInv, NothingForgotten
  <2> QED
    BY <2>3 DEF IInv, NumbersSound
<1>4. g \in Injection(I, DOMAIN sndBuf)
  <2>1. g \in [I -> DOMAIN sndBuf]
    BY <1>3
  <2>2. ASSUME NEW a \in I, NEW b \in I, g[a] = g[b] PROVE a = b
    <3>1. a \in Int /\ b \in Int /\ a - b < SeqMod /\ b - a < SeqMod
      BY <1>1, <1>2, <1>3 DEF Recent
    <3>2. (a % SeqMod) = (b % SeqMod)
      BY <2>2
    <3> QED
      BY <1>1, <3>1, <3>2, SameNumber
  <2> QED
    BY <2>1, <2>2 DEF Injection, IsInjective
<1>5. IsFiniteSet(DOMAIN sndBuf)
  BY Domains DEF IInv
<1>6. Cardinality(I) <= scene.limit /\ Cardinality(I) = IF Delivered + Window + 1 > taken - 1
                                      THEN 0 ELSE taken - 1 - (Delivered + Window)
  <2>1. Cardinality(I) <= Cardinality(DOMAIN sndBuf)
    BY <1>4, <1>5, FS_Injection
  <2>2. Cardinality(DOMAIN sndBuf) \in Nat
    BY <1>5, FS_CardinalityType
  <2>3. PICK a \in Int : a = Delivered + Window + 1
    BY <1>1, <1>2
  <2>4. PICK b \in Int : b = taken - 1
    BY <1>1
  <2>5. Cardinality(I) = IF a > b THEN 0 ELSE b - a + 1
    BY <2>3, <2>4, Interval
  <2>6. Cardinality(DOMAIN sndBuf) <= scene.limit
    BY DEF IInv, InFlight
  <2> HIDE DEF I
  <2> QED
    BY <1>1, <1>2, <2>1, <2>2, <2>3, <2>4, <2>5, <2>6
<1> QED
  BY <1>1, <1>2, <1>6 DEF LeadBounded

----------------------------------------------------------------------------
(* The invariant is inductive                                              *)

LEMMA Frame ==
    ASSUME UNCHANGED scene
    PROVE  /\ SeqMod' = SeqMod /\ Half' = Half /\ Window' = Window
           /\ WireNumbers' = WireNumbers
           /\ Packet({"data"})' = Packet({"data"}) /\ Packet({"resend"})' = Packet({"resend"})
           /\ Packet({"data", "resend"})' = Packet({"data", "resend"})
           /\ scene.limit' = scene.limit /\ scene.poppers' = scene.poppers
           /\ scene.chunks' = scene.chunks
BY DEF SeqMod, Half, Window, WireNumbers, Packet

LEMMA SameTime ==
    ASSUME UNCHANGED scene
    PROVE  \A t, x : Recent(t, x)' = Recent(t, x) /\ Sound(t, x)' = Sound(t, x)
BY Frame DEF Recent, Sound

LEMMA Reading ==
    ASSUME TypeOK
    PROVE  /\ \A d : Recent(taken, d) => d \in Chunks /\ d \in Nat
           /\ \A d \in Int : (d % SeqMod) \in WireNumbers
<1>1. SeqMod \in Nat \ {0} /\ scene.chunks \in Nat /\ taken \in 0 .. scene.chunks /\ scene \in Scenes
  BY Sizes DEF TypeOK
<1>2. \A d : Recent(taken, d) => d \in 0 .. scene.chunks - 1 /\ d \in Nat
  BY <1>1 DEF Recent
<1>3. \A d \in Int : (d % SeqMod) \in 0 .. SeqMod - 1
  BY <1>1, Division
<1> QED
  BY <1>1, <1>2, <1>3 DEF Chunks, WireNumbers

LEMMA InitHolds == Init => IInv
<1> SUFFICES ASSUME Init PROVE IInv
  OBVIOUS
<1>1. /\ SeqMod \in Nat \ {0} /\ scene.limit \in Nat /\ scene.poppers \in Nat /\ scene.chunks \in Nat
  BY Sizes DEF Init
<1>2. DOMAIN sndBuf = {} /\ DOMAIN rcvBuf = {}
  BY DEF Init, Empty
<1>3. Cardinality({}) = 0 /\ IsFiniteSet({})
  BY FS_EmptySet
<1>4. TypeOK
  BY <1>1, <1>2, <1>3 DEF Init, TypeOK, WireNumbers
<1>5. (0 % SeqMod) = 0
  <2>1. Congruent(0, 0, SeqMod)
    <3>1. PICK M \in Nat : M = SeqMod
      BY <1>1
    <3>2. 0 \in Int /\ 0 = M * 0 + 0
      OBVIOUS
    <3> QED
      BY <3>1, <3>2 DEF Congruent
  <2> QED
    BY <1>1, <2>1, Unique
<1>6. Delivered = 0
  BY DEF Init, Delivered
<1>7. NumbersSound /\ AcksTrue
  BY <1>2, <1>5 DEF Init, NumbersSound, AcksTrue
<1>8. Given /\ Ahead /\ NothingForgotten
  BY <1>2, <1>5, <1>6 DEF Init, Given, Ahead, NothingForgotten
<1>9. InFlight /\ Armed /\ Finite
  BY <1>1, <1>2, <1>3 DEF Init, InFlight, Armed, Finite
<1> QED
  BY <1>4, <1>7, <1>8, <1>9 DEF IInv

LEMMA ReadStep == IInv /\ Read /\ UNCHANGED scene => IInv'
<1> SUFFICES ASSUME IInv, Read, UNCHANGED scene PROVE IInv'
  OBVIOUS
<1>1. /\ SeqMod \in Nat \ {0} /\ Half \in Nat /\ SeqMod = 2 * Half
      /\ Window \in Nat \ {0} /\ scene.limit \in Nat \ {0} /\ scene.chunks \in Nat
      /\ taken \in Nat /\ Window + scene.limit < Half
  BY Sizes DEF IInv, TypeOK
<1>2. TypeOK /\ UNCHANGED Delivered
  BY DEF IInv, Read, Delivered, recvVars
<1>3. taken' = taken + 1 /\ taken' <= scene.chunks
  BY <1>1 DEF Read
<1>4. \A d \in Alive : Recent(taken, d) => Recent(taken', d)
  BY <1>1, <1>3, Frame DEF Read, CopiesExpire, Recent
<1>5. Recent(taken', taken) /\ taken \in Chunks
  <2>1. Recent(taken', taken)
    BY <1>1, <1>3, Frame DEF Recent
  <2> QED
    BY <2>1, <1>1, <1>3 DEF Chunks, IInv, TypeOK
<1>6. sndNxt = (taken % SeqMod) /\ sndNxt \in WireNumbers
  BY DEF IInv, NumbersSound, TypeOK
<1>7. sndNxt' = ((taken + 1) % SeqMod)
  <2>1. PICK t \in Int : t = taken
    BY <1>1
  <2>2. PICK k \in Int : k = 1
    OBVIOUS
  <2>3. (((t % SeqMod) + k) % SeqMod) = ((t + k) % SeqMod)
    BY <1>1, Successor
  <2> QED
    BY <1>6, <2>1, <2>2, <2>3 DEF Read
<1>8. /\ DOMAIN sndBuf' = DOMAIN sndBuf \cup {sndNxt}
      /\ \A sn \in DOMAIN sndBuf' :
            sndBuf'[sn] = IF sn = sndNxt THEN [data |-> taken, dispatched |-> FALSE] ELSE sndBuf[sn]
  BY DEF Read, Put
<1>9. ioPush' = [kind |-> "data", sn |-> sndNxt, data |-> taken] /\ ioPush' # None
  BY DEF Read, None
<1>10. sndNxt \notin DOMAIN sndBuf
  <2> SUFFICES ASSUME sndNxt \in DOMAIN sndBuf PROVE FALSE
    OBVIOUS
  <2>1. PICK d \in Int : d = sndBuf[sndNxt].data
    BY <1>1 DEF IInv, NumbersSound, Recent
  <2>2. Recent(taken, d) /\ sndNxt = (d % SeqMod)
    BY <2>1 DEF IInv, NumbersSound
  <2>3. PICK t \in Int : t = taken
    BY <1>1
  <2>4. (d % SeqMod) = (t % SeqMod)
    BY <2>2, <2>3, <1>6
  <2>5. d - t < SeqMod /\ t - d < SeqMod /\ d # t
    BY <2>2, <2>3, <1>1 DEF Recent
  <2> QED
    BY <1>1, <2>4, <2>5, SameNumber
<1>11. TypeOK'
  <2>1. sndNxt' \in WireNumbers
    BY <1>1, <1>7, Division DEF WireNumbers
  <2>2. ioPush' \in Packet({"data"})
    BY <1>5, <1>6, <1>9 DEF Packet
  <2>3. \A sn \in DOMAIN sndBuf' : sndBuf'[sn] \in [data : Chunks, dispatched : BOOLEAN]
    <3> SUFFICES ASSUME NEW sn \in DOMAIN sndBuf'
                 PROVE  sndBuf'[sn] \in [data : Chunks, dispatched : BOOLEAN]
      OBVIOUS
    <3>1. CASE sn = sndNxt
      <4>1. sndBuf'[sn] = [data |-> taken, dispatched |-> FALSE]
        BY <3>1, <1>8
      <4> QED
        BY <4>1, <1>5
    <3>2. CASE sn # sndNxt
      BY <3>2, <1>2, <1>8 DEF TypeOK
    <3> QED
      BY <3>1, <3>2
  <2>4. DOMAIN sndBuf' \subseteq WireNumbers /\ taken' \in 0 .. scene.chunks
    BY <1>1, <1>2, <1>3, <1>6, <1>8 DEF TypeOK
  <2>5. UNCHANGED <<queue, popped, rtxPush, nackPush, dataNet, ackNet, nackNet, rcvNxt, rcvBuf, toWrite, written>>
    BY DEF Read, recvVars, netVars
  <2> QED
    BY <1>2, <2>1, <2>2, <2>3, <2>4, <2>5, Frame DEF TypeOK
<1>12. NumbersSound'
  <2>1. \A sn \in DOMAIN sndBuf' : Recent(taken', sndBuf'[sn].data) /\ sn = (sndBuf'[sn].data % SeqMod)
    BY <1>4, <1>5, <1>6, <1>8 DEF IInv, NumbersSound, Alive
  <2>2. \A p \in queue \cup popped \cup dataNet \cup ackNet : Sound(taken', p)
    BY <1>4, Frame DEF IInv, NumbersSound, Alive, Sound
  <2>3. \A p \in {rtxPush, nackPush} : p # None => Sound(taken', p)
    BY <1>4, Frame DEF IInv, NumbersSound, Alive, Sound
  <2>4. Sound(taken', ioPush') /\ ioPush'.data = taken' - 1
    BY <1>1, <1>3, <1>5, <1>6, <1>9, Frame DEF Sound
  <2>5. UNCHANGED <<queue, popped, rtxPush, nackPush, dataNet, ackNet>>
    BY DEF Read, netVars
  <2> QED
    BY <1>3, <1>7, <2>1, <2>2, <2>3, <2>4, <2>5, Frame DEF NumbersSound, Sound, Recent
<1>13. Given' /\ Ahead' /\ AcksTrue'
  <2>1. Delivered \in Nat
    BY Lead
  <2> QED
    BY <1>1, <1>2, <1>3, <2>1, Frame DEF IInv, Given, Ahead, AcksTrue, Received, Read, recvVars, netVars
<1>14. NothingForgotten'
  <2> SUFFICES ASSUME NEW d \in 0 .. taken' - 1
               PROVE  \/ d < Delivered'
                      \/ \E sn \in DOMAIN sndBuf' : sndBuf'[sn].data = d
                      \/ \E sn \in DOMAIN rcvBuf' : rcvBuf'[sn] = d
    BY DEF NothingForgotten
  <2>1. CASE d = taken
    BY <2>1, <1>8
  <2>2. CASE d # taken
    <3>1. d \in 0 .. taken - 1
      BY <2>2, <1>1, <1>3
    <3> QED
      BY <3>1, <1>2, <1>8, <1>10 DEF IInv, NothingForgotten, Read, recvVars
  <2> QED
    BY <2>1, <2>2
<1>15. InFlight'
  <2>1. IsFiniteSet(DOMAIN sndBuf)
    BY <1>2, Domains
  <2>2. Cardinality(DOMAIN sndBuf') = Cardinality(DOMAIN sndBuf) + 1 /\ Cardinality(DOMAIN sndBuf) \in Nat
    BY <1>8, <1>10, <2>1, FS_AddElement, FS_CardinalityType
  <2> QED
    BY <1>1, <2>2 DEF InFlight, Read, HasRoom
<1>16. Armed'
  <2>1. \A p \in queue \cup popped \cup {rtxPush} : p \in queue' \cup popped' \cup {ioPush', rtxPush'}
    BY DEF Read
  <2>2. ioPush = None
    BY DEF Read
  <2> QED
    BY <1>8, <1>9, <2>1, <2>2 DEF IInv, Armed
<1> QED
  BY <1>11, <1>12, <1>13, <1>14, <1>15, <1>16 DEF IInv, Finite, Read

(* What the steps between reading a chunk and its acknowledgement have in  *)
(* common: chunks move between the sender's places and into the network,   *)
(* none changes its number and none is added or removed from sndBuf.       *)
Copy(p) ==
    /\ p.sn \in DOMAIN sndBuf /\ p.data = sndBuf[p.sn].data
    /\ p \in Packet({"data", "resend"})

Moves ==
    /\ UNCHANGED <<scene, taken, sndNxt, recvVars, ackNet, nackNet>>
    /\ DOMAIN sndBuf' = DOMAIN sndBuf
    /\ \A sn \in DOMAIN sndBuf :
          /\ sndBuf'[sn].data = sndBuf[sn].data
          /\ sndBuf'[sn] \in [data : Chunks, dispatched : BOOLEAN]
    /\ ioPush' \in {ioPush, None}
    /\ rtxPush' \in Packet({"data", "resend"}) \cup {None}
    /\ nackPush' \in Packet({"resend"}) \cup {None}
    /\ \A p \in {rtxPush', nackPush'} : p = None \/ p \in {rtxPush, nackPush} \/ Copy(p)
    /\ queue' \subseteq queue \cup ({ioPush, rtxPush, nackPush} \ {None})
    /\ popped' \subseteq popped \cup queue
    /\ IsFiniteSet(popped') /\ Cardinality(popped') <= scene.poppers
    /\ \A m \in dataNet' \ dataNet :
          \E p \in popped : m = [sn |-> p.sn, data |-> p.data]

LEMMA MovesStep == IInv /\ Moves /\ Armed' => IInv'
<1> SUFFICES ASSUME IInv, Moves, Armed' PROVE IInv'
  OBVIOUS
<1>1. UNCHANGED <<scene, taken, sndNxt, rcvNxt, rcvBuf, toWrite, written, ackNet, nackNet>>
  BY DEF Moves, recvVars
<1>2. TypeOK /\ NumbersSound
  BY DEF IInv
<1>3. queue' \subseteq Packet({"data", "resend"}) /\ popped' \subseteq Packet({"data", "resend"})
  BY <1>2 DEF Moves, TypeOK, Packet
<1>4. dataNet' \subseteq [sn : WireNumbers, data : Chunks]
  BY <1>2 DEF Moves, TypeOK, Packet
<1>5. TypeOK'
  BY <1>1, <1>2, <1>3, <1>4, Frame DEF Moves, TypeOK
<1>6. \A p : Copy(p) => Sound(taken, p)
  BY <1>2 DEF Copy, NumbersSound, Sound
<1>7. \A p \in queue' \cup popped' \cup dataNet' \cup ackNet' : Sound(taken, p)
  <2>1. \A p \in queue' : Sound(taken, p)
    BY <1>2 DEF Moves, NumbersSound
  <2>2. \A p \in popped' : Sound(taken, p)
    BY <1>2 DEF Moves, NumbersSound
  <2>3. \A p \in dataNet' : Sound(taken, p)
    <3> SUFFICES ASSUME NEW m \in dataNet', m \notin dataNet PROVE Sound(taken, m)
      BY <1>2 DEF NumbersSound
    <3>1. PICK p \in popped : m = [sn |-> p.sn, data |-> p.data]
      BY DEF Moves
    <3> QED
      BY <1>2, <3>1 DEF NumbersSound, Sound
  <2> QED
    BY <1>1, <1>2, <2>1, <2>2, <2>3 DEF NumbersSound
<1>8. \A p \in {ioPush', rtxPush', nackPush'} : p # None => Sound(taken, p)
  BY <1>2, <1>6 DEF Moves, NumbersSound
<1>9. \A sn \in DOMAIN sndBuf' : Recent(taken, sndBuf'[sn].data) /\ sn = (sndBuf'[sn].data % SeqMod)
  BY <1>2 DEF Moves, NumbersSound
<1>10. NumbersSound'
  BY <1>1, <1>2, <1>7, <1>8, <1>9, Frame DEF Moves, NumbersSound, Sound, Recent
<1>11. UNCHANGED Delivered
  BY <1>1 DEF Delivered
<1>12. Given' /\ Ahead' /\ AcksTrue'
  BY <1>1, <1>11, Frame DEF IInv, Given, Ahead, AcksTrue, Received
<1>13. NothingForgotten'
  BY <1>1, <1>11 DEF IInv, NothingForgotten, Moves
<1>14. InFlight' /\ Finite'
  BY <1>1 DEF IInv, InFlight, Finite, Moves
<1> QED
  BY <1>5, <1>10, <1>12, <1>13, <1>14 DEF IInv

(* Setting the dispatched flag of an item. *)
LEMMA Marked ==
    ASSUME TypeOK, NEW k \in DOMAIN sndBuf, NEW b \in BOOLEAN,
           sndBuf' = [sndBuf EXCEPT ![k].dispatched = b]
    PROVE  /\ DOMAIN sndBuf' = DOMAIN sndBuf
           /\ \A sn \in DOMAIN sndBuf :
                 /\ sndBuf'[sn].data = sndBuf[sn].data
                 /\ sndBuf'[sn] \in [data : Chunks, dispatched : BOOLEAN]
           /\ \A sn \in DOMAIN sndBuf : sn # k => sndBuf'[sn] = sndBuf[sn]
           /\ sndBuf'[k].dispatched = b
<1>1. DOMAIN sndBuf' = DOMAIN sndBuf
  OBVIOUS
<1>2. \A sn \in DOMAIN sndBuf : sn # k => sndBuf'[sn] = sndBuf[sn]
  OBVIOUS
<1>3. sndBuf'[k] = [sndBuf[k] EXCEPT !.dispatched = b]
  OBVIOUS
<1>4. \A sn \in DOMAIN sndBuf : sndBuf[sn] \in [data : Chunks, dispatched : BOOLEAN]
  BY DEF TypeOK
<1>5. /\ sndBuf'[k] \in [data : Chunks, dispatched : BOOLEAN]
      /\ sndBuf'[k].data = sndBuf[k].data /\ sndBuf'[k].dispatched = b
  BY <1>3, <1>4
<1> QED
  BY <1>1, <1>2, <1>4, <1>5

LEMMA Kept ==
    ASSUME TypeOK, UNCHANGED sndBuf
    PROVE  /\ DOMAIN sndBuf' = DOMAIN sndBuf
           /\ \A sn \in DOMAIN sndBuf :
                 /\ sndBuf'[sn].data = sndBuf[sn].data
                 /\ sndBuf'[sn] \in [data : Chunks, dispatched : BOOLEAN]
BY DEF TypeOK

LEMMA PushReadStep == IInv /\ PushRead /\ UNCHANGED scene => IInv'
<1> SUFFICES ASSUME IInv, PushRead, UNCHANGED scene PROVE IInv'
  OBVIOUS
<1>1. TypeOK
  BY DEF IInv
<1>2. UNCHANGED <<scene, taken, sndNxt, rtxPush, nackPush, popped, recvVars, dataNet, ackNet, nackNet>>
  BY DEF PushRead, netVars
<1>3. IsFiniteSet(popped) /\ Cardinality(popped) <= scene.poppers
      /\ rtxPush \in Packet({"data", "resend"}) \cup {None} /\ nackPush \in Packet({"resend"}) \cup {None}
  BY DEF IInv, Finite, TypeOK
<1>4. CASE Refused(ioPush) /\ ioPush.sn \in DOMAIN sndBuf
  <2>1. sndBuf' = [sndBuf EXCEPT ![ioPush.sn].dispatched = TRUE] /\ UNCHANGED queue /\ ioPush' = None
    BY <1>4 DEF PushRead, MarkDispatched
  <2>2. Moves
    BY <1>1, <1>2, <1>3, <1>4, <2>1, Marked DEF Moves
  <2>3. Armed'
    BY <1>1, <1>2, <1>4, <2>1, Marked DEF Armed, IInv
  <2> QED
    BY <2>2, <2>3, MovesStep
<1>5. CASE Refused(ioPush) /\ ioPush.sn \notin DOMAIN sndBuf
  <2>1. UNCHANGED <<sndBuf, queue>> /\ ioPush' = None
    BY <1>5 DEF PushRead
  <2>2. Moves
    BY <1>1, <1>2, <1>3, <2>1, Kept DEF Moves
  <2>3. Armed'
    BY <1>2, <1>5, <2>1 DEF Armed, IInv
  <2> QED
    BY <2>2, <2>3, MovesStep
<1>6. CASE ~Refused(ioPush)
  <2>1. UNCHANGED sndBuf /\ ioPush' = None /\ ioPush # None /\ queue' = Pushed(ioPush)
    BY <1>6 DEF PushRead
  <2>2. ioPush.kind = "data"
    BY <1>1, <2>1 DEF TypeOK, Packet
  <2>3. queue' = queue \cup {ioPush}
    BY <2>1, <2>2 DEF Pushed
  <2>4. Moves
    BY <1>1, <1>2, <1>3, <2>1, <2>3, Kept DEF Moves
  <2>5. Armed'
    BY <1>2, <2>1, <2>3 DEF Armed, IInv
  <2> QED
    BY <2>4, <2>5, MovesStep
<1> QED
  BY <1>4, <1>5, <1>6

LEMMA RetransmitStep ==
    ASSUME IInv, NEW k \in DOMAIN sndBuf, Retransmit(k), UNCHANGED scene PROVE IInv'
<1>1. TypeOK
  BY DEF IInv
<1>2. UNCHANGED <<scene, taken, sndNxt, queue, ioPush, nackPush, popped, recvVars, dataNet, ackNet, nackNet>>
  BY DEF Retransmit, netVars
<1>3. IsFiniteSet(popped) /\ Cardinality(popped) <= scene.poppers
      /\ nackPush \in Packet({"resend"}) \cup {None}
  BY DEF IInv, Finite, TypeOK
<1>4. sndBuf' = [sndBuf EXCEPT ![k].dispatched = FALSE]
  BY DEF Retransmit
<1>5. PICK kind \in {"data", "resend"} : rtxPush' = [kind |-> kind, sn |-> k, data |-> sndBuf[k].data]
  BY DEF Retransmit
<1>6. rtxPush' \in Packet({"data", "resend"}) /\ Copy(rtxPush') /\ rtxPush' # None
  BY <1>1, <1>5 DEF Packet, Copy, TypeOK, None
<1>7. Moves
  BY <1>1, <1>2, <1>3, <1>4, <1>6, Marked DEF Moves
<1>8. Armed'
  <2> SUFFICES ASSUME NEW sn \in DOMAIN sndBuf, ~sndBuf'[sn].dispatched
               PROVE  \E p \in queue' \cup popped' \cup {ioPush', rtxPush'} : p # None /\ p.sn = sn
    BY <1>1, <1>4, Marked DEF Armed
  <2>1. CASE sn = k
    BY <2>1, <1>5, <1>6
  <2>2. CASE sn # k
    <3>1. ~sndBuf[sn].dispatched
      BY <2>2, <1>1, <1>4, Marked
    <3>2. PICK p \in queue \cup popped \cup {ioPush, rtxPush} : p # None /\ p.sn = sn
      BY <3>1 DEF IInv, Armed
    <3>3. rtxPush = None
      BY DEF Retransmit
    <3> QED
      BY <1>2, <3>2, <3>3
  <2> QED
    BY <2>1, <2>2
<1> QED
  BY <1>7, <1>8, MovesStep

(* The number of a refused retry names the chunk the retry is of, if it    *)
(* still names one: the test that Restored makes of the payload holds.     *)
LEMMA RetryNames ==
    ASSUME IInv, rtxPush # None, rtxPush.sn \in DOMAIN sndBuf
    PROVE  sndBuf[rtxPush.sn].data = rtxPush.data
<1>1. SeqMod \in Nat \ {0} /\ Half \in Nat /\ SeqMod = 2 * Half /\ Half > 0 /\ taken \in Nat
  BY Sizes DEF IInv, TypeOK
<1>2. PICK a \in Int : a = sndBuf[rtxPush.sn].data
  BY <1>1 DEF IInv, NumbersSound, Recent
<1>3. PICK b \in Int : b = rtxPush.data
  BY <1>1 DEF IInv, NumbersSound, Sound, Recent
<1>4. Recent(taken, a) /\ Recent(taken, b) /\ (a % SeqMod) = (b % SeqMod)
  BY <1>2, <1>3 DEF IInv, NumbersSound, Sound
<1>5. a - b < SeqMod /\ b - a < SeqMod
  BY <1>1, <1>4 DEF Recent
<1> QED
  BY <1>1, <1>2, <1>3, <1>4, <1>5, SameNumber

LEMMA PushRetransmitStep == IInv /\ PushRetransmit /\ UNCHANGED scene => IInv'
<1> SUFFICES ASSUME IInv, PushRetransmit, UNCHANGED scene PROVE IInv'
  OBVIOUS
<1>1. TypeOK
  BY DEF IInv
<1>2. UNCHANGED <<scene, taken, sndNxt, ioPush, nackPush, popped, recvVars, dataNet, ackNet, nackNet>>
      /\ rtxPush # None /\ rtxPush' = None
  BY DEF PushRetransmit, netVars
<1>3. IsFiniteSet(popped) /\ Cardinality(popped) <= scene.poppers
      /\ nackPush \in Packet({"resend"}) \cup {None}
  BY DEF IInv, Finite, TypeOK
<1>4. CASE Refused(rtxPush) /\ rtxPush.sn \in DOMAIN sndBuf
  <2>1. sndBuf' = [sndBuf EXCEPT ![rtxPush.sn].dispatched = TRUE] /\ UNCHANGED queue
    BY <1>2, <1>4, RetryNames DEF PushRetransmit, Restored, MarkDispatched
  <2>2. Moves
    BY <1>1, <1>2, <1>3, <1>4, <2>1, Marked DEF Moves
  <2>3. Armed'
    BY <1>1, <1>2, <1>4, <2>1, Marked DEF Armed, IInv
  <2> QED
    BY <2>2, <2>3, MovesStep
<1>5. CASE Refused(rtxPush) /\ rtxPush.sn \notin DOMAIN sndBuf
  <2>1. UNCHANGED <<sndBuf, queue>>
    BY <1>5 DEF PushRetransmit, Restored
  <2>2. Moves
    BY <1>1, <1>2, <1>3, <2>1, Kept DEF Moves
  <2>3. Armed'
    BY <1>2, <1>5, <2>1 DEF Armed, IInv
  <2> QED
    BY <2>2, <2>3, MovesStep
<1>6. CASE ~Refused(rtxPush)
  <2>1. UNCHANGED sndBuf /\ queue' = Pushed(rtxPush)
    BY <1>6 DEF PushRetransmit
  <2>2. Moves
    BY <1>1, <1>2, <1>3, <2>1, Kept DEF Moves, Pushed
  <2>3. \A p \in queue : \E q \in queue' : p.sn = q.sn /\ (q = p \/ q = rtxPush)
    BY <2>1 DEF Pushed
  <2>4. None \notin queue
    BY <1>1 DEF TypeOK, Packet, None
  <2>5. Armed'
    <3> SUFFICES ASSUME NEW sn \in DOMAIN sndBuf, ~sndBuf[sn].dispatched
                 PROVE  \E p \in queue' \cup popped' \cup {ioPush', rtxPush'} : p # None /\ p.sn = sn
      BY <2>1 DEF Armed
    <3>1. PICK p \in queue \cup popped \cup {ioPush, rtxPush} : p # None /\ p.sn = sn
      BY DEF IInv, Armed
    <3>2. rtxPush \in queue'
      BY <2>1 DEF Pushed
    <3> QED
      BY <1>2, <2>3, <2>4, <3>1, <3>2
  <2> QED
    BY <2>2, <2>5, MovesStep
<1> QED
  BY <1>4, <1>5, <1>6

LEMMA ReceiveNackStep == IInv /\ ReceiveNack /\ UNCHANGED scene => IInv'
<1> SUFFICES ASSUME IInv, ReceiveNack, UNCHANGED scene PROVE IInv'
  OBVIOUS
<1>1. TypeOK
  BY DEF IInv
<1>2. UNCHANGED <<scene, taken, sndNxt, sndBuf, queue, ioPush, rtxPush, popped, recvVars, dataNet, ackNet, nackNet>>
  BY DEF ReceiveNack, netVars
<1>3. PICK k \in DOMAIN sndBuf : nackPush' = [kind |-> "resend", sn |-> k, data |-> sndBuf[k].data]
  BY DEF ReceiveNack
<1>4. nackPush' \in Packet({"resend"}) /\ Copy(nackPush')
  BY <1>1, <1>3 DEF Packet, Copy, TypeOK
<1>5. Moves
  BY <1>1, <1>2, <1>4, Kept DEF Moves, IInv, Finite, TypeOK
<1>6. Armed'
  BY <1>2 DEF IInv, Armed
<1> QED
  BY <1>5, <1>6, MovesStep

LEMMA PushResendStep == IInv /\ PushResend /\ UNCHANGED scene => IInv'
<1> SUFFICES ASSUME IInv, PushResend, UNCHANGED scene PROVE IInv'
  OBVIOUS
<1>1. TypeOK
  BY DEF IInv
<1>2. UNCHANGED <<scene, taken, sndNxt, sndBuf, ioPush, rtxPush, popped, recvVars, dataNet, ackNet, nackNet>>
      /\ nackPush # None /\ nackPush' = None
  BY DEF PushResend, netVars
<1>3. queue' = queue \/ queue' = Pushed(nackPush)
  BY DEF PushResend
<1>4. queue' \subseteq queue \cup {nackPush}
  BY <1>3 DEF Pushed
<1>5. Moves
  BY <1>1, <1>2, <1>4, Kept DEF Moves, IInv, Finite, TypeOK
<1>6. Armed'
  <2>1. \A p \in queue : \E q \in queue' : p.sn = q.sn /\ (q = p \/ q = nackPush)
    BY <1>3 DEF Pushed
  <2> QED
    BY <1>2, <2>1 DEF IInv, Armed
<1> QED
  BY <1>5, <1>6, MovesStep

LEMMA PopStep ==
    ASSUME IInv, NEW p \in queue, Pop(p), UNCHANGED scene PROVE IInv'
<1>1. TypeOK
  BY DEF IInv
<1>2. UNCHANGED <<scene, taken, sndNxt, sndBuf, ioPush, rtxPush, nackPush, recvVars, dataNet, ackNet, nackNet>>
      /\ queue' = queue \ {p} /\ popped' = popped \cup {p} /\ Cardinality(popped) < scene.poppers
  BY DEF Pop, netVars
<1>3. IsFiniteSet(popped') /\ Cardinality(popped') <= scene.poppers
  <2>1. IsFiniteSet(popped) /\ Cardinality(popped) \in Nat /\ scene.poppers \in Nat
    BY Sizes, FS_CardinalityType DEF IInv, Finite, TypeOK
  <2>2. IsFiniteSet(popped') /\ Cardinality(popped') \in {Cardinality(popped), Cardinality(popped) + 1}
    BY <1>2, <2>1, FS_AddElement
  <2> QED
    BY <1>2, <2>1, <2>2
<1>4. Moves
  BY <1>1, <1>2, <1>3, Kept DEF Moves, TypeOK
<1>5. Armed'
  BY <1>2 DEF IInv, Armed
<1> QED
  BY <1>4, <1>5, MovesStep

LEMMA TransmitStep ==
    ASSUME IInv, NEW p \in popped, Transmit(p), UNCHANGED scene PROVE IInv'
<1>1. TypeOK
  BY DEF IInv
<1>2. UNCHANGED <<scene, taken, sndNxt, queue, ioPush, rtxPush, nackPush, recvVars, ackNet, nackNet>>
      /\ popped' = popped \ {p}
  BY DEF Transmit
<1>3. IsFiniteSet(popped') /\ Cardinality(popped') <= scene.poppers
  <2>1. IsFiniteSet(popped) /\ Cardinality(popped) \in Nat /\ scene.poppers \in Nat
        /\ Cardinality(popped) <= scene.poppers
    BY Sizes, FS_CardinalityType DEF IInv, Finite, TypeOK
  <2> QED
    BY <1>2, <2>1, FS_RemoveElement
<1>4. CASE p.sn \in DOMAIN sndBuf
  <2>1. sndBuf' = [sndBuf EXCEPT ![p.sn].dispatched = TRUE]
        /\ dataNet' = dataNet \cup {[sn |-> p.sn, data |-> p.data]}
    BY <1>4 DEF Transmit, Noted, MarkDispatched
  <2>2. Moves
    BY <1>1, <1>2, <1>3, <1>4, <2>1, Marked DEF Moves, TypeOK
  <2>3. Armed'
    BY <1>1, <1>2, <1>4, <2>1, Marked DEF IInv, Armed
  <2> QED
    BY <2>2, <2>3, MovesStep
<1>5. CASE p.sn \notin DOMAIN sndBuf
  <2>1. UNCHANGED <<sndBuf, dataNet>>
    BY <1>5 DEF Transmit, Noted
  <2>2. Moves
    BY <1>1, <1>2, <1>3, <2>1, Kept DEF Moves, TypeOK
  <2>3. Armed'
    BY <1>2, <1>5, <2>1 DEF IInv, Armed
  <2> QED
    BY <2>2, <2>3, MovesStep
<1> QED
  BY <1>4, <1>5

(* An ACK for a number that still names an item names that item's chunk,   *)
(* which the receiver has.                                                 *)
LEMMA ReceiveAckStep ==
    ASSUME IInv, NEW m \in ackNet, ReceiveAck(m), UNCHANGED scene PROVE IInv'
<1>1. TypeOK /\ NumbersSound
  BY DEF IInv
<1>2. SeqMod \in Nat \ {0} /\ Half \in Nat /\ SeqMod = 2 * Half /\ Half > 0 /\ taken \in Nat
      /\ scene.limit \in Nat
  BY Sizes DEF IInv, TypeOK
<1>3. UNCHANGED <<scene, taken, sndNxt, ioPush, rtxPush, nackPush, popped, rcvNxt, rcvBuf, toWrite,
                  written, dataNet, ackNet, nackNet>>
      /\ m.sn \in DOMAIN sndBuf /\ queue' \subseteq queue
      /\ \A p \in queue : p.sn # m.sn => p \in queue'
  BY DEF ReceiveAck, netVars, recvVars
<1>4. /\ DOMAIN sndBuf' = DOMAIN sndBuf \ {m.sn}
      /\ \A sn \in DOMAIN sndBuf' : sndBuf'[sn] = sndBuf[sn]
  BY DEF ReceiveAck, Del, Restrict
<1>5. sndBuf[m.sn].data = m.data
  <2>1. PICK a \in Int : a = sndBuf[m.sn].data
    BY <1>1, <1>2, <1>3 DEF NumbersSound, Recent
  <2>2. PICK b \in Int : b = m.data
    BY <1>1, <1>2 DEF NumbersSound, Sound, Recent
  <2>3. Recent(taken, a) /\ Recent(taken, b) /\ (a % SeqMod) = (b % SeqMod)
    BY <1>1, <1>3, <2>1, <2>2 DEF NumbersSound, Sound
  <2>4. a - b < SeqMod /\ b - a < SeqMod
    BY <1>2, <2>3 DEF Recent
  <2> QED
    BY <1>2, <2>1, <2>2, <2>3, <2>4, SameNumber
<1>6. UNCHANGED Delivered
  BY <1>3 DEF Delivered
<1>7. TypeOK'
  BY <1>1, <1>3, <1>4, Frame DEF TypeOK
<1>8. NumbersSound'
  BY <1>1, <1>3, <1>4, Frame DEF NumbersSound, Sound, Recent
<1>9. Given' /\ Ahead' /\ AcksTrue'
  BY <1>3, <1>6, Frame DEF IInv, Given, Ahead, AcksTrue, Received
<1>10. NothingForgotten'
  <2>1. Received(m.data)
    BY DEF IInv, AcksTrue
  <2>2. ASSUME NEW d \in 0 .. taken - 1, NEW sn \in DOMAIN sndBuf, sndBuf[sn].data = d
        PROVE  Received(d) \/ \E k \in DOMAIN sndBuf' : sndBuf'[k].data = d
    <3>1. CASE sn = m.sn
      BY <3>1, <2>1, <2>2, <1>5
    <3>2. CASE sn # m.sn
      BY <3>2, <2>2, <1>4
    <3> QED
      BY <3>1, <3>2
  <2> QED
    BY <1>3, <1>6, <2>2 DEF IInv, NothingForgotten, Received
<1>11. InFlight'
  <2>1. IsFiniteSet(DOMAIN sndBuf) /\ Cardinality(DOMAIN sndBuf) \in Nat
    BY <1>1, Domains, FS_CardinalityType
  <2>2. Cardinality(DOMAIN sndBuf') = Cardinality(DOMAIN sndBuf) - 1
    BY <1>3, <1>4, <2>1, FS_RemoveElement
  <2> QED
    BY <1>2, <1>3, <2>1, <2>2 DEF IInv, InFlight
<1>12. Armed'
  BY <1>3, <1>4 DEF IInv, Armed
<1> QED
  BY <1>3, <1>7, <1>8, <1>9, <1>10, <1>11, <1>12 DEF IInv, Finite

(* The receiver tells a new chunk from an old one: no copy is older than   *)
(* half of the number space, and no chunk is that far ahead.               *)
LEMMA ToldApart ==
    ASSUME IInv, NEW d, Recent(taken, d)
    PROVE  /\ Old(d % SeqMod) <=> d < Delivered
           /\ d >= Delivered => Distance(d % SeqMod) = d - Delivered
<1>1. /\ SeqMod \in Nat \ {0} /\ Half \in Nat /\ SeqMod = 2 * Half
      /\ Window \in Nat \ {0} /\ scene.limit \in Nat \ {0} /\ Window + scene.limit < Half
  BY Sizes DEF IInv, TypeOK
<1>2. taken \in Nat /\ Delivered \in Nat /\ taken - Delivered <= Window + 1 + scene.limit
      /\ Delivered <= taken /\ rcvNxt = (Delivered % SeqMod)
  BY Lead DEF LeadBounded, IInv, Given
<1>3. PICK e \in Int : e = Delivered
  BY <1>2
<1>4. PICK x \in Int : x = d
  BY <1>2 DEF Recent
<1>5. x \in Nat /\ x < taken /\ taken - x <= Half
  BY <1>2, <1>4 DEF Recent
<1>6. x - e < Half /\ e - x <= Half
  BY <1>1, <1>2, <1>3, <1>5
<1>7. (((x % SeqMod) - (e % SeqMod)) % SeqMod) = IF x >= e THEN x - e ELSE x - e + SeqMod
  <2>1. x - e < SeqMod /\ e - x <= SeqMod
    BY <1>1, <1>6
  <2> QED
    BY <1>1, <2>1, DistanceOf
<1>8. Distance(x % SeqMod) = IF x >= e THEN x - e ELSE x - e + SeqMod
  BY <1>2, <1>3, <1>7 DEF Distance
<1> QED
  BY <1>1, <1>3, <1>4, <1>6, <1>8 DEF Old

LEMMA BufferedIs ==
    ASSUME IInv, NEW sn \in DOMAIN rcvBuf, NEW d \in Int, sn = (d % SeqMod),
           d >= Delivered, d - Delivered < SeqMod
    PROVE  rcvBuf[sn] = d
<1>1. /\ SeqMod \in Nat \ {0} /\ Half \in Nat /\ SeqMod = 2 * Half
      /\ Window \in Nat \ {0} /\ scene.limit \in Nat \ {0} /\ Window + scene.limit < Half
  BY Sizes DEF IInv, TypeOK
<1>2. Delivered \in Nat
  BY Lead
<1>3. PICK a \in Int : a = rcvBuf[sn]
  BY <1>1, <1>2 DEF IInv, Ahead
<1>4. a \in Delivered .. Delivered + Window /\ (a % SeqMod) = (d % SeqMod)
  BY <1>3 DEF IInv, Ahead
<1>5. a - d < SeqMod /\ d - a < SeqMod
  BY <1>1, <1>2, <1>4
<1> QED
  BY <1>1, <1>3, <1>4, <1>5, SameNumber

LEMMA ReceiveDataStep ==
    ASSUME IInv, NEW m \in dataNet, ReceiveData(m), UNCHANGED scene PROVE IInv'
<1>1. TypeOK /\ NumbersSound
  BY DEF IInv
<1>2. /\ SeqMod \in Nat \ {0} /\ Half \in Nat /\ SeqMod = 2 * Half
      /\ Window \in Nat \ {0} /\ scene.limit \in Nat \ {0} /\ Window + scene.limit < Half
  BY <1>1, Sizes DEF TypeOK
<1>3. taken \in Nat /\ Delivered \in Nat
  BY Lead
<1>4. UNCHANGED <<scene, taken, sndNxt, sndBuf, queue, ioPush, rtxPush, nackPush, popped, rcvNxt,
                  toWrite, written, dataNet>>
  BY DEF ReceiveData, sendVars
<1>5. UNCHANGED Delivered
  BY <1>4 DEF Delivered
<1>6. Recent(taken, m.data) /\ m.sn = (m.data % SeqMod) /\ m.data \in Nat /\ m.data \in Chunks
      /\ m.sn \in WireNumbers
  BY <1>1, <1>3, Reading DEF NumbersSound, Sound, Recent
<1>7. Old(m.sn) <=> m.data < Delivered
  BY <1>6, ToldApart
<1>8. m.data >= Delivered => Distance(m.sn) = m.data - Delivered
  BY <1>6, ToldApart
<1>9. \/ rcvBuf' = rcvBuf
      \/ /\ rcvBuf' = Put(rcvBuf, m.sn, m.data) /\ m.sn \notin DOMAIN rcvBuf
         /\ m.data \in Delivered .. Delivered + Window /\ ~Dropped(m.sn)
  BY <1>2, <1>3, <1>6, <1>7, <1>8 DEF ReceiveData, Buffered, Dropped, Beyond
<1>10. Ahead' /\ DOMAIN rcvBuf' \subseteq WireNumbers
       /\ (\A sn \in DOMAIN rcvBuf' : rcvBuf'[sn] \in Chunks)
       /\ (\A sn \in DOMAIN rcvBuf : sn \in DOMAIN rcvBuf' /\ rcvBuf'[sn] = rcvBuf[sn])
  <2>1. CASE rcvBuf' = rcvBuf
    BY <1>1, <1>4, <1>5, <2>1, Frame DEF IInv, Ahead, TypeOK
  <2>2. CASE /\ rcvBuf' = Put(rcvBuf, m.sn, m.data) /\ m.sn \notin DOMAIN rcvBuf
             /\ m.data \in Delivered .. Delivered + Window
    <3>1. DOMAIN rcvBuf' = DOMAIN rcvBuf \cup {m.sn} /\ rcvBuf'[m.sn] = m.data
          /\ \A sn \in DOMAIN rcvBuf : rcvBuf'[sn] = rcvBuf[sn]
      BY <2>2 DEF Put
    <3>2. m.data < taken
      BY <1>3, <1>6 DEF Recent
    <3> QED
      BY <1>1, <1>4, <1>5, <1>6, <2>2, <3>1, <3>2, Frame DEF IInv, Ahead, TypeOK
  <2> QED
    BY <1>9, <2>1, <2>2
<1>11. ackNet' = ackNet \cup Acked(m) /\ (m \in Acked(m) => ~Dropped(m.sn)) /\ Acked(m) \subseteq {m}
  BY DEF ReceiveData, Acked
<1>12. nackNet' \subseteq WireNumbers
  BY <1>1 DEF ReceiveData, Nacked, Missing, TypeOK, WireNumbers
<1>13. TypeOK'
  BY <1>1, <1>4, <1>10, <1>11, <1>12, Frame DEF TypeOK
<1>14. NumbersSound'
  BY <1>1, <1>4, <1>11, Frame DEF NumbersSound, Sound, Recent
<1>15. \A d : Received(d) => Received(d)'
  BY <1>5, <1>10 DEF Received
<1>16. ~Dropped(m.sn) => (m.data < Delivered' \/ \E sn \in DOMAIN rcvBuf' : rcvBuf'[sn] = m.data)
  <2> SUFFICES ASSUME ~Dropped(m.sn), m.data >= Delivered
               PROVE  \E sn \in DOMAIN rcvBuf' : rcvBuf'[sn] = m.data
    BY <1>3, <1>5, <1>6
  <2>1. CASE m.sn \in DOMAIN rcvBuf
    <3>1. m.data - Delivered < SeqMod
      BY <1>2, <1>3, <1>6, <1>7, <1>8 DEF Old
    <3>2. rcvBuf[m.sn] = m.data
      BY <1>6, <2>1, <3>1, BufferedIs
    <3> QED
      BY <1>10, <2>1, <3>2
  <2>2. CASE m.sn \notin DOMAIN rcvBuf
    <3>1. ~Old(m.sn)
      BY <1>3, <1>6, <1>7
    <3>2. rcvBuf' = Put(rcvBuf, m.sn, m.data)
      BY <2>2, <3>1 DEF ReceiveData, Buffered
    <3> QED
      BY <3>2 DEF Put
  <2> QED
    BY <2>1, <2>2
<1>17. AcksTrue'
  <2> SUFFICES ASSUME NEW a \in ackNet'
               PROVE  a.data < Delivered' \/ \E sn \in DOMAIN rcvBuf' : rcvBuf'[sn] = a.data
    BY DEF AcksTrue, Received
  <2>1. CASE a \in ackNet
    BY <1>5, <1>10, <2>1 DEF IInv, AcksTrue, Received
  <2>2. CASE a \notin ackNet
    BY <1>11, <1>16, <2>2
  <2> QED
    BY <2>1, <2>2
<1>18. NothingForgotten'
  BY <1>4, <1>5, <1>10 DEF IInv, NothingForgotten
<1>19. Given' /\ InFlight' /\ Armed' /\ Finite'
  BY <1>4, <1>5, Frame DEF IInv, Given, InFlight, Armed, Finite
<1> QED
  BY <1>10, <1>13, <1>14, <1>17, <1>18, <1>19 DEF IInv

LEMMA FlushStep == IInv /\ Flush /\ UNCHANGED scene => IInv'
<1> SUFFICES ASSUME IInv, Flush, UNCHANGED scene PROVE IInv'
  OBVIOUS
<1>1. TypeOK /\ Ahead /\ Given
  BY DEF IInv
<1>2. /\ SeqMod \in Nat \ {0} /\ Half \in Nat /\ SeqMod = 2 * Half
      /\ Window \in Nat \ {0} /\ scene.limit \in Nat \ {0} /\ Window + scene.limit < Half
  BY <1>1, Sizes DEF TypeOK
<1>3. taken \in Nat /\ Delivered \in Nat /\ Len(written) \in Nat /\ written \in Seq(Chunks)
  BY <1>1, Lead DEF TypeOK
<1>4. toWrite = << >> /\ Delivered = Len(written)
  BY <1>3 DEF Flush, Delivered
<1>5. PICK n \in 1 .. Cardinality(DOMAIN rcvBuf) :
          /\ Run(n)
          /\ toWrite' = [k \in 1 .. n |-> rcvBuf[(rcvNxt + k - 1) % SeqMod]]
          /\ rcvBuf' = Restrict(rcvBuf, DOMAIN rcvBuf \ {(rcvNxt + k) % SeqMod : k \in 0 .. n - 1})
          /\ rcvNxt' = FlushTo(n)
  BY DEF Flush
<1>6. n \in Nat \ {0} /\ n <= SeqMod
  <2>1. IsFiniteSet(DOMAIN rcvBuf) /\ Cardinality(DOMAIN rcvBuf) \in Nat
    BY <1>1, Domains, FS_CardinalityType
  <2>2. PICK z \in Int, b \in Int : z = 0 /\ b = SeqMod - 1
    <3>1. 0 \in Int /\ SeqMod - 1 \in Int
      BY <1>2
    <3> QED
      BY <3>1
  <2>3. IsFiniteSet(z .. b) /\ Cardinality(z .. b) = SeqMod
    <3>1. IsFiniteSet(z .. b) /\ Cardinality(z .. b) = IF z > b THEN 0 ELSE b - z + 1
      BY Interval
    <3> QED
      BY <1>2, <2>2, <3>1
  <2>4. DOMAIN rcvBuf \in SUBSET (z .. b)
    BY <1>1, <2>2 DEF TypeOK, WireNumbers
  <2>5. Cardinality(DOMAIN rcvBuf) <= Cardinality(z .. b)
    BY <2>3, <2>4, FS_Subset
  <2> QED
    BY <1>2, <2>1, <2>3, <2>5
<1>7. UNCHANGED <<scene, taken, sndNxt, sndBuf, queue, ioPush, rtxPush, nackPush, popped, written,
                  dataNet, ackNet, nackNet>>
  BY DEF Flush, sendVars, netVars
<1>8. ASSUME NEW k \in 0 .. n - 1
      PROVE  /\ ((rcvNxt + k) % SeqMod) = ((Delivered + k) % SeqMod)
             /\ ((rcvNxt + k) % SeqMod) \in DOMAIN rcvBuf
             /\ rcvBuf[(rcvNxt + k) % SeqMod] = Delivered + k
             /\ Delivered + k < taken /\ Delivered + k \in Chunks
  <2>1. PICK e \in Int : e = Delivered
    BY <1>3
  <2>2. PICK j \in Int : j = k
    BY <1>6
  <2>3. ((rcvNxt + k) % SeqMod) = ((Delivered + k) % SeqMod)
    <3>1. (((e % SeqMod) + j) % SeqMod) = ((e + j) % SeqMod)
      BY <1>2, Successor
    <3> QED
      BY <1>1, <2>1, <2>2, <3>1 DEF Given
  <2>4. ((rcvNxt + k) % SeqMod) \in DOMAIN rcvBuf
    BY <1>5 DEF Run
  <2>5. PICK d \in Int : d = Delivered + k
    BY <1>3
  <2>6. PICK sn \in DOMAIN rcvBuf : sn = (d % SeqMod)
    BY <2>3, <2>4, <2>5
  <2>7. d >= Delivered /\ d - Delivered < SeqMod
    BY <1>2, <1>3, <1>6, <2>5
  <2>8. rcvBuf[sn] = d
    BY <2>6, <2>7, BufferedIs
  <2>9. d < taken /\ d \in Chunks
    BY <1>1, <2>8 DEF Ahead, TypeOK
  <2> QED
    BY <2>3, <2>4, <2>5, <2>6, <2>8, <2>9
<1>9. ASSUME NEW k \in 1 .. n PROVE toWrite'[k] = Len(written) + k - 1 /\ toWrite'[k] \in Chunks
  <2>1. PICK j \in 0 .. n - 1 : j = k - 1
    BY <1>6
  <2>2. PICK r \in Int : r = rcvNxt
    BY <1>1, <1>2 DEF TypeOK, WireNumbers
  <2>3. r + k - 1 = r + j
    BY <2>1, <2>2
  <2>4. toWrite'[k] = rcvBuf[(r + k - 1) % SeqMod]
    BY <1>5, <2>2
  <2>5. toWrite'[k] = Delivered + j /\ Delivered + j \in Chunks
    BY <1>8, <2>2, <2>3, <2>4
  <2> QED
    BY <1>3, <1>4, <2>1, <2>5
<1>10. toWrite' \in Seq(Chunks) /\ Len(toWrite') = n
  <2>1. DOMAIN toWrite' = 1 .. n /\ toWrite' = [k \in 1 .. n |-> toWrite'[k]]
    BY <1>5
  <2>2. toWrite' \in [1 .. n -> Chunks]
    BY <1>9, <2>1
  <2>3. PICK j \in Nat : j = n
    BY <1>6
  <2>4. toWrite' \in [1 .. j -> Chunks]
    BY <2>2, <2>3
  <2>5. toWrite' \in Seq(Chunks) /\ Len(toWrite') = j
    BY <2>4
  <2> QED
    BY <2>3, <2>5
<1>11. Delivered' = Delivered + n /\ Delivered + n <= taken
  <2>1. Delivered' = Len(written) + n
    BY <1>7, <1>10 DEF Delivered
  <2>2. PICK j \in 0 .. n - 1 : j = n - 1
    BY <1>6
  <2>3. Delivered + j < taken
    BY <1>8
  <2> QED
    BY <1>3, <1>4, <1>6, <2>1, <2>2, <2>3
<1>12. rcvNxt' = (Delivered' % SeqMod)
  <2>1. PICK e \in Int : e = Delivered
    BY <1>3
  <2>2. PICK j \in Int : j = n
    BY <1>6
  <2>3. (((e % SeqMod) + j) % SeqMod) = ((e + j) % SeqMod)
    BY <1>2, Successor
  <2> QED
    BY <1>1, <1>5, <1>11, <2>1, <2>2, <2>3 DEF FlushTo, Given
<1>13. ASSUME NEW sn \in DOMAIN rcvBuf
       PROVE  \/ rcvBuf[sn] < Delivered'
              \/ sn \in DOMAIN rcvBuf' /\ rcvBuf'[sn] = rcvBuf[sn]
  <2>1. CASE sn \in {(rcvNxt + k) % SeqMod : k \in 0 .. n - 1}
    BY <1>3, <1>6, <1>8, <1>11, <2>1
  <2>2. CASE sn \notin {(rcvNxt + k) % SeqMod : k \in 0 .. n - 1}
    BY <1>5, <2>2 DEF Restrict
  <2> QED
    BY <2>1, <2>2
<1>14. ASSUME NEW sn \in DOMAIN rcvBuf'
       PROVE  sn \in DOMAIN rcvBuf /\ rcvBuf'[sn] = rcvBuf[sn] /\ rcvBuf[sn] >= Delivered'
  <2>1. /\ sn \in DOMAIN rcvBuf /\ sn \notin {(rcvNxt + k) % SeqMod : k \in 0 .. n - 1}
        /\ rcvBuf'[sn] = rcvBuf[sn]
    BY <1>5 DEF Restrict
  <2>2. PICK d \in Int : d = rcvBuf[sn] /\ d >= Delivered /\ sn = (d % SeqMod)
    BY <1>1, <1>3, <2>1 DEF Ahead
  <2>3. ASSUME d < Delivered' PROVE FALSE
    <3>1. PICK k \in 0 .. n - 1 : k = d - Delivered
      BY <1>3, <1>6, <1>11, <2>2, <2>3
    <3>2. d = Delivered + k
      BY <1>3, <1>6, <3>1
    <3>3. sn = ((rcvNxt + k) % SeqMod)
      BY <1>8, <2>2, <3>2
    <3> QED
      BY <2>1, <3>3
  <2> QED
    BY <1>3, <1>11, <1>6, <2>1, <2>2, <2>3
<1>15. Ahead'
  <2> SUFFICES ASSUME NEW sn \in DOMAIN rcvBuf'
               PROVE  /\ rcvBuf'[sn] \in Delivered' .. Delivered' + Window' /\ rcvBuf'[sn] < taken'
                      /\ sn = (rcvBuf'[sn] % SeqMod')
    BY DEF Ahead
  <2>1. sn \in DOMAIN rcvBuf /\ rcvBuf'[sn] = rcvBuf[sn] /\ rcvBuf[sn] >= Delivered'
    BY <1>14
  <2>2. PICK d \in Int : d = rcvBuf[sn]
    BY <1>1, <1>3, <2>1 DEF Ahead
  <2>3. d \in Delivered .. Delivered + Window /\ d < taken /\ sn = (d % SeqMod)
    BY <1>1, <2>1, <2>2 DEF Ahead
  <2>4. d \in Delivered' .. Delivered' + Window
    BY <1>2, <1>3, <1>6, <1>11, <2>1, <2>2, <2>3
  <2> QED
    BY <1>7, <2>1, <2>2, <2>3, <2>4, Frame
<1>16. TypeOK'
  <2>1. rcvNxt' \in WireNumbers
    BY <1>1, <1>3, <1>6, <1>11, <1>12, Reading
  <2> QED
    BY <1>1, <1>7, <1>10, <1>14, <2>1, Frame DEF TypeOK
<1>17. NumbersSound'
  BY <1>7, Frame DEF IInv, NumbersSound, Sound, Recent
<1>18. Given'
  <2>1. \A k \in 1 .. Len(toWrite') : toWrite'[k] = Len(written') + k - 1
    BY <1>7, <1>9, <1>10
  <2> QED
    BY <1>1, <1>7, <1>11, <1>12, <2>1, Frame DEF Given
<1>19. \A d \in 0 .. taken - 1 : d < Delivered => d < Delivered'
  BY <1>3, <1>6, <1>11
<1>20. AcksTrue'
  BY <1>3, <1>7, <1>13, <1>19 DEF IInv, AcksTrue, Received, NumbersSound, Sound, Recent
<1>21. NothingForgotten'
  BY <1>7, <1>13, <1>19 DEF IInv, NothingForgotten
<1>22. InFlight' /\ Armed' /\ Finite'
  BY <1>7 DEF IInv, InFlight, Armed, Finite
<1> QED
  BY <1>15, <1>16, <1>17, <1>18, <1>20, <1>21, <1>22 DEF IInv

LEMMA WriteStep == IInv /\ Write /\ UNCHANGED scene => IInv'
<1> SUFFICES ASSUME IInv, Write, UNCHANGED scene PROVE IInv'
  OBVIOUS
<1>1. TypeOK /\ Given
  BY DEF IInv
<1>2. UNCHANGED <<scene, taken, sndNxt, sndBuf, queue, ioPush, rtxPush, nackPush, popped, rcvNxt,
                  rcvBuf, dataNet, ackNet, nackNet>>
      /\ written' = written \o toWrite /\ toWrite' = << >>
  BY DEF Write, sendVars, netVars
<1>3. written' \in Seq(Chunks) /\ toWrite' \in Seq(Chunks) /\ Len(toWrite') = 0
      /\ Len(written') = Len(written) + Len(toWrite) /\ Len(toWrite) \in Nat /\ Len(written) \in Nat
  BY <1>1, <1>2 DEF TypeOK
<1>4. UNCHANGED Delivered
  BY <1>3 DEF Delivered
<1>5. \A k \in 1 .. Len(written') : written'[k] = k - 1
  <2> SUFFICES ASSUME NEW k \in 1 .. Len(written') PROVE written'[k] = k - 1
    OBVIOUS
  <2>1. CASE k <= Len(written)
    <3>1. k \in 1 .. Len(written) /\ written'[k] = written[k]
      BY <1>1, <1>2, <1>3, <2>1 DEF TypeOK
    <3> QED
      BY <1>1, <3>1 DEF Given
  <2>2. CASE k > Len(written)
    <3>0. PICK a \in Nat, b \in Nat : a = Len(written) /\ b = Len(toWrite)
      BY <1>3
    <3>1. PICK j \in 1 .. Len(toWrite) : j = k - Len(written)
      <4>1. k \in 1 .. a + b /\ k > a
        BY <1>3, <2>2, <3>0
      <4>2. k - a \in 1 .. b
        BY <4>1
      <4> QED
        BY <3>0, <4>2
    <3>2. written'[k] = toWrite[j]
      BY <1>1, <1>2, <1>3, <2>2, <3>1 DEF TypeOK
    <3>3. toWrite[j] = Len(written) + j - 1
      BY <1>1, <3>1 DEF Given
    <3> QED
      BY <1>3, <3>1, <3>2, <3>3
  <2> QED
    BY <1>3, <2>1, <2>2
<1>6. TypeOK'
  BY <1>1, <1>2, <1>3, Frame DEF TypeOK
<1>7. Given'
  BY <1>1, <1>2, <1>3, <1>4, <1>5, Frame DEF Given
<1>8. NumbersSound'
  BY <1>2, Frame DEF IInv, NumbersSound, Sound, Recent
<1>9. Ahead' /\ AcksTrue' /\ NothingForgotten'
  BY <1>2, <1>4, Frame DEF IInv, Ahead, AcksTrue, Received, NothingForgotten
<1>10. InFlight' /\ Armed' /\ Finite'
  BY <1>2 DEF IInv, InFlight, Armed, Finite
<1> QED
  BY <1>6, <1>7, <1>8, <1>9, <1>10 DEF IInv

LEMMA LoseStep == IInv /\ Lose /\ UNCHANGED scene => IInv'
<1> SUFFICES ASSUME IInv, Lose, UNCHANGED scene PROVE IInv'
  OBVIOUS
<1>1. UNCHANGED <<scene, taken, sndNxt, sndBuf, queue, ioPush, rtxPush, nackPush, popped, rcvNxt,
                  rcvBuf, toWrite, written, nackNet>>
      /\ dataNet' \subseteq dataNet /\ ackNet' \subseteq ackNet
  BY DEF Lose, sendVars, recvVars
<1>2. UNCHANGED Delivered
  BY <1>1 DEF Delivered
<1>3. TypeOK'
  BY <1>1, Frame DEF IInv, TypeOK
<1>4. NumbersSound'
  BY <1>1, Frame DEF IInv, NumbersSound, Sound, Recent
<1>5. Given' /\ Ahead' /\ AcksTrue' /\ NothingForgotten'
  BY <1>1, <1>2, Frame DEF IInv, Given, Ahead, AcksTrue, Received, NothingForgotten
<1>6. InFlight' /\ Armed' /\ Finite'
  BY <1>1 DEF IInv, InFlight, Armed, Finite
<1> QED
  BY <1>3, <1>4, <1>5, <1>6 DEF IInv

LEMMA Stutter == IInv /\ UNCHANGED vars => IInv'
<1> SUFFICES ASSUME IInv, UNCHANGED vars PROVE IInv'
  OBVIOUS
<1>1. UNCHANGED <<scene, taken, sndNxt, sndBuf, queue, ioPush, rtxPush, nackPush, popped, rcvNxt,
                  rcvBuf, toWrite, written, dataNet, ackNet, nackNet>>
  BY DEF vars, sendVars, recvVars, netVars
<1>2. UNCHANGED Delivered
  BY <1>1 DEF Delivered
<1>3. TypeOK' /\ NumbersSound'
  BY <1>1, Frame DEF IInv, TypeOK, NumbersSound, Sound, Recent
<1>4. Given' /\ Ahead' /\ AcksTrue' /\ NothingForgotten'
  BY <1>1, <1>2, Frame DEF IInv, Given, Ahead, AcksTrue, Received, NothingForgotten
<1>5. InFlight' /\ Armed' /\ Finite'
  BY <1>1 DEF IInv, InFlight, Armed, Finite
<1> QED
  BY <1>3, <1>4, <1>5 DEF IInv

LEMMA Inductive == IInv /\ [Next]_vars => IInv'
<1> SUFFICES ASSUME IInv, [Next]_vars PROVE IInv'
  OBVIOUS
<1>1. CASE UNCHANGED vars
  BY <1>1, Stutter
<1>2. CASE Next
  <2> UNCHANGED scene
    BY <1>2 DEF Next
  <2>1. CASE Read \/ PushRead \/ PushRetransmit \/ ReceiveNack \/ PushResend
    BY <2>1, ReadStep, PushReadStep, PushRetransmitStep, ReceiveNackStep, PushResendStep
  <2>2. CASE Flush \/ Write \/ Lose
    BY <2>2, FlushStep, WriteStep, LoseStep
  <2>3. CASE \E sn \in DOMAIN sndBuf : Retransmit(sn)
    BY <2>3, RetransmitStep
  <2>4. CASE \E p \in queue : Pop(p)
    BY <2>4, PopStep
  <2>5. CASE \E p \in popped : Transmit(p)
    BY <2>5, TransmitStep
  <2>6. CASE \E m \in ackNet : ReceiveAck(m)
    BY <2>6, ReceiveAckStep
  <2>7. CASE \E m \in dataNet : ReceiveData(m)
    BY <2>7, ReceiveDataStep
  <2> QED
    BY <1>2, <2>1, <2>2, <2>3, <2>4, <2>5, <2>6, <2>7 DEF Next
<1> QED
  BY <1>1, <1>2

(* IInv holds in every reachable state.                                    *)
THEOREM Invariance == Spec => []IInv
<1> QED
  BY InitHolds, Inductive, PTL DEF Spec

----------------------------------------------------------------------------
(* What follows from the invariant                                         *)

(* ArqData keeps to its types: in particular no packet, item or buffered   *)
(* chunk carries a number or a payload that is not a chunk's.              *)
THEOREM TypeCorrect == Spec => []TypeOK
<1>1. IInv => TypeOK
  BY DEF IInv
<1> QED
  BY <1>1, Invariance, PTL

(* A chunk read is carried to the end, for any window, limit and number    *)
(* space: the sender never forgets what the receiver lacks, the lead stays *)
(* in the half of the numbers where old and new differ, and every item     *)
(* that waits for a dequeue is on its way to one.                          *)
THEOREM ChunksCarried == Spec => []Carried
<1>1. IInv => Carried
  BY Lead DEF IInv, Carried
<1> QED
  BY <1>1, Invariance, PTL

(* Every ACK on the network is for a chunk the receiver has: a dropped     *)
(* chunk is not acknowledged, and a number has wrapped without its old     *)
(* ACKs meaning another chunk.                                             *)
THEOREM AcksAreTrue == Spec => []AcksTrue
<1>1. IInv => AcksTrue
  BY DEF IInv
<1> QED
  BY <1>1, Invariance, PTL

(* processReceivedDataBatch sorts what reaches it rightly: a packet on the *)
(* network counts as old exactly when its chunk was given to writeLoop.    *)
OldIsDelivered == \A m \in dataNet : Old(m.sn) <=> m.data < Delivered

THEOREM OldAndNewToldApart == Spec => []OldIsDelivered
<1>1. IInv => OldIsDelivered
  <2> SUFFICES ASSUME IInv, NEW m \in dataNet PROVE Old(m.sn) <=> m.data < Delivered
    BY DEF OldIsDelivered
  <2>1. Recent(taken, m.data) /\ m.sn = (m.data % SeqMod)
    BY DEF IInv, NumbersSound, Sound
  <2> QED
    BY <2>1, ToldApart
<1> QED
  BY <1>1, Invariance, PTL

(* The ARQ implements the reliable stream: whatever the network does, the  *)
(* chunks are written in the order they were read, each once.              *)
THEOREM Refinement == Spec => InOrderOnce
<1>1. Init => Promise!Init
  BY DEF Init, Promise!Init
<1>2. ASSUME IInv, [Next]_vars PROVE [Promise!Next]_(Promise!vars)
  <2>1. CASE UNCHANGED <<taken, written>>
    BY <2>1 DEF Promise!vars
  <2>2. CASE Read
    BY <2>2 DEF Read, recvVars, Promise!Next, Promise!Take
  <2>3. CASE Write
    <3>1. TypeOK /\ Given
      BY <1>2 DEF IInv
    <3>2. written' = written \o toWrite /\ toWrite # << >> /\ UNCHANGED taken
      BY <2>3 DEF Write, sendVars
    <3>3. PICK n \in Nat : n = Len(toWrite)
      BY <3>1 DEF TypeOK
    <3>4. n \in 1 .. taken - Len(written)
      BY <3>1, <3>2, <3>3 DEF TypeOK, Given, Delivered
    <3>5. toWrite = [k \in 1 .. n |-> Len(written) + k - 1]
      BY <3>1, <3>3 DEF TypeOK, Given
    <3> QED
      BY <3>2, <3>4, <3>5 DEF Promise!Next, Promise!Give
  <2>4. CASE Next /\ ~Read /\ ~Write
    <3>1. UNCHANGED <<taken, written>>
      BY <2>4 DEF Next, PushRead, Retransmit, PushRetransmit, ReceiveNack, PushResend, Pop, Transmit,
                  ReceiveAck, ReceiveData, Flush, Lose, sendVars, recvVars
    <3> QED
      BY <2>1, <3>1
  <2>5. CASE UNCHANGED vars
    BY <2>1, <2>5 DEF vars, sendVars, recvVars
  <2> QED
    BY <1>2, <2>2, <2>3, <2>4, <2>5
<1> QED
  BY <1>1, <1>2, Invariance, PTL DEF Spec, InOrderOnce, Promise!Spec
=============================================================================
