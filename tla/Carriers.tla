------------------------------ MODULE Carriers ------------------------------
(***************************************************************************)
(* Which DNS record type a query is sent as (client/carrier_selector.go):  *)
(* a rotation over the types per resolver path and one over all of them,   *)
(* from which a type whose answers stop coming is dropped and to which it  *)
(* returns.                                                                *)
(*                                                                         *)
(* An evaluation is one step: a count added between its load and its store *)
(* is lost, as one of an answer that never came.                           *)
(***************************************************************************)
EXTENDS Integers, Sequences, SequencesExt, FiniteSetsExt, Functions

CONSTANTS
    Paths,          \* resolver paths
    Types,          \* 1..n, in the configured order
    Bulk,           \* those whose records hold full-size frames
    MinSamples,     \* carrierMinSamples
    Rate,           \* carrierMinSuccessRate, in hundredths
    MaxSent,        \* bound: sends that a count reaches
    MaxFlying,      \* bound: queries of a path that wait for an answer
    MaxAbsent       \* evaluations that a type may stay dropped for

VARIABLES
    sent, success,  \* by selector and type
    active,         \* the types in rotation, in order
    cursor, bulkCursor,
    due,            \* the selectors whose last evaluation is carrierEvalInterval ago
    flying,         \* queries that wait for an answer, by path and type
    absent,         \* the evaluations since each type was dropped
    skipped         \* the plain sends of a rotation since each type's turn

carrierVars == <<sent, success, active, cursor, bulkCursor, due, flying, absent, skipped>>

All       == "all"      \* the aggregate
Selectors == Paths \cup {All}
Turns     == 6          \* a multiple of every number of types in rotation, for the cursors
Zero      == [s \in Selectors |-> [t \in Types |-> 0]]
InOrder(ts) == SetToSortSeq(ts, <)

Init ==
    /\ sent = Zero /\ success = Zero /\ absent = Zero /\ skipped = Zero
    /\ active = [s \in Selectors |-> InOrder(Types)]
    /\ cursor = [s \in Selectors |-> 0] /\ bulkCursor = [s \in Selectors |-> 0]
    /\ due = Selectors
    /\ flying = [p \in Paths |-> [t \in Types |-> 0]]

----------------------------------------------------------------------------
(* evalLocked: the types whose samples are few or good enough stay; when   *)
(* there is none the best does. The counts are halved, those of a dropped  *)
(* type until it is tried again.                                           *)

Keeps(s, t) == sent[s][t] < MinSamples \/ 100 * success[s][t] >= Rate * sent[s][t]

Better(s, t, u) == success[s][t] * sent[s][u] > success[s][u] * sent[s][t]
Best(s) ==
    LET known == {t \in Types : sent[s][t] > 0}
        top   == {t \in known : \A u \in known : ~Better(s, u, t)}
    IN  IF known = {} THEN 1 ELSE Min(top)

Kept(s) == LET kept == {t \in Types : Keeps(s, t)} IN IF kept = {} THEN {Best(s)} ELSE kept

Halved(s, count) == [t \in Types |-> count[s][t] \div 2]

(* maybeEval, for the selectors that a send asks *)
Evaluated(asked) ==
    LET now == asked \cap due IN
    /\ due' = due \ now
    /\ active' = [s \in Selectors |-> IF s \in now THEN InOrder(Kept(s)) ELSE active[s]]
    /\ absent' = [s \in Selectors |-> [t \in Types |->
                    IF s \notin now THEN absent[s][t] ELSE IF t \in Kept(s) THEN 0 ELSE absent[s][t] + 1]]

Counted(s, t, now) == [IF s \in now THEN Halved(s, sent) ELSE sent[s] EXCEPT ![t] = @ + 1]

(* nextWithPreference on a path's selector: a download poll takes the      *)
(* next bulk type of the rotation when there is one.                       *)
Turn(p, preferBulk, rotation) ==
    LET bulk == SelectSeq(rotation, LAMBDA t : t \in Bulk) IN
    IF preferBulk /\ bulk # <<>> THEN bulk[(bulkCursor[p] % Len(bulk)) + 1]
    ELSE rotation[(cursor[p] % Len(rotation)) + 1]

(* nextForPathWithPreference: the path chooses, the aggregate counts it *)
Send(p, preferBulk) ==
    LET now == {p, All} \cap due IN
    /\ FoldFunction(+, 0, flying[p]) < MaxFlying
    /\ Evaluated({p, All})
    /\ LET t == Turn(p, preferBulk, active'[p])
           byBulk == preferBulk /\ ToSet(active'[p]) \cap Bulk # {}
       IN
       /\ \A s \in {p, All} : sent[s][t] < MaxSent
       /\ sent' = [s \in Selectors |-> IF s \in {p, All} THEN Counted(s, t, now) ELSE sent[s]]
       /\ success' = [s \in Selectors |-> IF s \in now THEN Halved(s, success) ELSE success[s]]
       /\ flying' = [flying EXCEPT ![p][t] = @ + 1]
       /\ bulkCursor' = [bulkCursor EXCEPT ![p] = IF byBulk THEN (@ + 1) % Turns ELSE @]
       /\ cursor' = [cursor EXCEPT ![p] = IF byBulk THEN @ ELSE (@ + 1) % Turns]
       /\ skipped' = [skipped EXCEPT ![p] =
                        [u \in Types |-> IF u = t \/ active'[p] # active[p] THEN 0
                                         ELSE IF byBulk THEN @[u] ELSE @[u] + 1]]

(* recordSuccessForPath, or the answer is lost *)
Answer(p, t) ==
    /\ flying[p][t] > 0 /\ flying' = [flying EXCEPT ![p][t] = @ - 1]
    /\ success' = [success EXCEPT ![p][t] = @ + 1, ![All][t] = @ + 1]
    /\ UNCHANGED <<sent, active, cursor, bulkCursor, due, absent, skipped>>

Lose(p, t) ==
    /\ flying[p][t] > 0 /\ flying' = [flying EXCEPT ![p][t] = @ - 1]
    /\ UNCHANGED <<sent, success, active, cursor, bulkCursor, due, absent, skipped>>

(* carrierEvalInterval passes *)
Pass == due # Selectors /\ due' = Selectors
        /\ UNCHANGED <<sent, success, active, cursor, bulkCursor, flying, absent, skipped>>

Next ==
    \/ \E p \in Paths, preferBulk \in BOOLEAN : Send(p, preferBulk)
    \/ \E p \in Paths, t \in Types : Answer(p, t) \/ Lose(p, t)
    \/ Pass

Spec == Init /\ [][Next]_carrierVars

----------------------------------------------------------------------------
TypeOK ==
    /\ \A s \in Selectors, t \in Types : sent[s][t] \in 0..MaxSent /\ success[s][t] \in Nat
    /\ due \subseteq Selectors

(* There is always a type to send as (evalLocked). *)
NeverEmpty == \A s \in Selectors : active[s] # <<>>

(* A dropped type comes back: as nothing is sent by it, its count fades    *)
(* (evalLocked), so that a carrier that works again is found again.        *)
Reexplored == \A p \in Paths, t \in Types : absent[p][t] <= MaxAbsent

(* Every type in rotation has its turn, however the polls that prefer bulk *)
(* types come between (nextWithPreference's two cursors).                  *)
EachTurn == \A p \in Paths, t \in Types : t \in ToSet(active[p]) => skipped[p][t] < Len(active[p])

CarriersSound == TypeOK /\ NeverEmpty /\ Reexplored /\ EachTurn
=============================================================================
