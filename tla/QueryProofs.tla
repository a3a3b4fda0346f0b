---------------------------- MODULE QueryProofs -----------------------------
(***************************************************************************)
(* Proofs about the DNS service. Resolve: for any number of requests and   *)
(* of upstream resolvers, the coalesced lookups of a question share one    *)
(* race, which wakes everyone who waits on it. TunnelQuery: for any number *)
(* of questions, fragments and replays, and any sizes of the replay cache, *)
(* a question runs once in a retention and only whole. Lookups: for any    *)
(* keys, queries and IDs, each query of the client is answered once, by    *)
(* its own reply or timer, and the cache and its file agree.               *)
(***************************************************************************)
EXTENDS Resolve, TunnelQuery, Lookups, FiniteSetTheorems, SequenceTheorems, TLAPS

(* The coalesced lookups: Resolve.                                         *)

Places  == {"idle", "missed", "follow", "lead", "won", "cached", "gone", "lost", "done"}
Records == [born : Nat, closed : BOOLEAN, value : {0} \cup Querents]

Typed ==
    /\ req \in [Querents -> [at : Places, entry : Nat, out : Outs]]
    /\ gone \subseteq Querents
    /\ entries \in Seq(Records)
    /\ held \in 0 .. Len(entries) /\ cache \in {0} \cup Querents
    /\ race \in [Querents -> [launched : Nat, failed : Nat, late : BOOLEAN]]
    /\ overran \in BOOLEAN /\ ticks \in Nat

(* Who leads or waits has an entry, and no entry has two leaders. *)
Entered ==
    \A r \in Querents :
        /\ req[r].entry \in 0 .. Len(entries)
        /\ Leading(r) \/ At(r, "follow") => req[r].entry # 0
        /\ \A q \in Querents : Leading(r) /\ Leading(q) /\ req[r].entry = req[q].entry => r = q

(* A leader that was not replaced for its age leads the entry of the map. *)
Current ==
    \A r \in Querents : Leading(r) => overran \/ Stale(req[r].entry) \/ held = req[r].entry

Raced ==
    \A r \in Querents :
        /\ race[r].failed <= race[r].launched /\ race[r].launched <= Upstreams
        /\ At(r, "idle") \/ At(r, "missed") => race[r].failed = 0
        /\ At(r, "lead") => race[r].failed < Upstreams

(* The request n got an answer from upstream, and it was not cancelled. *)
Got(n) == n \in Querents /\ (At(n, "cached") \/ (At(n, "done") /\ req[n].out = Answer(n)))
Told ==
    /\ cache # 0 => Got(cache)
    /\ \A e \in 1 .. Len(entries) : entries[e].value # 0 => Got(entries[e].value)
    /\ \A r \in Querents : req[r].out.how = "answer" => Got(req[r].out.from)

ResolveInv == Typed /\ Entered /\ HeldIsOpen /\ WaitersReached /\ Current /\ OneLookup /\ Raced /\ TriedAll /\ Told

USE LookupAssumption

LEMMA OutsOf == /\ \A n \in Querents : Answer(n) \in Outs
                /\ \A how \in {"none", "nothing", "servfail"} : No(how) \in Outs /\ No(how).how = how
BY DEF Answer, No, Outs

LEMMA ResolveInitHolds == ResolveInit => ResolveInv
<1> SUFFICES ASSUME ResolveInit PROVE ResolveInv
  OBVIOUS
<1>1. entries \in Seq(Records) /\ Len(entries) = 0
  BY EmptySeq DEF ResolveInit
<1>2. Typed
  <2>1. No("none") \in Outs /\ "idle" \in Places
    BY OutsOf DEF Places
  <2>2. req \in [Querents -> [at : Places, entry : Nat, out : Outs]]
    BY <2>1 DEF ResolveInit
  <2>3. race \in [Querents -> [launched : Nat, failed : Nat, late : BOOLEAN]]
    BY DEF ResolveInit, NoRace
  <2>4. gone = {} /\ held = 0 /\ cache = 0 /\ overran = FALSE /\ ticks = 0
    BY DEF ResolveInit
  <2>5. held \in 0 .. Len(entries) /\ ticks \in Nat
    BY <1>1, <2>4
  <2> QED BY <1>1, <2>2, <2>3, <2>4, <2>5 DEF Typed
<1>3. \A r \in Querents : /\ req[r].at = "idle" /\ req[r].entry = 0 /\ req[r].out.how = "none"
                          /\ race[r].failed = 0 /\ race[r].launched = 0
  BY OutsOf DEF ResolveInit, NoRace
<1>4. held = 0 /\ cache = 0
  BY DEF ResolveInit
<1>5. Entered /\ HeldIsOpen /\ WaitersReached /\ Current /\ OneLookup
  BY <1>1, <1>3, <1>4 DEF Entered, HeldIsOpen, WaitersReached, Current, OneLookup, Leading, At
<1>6. Raced
  <2>1. Upstreams \in Nat /\ 0 <= Upstreams
    BY LookupAssumption DEF LookupAssumption
  <2>2. ASSUME NEW r \in Querents PROVE ~At(r, "lead") /\ race[r].failed = 0 /\ race[r].launched = 0
    BY <1>3 DEF At
  <2>3. ASSUME NEW r \in Querents
        PROVE  /\ race[r].failed <= race[r].launched /\ race[r].launched <= Upstreams
               /\ At(r, "idle") \/ At(r, "missed") => race[r].failed = 0
               /\ At(r, "lead") => race[r].failed < Upstreams
    <3>1. race[r].failed <= race[r].launched /\ race[r].launched <= Upstreams
      BY <2>1, <2>2
    <3> QED BY <2>2, <3>1, Zenon
  <2> QED BY <2>3 DEF Raced
<1>8. TriedAll
  BY <1>3 DEF TriedAll, At
<1>7. Told
  BY <1>1, <1>3, <1>4 DEF Told
<1> QED BY <1>2, <1>5, <1>6, <1>7, <1>8 DEF ResolveInv

(* The reply of a request that is done stays, and one that cached gets there. *)
LEMMA GotStays ==
    ASSUME Typed, NEW r \in Querents, NEW at, NEW out, Goes(r, at, out), at \in Places, out \in Outs,
           ~At(r, "done"), At(r, "cached") => at = "cached" \/ (at = "done" /\ out = Answer(r))
    PROVE  /\ \A n : Got(n) => Got(n)'
           /\ req' \in [Querents -> [at : Places, entry : Nat, out : Outs]]
           /\ \A q \in Querents : /\ req'[q].entry = req[q].entry
                                  /\ q # r => req'[q] = req[q]
           /\ req'[r].at = at /\ req'[r].out = out
  BY DEF Typed, Goes, Got, At

(* A step that moves one request, and not to lead or to wait. *)
LEMMA MoveKeeps ==
    ASSUME ResolveInv, NEW r \in Querents, NEW at, NEW out, Goes(r, at, out),
           at \in Places \ {"idle", "follow", "lead"}, out \in Outs,
           ~At(r, "done"), At(r, "cached") => at = "cached" \/ (at = "done" /\ out = Answer(r)),
           at \in {"won", "cached", "gone", "lost"} => Leading(r),
           at = "done" => At(r, "follow") \/ At(r, "idle"),
           at = "missed" => At(r, "idle") /\ UNCHANGED race,
           at = "lost" => race'[r].failed = Upstreams \/ race'[r].late,
           out.how = "answer" => Got(out.from)',
           NEW c \in {0} \cup Querents, cache' = c, c # 0 => Got(c)',
           race' \in [Querents -> [launched : Nat, failed : Nat, late : BOOLEAN]],
           race'[r].failed <= race'[r].launched, race'[r].launched <= Upstreams,
           \A q \in Querents : q # r => race'[q] = race[q],
           UNCHANGED <<gone, entries, held, overran, ticks>>
    PROVE  ResolveInv'
<1>a. Typed
  BY DEF ResolveInv
<1>b. at \in Places
  OBVIOUS
<1>1. /\ \A n : Got(n) => Got(n)'
      /\ req' \in [Querents -> [at : Places, entry : Nat, out : Outs]]
      /\ \A q \in Querents : /\ req'[q].entry = req[q].entry
                             /\ q # r => req'[q] = req[q]
      /\ req'[r].at = at /\ req'[r].out = out
  BY <1>a, <1>b, GotStays, ZenonT(30)
<1> USE DEF ResolveInv
<1>2. \A q \in Querents : Leading(q)' => Leading(q)
  BY <1>1 DEF Leading, Places
<1>3. \A q \in Querents : Leading(q) /\ q # r => Leading(q)'
  BY <1>1 DEF Leading
<1>4. Leading(r) => Leading(r)'
  BY <1>1 DEF Leading, Places, At
<1>5. Typed'
  BY <1>1 DEF Typed
<1>6. \A q \in Querents : At(q, "follow")' => At(q, "follow")
  BY <1>1 DEF At
<1>7. Entered'
  BY <1>1, <1>2, <1>6 DEF Entered
<1>8. HeldIsOpen'
  BY <1>1, <1>3, <1>4 DEF HeldIsOpen
<1>9. WaitersReached'
  BY <1>1, <1>6 DEF WaitersReached, Stale
<1>10. Current' /\ OneLookup'
  BY <1>1, <1>2 DEF Current, OneLookup, Stale
<1>11. Raced'
  BY <1>1 DEF Raced, At
<1>12. TriedAll'
  BY <1>1 DEF TriedAll, At
<1>13. Told'
  BY <1>1 DEF Told
<1> QED
  BY <1>5, <1>7, <1>8, <1>9, <1>10, <1>11, <1>12, <1>13

(* A step of one race alone. *)
LEMMA RaceKeeps ==
    ASSUME ResolveInv, NEW r \in Querents, UNCHANGED <<req, gone, entries, held, cache, overran, ticks>>,
           At(r, "lead"), race' \in [Querents -> [launched : Nat, failed : Nat, late : BOOLEAN]],
           \A q \in Querents : q # r => race'[q] = race[q],
           race'[r].failed < Upstreams, race'[r].launched = Upstreams
    PROVE  ResolveInv'
<1> USE DEF ResolveInv
<1>1. Typed'
  BY DEF Typed
<1>2. Entered' /\ HeldIsOpen' /\ WaitersReached' /\ Current' /\ OneLookup'
  BY DEF Entered, HeldIsOpen, WaitersReached, Current, OneLookup, Leading, At, Stale
<1>3. Raced'
  BY DEF Raced, At
<1>4. TriedAll' /\ Told'
  BY DEF TriedAll, Told, Got, At
<1> QED BY <1>1, <1>2, <1>3, <1>4

LEMMA StartKeeps ==
    ASSUME ResolveInv, NEW r \in Querents, Start(r)
    PROVE  ResolveInv'
<1> USE DEF ResolveInv
<1>0. At(r, "idle") /\ ~Leading(r) /\ ~At(r, "done") /\ ~At(r, "cached") /\ UNCHANGED <<gone, cache, overran, ticks>>
  BY DEF Start, Leading, At
<1>a. /\ race \in [Querents -> [launched : Nat, failed : Nat, late : BOOLEAN]]
      /\ race[r].failed <= race[r].launched /\ race[r].launched <= Upstreams
      /\ cache \in {0} \cup Querents
  BY DEF Typed, Raced
<1>b. {"done", "missed"} \subseteq Places \ {"idle", "follow", "lead"}
  BY DEF Places
<1>1. CASE r \in gone /\ Goes(r, "done", No("nothing")) /\ UNCHANGED <<entries, held, race>>
  <2>1. No("nothing") \in Outs /\ No("nothing").how # "answer"
    BY OutsOf
  <2>2. \A n : Got(n) => Got(n)'
    BY <1>0, <1>1, <1>b, <2>1, GotStays
  <2>3. cache' = cache /\ (cache # 0 => Got(cache)')
    BY <1>0, <2>2 DEF Told
  <2>4. race' = race /\ UNCHANGED <<gone, entries, held, overran, ticks>>
    BY <1>0, <1>1
  <2> QED BY <1>0, <1>1, <1>a, <1>b, <2>1, <2>3, <2>4, MoveKeeps
<1>2. CASE r \notin gone /\ cache # 0 /\ Goes(r, "done", Answer(cache)) /\ UNCHANGED <<entries, held, race>>
  <2>1. Answer(cache) \in Outs /\ Answer(cache).from = cache
    BY <1>2, <1>a, OutsOf DEF Answer
  <2>2. \A n : Got(n) => Got(n)'
    BY <1>0, <1>2, <1>b, <2>1, GotStays
  <2>3. cache' = cache /\ Got(cache)'
    BY <1>0, <1>2, <2>2 DEF Told
  <2>4. race' = race /\ UNCHANGED <<gone, entries, held, overran, ticks>>
    BY <1>0, <1>2
  <2> QED BY <1>0, <1>2, <1>a, <1>b, <2>1, <2>3, <2>4, MoveKeeps
<1>3. CASE Goes(r, "missed", No("none")) /\ UNCHANGED <<entries, held, race>>
  <2>1. No("none") \in Outs /\ No("none").how # "answer"
    BY OutsOf
  <2>2. \A n : Got(n) => Got(n)'
    BY <1>0, <1>3, <1>b, <2>1, GotStays
  <2>3. cache' = cache /\ (cache # 0 => Got(cache)')
    BY <1>0, <2>2 DEF Told
  <2>4. race' = race /\ UNCHANGED <<gone, entries, held, overran, ticks>>
    BY <1>0, <1>3
  <2> QED BY <1>0, <1>3, <1>a, <1>b, <2>1, <2>3, <2>4, MoveKeeps
<1> QED BY <1>0, <1>1, <1>2, <1>3 DEF Start

LEMMA AcquireKeeps ==
    ASSUME ResolveInv, NEW r \in Querents, Acquire(r)
    PROVE  ResolveInv'
<1> USE DEF ResolveInv
<1>0. At(r, "missed") /\ ~Leading(r) /\ ~At(r, "done") /\ ~At(r, "cached") /\ UNCHANGED <<gone, cache, overran, ticks>>
  BY DEF Acquire, Leading, At
<1>a. /\ race \in [Querents -> [launched : Nat, failed : Nat, late : BOOLEAN]]
      /\ race[r].failed <= race[r].launched /\ race[r].launched <= Upstreams
      /\ cache \in {0} \cup Querents
  BY DEF Typed, Raced
<1>1. CASE /\ Shared
           /\ req' = [req EXCEPT ![r] = [at |-> "follow", entry |-> held, out |-> No("none")]]
           /\ UNCHANGED <<entries, held, race>>
  <2>1. No("none") \in Outs /\ No("none").how # "answer" /\ held \in Nat /\ held # 0 /\ held \in 0 .. Len(entries)
    BY <1>1, OutsOf DEF Typed, Shared
  <2>2. /\ req' \in [Querents -> [at : Places, entry : Nat, out : Outs]]
        /\ \A q \in Querents : q # r => req'[q] = req[q]
        /\ req'[r].at = "follow" /\ req'[r].entry = held /\ req'[r].out = No("none")
    BY <1>1, <2>1 DEF Typed, Places
  <2>3. \A n : Got(n) => Got(n)'
    BY <2>2, <1>0 DEF Got, At
  <2>4. \A q \in Querents : /\ Leading(q)' <=> Leading(q)
                            /\ Leading(q) => req'[q].entry = req[q].entry
                            /\ At(q, "lost")' <=> At(q, "lost")
                            /\ At(q, "lead")' <=> At(q, "lead")
    BY <2>2, <1>0 DEF Leading, At
  <2>5. Typed'
    BY <2>2, <1>0, <1>1 DEF Typed
  <2>6. Entered'
    BY <2>1, <2>2, <2>4, <1>0, <1>1 DEF Entered, At
  <2>7. HeldIsOpen'
    BY <2>4, <1>1 DEF HeldIsOpen
  <2>8. WaitersReached'
    BY <2>2, <1>0, <1>1 DEF WaitersReached, At, Stale
  <2>9. Current' /\ OneLookup'
    BY <2>4, <1>0, <1>1 DEF Current, OneLookup, Stale
  <2>10. Raced' /\ TriedAll'
    BY <2>2, <2>4, <1>1 DEF Raced, TriedAll, At
  <2>11. Told'
    BY <2>1, <2>2, <2>3, <1>0, <1>1 DEF Told
  <2> QED BY <2>5, <2>6, <2>7, <2>8, <2>9, <2>10, <2>11
<1>2. CASE /\ ~Shared
           /\ entries' = Append(entries, [born |-> ticks, closed |-> FALSE, value |-> 0])
           /\ held' = Len(entries')
           /\ req' = [req EXCEPT ![r] = [at |-> "lead", entry |-> Len(entries'), out |-> No("none")]]
           /\ race' = [race EXCEPT ![r].launched = 1]
  <2> DEFINE new == [born |-> ticks, closed |-> FALSE, value |-> 0]
             k == Len(entries) + 1
  <2>1. No("none") \in Outs /\ No("none").how # "answer"
    BY OutsOf
  <2>2. new \in Records
    BY DEF Typed, Records
  <2>3. /\ entries' \in Seq(Records) /\ Len(entries') = k /\ entries'[k] = new
        /\ \A e \in 1 .. Len(entries) : entries'[e] = entries[e]
        /\ Len(entries) \in Nat
    BY <1>2, <2>2, AppendProperties, LenProperties DEF Typed
  <2>4. k \in Nat /\ k # 0 /\ held' = k
    BY <1>2, <2>3
  <2>5. /\ req' \in [Querents -> [at : Places, entry : Nat, out : Outs]]
        /\ \A q \in Querents : q # r => req'[q] = req[q]
        /\ req'[r].at = "lead" /\ req'[r].entry = k /\ req'[r].out = No("none")
    BY <1>2, <2>1, <2>3, <2>4 DEF Typed, Places
  <2>6. \A n : Got(n) => Got(n)'
    BY <2>5, <1>0 DEF Got, At
  <2>7. \A q \in Querents : /\ q # r => /\ (Leading(q)' <=> Leading(q))
                                        /\ (At(q, "follow")' <=> At(q, "follow"))
                                        /\ (At(q, "lead")' <=> At(q, "lead"))
                            /\ At(q, "lost")' <=> At(q, "lost")
    BY <2>5, <1>0 DEF Leading, At
  <2>8. Leading(r)' /\ ~At(r, "follow")' /\ At(r, "lead")'
    BY <2>5 DEF Leading, At
  <2>9. /\ race' \in [Querents -> [launched : Nat, failed : Nat, late : BOOLEAN]]
        /\ \A q \in Querents : q # r => race'[q] = race[q]
        /\ race'[r].launched = 1 /\ race'[r].failed = race[r].failed
    BY <1>2, <1>a
  <2>10. Typed'
    BY <2>3, <2>4, <2>5, <2>9, <1>0 DEF Typed
  <2>11. Entered'
    <3>0. \A q \in Querents : req[q].entry \in 0 .. Len(entries)
      BY DEF Entered
    <3>1. ASSUME NEW q \in Querents, q # r PROVE req'[q].entry # k /\ req'[q].entry \in 0 .. Len(entries')
      <4>1. req'[q].entry = req[q].entry /\ req[q].entry \in 0 .. Len(entries)
        BY <3>0, <3>1, <2>5
      <4> QED BY <4>1, <2>3, <2>4
    <3>2. \A q \in Querents : req'[q].entry \in 0 .. Len(entries')
      BY <3>1, <2>3, <2>4, <2>5, <2>8
    <3>3. \A q \in Querents : (q # r => req'[q].entry # k)
      BY <3>1
    <3>4. \A q \in Querents : Leading(q)' \/ At(q, "follow")' => req'[q].entry # 0
      BY <2>4, <2>5, <2>7 DEF Entered
    <3>5. ASSUME NEW q \in Querents, NEW p \in Querents, Leading(q)', Leading(p)', req'[q].entry = req'[p].entry
          PROVE  q = p
      BY <3>3, <3>5, <2>5, <2>7 DEF Entered
    <3> QED BY <3>2, <3>4, <3>5, Zenon DEF Entered
  <2>12. HeldIsOpen'
    BY <2>3, <2>4, <2>5, <2>8 DEF HeldIsOpen
  <2>13. \A e \in 1 .. Len(entries) : (Stale(e)' <=> Stale(e)) /\ entries'[e].closed = entries[e].closed
    BY <2>3, <1>0 DEF Stale
  <2>14. held = 0 \/ Stale(held)
    BY <1>2 DEF Shared
  <2>15. \A q \in Querents : (Leading(q) \/ At(q, "follow")) => req[q].entry \in 1 .. Len(entries)
    BY <2>3 DEF Entered
  <2>16. WaitersReached'
    BY <2>5, <2>7, <2>8, <2>13, <2>14, <2>15 DEF WaitersReached
  <2>17. Current' /\ OneLookup'
    <3>1. ASSUME NEW q \in Querents, q # r, Leading(q)' PROVE overran' \/ Stale(req[q].entry)'
      <4>1. Leading(q) /\ req'[q].entry = req[q].entry /\ req[q].entry \in 1 .. Len(entries)
        BY <3>1, <2>5, <2>7, <2>15
      <4>2. overran \/ Stale(req[q].entry) \/ held = req[q].entry
        BY <4>1 DEF Current
      <4>3. overran \/ Stale(req[q].entry)
        BY <4>1, <4>2, <2>14
      <4>4. PICK e \in 1 .. Len(entries) : req[q].entry = e
        BY <4>1
      <4>5. Stale(e) => Stale(e)'
        BY <2>13
      <4> QED BY <4>1, <4>3, <4>4, <4>5, <1>0 DEF Stale
    <3>2. held' = req'[r].entry
      BY <2>4, <2>5
    <3> QED BY <3>1, <3>2 DEF Current, OneLookup
  <2>18. Raced' /\ TriedAll'
    <3>1. race[r].failed = 0
      BY <1>0 DEF Raced, Typed
    <3>2. \A q \in Querents : q # r /\ (At(q, "idle") \/ At(q, "missed"))' => At(q, "idle") \/ At(q, "missed")
      BY <2>5 DEF At
    <3>3. ~At(r, "idle")' /\ ~At(r, "missed")' /\ race'[r].failed < Upstreams
      BY <3>1, <2>5, <2>9 DEF At
    <3>4. Raced'
      BY <3>1, <3>2, <3>3, <2>7, <2>9, <1>a DEF Raced
    <3>5. TriedAll'
      <4>1. ~At(r, "lost")'
        BY <2>5 DEF At
      <4> QED BY <4>1, <2>7, <2>9 DEF TriedAll
    <3> QED BY <3>4, <3>5
  <2>19. Told'
    BY <2>1, <2>3, <2>5, <2>6, <1>0 DEF Told
  <2> QED BY <2>10, <2>11, <2>12, <2>16, <2>17, <2>18, <2>19
<1> QED BY <1>0, <1>1, <1>2 DEF Acquire

LEMMA UpstreamEndsKeeps ==
    ASSUME ResolveInv, NEW r \in Querents, NEW ok \in BOOLEAN, UpstreamEnds(r, ok)
    PROVE  ResolveInv'
<1> USE DEF ResolveInv
<1>0. /\ At(r, "lead") /\ Leading(r) /\ ~At(r, "done") /\ ~At(r, "cached")
      /\ UNCHANGED <<gone, entries, held, cache, overran, ticks>>
  BY DEF UpstreamEnds, Leading, At
<1>a. /\ race \in [Querents -> [launched : Nat, failed : Nat, late : BOOLEAN]]
      /\ race[r].failed < Upstreams /\ cache \in {0} \cup Querents
  BY <1>0 DEF Typed, Raced
<1>b. {"won", "lost"} \subseteq Places \ {"idle", "follow", "lead"} /\ No("none") \in Outs /\ No("none").how # "answer"
  BY OutsOf DEF Places
<1>1. CASE Goes(r, "won", No("none")) /\ race' = [race EXCEPT ![r] = NoRace]
  <2>1. \A n : Got(n) => Got(n)'
    BY <1>0, <1>1, <1>b, GotStays
  <2>2. cache # 0 => Got(cache)'
    BY <1>0, <2>1 DEF Told
  <2>3. /\ race' \in [Querents -> [launched : Nat, failed : Nat, late : BOOLEAN]]
        /\ \A q \in Querents : q # r => race'[q] = race[q]
        /\ race'[r].failed <= race'[r].launched /\ race'[r].launched <= Upstreams
    BY <1>1, <1>a DEF NoRace
  <2> QED BY <1>0, <1>1, <1>a, <1>b, <2>2, <2>3, MoveKeeps
<1>2. CASE /\ race' = [race EXCEPT ![r].launched = Upstreams, ![r].failed = race[r].failed + 1]
           /\ IF race[r].failed + 1 = Upstreams THEN Goes(r, "lost", No("none")) ELSE UNCHANGED req
  <2>1. /\ race' \in [Querents -> [launched : Nat, failed : Nat, late : BOOLEAN]]
        /\ \A q \in Querents : q # r => race'[q] = race[q]
        /\ race'[r].failed = race[r].failed + 1 /\ race'[r].launched = Upstreams
        /\ race'[r].failed <= race'[r].launched
    BY <1>2, <1>a
  <2>2. CASE race[r].failed + 1 = Upstreams
    <3>1. Goes(r, "lost", No("none"))
      BY <1>2, <2>2
    <3>2. \A n : Got(n) => Got(n)'
      BY <1>0, <3>1, <1>b, GotStays
    <3>3. cache # 0 => Got(cache)'
      BY <1>0, <3>2 DEF Told
    <3> QED BY <1>0, <1>a, <1>b, <2>1, <2>2, <3>1, <3>3, MoveKeeps
  <2>3. CASE race[r].failed + 1 # Upstreams
    <3>1. UNCHANGED req
      BY <1>2, <2>3
    <3>2. race'[r].failed < Upstreams
      BY <1>a, <2>1, <2>3
    <3> QED BY <1>0, <2>1, <3>1, <3>2, RaceKeeps
  <2> QED BY <2>2, <2>3
<1> QED BY <1>1, <1>2 DEF UpstreamEnds

LEMMA HedgeTimerKeeps ==
    ASSUME ResolveInv, NEW r \in Querents, HedgeTimer(r)
    PROVE  ResolveInv'
<1>1. /\ race' \in [Querents -> [launched : Nat, failed : Nat, late : BOOLEAN]]
      /\ \A q \in Querents : q # r => race'[q] = race[q]
      /\ race'[r].failed = race[r].failed /\ race'[r].launched = Upstreams
  BY DEF HedgeTimer, ResolveInv, Typed
<1>2. race[r].failed < Upstreams /\ race[r].failed \in Nat
  BY DEF HedgeTimer, ResolveInv, Typed, Raced
<1> QED BY <1>1, <1>2, RaceKeeps DEF HedgeTimer

LEMMA DeadlineKeeps ==
    ASSUME ResolveInv, NEW r \in Querents, Deadline(r)
    PROVE  ResolveInv'
<1> USE DEF ResolveInv
<1>0. /\ At(r, "lead") /\ Leading(r) /\ ~At(r, "done") /\ ~At(r, "cached") /\ Goes(r, "lost", No("none"))
      /\ UNCHANGED <<gone, entries, held, cache, overran, ticks>>
  BY DEF Deadline, Leading, At
<1>1. "lost" \in Places \ {"idle", "follow", "lead"} /\ No("none") \in Outs /\ No("none").how # "answer"
  BY OutsOf DEF Places
<1>2. /\ race' \in [Querents -> [launched : Nat, failed : Nat, late : BOOLEAN]]
      /\ \A q \in Querents : q # r => race'[q] = race[q]
      /\ race'[r].failed <= race'[r].launched /\ race'[r].launched <= Upstreams /\ race'[r].late
  BY DEF Deadline, Typed, Raced
<1>3. \A n : Got(n) => Got(n)'
  BY <1>0, <1>1, GotStays
<1>4. cache \in {0} \cup Querents /\ (cache # 0 => Got(cache)')
  BY <1>0, <1>3 DEF Told, Typed
<1> QED BY <1>0, <1>1, <1>2, <1>4, MoveKeeps

LEMMA CacheAnswerKeeps ==
    ASSUME ResolveInv, NEW r \in Querents, CacheAnswer(r)
    PROVE  ResolveInv'
<1> USE DEF ResolveInv
<1>0. /\ At(r, "won") /\ Leading(r) /\ ~At(r, "done") /\ ~At(r, "cached")
      /\ UNCHANGED <<gone, entries, held, race, overran, ticks>>
  BY DEF CacheAnswer, Leading, At
<1>1. {"gone", "cached"} \subseteq Places \ {"idle", "follow", "lead"} /\ No("none") \in Outs /\ No("none").how # "answer"
  BY OutsOf DEF Places
<1>2. /\ race' \in [Querents -> [launched : Nat, failed : Nat, late : BOOLEAN]] /\ race' = race
      /\ race'[r].failed <= race'[r].launched /\ race'[r].launched <= Upstreams
      /\ cache \in {0} \cup Querents
  BY <1>0 DEF Typed, Raced
<1>3. CASE Goes(r, "gone", No("none")) /\ UNCHANGED cache
  <2>1. \A n : Got(n) => Got(n)'
    BY <1>0, <1>1, <1>3, GotStays
  <2>2. cache # 0 => Got(cache)'
    BY <1>0, <1>3, <2>1 DEF Told
  <2> QED BY <1>0, <1>1, <1>2, <1>3, <2>2, MoveKeeps
<1>4. CASE Goes(r, "cached", No("none")) /\ cache' \in {cache, r}
  <2>1. \A n : Got(n) => Got(n)'
    BY <1>0, <1>1, <1>4, GotStays
  <2>2. Got(r)'
    BY <1>0, <1>1, <1>4, GotStays DEF Got, At
  <2>3. CASE cache' = cache
    <3>1. cache # 0 => Got(cache)'
      BY <2>1, <2>3 DEF Told
    <3> QED BY <1>0, <1>1, <1>2, <1>4, <2>3, <3>1, MoveKeeps
  <2>4. CASE cache' = r
    BY <1>0, <1>1, <1>2, <1>4, <2>2, <2>4, MoveKeeps
  <2> QED BY <1>4, <2>3, <2>4
<1> QED BY <1>3, <1>4 DEF CacheAnswer

LEMMA FollowKeeps ==
    ASSUME ResolveInv, NEW r \in Querents, Follow(r)
    PROVE  ResolveInv'
<1> USE DEF ResolveInv
<1> DEFINE e == req[r].entry
<1>0. /\ At(r, "follow") /\ ~Leading(r) /\ ~At(r, "done") /\ ~At(r, "cached")
      /\ UNCHANGED <<gone, entries, held, cache, race, overran, ticks>>
  BY DEF Follow, Leading, At
<1>1. "done" \in Places \ {"idle", "follow", "lead"}
  BY DEF Places
<1>2. /\ race' \in [Querents -> [launched : Nat, failed : Nat, late : BOOLEAN]] /\ race' = race
      /\ race'[r].failed <= race'[r].launched /\ race'[r].launched <= Upstreams
      /\ cache \in {0} \cup Querents /\ cache' = cache /\ e \in 1 .. Len(entries)
      /\ entries[e].value \in {0} \cup Querents
  <2>1. Len(entries) \in Nat /\ e \in 1 .. Len(entries)
    BY <1>0, LenProperties DEF Typed, Entered
  <2>2. entries[e] \in Records
    BY <2>1, ElementOfSeq DEF Typed
  <2> QED BY <1>0, <2>1, <2>2 DEF Typed, Raced, Records
<1>3. PICK out : /\ Goes(r, "done", out)
                 /\ \/ out \in {No("nothing"), No("servfail")}
                    \/ cache # 0 /\ out = Answer(cache)
                    \/ entries[e].value # 0 /\ out = Answer(entries[e].value)
  BY DEF Follow
<1>4. out \in Outs /\ (out.how = "answer" => out.from \in Querents /\ Got(out.from))
  <2>1. CASE out \in {No("nothing"), No("servfail")}
    BY <2>1, OutsOf
  <2>2. CASE cache # 0 /\ out = Answer(cache)
    BY <2>2, <1>2, OutsOf DEF Answer, Told
  <2>3. CASE entries[e].value # 0 /\ out = Answer(entries[e].value)
    BY <2>3, <1>2, OutsOf DEF Answer, Told
  <2> QED BY <1>3, <2>1, <2>2, <2>3
<1>5. \A n : Got(n) => Got(n)'
  BY <1>0, <1>1, <1>3, <1>4, GotStays
<1>6. cache # 0 => Got(cache)'
  BY <1>2, <1>5 DEF Told
<1> QED BY <1>0, <1>1, <1>2, <1>3, <1>4, <1>5, <1>6, MoveKeeps

(* The leader leaves, and wakes whoever waits on the entry of the map. *)
LEMMA LeaderEndsKeeps ==
    ASSUME ResolveInv, NEW r \in Querents, LeaderEnds(r)
    PROVE  ResolveInv'
<1> USE DEF ResolveInv
<1>1. PICK value \in {0, r}, out \in Outs :
         /\ ResolveKey(r, value) /\ Goes(r, "done", out)
         /\ value = r => At(r, "cached")
         /\ out.how = "answer" => out = Answer(r)
         /\ At(r, "cached") => out = Answer(r)
         /\ out.how = "answer" => At(r, "cached")
  <2>1. CASE At(r, "cached") /\ Goes(r, "done", Answer(r)) /\ ResolveKey(r, r)
    BY <2>1, OutsOf
  <2>2. CASE ~At(r, "cached") /\ Goes(r, "done", No("nothing")) /\ ResolveKey(r, 0)
    BY <2>2, OutsOf
  <2>3. CASE ~At(r, "cached") /\ Goes(r, "done", No("servfail")) /\ ResolveKey(r, 0)
    BY <2>3, OutsOf
  <2> QED BY <2>1, <2>2, <2>3 DEF LeaderEnds, At
<1>2. /\ Leading(r) /\ ~At(r, "done") /\ ~At(r, "idle") /\ ~At(r, "follow") /\ ~At(r, "lead")
      /\ UNCHANGED <<gone, cache, ticks>> /\ "done" \in Places
  BY DEF LeaderEnds, Leading, At, Places
<1>3. /\ \A n : Got(n) => Got(n)'
      /\ req' \in [Querents -> [at : Places, entry : Nat, out : Outs]]
      /\ \A q \in Querents : /\ req'[q].entry = req[q].entry
                             /\ q # r => req'[q] = req[q]
      /\ req'[r].at = "done" /\ req'[r].out = out
  BY <1>1, <1>2, GotStays
<1>4. \A q \in Querents : /\ Leading(q)' <=> Leading(q) /\ q # r
                          /\ At(q, "follow")' <=> At(q, "follow")
                          /\ At(q, "lost")' => At(q, "lost") /\ q # r
                          /\ At(q, "idle")' => At(q, "idle") /\ q # r
                          /\ At(q, "missed")' => At(q, "missed") /\ q # r
                          /\ At(q, "lead")' => At(q, "lead") /\ q # r
  BY <1>2, <1>3 DEF Leading, At
<1>5. Len(entries) \in Nat /\ held \in 0 .. Len(entries) /\ held' = 0
  BY <1>1, LenProperties DEF Typed, ResolveKey
<1>6. /\ entries' \in Seq(Records) /\ Len(entries') = Len(entries)
      /\ \A e \in 1 .. Len(entries) : /\ entries'[e].born = entries[e].born
                                      /\ entries[e].closed \/ e = held => entries'[e].closed
                                      /\ entries'[e].value \in {entries[e].value, value}
  <2>1. \A e \in 1 .. Len(entries) : entries[e] \in Records
    BY ElementOfSeq DEF Typed
  <2>2. CASE held = 0
    BY <1>1, <2>2 DEF ResolveKey, Typed
  <2>3. CASE held # 0
    <3> DEFINE new == [entries[held] EXCEPT !.closed = TRUE, !.value = value]
    <3>1. held \in 1 .. Len(entries) /\ entries' = [entries EXCEPT ![held] = new]
      <4>1. held \in DOMAIN entries /\ entries = [e \in DOMAIN entries |-> entries[e]]
        BY <1>5, <2>3, LenProperties DEF Typed
      <4>2. entries' = [entries EXCEPT ![held].closed = TRUE, ![held].value = value]
        BY <1>1, <2>3 DEF ResolveKey
      <4>3. held \in 1 .. Len(entries)
        BY <1>5, <2>3
      <4> HIDE DEF ResolveInv
      <4>4. entries' = [entries EXCEPT ![held] = new]
        BY ONLY <4>1, <4>2
      <4> QED BY <4>3, <4>4
    <3>2. /\ new \in Records /\ new.born = entries[held].born /\ new.closed
          /\ new.value = value
      BY <1>1, <2>1, <3>1 DEF Records
    <3> HIDE DEF new
    <3>3. entries' \in Seq(Records) /\ Len(entries') = Len(entries)
      BY <3>1, <3>2, ExceptSeq DEF Typed
    <3>4. \A e \in 1 .. Len(entries) : entries'[e] = IF e = held THEN new ELSE entries[e]
      BY <3>1, <3>2, ExceptSeq DEF Typed
    <3> QED BY <3>2, <3>3, <3>4
  <2> QED BY <2>2, <2>3
<1>7. \A e \in 1 .. Len(entries) : Stale(e)' <=> Stale(e)
  BY <1>2, <1>6 DEF Stale
<1>8. overran' = (overran \/ held \notin {0, req[r].entry})
  BY <1>1 DEF ResolveKey
<1>9. /\ race' \in [Querents -> [launched : Nat, failed : Nat, late : BOOLEAN]]
      /\ \A q \in Querents : q # r => race'[q] = race[q]
      /\ race'[r].failed <= race'[r].launched /\ race'[r].launched <= Upstreams
  <2>1. race \in [Querents -> [launched : Nat, failed : Nat, late : BOOLEAN]]
    BY DEF Typed
  <2>2. race[r].failed <= race[r].launched /\ race[r].launched <= Upstreams
    BY DEF Raced
  <2>3. CASE race' = race
    BY <2>1, <2>2, <2>3
  <2>4. CASE race' = [race EXCEPT ![r] = NoRace]
    <3>1. NoRace \in [launched : Nat, failed : Nat, late : BOOLEAN] /\ NoRace.failed = 0 /\ NoRace.launched = 0
      BY DEF NoRace
    <3> QED BY <2>1, <2>4, <3>1
  <2> QED BY <2>3, <2>4 DEF LeaderEnds
<1>10. ASSUME NEW q \in Querents, Leading(q) \/ At(q, "follow") PROVE req[q].entry \in 1 .. Len(entries)
  <2>1. req[q].entry \in 0 .. Len(entries) /\ req[q].entry # 0
    BY <1>10 DEF Entered
  <2>2. Len(entries) \in Nat
    BY LenProperties DEF Typed
  <2> QED BY <2>1, <2>2
<1>11. Typed'
  BY <1>2, <1>3, <1>5, <1>6, <1>8, <1>9 DEF Typed
<1>12. Entered'
  BY <1>3, <1>4, <1>6 DEF Entered
<1>13. HeldIsOpen'
  BY <1>5 DEF HeldIsOpen
<1>14. WaitersReached'
  BY <1>3, <1>4, <1>6, <1>7, <1>10 DEF WaitersReached
<1>15. Current'
  <2> SUFFICES ASSUME NEW q \in Querents, Leading(q)' PROVE (overran \/ Stale(req[q].entry) \/ held = req[q].entry)'
    BY DEF Current
  <2>1. Leading(q) /\ q # r /\ req[q].entry \in 1 .. Len(entries) /\ req'[q].entry = req[q].entry
    BY <1>3, <1>4, <1>10
  <2>2. overran \/ Stale(req[q].entry) \/ held = req[q].entry
    BY <2>1 DEF Current
  <2>3. req[q].entry # req[r].entry
    BY <2>1, <1>2 DEF Entered
  <2>4. CASE held = req[q].entry
    BY <2>1, <2>3, <2>4, <1>5, <1>8
  <2>5. CASE overran
    BY <2>5, <1>8
  <2>6. CASE Stale(req[q].entry)
    BY <2>1, <2>6, <1>7
  <2> QED BY <2>2, <2>4, <2>5, <2>6
<1>16. OneLookup'
  BY <1>3, <1>4, <1>7, <1>8, <1>10 DEF OneLookup
<1>17. Raced' /\ TriedAll'
  BY <1>4, <1>9 DEF Raced, TriedAll
<1>18. Got(r)' \/ value = 0
  BY <1>1, <1>3 DEF Got, At
<1>19. Told'
  <2>1. (cache # 0 => Got(cache))'
    BY <1>2, <1>3 DEF Told
  <2>2. \A e \in 1 .. Len(entries') : entries'[e].value # 0 => (Got(entries[e].value))'
    BY <1>3, <1>6, <1>18, <1>1 DEF Told
  <2>3. \A q \in Querents : req'[q].out.how = "answer" => (Got(req[q].out.from))'
    <3> SUFFICES ASSUME NEW q \in Querents, req'[q].out.how = "answer" PROVE (Got(req[q].out.from))'
      OBVIOUS
    <3>1. CASE q # r
      BY <3>1, <1>3 DEF Told
    <3>2. CASE q = r
      <4>1. req'[r].out = Answer(r)
        BY <3>2, <1>1, <1>3
      <4>2. Got(r)' /\ req'[r].out.from = r
        BY <4>1, <1>3 DEF Got, At, Answer
      <4> QED BY <3>2, <4>2
    <3> QED BY <3>1, <3>2
  <2> QED BY <2>1, <2>2, <2>3 DEF Told
<1> QED
  BY <1>11, <1>12, <1>13, <1>14, <1>15, <1>16, <1>17, <1>19

(* The ticks, the cache, and a request that gives up. *)
LEMMA AroundKeeps ==
    ASSUME ResolveInv, UNCHANGED <<req, entries, held, race, overran>>, gone' \subseteq Querents,
           cache' \in {0, cache}, ticks' \in Nat, ticks <= ticks'
    PROVE  ResolveInv'
<1> USE DEF ResolveInv
<1>1. Typed'
  BY DEF Typed
<1>2. \A r \in Querents : Leading(r) \/ At(r, "follow") => req[r].entry \in 1 .. Len(entries)
  BY LenProperties DEF Entered, Typed
<1>3. \A e \in 1 .. Len(entries) : Stale(e) => Stale(e)'
  <2> SUFFICES ASSUME NEW e \in 1 .. Len(entries), Stale(e) PROVE Stale(e)'
    OBVIOUS
  <2>1. entries[e] \in Records
    BY ElementOfSeq DEF Typed
  <2> QED BY <2>1 DEF Typed, Stale, Records
<1>4. Entered' /\ HeldIsOpen' /\ Raced' /\ TriedAll'
  BY DEF Entered, HeldIsOpen, Raced, TriedAll, Leading, At
<1>5. WaitersReached' /\ Current' /\ OneLookup'
  BY <1>2, <1>3 DEF WaitersReached, Current, OneLookup, Leading, At
<1>6. \A n : Got(n) => Got(n)'
  BY DEF Got, At
<1>7. Told'
  BY <1>6 DEF Told
<1> QED BY <1>1, <1>4, <1>5, <1>7

LEMMA ResolveStepHolds == ResolveInv /\ [ResolveNext]_resolveVars => ResolveInv'
<1> SUFFICES ASSUME ResolveInv, [ResolveNext]_resolveVars PROVE ResolveInv'
  OBVIOUS
<1>0. gone \subseteq Querents /\ ticks \in Nat
  BY DEF ResolveInv, Typed
<1>1. ASSUME NEW r \in Querents, Start(r) PROVE ResolveInv'
  BY <1>1, StartKeeps
<1>1a. ASSUME NEW r \in Querents, Acquire(r) PROVE ResolveInv'
  BY <1>1a, AcquireKeeps
<1>2. ASSUME NEW r \in Querents, HedgeTimer(r) PROVE ResolveInv'
  BY <1>2, HedgeTimerKeeps
<1>3. ASSUME NEW r \in Querents, Deadline(r) PROVE ResolveInv'
  BY <1>3, DeadlineKeeps
<1>4. ASSUME NEW r \in Querents, CacheAnswer(r) PROVE ResolveInv'
  BY <1>4, CacheAnswerKeeps
<1>5. ASSUME NEW r \in Querents, LeaderEnds(r) PROVE ResolveInv'
  BY <1>5, LeaderEndsKeeps
<1>6. ASSUME NEW r \in Querents, Follow(r) PROVE ResolveInv'
  BY <1>6, FollowKeeps
<1>7. ASSUME NEW r \in Querents, Leaves(r) PROVE ResolveInv'
  BY <1>0, <1>7, AroundKeeps DEF Leaves
<1>8. ASSUME NEW r \in Querents, NEW ok \in BOOLEAN, UpstreamEnds(r, ok) PROVE ResolveInv'
  BY <1>8, UpstreamEndsKeeps
<1>9. CASE CacheExpires
  BY <1>0, <1>9, AroundKeeps DEF CacheExpires
<1>10. CASE TimePasses
  BY <1>0, <1>10, AroundKeeps DEF TimePasses
<1>11. CASE UNCHANGED resolveVars
  BY <1>0, <1>11, AroundKeeps DEF resolveVars
<1> QED BY <1>1, <1>1a, <1>2, <1>3, <1>4, <1>5, <1>6, <1>7, <1>8, <1>9, <1>10, <1>11 DEF ResolveNext

(* A question that many ask at once: one lookup runs, it ends once, and everyone who waits hears. *)
THEOREM Coalesced == ResolveSpec => []ResolveSound
<1>1. ResolveInv => ResolveSound
  <2> SUFFICES ASSUME ResolveInv PROVE ResolveSound
    OBVIOUS
  <2>1. ResolveTypeOK
    BY DEF ResolveInv, Typed, Entered, Raced, ResolveTypeOK, Places
  <2>2. AnswersGot
    BY DEF ResolveInv, Told, Got, AnswersGot
  <2> QED BY <2>1, <2>2 DEF ResolveInv, ResolveSound
<1> QED BY <1>1, ResolveInitHolds, ResolveStepHolds, PTL DEF ResolveSpec

HIDE LookupAssumption

-----------------------------------------------------------------------------
(* The questions that come through the tunnel: TunnelQuery.                *)

Fragment == [q : Questions, f : Fragments, empty : BOOLEAN]
Guard    == [state : {"none", "running", "done"}, reply : 0 .. 1, expires : Nat]
Assembly == [held : SUBSET Fragments, count : 0 .. Counts - 1, born : Nat]

CacheTyped ==
    /\ guards \in [Seals -> Guard] /\ order \in Seq(Seals) /\ bytes \in Nat
    /\ inside \subseteq [c : Seals, dispatched : BOOLEAN]
    /\ clock \in Nat

Running == {c \in Seals : guards[c].state = "running"}
Replies == {c \in Seals : guards[c].reply = 1}

(* The guard of a request under way is running. *)
Owned ==
    /\ \A x \in inside : guards[x.c].state = "running"
    /\ \A c \in Running : \E x \in inside : x.c = c
    /\ \A x, y \in inside : x.c = y.c => x = y

(* Those in the order are the completed ones. *)
Ordered ==
    /\ \A i \in 1 .. Len(order) : guards[order[i]].state = "done"
    /\ \A c \in Seals : guards[c].state = "done" => \E i \in 1 .. Len(order) : order[i] = c
    /\ \A i, j \in 1 .. Len(order) : order[i] = order[j] => i = j

(* Only they have replies. *)
Counted ==
    /\ Cardinality(Entries) <= MaxGuards
    /\ \A c \in Replies : guards[c].state = "done"
    /\ bytes = Cardinality(Replies) /\ bytes <= MaxBytes

CacheInv == CacheTyped /\ Owned /\ Ordered /\ Counted

StoreTyped ==
    /\ sealed \in Seq(Fragment)
    /\ pieces \in [Questions -> Assembly]
    /\ completed \in [Questions -> Nat] /\ whole \in [Questions -> Nat] /\ runs \in [Questions -> Nat]
    /\ ready \subseteq Questions /\ acks \subseteq Questions \X Fragments
    /\ clock \in Nat

(* The fragment f of q has been sent with its payload. *)
Came(q, f) == \E c \in 1 .. Len(sealed) : sealed[c] = [q |-> q, f |-> f, empty |-> FALSE]

StoreInv ==
    /\ StoreTyped
    /\ \A x \in inside : x.c \in 1 .. Len(sealed)
    /\ \A q \in Questions :
         /\ completed[q] <= clock + KeptTicks /\ whole[q] * KeptTicks <= completed[q]
         /\ runs[q] <= whole[q] /\ (q \in ready => runs[q] < whole[q])
         /\ \A f \in pieces[q].held : Came(q, f)
         /\ whole[q] > 0 /\ Total > 1 => \A f \in Fragments : Came(q, f)
    /\ AcksTrue

QueryInv == CacheInv /\ StoreInv

USE QueryAssumption

LEMMA FiniteSeals == IsFiniteSet(Seals) /\ \A S \in SUBSET Seals : IsFiniteSet(S) /\ Cardinality(S) \in Nat
<1>1. IsFiniteSet(Seals)
  BY FS_Interval DEF Seals
<1> QED BY <1>1, FS_Subset, FS_CardinalityType

LEMMA NoGuardType == NoGuard \in Guard /\ NoGuard.state = "none" /\ NoGuard.reply = 0
BY DEF NoGuard, Guard

(* What is left when the m oldest completed guards go. *)
LEMMA OldestGo ==
    ASSUME CacheInv, NEW m \in 0 .. Len(order),
           order' = SubSeq(order, m + 1, Len(order)), bytes' = bytes - Freed(First(m))
    PROVE  /\ First(m) \subseteq Seals /\ Emptied(First(m)) \in [Seals -> Guard]
           /\ \A c \in First(m) : guards[c].state = "done"
           /\ order' \in Seq(Seals)
           /\ \A i \in 1 .. Len(order') : order'[i] \in Seals \ First(m) /\ guards[order'[i]].state = "done"
           /\ \A c \in Seals : guards[c].state = "done" /\ c \notin First(m) =>
                \E i \in 1 .. Len(order') : order'[i] = c
           /\ \A i, j \in 1 .. Len(order') : order'[i] = order'[j] => i = j
           /\ bytes' \in Nat /\ bytes' <= MaxBytes
           /\ bytes' = Cardinality(Replies \ First(m))
<1>1. /\ order \in Seq(Seals) /\ Len(order) \in Nat /\ m \in Nat /\ m <= Len(order)
      /\ \A i \in 1 .. Len(order) : order[i] \in Seals
  BY LenProperties, ElementOfSeq DEF CacheInv, CacheTyped
<1>2. First(m) \subseteq Seals /\ \A c \in First(m) : guards[c].state = "done"
  <2> SUFFICES ASSUME NEW c \in First(m) PROVE c \in Seals /\ guards[c].state = "done"
    OBVIOUS
  <2>1. PICK i \in 1 .. m : c = order[i]
    BY DEF First
  <2>2. i \in 1 .. Len(order)
    BY <1>1
  <2> QED BY <1>1, <2>1, <2>2 DEF CacheInv, Ordered
<1>3. \A i \in 1 .. Len(order) : order[i] \in First(m) => i <= m
  <2> SUFFICES ASSUME NEW i \in 1 .. Len(order), order[i] \in First(m) PROVE i <= m
    OBVIOUS
  <2>1. PICK j \in 1 .. m : order[i] = order[j]
    BY DEF First
  <2>2. j \in 1 .. Len(order)
    BY <1>1
  <2>3. i = j
    BY <2>1, <2>2 DEF CacheInv, Ordered
  <2> QED BY <2>3
<1>4. Emptied(First(m)) \in [Seals -> Guard]
  BY NoGuardType DEF Emptied, CacheInv, CacheTyped
<1>5. /\ order' \in Seq(Seals) /\ Len(order') = Len(order) - m
      /\ \A i \in 1 .. Len(order') : m + i \in 1 .. Len(order) /\ order'[i] = order[m + i]
  <2>1. \A i \in m + 1 .. Len(order) : order[i] \in Seals
    BY <1>1
  <2>2. /\ SubSeq(order, m + 1, Len(order)) \in Seq(Seals)
        /\ Len(SubSeq(order, m + 1, Len(order))) = IF m + 1 <= Len(order) THEN Len(order) - (m + 1) + 1 ELSE 0
        /\ \A i \in 1 .. Len(order) - (m + 1) + 1 : SubSeq(order, m + 1, Len(order))[i] = order[m + 1 + i - 1]
    BY <1>1, <2>1, SubSeqProperties
  <2> DEFINE rest == SubSeq(order, m + 1, Len(order))
  <2>3. order' = rest
    OBVIOUS
  <2>4. Len(rest) = Len(order) - m /\ rest \in Seq(Seals)
    BY <1>1, <2>2
  <2>5. \A i \in 1 .. Len(order) - m : rest[i] = order[m + i]
    BY <1>1, <2>2
  <2> HIDE DEF rest
  <2>6. \A i \in 1 .. Len(order) - m : m + i \in 1 .. Len(order)
    BY <1>1
  <2> QED BY <2>3, <2>4, <2>5, <2>6
<1>6. \A i \in 1 .. Len(order') : order'[i] \in Seals \ First(m) /\ guards[order'[i]].state = "done"
  <2> SUFFICES ASSUME NEW i \in 1 .. Len(order')
               PROVE  order'[i] \in Seals \ First(m) /\ guards[order'[i]].state = "done"
    OBVIOUS
  <2>1. m + i \in 1 .. Len(order) /\ order'[i] = order[m + i] /\ m + i > m
    BY <1>1, <1>5
  <2> QED BY <1>1, <1>3, <2>1 DEF CacheInv, Ordered
<1>7. \A c \in Seals : guards[c].state = "done" /\ c \notin First(m) => \E i \in 1 .. Len(order') : order'[i] = c
  <2> SUFFICES ASSUME NEW c \in Seals, guards[c].state = "done", c \notin First(m)
               PROVE  \E i \in 1 .. Len(order') : order'[i] = c
    OBVIOUS
  <2>1. PICK k \in 1 .. Len(order) : order[k] = c
    BY DEF CacheInv, Ordered
  <2>2. k - m \in 1 .. Len(order') /\ m + (k - m) = k
    BY <1>1, <1>5, <2>1 DEF First
  <2>3. order'[k - m] = order[m + (k - m)]
    BY <1>5, <2>2
  <2> QED BY <2>1, <2>2, <2>3
<1>8. \A i, j \in 1 .. Len(order') : order'[i] = order'[j] => i = j
  <2> SUFFICES ASSUME NEW i \in 1 .. Len(order'), NEW j \in 1 .. Len(order'), order'[i] = order'[j] PROVE i = j
    OBVIOUS
  <2>1. m + i \in 1 .. Len(order) /\ m + j \in 1 .. Len(order) /\ order[m + i] = order[m + j]
    BY <1>5
  <2>2. m + i = m + j
    BY <2>1 DEF CacheInv, Ordered
  <2> QED BY <1>1, <1>5, <2>2
<1>9. bytes' \in Nat /\ bytes' <= MaxBytes /\ bytes' = Cardinality(Replies \ First(m))
  <2>1. {c \in First(m) : guards[c].reply = 1} = Replies \cap First(m)
    BY <1>2 DEF Replies
  <2>2. Replies \subseteq Seals
    BY DEF Replies
  <2>3. Cardinality(Replies \ First(m)) = Cardinality(Replies) - Cardinality(Replies \cap First(m))
    BY <2>2, FiniteSeals, FS_Difference
  <2>4. Cardinality(Replies \ First(m)) \in Nat /\ Cardinality(Replies \cap First(m)) \in Nat
    BY <2>2, FiniteSeals
  <2>5. bytes = Cardinality(Replies) /\ bytes <= MaxBytes /\ bytes \in Nat
    BY DEF CacheInv, CacheTyped, Counted
  <2>6. bytes' = Cardinality(Replies \ First(m))
    BY <2>1, <2>3, <2>5 DEF Freed
  <2>7. bytes' <= bytes
    BY <2>3, <2>4, <2>5, <2>6
  <2> QED BY <2>4, <2>5, <2>6, <2>7
<1> QED BY <1>2, <1>4, <1>5, <1>6, <1>7, <1>8, <1>9

(* A step that only takes away the oldest. *)
LEMMA OnlyOldestGo ==
    ASSUME CacheInv, NEW m \in 0 .. Len(order), order' = SubSeq(order, m + 1, Len(order)),
           bytes' = bytes - Freed(First(m)), guards' = Emptied(First(m)), UNCHANGED <<inside, clock>>
    PROVE  CacheInv'
<1>1. /\ First(m) \subseteq Seals /\ Emptied(First(m)) \in [Seals -> Guard]
      /\ \A c \in First(m) : guards[c].state = "done"
      /\ order' \in Seq(Seals)
      /\ \A i \in 1 .. Len(order') : order'[i] \in Seals \ First(m) /\ guards[order'[i]].state = "done"
      /\ \A c \in Seals : guards[c].state = "done" /\ c \notin First(m) => \E i \in 1 .. Len(order') : order'[i] = c
      /\ \A i, j \in 1 .. Len(order') : order'[i] = order'[j] => i = j
      /\ bytes' \in Nat /\ bytes' <= MaxBytes /\ bytes' = Cardinality(Replies \ First(m))
  BY OldestGo
<1>2. \A c \in Seals : guards'[c] = IF c \in First(m) THEN NoGuard ELSE guards[c]
  BY DEF Emptied
<1>3. \A c \in Seals : /\ guards'[c].state = IF c \in First(m) THEN "none" ELSE guards[c].state
                       /\ guards'[c].reply = IF c \in First(m) THEN 0 ELSE guards[c].reply
  BY <1>2, NoGuardType
<1>4. Running' = Running /\ Replies' = Replies \ First(m) /\ Entries' = Entries \ First(m)
  <2>1. \A c \in Seals : c \in Running' <=> c \in Running
    BY <1>1, <1>3 DEF Running
  <2>2. \A c \in Seals : c \in Replies' <=> c \in Replies \ First(m)
    BY <1>3 DEF Replies
  <2>3. \A c \in Seals : c \in Entries' <=> c \in Entries \ First(m)
    BY <1>3 DEF Entries
  <2> QED BY <2>1, <2>2, <2>3 DEF Running, Replies, Entries
<1>5. CacheTyped'
  BY <1>1 DEF CacheInv, CacheTyped
<1>6. Owned'
  <2>1. \A x \in inside' : guards'[x.c].state = "running"
    BY <1>1, <1>3 DEF CacheInv, CacheTyped, Owned
  <2> QED BY <1>4, <2>1 DEF CacheInv, Owned
<1>7. Ordered'
  <2>1. \A i \in 1 .. Len(order') : guards'[order'[i]].state = "done"
    BY <1>1, <1>3
  <2>2. \A c \in Seals : guards'[c].state = "done" => \E i \in 1 .. Len(order') : order'[i] = c
    BY <1>1, <1>3
  <2> QED BY <1>1, <2>1, <2>2 DEF Ordered
<1>8. Counted'
  <2>1. Entries \subseteq Seals /\ Entries' \subseteq Entries
    BY <1>4 DEF Entries
  <2>2. Cardinality(Entries') <= Cardinality(Entries)
    BY <2>1, FiniteSeals, FS_Subset
  <2>3. Cardinality(Entries') \in Nat /\ Cardinality(Entries) \in Nat
    BY <2>1, FiniteSeals
  <2>4. Cardinality(Entries') <= MaxGuards
    BY <2>2, <2>3 DEF CacheInv, Counted
  <2>5. \A c \in Replies' : guards'[c].state = "done"
    BY <1>3, <1>4 DEF CacheInv, Counted, Replies
  <2> QED BY <1>1, <1>4, <2>4, <2>5 DEF Counted
<1> QED BY <1>5, <1>6, <1>7, <1>8 DEF CacheInv

LEMMA BeginKeeps ==
    ASSUME CacheInv, NEW c \in Seals, Begin(c)
    PROVE  CacheInv'
<1>1. PICK n \in 0 .. Len(order), m \in 0 .. Len(order) :
         /\ RunOut(n) /\ n <= m
         /\ bytes' = bytes - Freed(First(m)) /\ order' = SubSeq(order, m + 1, Len(order))
         /\ \/ /\ c \in Entries \ First(n) /\ m = n
               /\ guards' = Emptied(First(m)) /\ UNCHANGED inside
            \/ /\ c \notin Entries \ First(n) /\ m = Len(order) /\ ~Room(m)
               /\ guards' = Emptied(First(m)) /\ UNCHANGED inside
            \/ /\ c \notin Entries \ First(n) /\ Room(m) /\ (m > n => ~Room(m - 1))
               /\ guards' = [Emptied(First(m)) EXCEPT ![c] = [NoGuard EXCEPT !.state = "running"]]
               /\ inside' = inside \cup {[c |-> c, dispatched |-> FALSE]}
  BY DEF Begin
<1>2. UNCHANGED clock
  BY DEF Begin
<1>3. CASE guards' = Emptied(First(m)) /\ UNCHANGED inside
  BY <1>1, <1>2, <1>3, OnlyOldestGo
<1>4. CASE /\ c \notin Entries \ First(n) /\ Room(m)
           /\ guards' = [Emptied(First(m)) EXCEPT ![c] = [NoGuard EXCEPT !.state = "running"]]
           /\ inside' = inside \cup {[c |-> c, dispatched |-> FALSE]}
  <2> DEFINE new == [NoGuard EXCEPT !.state = "running"]
  <2>1. /\ First(m) \subseteq Seals /\ Emptied(First(m)) \in [Seals -> Guard]
        /\ \A d \in First(m) : guards[d].state = "done"
        /\ order' \in Seq(Seals)
        /\ \A i \in 1 .. Len(order') : order'[i] \in Seals \ First(m) /\ guards[order'[i]].state = "done"
        /\ \A d \in Seals : guards[d].state = "done" /\ d \notin First(m) => \E i \in 1 .. Len(order') : order'[i] = d
        /\ \A i, j \in 1 .. Len(order') : order'[i] = order'[j] => i = j
        /\ bytes' \in Nat /\ bytes' <= MaxBytes /\ bytes' = Cardinality(Replies \ First(m))
    BY <1>1, OldestGo
  <2>2. new \in Guard /\ new.state = "running" /\ new.reply = 0
    BY DEF NoGuard, Guard
  <2> HIDE DEF new
  <2>3. guards' \in [Seals -> Guard]
    BY <1>4, <2>1, <2>2 DEF new
  <2>4. \A d \in Seals : guards'[d] = IF d = c THEN new ELSE IF d \in First(m) THEN NoGuard ELSE guards[d]
    BY <1>4 DEF Emptied, new
  <2>5. \A d \in Seals : /\ guards'[d].state = IF d = c THEN "running" ELSE IF d \in First(m) THEN "none" ELSE guards[d].state
                         /\ guards'[d].reply = IF d = c \/ d \in First(m) THEN 0 ELSE guards[d].reply
    BY <2>2, <2>4, NoGuardType
  <2>6. guards[c].state = "none" \/ c \in First(m)
    BY <1>1, <1>4 DEF Entries, First
  <2>7. c \in First(m) \/ c \notin Replies
    BY <2>6 DEF CacheInv, Counted
  <2>8. /\ Running' = Running \cup {c} /\ c \notin Running
        /\ Replies' = Replies \ First(m) /\ Entries' = (Entries \ First(m)) \cup {c}
    <3>1. \A d \in Seals : d \in Running' <=> d \in Running \/ d = c
      BY <2>1, <2>5 DEF Running
    <3>2. \A d \in Seals : d \in Replies' <=> d \in Replies \ First(m)
      BY <2>5, <2>7 DEF Replies
    <3>3. \A d \in Seals : d \in Entries' <=> d \in Entries \ First(m) \/ d = c
      BY <2>5 DEF Entries
    <3>4. c \notin Running
      BY <2>1, <2>6 DEF Running
    <3> QED BY <3>1, <3>2, <3>3, <3>4 DEF Running, Replies, Entries
  <2>9. Counted'
    <3>1. Entries \ First(m) \subseteq Seals /\ IsFiniteSet(Entries \ First(m))
      BY FiniteSeals DEF Entries
    <3>2. Cardinality(Entries') = IF c \in Entries \ First(m) THEN Cardinality(Entries \ First(m))
                                  ELSE Cardinality(Entries \ First(m)) + 1
      BY <2>8, <3>1, FS_AddElement
    <3>3. Cardinality(Entries \ First(m)) < MaxGuards
      BY <1>4 DEF Room
    <3>4. Cardinality(Entries \ First(m)) \in Nat
      BY <3>1, FiniteSeals
    <3>5. Cardinality(Entries') <= MaxGuards
      BY <3>2, <3>3, <3>4
    <3>6. \A d \in Replies' : guards'[d].state = "done"
      BY <2>5, <2>7, <2>8 DEF CacheInv, Counted, Replies
    <3> QED BY <2>1, <2>8, <3>5, <3>6 DEF Counted
  <2>10. CacheTyped'
    <3>1. inside' \subseteq [c : Seals, dispatched : BOOLEAN]
      <4>1. [c |-> c, dispatched |-> FALSE] \in [c : Seals, dispatched : BOOLEAN]
        OBVIOUS
      <4>2. inside \subseteq [c : Seals, dispatched : BOOLEAN]
        BY DEF CacheInv, CacheTyped
      <4> QED BY <1>4, <4>1, <4>2
    <3> QED BY <2>1, <2>3, <3>1, <1>2 DEF CacheInv, CacheTyped
  <2>11. Owned'
    <3>1. \A x \in inside : x.c # c /\ guards'[x.c].state = "running"
      BY <2>1, <2>5, <2>8 DEF CacheInv, CacheTyped, Owned, Running
    <3> DEFINE one == [c |-> c, dispatched |-> FALSE]
    <3>2. one.c = c /\ inside' = inside \cup {one}
      BY <1>4
    <3> HIDE DEF one
    <3>3. guards'[c].state = "running"
      BY <2>5
    <3> QED BY <2>8, <3>1, <3>2, <3>3 DEF CacheInv, Owned
  <2>12. Ordered'
    <3>1. \A i \in 1 .. Len(order') : order'[i] # c
      BY <2>1, <2>6
    <3>2. \A i \in 1 .. Len(order') : guards'[order'[i]].state = "done"
      BY <2>1, <2>5, <3>1
    <3>3. \A d \in Seals : guards'[d].state = "done" => \E i \in 1 .. Len(order') : order'[i] = d
      BY <2>1, <2>5
    <3> QED BY <2>1, <3>2, <3>3 DEF Ordered
  <2> QED BY <2>9, <2>10, <2>11, <2>12 DEF CacheInv
<1> QED BY <1>1, <1>3, <1>4

(* A request ends, and those of poorer lose their replies to it. *)
LEMMA CompletedKeeps ==
    ASSUME CacheInv, NEW c \in Seals, [c |-> c, dispatched |-> TRUE] \in inside,
           NEW poorer \in SUBSET Replies, IsFiniteSet(poorer), Completed(c, poorer),
           bytes + 1 - Cardinality(poorer) <= MaxBytes,
           inside' = inside \ {[c |-> c, dispatched |-> TRUE]},
           order' = Append(order, c), UNCHANGED clock
    PROVE  CacheInv'
<1> DEFINE one == [c |-> c, dispatched |-> TRUE]
           new == [state |-> "done", reply |-> 1, expires |-> clock + GuardTTL]
<1>1. one \in inside /\ one.c = c /\ inside' = inside \ {one}
  OBVIOUS
<1> HIDE DEF one
<1>2. guards[c].state = "running" /\ c \notin Replies
  BY <1>1 DEF CacheInv, Owned, Counted
<1>3. /\ new \in Guard /\ guards \in [Seals -> Guard] /\ clock \in Nat
      /\ \A d \in Seals : [guards[d] EXCEPT !.reply = 0] \in Guard
                         /\ [guards[d] EXCEPT !.reply = 0].state = guards[d].state
                         /\ [guards[d] EXCEPT !.reply = 0].reply = 0
  <2>1. guards \in [Seals -> Guard] /\ clock \in Nat
    BY DEF CacheInv, CacheTyped
  <2>2. new \in Guard
    BY <2>1 DEF Guard
  <2>3. \A g \in Guard : /\ [g EXCEPT !.reply = 0] \in Guard
                         /\ [g EXCEPT !.reply = 0].state = g.state /\ [g EXCEPT !.reply = 0].reply = 0
    BY DEF Guard
  <2> QED BY <2>1, <2>2, <2>3
<1>4. guards' = [d \in Seals |-> IF d = c THEN new ELSE IF d \in poorer THEN [guards[d] EXCEPT !.reply = 0] ELSE guards[d]]
  BY DEF Completed
<1>5. guards' \in [Seals -> Guard]
  BY <1>3, <1>4
<1>6. \A d \in Seals : /\ guards'[d].state = IF d = c THEN "done" ELSE guards[d].state
                       /\ guards'[d].reply = IF d = c THEN 1 ELSE IF d \in poorer THEN 0 ELSE guards[d].reply
  BY <1>3, <1>4
<1>7. /\ Running' = Running \ {c} /\ Entries' = Entries
      /\ Replies' = (Replies \ poorer) \cup {c}
  <2>1. \A d \in Seals : d \in Running' <=> d \in Running /\ d # c
    BY <1>2, <1>6 DEF Running
  <2>2. \A d \in Seals : d \in Entries' <=> d \in Entries
    BY <1>2, <1>6 DEF Entries
  <2>3. \A d \in Seals : d \in Replies' <=> (d \in Replies /\ d \notin poorer) \/ d = c
    BY <1>2, <1>6 DEF Replies
  <2> QED BY <2>1, <2>2, <2>3 DEF Running, Replies, Entries
<1>8. /\ order \in Seq(Seals) /\ Len(order) \in Nat /\ order' \in Seq(Seals) /\ Len(order') = Len(order) + 1
      /\ \A i \in 1 .. Len(order) : order'[i] = order[i] /\ order[i] \in Seals
      /\ order'[Len(order) + 1] = c
  BY LenProperties, AppendProperties, ElementOfSeq DEF CacheInv, CacheTyped
<1>9. Counted'
  <2>1. /\ Replies \subseteq Seals /\ IsFiniteSet(Replies) /\ IsFiniteSet(Replies \ poorer)
        /\ Cardinality(Replies) \in Nat /\ Cardinality(poorer) \in Nat
    BY FiniteSeals, FS_CardinalityType DEF Replies
  <2>2. Cardinality(Replies \ poorer) = Cardinality(Replies) - Cardinality(poorer)
    <3>1. Replies \cap poorer = poorer
      OBVIOUS
    <3> QED BY <2>1, <3>1, FS_Difference
  <2>3. Cardinality(Replies') = Cardinality(Replies) - Cardinality(poorer) + 1
    BY <1>2, <1>7, <2>1, <2>2, FS_AddElement
  <2>4. bytes = Cardinality(Replies)
    BY DEF CacheInv, Counted
  <2>5. bytes' = Cardinality(Replies') /\ bytes' <= MaxBytes
    BY <2>1, <2>3, <2>4 DEF Completed
  <2>6. \A d \in Replies' : guards'[d].state = "done"
    BY <1>6, <1>7 DEF CacheInv, Counted, Replies
  <2> QED BY <1>7, <2>5, <2>6 DEF CacheInv, Counted
<1>10. CacheTyped'
  <2>1. bytes' \in Nat
    <3>1. Replies' \subseteq Seals
      BY DEF Replies
    <3> QED BY <1>9, <3>1, FiniteSeals DEF Counted
  <2> QED BY <1>1, <1>5, <1>8, <2>1 DEF CacheInv, CacheTyped
<1>11. Owned'
  <2>1. \A x \in inside' : x \in inside /\ x.c # c /\ x.c \in Seals
    BY <1>1 DEF CacheInv, CacheTyped, Owned
  <2>2. \A x \in inside' : guards'[x.c].state = "running"
    BY <1>6, <2>1 DEF CacheInv, Owned
  <2>3. \A d \in Running' : \E x \in inside' : x.c = d
    BY <1>1, <1>7 DEF CacheInv, Owned
  <2>4. \A x, y \in inside' : x.c = y.c => x = y
    BY <2>1 DEF CacheInv, Owned
  <2> QED BY <2>2, <2>3, <2>4 DEF Owned
<1>12. Ordered'
  <2>1. \A i \in 1 .. Len(order) : order[i] # c
    BY <1>2 DEF CacheInv, Ordered
  <2>2. \A i \in 1 .. Len(order') : i \in 1 .. Len(order) \/ i = Len(order) + 1
    BY <1>8
  <2>3. Len(order) + 1 \in 1 .. Len(order') /\ \A i \in 1 .. Len(order) : i \in 1 .. Len(order')
    BY <1>8
  <2>4. \A i \in 1 .. Len(order') : guards'[order'[i]].state = "done"
    BY <1>6, <1>8, <2>2 DEF CacheInv, Ordered
  <2>5. \A d \in Seals : guards'[d].state = "done" => \E i \in 1 .. Len(order') : order'[i] = d
    BY <1>6, <1>8, <2>3 DEF CacheInv, Ordered
  <2>6. \A i, j \in 1 .. Len(order') : order'[i] = order'[j] => i = j
    BY <1>8, <2>1, <2>2 DEF CacheInv, Ordered
  <2> QED BY <2>4, <2>5, <2>6 DEF Ordered
<1> QED BY <1>9, <1>10, <1>11, <1>12 DEF CacheInv

LEMMA FinishKeeps ==
    ASSUME CacheInv, NEW c \in Seals, Finish(c)
    PROVE  CacheInv'
<1>1. /\ [c |-> c, dispatched |-> TRUE] \in inside
      /\ inside' = inside \ {[c |-> c, dispatched |-> TRUE]}
      /\ order' = Append(order, c) /\ UNCHANGED clock
      /\ bytes \in Nat /\ bytes <= MaxBytes
  BY DEF Finish, CacheInv, CacheTyped, Counted
<1>2. CASE bytes < MaxBytes /\ Completed(c, {})
  <2>1. IsFiniteSet({}) /\ Cardinality({}) = 0
    BY FS_EmptySet
  <2> QED BY <1>1, <1>2, <2>1, CompletedKeeps
<1>3. CASE \E i \in 1 .. Len(order) : guards[order[i]].reply = 1 /\ Completed(c, {order[i]})
  <2>1. PICK i \in 1 .. Len(order) : guards[order[i]].reply = 1 /\ Completed(c, {order[i]})
    BY <1>3
  <2>2. order[i] \in Seals
    BY ElementOfSeq DEF CacheInv, CacheTyped
  <2>3. {order[i]} \subseteq Replies /\ IsFiniteSet({order[i]}) /\ Cardinality({order[i]}) = 1
    BY <2>1, <2>2, FS_Singleton DEF Replies
  <2> QED BY <1>1, <2>1, <2>3, CompletedKeeps
<1> QED BY <1>2, <1>3 DEF Finish

-----------------------------------------------------------------------------
(* The fragment store *)

LEMMA PurgedType ==
    ASSUME StoreTyped, NEW q \in Questions
    PROVE  Purged(q) \in Assembly /\ Purged(q).held \subseteq pieces[q].held
<1>1. NoChunks \in Assembly /\ NoChunks.held = {}
  BY DEF NoChunks, Assembly
<1>2. pieces[q] \in Assembly
  BY DEF StoreTyped
<1> QED BY <1>1, <1>2 DEF Purged

LEMMA AssemblyIs ==
    ASSUME NEW e \in Assembly, NEW h, NEW k, NEW r, r = [e EXCEPT !.held = h, !.count = k]
    PROVE  r = [held |-> h, count |-> k, born |-> e.born]
BY DEF Assembly

LEMMA FreshIs ==
    ASSUME NEW b \in Nat, NEW r, r = [NoChunks EXCEPT !.born = b]
    PROVE  r \in Assembly /\ r.held = {}
<1>1. r = [held |-> {}, count |-> 0, born |-> b]
  BY DEF NoChunks
<1>2. 0 \in 0 .. Counts - 1 /\ {} \in SUBSET Fragments
  OBVIOUS
<1>3. [held |-> {}, count |-> 0, born |-> b] \in Assembly
  BY <1>2 DEF Assembly
<1>4. r \in Assembly
  BY <1>1, <1>3, Zenon
<1> DEFINE e == [held |-> {}, count |-> 0, born |-> b]
<1>5. e.held = {}
  OBVIOUS
<1> HIDE DEF e
<1>6. r = e
  BY <1>1 DEF e
<1> QED BY <1>4, <1>5, <1>6

LEMMA StoredType ==
    ASSUME StoreTyped, NEW q \in Questions, NEW f \in Fragments, NEW empty \in BOOLEAN
    PROVE  /\ Stored(q, f, empty) \in Assembly
           /\ \A g \in Stored(q, f, empty).held : g \in pieces[q].held \/ (g = f /\ ~empty)
<1> DEFINE fresh == [NoChunks EXCEPT !.born = clock]
           e == IF Purged(q).count = 0 THEN fresh ELSE Purged(q)
           kept == IF empty THEN e.held ELSE e.held \cup {f}
           count == IF f \in e.held THEN e.count ELSE (e.count + 1) % Counts
           r == [e EXCEPT !.held = kept, !.count = count]
<1>1. fresh \in Assembly /\ fresh.held = {}
  BY FreshIs DEF StoreTyped
<1>2. e \in Assembly /\ e.held \subseteq pieces[q].held
  BY <1>1, PurgedType
<1>3. Stored(q, f, empty) = r
  BY DEF Stored
<1> HIDE DEF e
<1>4. kept \in SUBSET Fragments /\ e.held \subseteq Fragments /\ e.count \in 0 .. Counts - 1
  BY <1>2 DEF Assembly
<1>5. count \in 0 .. Counts - 1
  BY <1>4
<1>6. \A g \in kept : g \in pieces[q].held \/ (g = f /\ ~empty)
  BY <1>2
<1> HIDE DEF kept, count
<1>a. r = [e EXCEPT !.held = kept, !.count = count]
  OBVIOUS
<1> HIDE DEF r
<1>7. r = [held |-> kept, count |-> count, born |-> e.born]
  BY <1>2, <1>a, AssemblyIs
<1>8. r \in Assembly /\ r.held = kept
  BY <1>2, <1>4, <1>5, <1>7 DEF Assembly
<1> QED BY <1>3, <1>6, <1>8

(* A request reaches the handler: the replay cache does not change. *)
LEMMA DispatchKeepsCache ==
    ASSUME CacheInv, NEW c \in Seals, Dispatch(c)
    PROVE  CacheInv' /\ \A x \in inside' : \E y \in inside : x.c = y.c
<1> DEFINE was == [c |-> c, dispatched |-> FALSE]
           is == [c |-> c, dispatched |-> TRUE]
<1>1. /\ was \in inside /\ inside' = (inside \ {was}) \cup {is} /\ was.c = c /\ is.c = c
      /\ is \in [c : Seals, dispatched : BOOLEAN]
      /\ UNCHANGED <<guards, order, bytes, clock>>
  BY DEF Dispatch
<1> HIDE DEF was, is
<1>2. inside \subseteq [c : Seals, dispatched : BOOLEAN]
  BY DEF CacheInv, CacheTyped
<1>3. CacheTyped'
  BY <1>1, <1>2 DEF CacheInv, CacheTyped
<1>4. Running' = Running /\ Replies' = Replies /\ Entries' = Entries
  BY <1>1 DEF Running, Replies, Entries
<1>5. \A x \in inside' : \E y \in inside : x.c = y.c
  BY <1>1
<1>6. Owned'
  <2>1. \A x \in inside' : guards'[x.c].state = "running"
    BY <1>1 DEF CacheInv, Owned
  <2>2. \A d \in Running' : \E x \in inside' : x.c = d
    BY <1>1, <1>4 DEF CacheInv, Owned
  <2>3. \A x \in inside \ {was} : x.c # c
    BY <1>1 DEF CacheInv, Owned
  <2>4. \A x, y \in inside' : x.c = y.c => x = y
    BY <1>1, <2>3 DEF CacheInv, Owned
  <2> QED BY <2>1, <2>2, <2>4 DEF Owned
<1>7. Ordered' /\ Counted'
  BY <1>1, <1>4 DEF CacheInv, Ordered, Counted
<1> QED BY <1>3, <1>5, <1>6, <1>7 DEF CacheInv

LEMMA CacheStays ==
    ASSUME CacheInv, UNCHANGED <<guards, order, bytes, inside>>, clock' \in Nat
    PROVE  CacheInv'
<1>1. Running' = Running /\ Replies' = Replies /\ Entries' = Entries
  BY DEF Running, Replies, Entries
<1>2. CacheTyped'
  BY DEF CacheInv, CacheTyped
<1>3. Owned'
  BY <1>1 DEF CacheInv, Owned
<1>4. Ordered'
  BY <1>1 DEF CacheInv, Ordered
<1>5. Counted'
  BY <1>1 DEF CacheInv, Counted
<1> QED BY <1>2, <1>3, <1>4, <1>5 DEF CacheInv

(* The cache moves, the store does not. *)
LEMMA StoreStays ==
    ASSUME StoreInv, UNCHANGED <<sealed, store, runs, clock>>, \A x \in inside' : x.c \in 1 .. Len(sealed)
    PROVE  StoreInv'
BY DEF StoreInv, StoreTyped, Came, AcksTrue, store

LEMMA SealKeeps ==
    ASSUME StoreInv, NEW q \in Questions, NEW f \in Fragments, NEW empty \in BOOLEAN, Seal(q, f, empty)
    PROVE  StoreInv'
<1> DEFINE m == [q |-> q, f |-> f, empty |-> empty]
<1>1. m \in Fragment /\ sealed' = Append(sealed, m) /\ sealed \in Seq(Fragment)
  BY DEF Seal, Fragment, StoreInv, StoreTyped
<1>2. UNCHANGED <<guards, order, bytes, inside, pieces, completed, ready, whole, acks, runs, clock>>
  BY DEF Seal, store
<1> HIDE DEF m
<1>3. /\ sealed' \in Seq(Fragment) /\ Len(sealed') = Len(sealed) + 1 /\ Len(sealed) \in Nat
      /\ \A c \in 1 .. Len(sealed) : sealed'[c] = sealed[c]
  BY <1>1, AppendProperties, LenProperties
<1>4. \A c \in 1 .. Len(sealed) : c \in 1 .. Len(sealed')
  BY <1>3
<1>5. \A p \in Questions, g \in Fragments : Came(p, g) => Came(p, g)'
  BY <1>3, <1>4 DEF Came
<1>6. StoreTyped'
  BY <1>2, <1>3 DEF StoreInv, StoreTyped
<1>7. \A p \in Questions : pieces[p].held \subseteq Fragments
  BY DEF StoreInv, StoreTyped, Assembly
<1> QED BY <1>2, <1>4, <1>5, <1>6, <1>7 DEF StoreInv, AcksTrue

LEMMA DispatchKeeps ==
    ASSUME CacheInv, StoreInv, NEW c \in Seals, Dispatch(c)
    PROVE  StoreInv'
<1> DEFINE m == sealed[c]
           e == Stored(m.q, m.f, m.empty)
<1>1. \A x \in inside' : x.c \in 1 .. Len(sealed)
  BY DispatchKeepsCache DEF StoreInv
<1>2. UNCHANGED <<sealed, runs, clock>>
  BY DEF Dispatch
<1>3. c \in 1 .. Len(sealed)
  <2>1. [c |-> c, dispatched |-> FALSE] \in inside
    BY DEF Dispatch
  <2> QED BY <2>1 DEF StoreInv
<1>4. m \in Fragment /\ m.q \in Questions /\ m.f \in Fragments /\ m.empty \in BOOLEAN
  <2>1. sealed \in Seq(Fragment)
    BY DEF StoreInv, StoreTyped
  <2>2. m \in Fragment
    BY <1>3, <2>1, ElementOfSeq
  <2> HIDE DEF m
  <2> QED BY <2>2 DEF Fragment
<1>5. m = [q |-> m.q, f |-> m.f, empty |-> m.empty]
  BY <1>4 DEF Fragment
<1> HIDE DEF m
<1>6. e \in Assembly /\ \A g \in e.held : Came(m.q, g)
  <2>1. e \in Assembly /\ \A g \in e.held : g \in pieces[m.q].held \/ (g = m.f /\ ~m.empty)
    BY <1>4, StoredType DEF StoreInv
  <2>2. ~m.empty => Came(m.q, m.f)
    BY <1>3, <1>4, <1>5 DEF Came, m
  <2> QED BY <1>4, <2>1, <2>2 DEF StoreInv
<1>7. CASE UNCHANGED store
  BY <1>1, <1>2, <1>7, StoreStays
<1>8. CASE /\ pieces' = [pieces EXCEPT ![m.q] = e]
           /\ UNCHANGED <<completed, ready, whole, acks>>
  <2> HIDE DEF e
  <2>1. StoreTyped'
    BY <1>2, <1>4, <1>6, <1>8 DEF StoreInv, StoreTyped
  <2>2. \A q, f : Came(q, f)' <=> Came(q, f)
    BY <1>2 DEF Came
  <2>3. \A q \in Questions : \A f \in pieces'[q].held : Came(q, f)'
    BY <1>4, <1>6, <1>8, <2>2 DEF StoreInv, StoreTyped
  <2> QED BY <1>1, <1>2, <1>8, <2>1, <2>2, <2>3 DEF StoreInv, AcksTrue
<1>9. CASE /\ clock >= completed[m.q] /\ Complete(e)
           /\ pieces' = [pieces EXCEPT ![m.q] = NoChunks]
           /\ completed' = [completed EXCEPT ![m.q] = clock + KeptTicks]
           /\ whole' = [whole EXCEPT ![m.q] = @ + 1]
           /\ \/ ready' = ready \cup {m.q} /\ acks' = acks \cup {<<m.q, m.f>>}
              \/ m.q \notin ready /\ UNCHANGED <<ready, acks>>
  <2> HIDE DEF e
  <2>1. NoChunks \in Assembly /\ NoChunks.held = {}
    BY DEF NoChunks, Assembly
  <2>2. clock \in Nat /\ completed[m.q] \in Nat /\ whole[m.q] \in Nat /\ clock + KeptTicks \in Nat
    BY <1>4 DEF StoreInv, StoreTyped
  <2>3. /\ pieces' \in [Questions -> Assembly] /\ completed' \in [Questions -> Nat] /\ whole' \in [Questions -> Nat]
    <3>1. /\ pieces \in [Questions -> Assembly] /\ completed \in [Questions -> Nat] /\ whole \in [Questions -> Nat]
      BY DEF StoreInv, StoreTyped
    <3>2. pieces' \in [Questions -> Assembly]
      BY <1>9, <2>1, <3>1
    <3>3. completed' \in [Questions -> Nat]
      BY <1>9, <2>2, <3>1
    <3>4. whole[m.q] + 1 \in Nat
      BY <2>2
    <3>5. whole' \in [Questions -> Nat]
      BY <1>9, <3>1, <3>4
    <3> QED BY <3>2, <3>3, <3>5
  <2>4. /\ ready \subseteq ready' /\ ready' \subseteq ready \cup {m.q}
        /\ acks' \subseteq acks \cup {<<m.q, m.f>>}
    BY <1>9
  <2>5. StoreTyped'
    BY <1>2, <1>4, <2>3, <2>4 DEF StoreInv, StoreTyped
  <2>6. \A q, f : Came(q, f)' <=> Came(q, f)
    BY <1>2 DEF Came
  <2>7. /\ pieces'[m.q] = NoChunks /\ completed'[m.q] = clock + KeptTicks /\ whole'[m.q] = whole[m.q] + 1
        /\ \A q \in Questions \ {m.q} : /\ pieces'[q] = pieces[q] /\ completed'[q] = completed[q]
                                       /\ whole'[q] = whole[q] /\ (q \in ready' <=> q \in ready)
    BY <1>4, <1>9, <2>4 DEF StoreInv, StoreTyped
  <2>8. whole'[m.q] * KeptTicks <= completed'[m.q]
    <3>1. whole[m.q] * KeptTicks <= completed[m.q]
      BY <1>4 DEF StoreInv
    <3>2. (whole[m.q] + 1) * KeptTicks = whole[m.q] * KeptTicks + KeptTicks
      BY <2>2
    <3>3. whole[m.q] * KeptTicks \in Nat
      BY <2>2
    <3> QED BY <1>9, <2>2, <2>7, <3>1, <3>2, <3>3
  <2>9. Total > 1 => \A f \in Fragments : Came(m.q, f)
    BY <1>6, <1>9 DEF Complete
  <2>10. runs[m.q] \in Nat /\ runs[m.q] <= whole[m.q]
    BY <1>4 DEF StoreInv, StoreTyped
  <2>11. \A q \in Questions :
         /\ completed'[q] <= clock + KeptTicks /\ whole'[q] * KeptTicks <= completed'[q]
         /\ runs[q] <= whole'[q] /\ (q \in ready' => runs[q] < whole'[q])
         /\ \A f \in pieces'[q].held : Came(q, f)
         /\ whole'[q] > 0 /\ Total > 1 => \A f \in Fragments : Came(q, f)
    <3> SUFFICES ASSUME NEW q \in Questions
                 PROVE  /\ completed'[q] <= clock + KeptTicks /\ whole'[q] * KeptTicks <= completed'[q]
                        /\ runs[q] <= whole'[q] /\ (q \in ready' => runs[q] < whole'[q])
                        /\ \A f \in pieces'[q].held : Came(q, f)
                        /\ whole'[q] > 0 /\ Total > 1 => \A f \in Fragments : Came(q, f)
      OBVIOUS
    <3>1. CASE q = m.q
      BY <2>1, <2>2, <2>7, <2>8, <2>9, <2>10, <3>1
    <3>2. CASE q # m.q
      BY <2>7, <3>2 DEF StoreInv
    <3> QED BY <3>1, <3>2
  <2>12. AcksTrue'
    <3>1. \A a \in acks' : a[1] \in Questions /\ (a \in acks \/ a[1] = m.q)
      BY <1>4, <2>4 DEF StoreInv, StoreTyped
    <3>2. whole'[m.q] > 0
      BY <2>2, <2>7
    <3>3. ASSUME NEW a \in acks PROVE a[1] # m.q => whole'[a[1]] > 0
      BY <2>7, <3>1, <3>3 DEF StoreInv, AcksTrue, StoreTyped
    <3> QED BY <3>1, <3>2, <3>3 DEF AcksTrue
  <2> QED BY <1>1, <1>2, <2>5, <2>6, <2>11, <2>12 DEF StoreInv
<1> QED BY <1>7, <1>8, <1>9 DEF Dispatch, m

LEMMA RunKeeps ==
    ASSUME StoreInv, NEW q \in Questions, NEW late \in BOOLEAN, Run(q, late)
    PROVE  StoreInv'
<1>1. /\ q \in ready /\ ready' = ready \ {q}
      /\ UNCHANGED <<sealed, inside, pieces, completed, whole, acks, clock>>
  BY DEF Run
<1>2. runs[q] \in Nat /\ runs[q] < whole[q] /\ whole[q] \in Nat
  BY <1>1 DEF StoreInv, StoreTyped
<1>3. /\ runs' \in [Questions -> Nat] /\ runs'[q] <= whole[q]
      /\ \A p \in Questions : p # q => runs'[p] = runs[p]
  BY <1>2 DEF Run, StoreInv, StoreTyped
<1>4. \A p \in Questions : runs'[p] <= whole[p] /\ (p \in ready' => runs'[p] < whole[p])
  BY <1>1, <1>3 DEF StoreInv
<1>5. StoreTyped'
  BY <1>1, <1>3 DEF StoreInv, StoreTyped
<1>6. \A p, f : Came(p, f)' <=> Came(p, f)
  BY <1>1 DEF Came
<1> QED BY <1>1, <1>4, <1>5, <1>6 DEF StoreInv, AcksTrue

LEMMA StoreTicks ==
    ASSUME StoreInv, UNCHANGED <<sealed, inside, store, runs>>, clock' \in Nat, clock <= clock'
    PROVE  StoreInv'
<1>1. \A q \in Questions : completed[q] <= clock' + KeptTicks
  BY DEF StoreInv, StoreTyped, store
<1>2. StoreTyped'
  BY DEF StoreInv, StoreTyped, store
<1>3. \A p, f : Came(p, f)' <=> Came(p, f)
  BY DEF Came
<1> QED BY <1>1, <1>2, <1>3 DEF StoreInv, AcksTrue, store

LEMMA QueryInitHolds == QueryInit => QueryInv
<1> SUFFICES ASSUME QueryInit PROVE QueryInv
  OBVIOUS
<1>1. order \in Seq(Seals) /\ Len(order) = 0 /\ sealed \in Seq(Fragment) /\ Len(sealed) = 0
  BY EmptySeq DEF QueryInit
<1>2. \A c \in Seals : guards[c].state = "none" /\ guards[c].reply = 0
  BY NoGuardType DEF QueryInit
<1>3. Running = {} /\ Replies = {} /\ Entries = {}
  BY <1>2 DEF Running, Replies, Entries
<1>4. CacheTyped
  BY <1>1, NoGuardType DEF QueryInit, CacheTyped
<1>5. Owned /\ Ordered
  BY <1>1, <1>2, <1>3 DEF QueryInit, Owned, Ordered
<1>6. Counted
  BY <1>3, FS_EmptySet DEF QueryInit, Counted
<1>7. NoChunks \in Assembly /\ NoChunks.held = {}
  BY DEF NoChunks, Assembly
<1>8. StoreTyped
  BY <1>1, <1>7 DEF QueryInit, StoreTyped
<1>9. \A q \in Questions : /\ completed[q] = 0 /\ whole[q] = 0 /\ runs[q] = 0 /\ pieces[q].held = {}
  BY <1>7 DEF QueryInit
<1>10. ready = {} /\ acks = {} /\ inside = {} /\ clock = 0
  BY DEF QueryInit
<1>11. StoreInv
  BY <1>1, <1>8, <1>9, <1>10 DEF StoreInv, AcksTrue
<1> QED BY <1>4, <1>5, <1>6, <1>11 DEF QueryInv, CacheInv

LEMMA QueryStepHolds == QueryInv /\ [QueryNext]_queryVars => QueryInv'
<1> SUFFICES ASSUME QueryInv, [QueryNext]_queryVars PROVE QueryInv'
  OBVIOUS
<1>0. CacheInv /\ StoreInv /\ clock \in Nat /\ Len(sealed) \in Nat
  BY LenProperties DEF QueryInv, CacheInv, CacheTyped, StoreInv, StoreTyped
<1>1. ASSUME NEW q \in Questions, NEW f \in Fragments, NEW empty \in BOOLEAN, Seal(q, f, empty) PROVE QueryInv'
  <2>1. CacheInv'
    BY <1>0, <1>1, CacheStays DEF Seal
  <2> QED BY <1>0, <1>1, <2>1, SealKeeps DEF QueryInv
<1>2. ASSUME NEW c \in Seals, Begin(c) PROVE QueryInv'
  <2>1. CacheInv'
    BY <1>0, <1>2, BeginKeeps
  <2>2. c \in 1 .. Len(sealed) /\ UNCHANGED <<sealed, store, runs, clock>>
    BY <1>0, <1>2, LenProperties DEF Begin, StoreInv, StoreTyped
  <2>3. \A x \in inside' : x \in inside \/ x.c = c
    BY <1>2 DEF Begin
  <2>4. \A x \in inside' : x.c \in 1 .. Len(sealed)
    BY <1>0, <2>2, <2>3 DEF StoreInv
  <2> QED BY <1>0, <2>1, <2>2, <2>4, StoreStays DEF QueryInv
<1>3. ASSUME NEW c \in Seals, Dispatch(c) PROVE QueryInv'
  BY <1>0, <1>3, DispatchKeepsCache, DispatchKeeps DEF QueryInv
<1>4. ASSUME NEW c \in Seals, Finish(c) PROVE QueryInv'
  <2>1. CacheInv'
    BY <1>0, <1>4, FinishKeeps
  <2>2. inside' \subseteq inside /\ UNCHANGED <<sealed, store, runs, clock>>
    BY <1>4 DEF Finish
  <2>3. \A x \in inside' : x.c \in 1 .. Len(sealed)
    BY <1>0, <2>2 DEF StoreInv
  <2> QED BY <1>0, <2>1, <2>2, <2>3, StoreStays DEF QueryInv
<1>5. ASSUME NEW q \in Questions, NEW late \in BOOLEAN, Run(q, late) PROVE QueryInv'
  <2>1. CacheInv'
    BY <1>0, <1>5, CacheStays DEF Run
  <2> QED BY <1>0, <1>5, <2>1, RunKeeps DEF QueryInv
<1>6. CASE ClockTicks
  <2>1. clock' \in Nat /\ clock <= clock' /\ UNCHANGED <<sealed, guards, order, bytes, inside, store, runs>>
    BY <1>0, <1>6 DEF ClockTicks
  <2> QED BY <1>0, <2>1, CacheStays, StoreTicks DEF QueryInv
<1>7. CASE UNCHANGED queryVars
  <2>1. clock' \in Nat /\ clock <= clock' /\ UNCHANGED <<sealed, guards, order, bytes, inside, store, runs>>
    BY <1>0, <1>7 DEF queryVars, store
  <2> QED BY <1>0, <2>1, CacheStays, StoreTicks DEF QueryInv
<1> QED BY <1>1, <1>2, <1>3, <1>4, <1>5, <1>6, <1>7 DEF QueryNext

(* Replays, retransmissions and a full cache run no question twice, and none in part. *)
THEOREM QuestionsRunOnce == QuerySpec => []QuerySound
<1>1. QueryInv => QuerySound
  <2> SUFFICES ASSUME QueryInv PROVE QuerySound
    OBVIOUS
  <2>1. QueryTypeOK
    BY DEF QueryInv, CacheInv, CacheTyped, StoreInv, StoreTyped, Guard, Assembly, QueryTypeOK
  <2>2. GuardsExact
    <3>1. {x.c : x \in inside} = Running
      BY DEF QueryInv, CacheInv, CacheTyped, Owned, Running
    <3>2. First(Len(order)) = {c \in Seals : guards[c].state = "done"}
      <4>1. \A i \in 1 .. Len(order) : order[i] \in Seals
        BY ElementOfSeq DEF QueryInv, CacheInv, CacheTyped
      <4> QED BY <4>1 DEF QueryInv, CacheInv, Ordered, First
    <3>3. IsInjective(order)
      BY LenProperties DEF QueryInv, CacheInv, CacheTyped, Ordered, IsInjective
    <3> QED BY <3>1, <3>2, <3>3 DEF QueryInv, CacheInv, Owned, Counted, GuardsExact, Running, Replies
  <2>3. OnceWhole
    <3>1. \A q \in Questions : whole[q] > 0 => (whole[q] - 1) * KeptTicks <= clock
      <4> SUFFICES ASSUME NEW q \in Questions PROVE (whole[q] - 1) * KeptTicks <= clock
        OBVIOUS
      <4>1. /\ whole[q] \in Nat /\ clock \in Nat /\ completed[q] \in Nat
            /\ completed[q] <= clock + KeptTicks /\ whole[q] * KeptTicks <= completed[q]
        BY DEF QueryInv, StoreInv, StoreTyped
      <4>2. (whole[q] - 1) * KeptTicks = whole[q] * KeptTicks - KeptTicks
        BY <4>1
      <4>3. whole[q] * KeptTicks \in Nat
        BY <4>1
      <4> QED BY <4>1, <4>2, <4>3
    <3>2. DOMAIN sealed = 1 .. Len(sealed)
      BY LenProperties DEF QueryInv, StoreInv, StoreTyped
    <3> QED BY <3>1, <3>2 DEF QueryInv, StoreInv, OnceWhole, Came
  <2> QED BY <2>1, <2>2, <2>3 DEF QueryInv, StoreInv, QuerySound
<1> QED BY <1>1, QueryInitHolds, QueryStepHolds, PTL DEF QuerySpec

-----------------------------------------------------------------------------
(* The pending queries and the cache of the client: Lookups.               *)

EntryRecords ==
    [status : {"none", "pending", "ready"}, from : 0 .. MaxGroups, expires : Nat, dispatched : 0 .. MaxTime]

Once(o) == \A i, j \in DOMAIN o : o[i] = o[j] => i = j

(* The list of use and the count of a shard are those of its entries. *)
ShardFine(s) ==
    /\ s \in [entry : [Keys -> EntryRecords], order : Seq(Keys), pending : Nat,
              dirty : BOOLEAN, moved : BOOLEAN]
    /\ Once(s.order) /\ Range(s.order) = Held(s)
    /\ s.pending = Cardinality(Pending(s))

(* A key taken out of a list without repetitions. *)
LEMMA UnlistedKey ==
    ASSUME NEW o \in Seq(Keys), Once(o), NEW k \in Keys
    PROVE  /\ Unlisted(o, k) \in Seq(Keys) /\ Once(Unlisted(o, k))
           /\ Range(Unlisted(o, k)) = Range(o) \ {k}
           /\ Len(Unlisted(o, k)) = IF k \in Range(o) THEN Len(o) - 1 ELSE Len(o)
<1>1. CASE k \notin Range(o)
  BY <1>1 DEF Unlisted
<1>2. CASE k \in Range(o)
  <2> DEFINE at == CHOOSE i \in DOMAIN o : o[i] = k
             p  == [j \in 1 .. Len(o) - 1 |-> o[IF j < at THEN j ELSE j + 1]]
  <2>1. at \in 1 .. Len(o) /\ o[at] = k
    BY <1>2 DEF Range
  <2>2. Unlisted(o, k) = p
    BY <1>2 DEF Unlisted
  <2> HIDE DEF at
  <2>3. Len(o) - 1 \in Nat
    BY <2>1
  <2>4. p \in Seq(Keys) /\ Len(p) = Len(o) - 1
    BY <2>1, <2>3
  <2>5. \A j \in 1 .. Len(o) - 1 : p[j] = o[IF j < at THEN j ELSE j + 1]
    OBVIOUS
  <2> HIDE DEF p
  <2>6. Once(p)
    BY <2>1, <2>3, <2>4, <2>5 DEF Once
  <2>7. Range(p) \subseteq Range(o) \ {k}
    BY <2>1, <2>3, <2>4, <2>5 DEF Range, Once
  <2>8. ASSUME NEW x \in Range(o) \ {k} PROVE x \in Range(p)
    <3>1. PICK i \in 1 .. Len(o) : o[i] = x
      BY DEF Range
    <3>2. i # at
      BY <3>1, <2>1
    <3>3. CASE i < at
      <4>1. i \in 1 .. Len(o) - 1 /\ p[i] = x
        BY <3>1, <3>3, <2>1, <2>5
      <4> QED BY <4>1, <2>4 DEF Range
    <3>4. CASE i > at
      <4>1. i - 1 \in 1 .. Len(o) - 1 /\ p[i - 1] = x
        BY <3>1, <3>4, <2>1, <2>5
      <4> QED BY <4>1, <2>4 DEF Range
    <3> QED BY <3>2, <3>3, <3>4, <2>1
  <2> QED BY <1>2, <2>2, <2>4, <2>6, <2>7, <2>8
<1> QED BY <1>1, <1>2

(* A key put at the back of such a list. *)
LEMMA ListedLast ==
    ASSUME NEW o \in Seq(Keys), Once(o), NEW k \in Keys
    PROVE  LET u == Append(Unlisted(o, k), k)
           IN  /\ u \in Seq(Keys) /\ Once(u) /\ Range(u) = Range(o) \cup {k}
               /\ Len(u) = IF k \in Range(o) THEN Len(o) ELSE Len(o) + 1
<1> DEFINE p == Unlisted(o, k)
           u == Append(p, k)
<1>1. /\ p \in Seq(Keys) /\ Once(p) /\ Range(p) = Range(o) \ {k}
      /\ Len(p) = IF k \in Range(o) THEN Len(o) - 1 ELSE Len(o)
  BY UnlistedKey
<1> HIDE DEF p
<1>2. /\ u \in Seq(Keys) /\ Len(u) = Len(p) + 1 /\ u[Len(p) + 1] = k
      /\ \A i \in 1 .. Len(p) : u[i] = p[i]
  BY <1>1
<1> HIDE DEF u
<1>3. ASSUME NEW i \in 1 .. Len(p) PROVE p[i] # k
  <2>1. p[i] \in Range(p)
    BY <1>1 DEF Range
  <2> QED BY <2>1, <1>1
<1>4. Once(u)
  BY <1>1, <1>2, <1>3 DEF Once
<1>5. Range(u) = Range(p) \cup {k}
  <2>1. Range(u) \subseteq Range(p) \cup {k}
    BY <1>1, <1>2 DEF Range
  <2>2. k \in Range(u)
    BY <1>1, <1>2 DEF Range
  <2>3. Range(p) \subseteq Range(u)
    <3>1. ASSUME NEW i \in 1 .. Len(p) PROVE p[i] \in Range(u)
      BY <1>1, <1>2 DEF Range
    <3> QED BY <3>1, <1>1 DEF Range
  <2> QED BY <2>1, <2>2, <2>3
<1>6. k \in Range(o) => Len(o) > 0
  BY DEF Range
<1>7. Range(u) = Range(o) \cup {k}
  BY <1>1, <1>5
<1>8. Len(u) = IF k \in Range(o) THEN Len(o) ELSE Len(o) + 1
  BY <1>1, <1>2
<1> QED BY <1>2, <1>4, <1>7, <1>8 DEF u, p

PendingOne(e) == IF e.status = "pending" THEN 1 ELSE 0

LEMMA BoundsTyped ==
    /\ ShardRecords \in Nat \ {0} /\ MaxWaiting \in Nat /\ PerQuestion \in Nat /\ PendingTimeout \in Nat
    /\ Lifetime \in Nat /\ MaxGroups \in Nat /\ MaxTime \in Nat /\ MaxCrashes \in Nat
    /\ IsFiniteSet(Keys) /\ IsFiniteSet(Waiters)
BY LookupsAssumption

LEMMA NoEntryTyped == NoEntry \in EntryRecords /\ NoEntry.status = "none"
BY BoundsTyped DEF NoEntry, EntryRecords

(* The count of pending records moves with the record that changes. *)
LEMMA PendingCounted ==
    ASSUME NEW s, NEW t, NEW k \in Keys, NEW e \in EntryRecords,
           ShardFine(s), t.entry \in [Keys -> EntryRecords], t.entry[k] = e,
           \A j \in Keys \ {k} : t.entry[j] = s.entry[j]
    PROVE  /\ Cardinality(Pending(t)) = s.pending - PendingOne(s.entry[k]) + PendingOne(e)
           /\ Cardinality(Pending(t)) \in Nat
<1>1. s.entry \in [Keys -> EntryRecords] /\ s.pending \in Nat /\ s.pending = Cardinality(Pending(s))
  BY DEF ShardFine
<1>2. IsFiniteSet(Pending(s)) /\ IsFiniteSet(Pending(t))
  BY BoundsTyped, FS_Subset DEF Pending
<1>3. k \in Pending(s) <=> s.entry[k].status = "pending"
  BY DEF Pending
<1>4. CASE e.status = "pending"
  <2>1. Pending(t) = Pending(s) \cup {k}
    BY <1>1, <1>4 DEF Pending
  <2>2. Cardinality(Pending(t)) = IF k \in Pending(s) THEN s.pending ELSE s.pending + 1
    BY <2>1, <1>1, <1>2, FS_AddElement
  <2> QED BY <2>2, <1>1, <1>3, <1>4 DEF PendingOne
<1>5. CASE e.status # "pending"
  <2>1. Pending(t) = Pending(s) \ {k}
    BY <1>1, <1>5 DEF Pending
  <2>2. Cardinality(Pending(t)) = IF k \in Pending(s) THEN s.pending - 1 ELSE s.pending
    BY <2>1, <1>1, <1>2, FS_RemoveElement
  <2>3. Cardinality(Pending(t)) \in Nat
    BY <1>2, FS_CardinalityType
  <2> QED BY <2>2, <2>3, <1>1, <1>3, <1>5 DEF PendingOne
<1> QED BY <1>4, <1>5

(* What a change of the entries does to the marks of what is not saved. *)
Marked(s, t) ==
    \/ t.entry = s.entry /\ t.dirty = s.dirty /\ t.moved = s.moved
    \/ t.dirty /\ t.moved

(* A record that goes: its key leaves the list, and the count if it was pending. *)
LEMMA DroppedShard ==
    ASSUME NEW s, ShardFine(s), NEW k \in Keys
    PROVE  LET t == Dropped(s, k)
           IN  /\ ShardFine(t) /\ Marked(s, t)
               /\ t.entry[k].status = "none" /\ \A j \in Keys \ {k} : t.entry[j] = s.entry[j]
               /\ Len(t.order) = IF k \in Held(s) THEN Len(s.order) - 1 ELSE Len(s.order)
<1> DEFINE t == Dropped(s, k)
<1>1. CASE s.entry[k].status = "none"
  <2>1. t = s /\ k \notin Held(s)
    BY <1>1 DEF Dropped, Held
  <2> QED BY <1>1, <2>1 DEF ShardFine, Marked
<1>2. CASE s.entry[k].status # "none"
  <2> DEFINE o == Unlisted(s.order, k)
  <2>1. /\ s.entry \in [Keys -> EntryRecords] /\ s.order \in Seq(Keys) /\ s.pending \in Nat
        /\ s \in [entry : [Keys -> EntryRecords], order : Seq(Keys), pending : Nat,
                   dirty : BOOLEAN, moved : BOOLEAN]
        /\ Once(s.order) /\ Range(s.order) = Held(s) /\ k \in Held(s)
    BY <1>2 DEF ShardFine, Held
  <2>2. /\ o \in Seq(Keys) /\ Once(o) /\ Range(o) = Held(s) \ {k} /\ Len(o) = Len(s.order) - 1
    <3>1. /\ o \in Seq(Keys) /\ Once(o) /\ Range(o) = Range(s.order) \ {k}
          /\ Len(o) = IF k \in Range(s.order) THEN Len(s.order) - 1 ELSE Len(s.order)
      BY <2>1, UnlistedKey
    <3> HIDE DEF o
    <3> QED BY <3>1, <2>1
  <2> HIDE DEF o
  <2>3. t = [entry |-> [s.entry EXCEPT ![k] = NoEntry], order |-> o,
             pending |-> IF s.entry[k].status = "pending" THEN s.pending - 1 ELSE s.pending,
             dirty |-> TRUE, moved |-> TRUE]
    BY <1>2, <2>1 DEF Dropped, Changed, o
  <2> HIDE DEF t
  <2>4. /\ t.entry = [s.entry EXCEPT ![k] = NoEntry] /\ t.order = o /\ t.dirty /\ t.moved
        /\ t.pending = IF s.entry[k].status = "pending" THEN s.pending - 1 ELSE s.pending
    BY <2>3
  <2>5. /\ Cardinality(Pending(t)) = s.pending - PendingOne(s.entry[k]) + PendingOne(NoEntry)
        /\ Cardinality(Pending(t)) \in Nat
    <3>1. /\ t.entry \in [Keys -> EntryRecords] /\ t.entry[k] = NoEntry
          /\ \A j \in Keys \ {k} : t.entry[j] = s.entry[j]
      BY <2>1, <2>4, NoEntryTyped
    <3> QED BY <3>1, NoEntryTyped, PendingCounted
  <2>6. t.pending = Cardinality(Pending(t)) /\ t.pending \in Nat
    BY <2>1, <2>4, <2>5, NoEntryTyped DEF PendingOne
  <2>7. t.entry \in [Keys -> EntryRecords]
    BY <2>1, <2>4, NoEntryTyped
  <2>8. Held(t) = Held(s) \ {k}
    BY <2>1, <2>4, NoEntryTyped DEF Held
  <2>9. t \in [entry : [Keys -> EntryRecords], order : Seq(Keys), pending : Nat,
               dirty : BOOLEAN, moved : BOOLEAN]
    BY <2>2, <2>3, <2>4, <2>6, <2>7
  <2>10. ShardFine(t)
    BY <2>2, <2>4, <2>6, <2>8, <2>9 DEF ShardFine
  <2>11. t.entry[k].status = "none" /\ \A j \in Keys \ {k} : t.entry[j] = s.entry[j]
    BY <2>1, <2>4, NoEntryTyped
  <2> QED BY <2>1, <2>2, <2>4, <2>10, <2>11 DEF Marked, t
<1> QED BY <1>1, <1>2

(* A record put in place of the one of its key, which goes to the back. *)
PutInto(s, t, k, e) ==
    /\ t = [entry |-> t.entry, order |-> t.order, pending |-> t.pending, dirty |-> t.dirty, moved |-> t.moved]
    /\ t.entry \in [Keys -> EntryRecords] /\ t.entry[k] = e
    /\ \A j \in Keys \ {k} : t.entry[j] = s.entry[j]
    /\ t.order = Append(Unlisted(s.order, k), k)
    /\ t.pending = s.pending - PendingOne(s.entry[k]) + PendingOne(e)
    /\ t.dirty \in BOOLEAN /\ t.moved \in BOOLEAN

LEMMA PutShard ==
    ASSUME NEW s, ShardFine(s), NEW k \in Keys, NEW e \in EntryRecords, e.status # "none",
           NEW t, PutInto(s, t, k, e)
    PROVE  /\ ShardFine(t)
           /\ Len(t.order) = IF k \in Held(s) THEN Len(s.order) ELSE Len(s.order) + 1
<1>1. /\ s.entry \in [Keys -> EntryRecords] /\ s.order \in Seq(Keys)
      /\ Once(s.order) /\ Range(s.order) = Held(s)
  BY DEF ShardFine
<1>2. /\ t.order \in Seq(Keys) /\ Once(t.order) /\ Range(t.order) = Held(s) \cup {k}
      /\ Len(t.order) = IF k \in Held(s) THEN Len(s.order) ELSE Len(s.order) + 1
  <2> DEFINE o == Append(Unlisted(s.order, k), k)
  <2>1. /\ o \in Seq(Keys) /\ Once(o) /\ Range(o) = Range(s.order) \cup {k}
        /\ Len(o) = IF k \in Range(s.order) THEN Len(s.order) ELSE Len(s.order) + 1
    BY <1>1, ListedLast
  <2>2. t.order = o
    BY DEF PutInto
  <2> HIDE DEF o
  <2> QED BY <2>1, <2>2, <1>1
<1>3. /\ Cardinality(Pending(t)) = s.pending - PendingOne(s.entry[k]) + PendingOne(e)
      /\ Cardinality(Pending(t)) \in Nat
  <2>1. t.entry \in [Keys -> EntryRecords] /\ t.entry[k] = e /\ \A j \in Keys \ {k} : t.entry[j] = s.entry[j]
    BY DEF PutInto
  <2> QED BY <2>1, PendingCounted
<1>4. t.pending = Cardinality(Pending(t)) /\ t.pending \in Nat
  BY <1>3 DEF PutInto
<1>5. Held(t) = Held(s) \cup {k}
  BY <1>1 DEF Held, PutInto
<1>6. t \in [entry : [Keys -> EntryRecords], order : Seq(Keys), pending : Nat,
             dirty : BOOLEAN, moved : BOOLEAN]
  BY <1>2, <1>4 DEF PutInto
<1>7. ShardFine(t)
  BY <1>2, <1>4, <1>5, <1>6 DEF ShardFine
<1> QED BY <1>2, <1>7

(* What an operation on the record of a key may do to the shard. *)
ShardStep(s, t, k) ==
    /\ ShardFine(t) /\ Len(t.order) <= ShardRecords /\ Marked(s, t)
    /\ \A j \in Keys \ {k} : t.entry[j] = s.entry[j] \/ t.entry[j].status = "none"

(* The record of a held key, which is the last used. *)
LEMMA UsedShard ==
    ASSUME NEW s, ShardFine(s), Len(s.order) <= ShardRecords, NEW k \in Keys, k \in Held(s)
    PROVE  ShardStep(s, Used(s, k), k) /\ Used(s, k).entry = s.entry
<1> DEFINE t == Used(s, k)
           o == Append(Unlisted(s.order, k), k)
           u == [entry |-> [s.entry EXCEPT ![k] = s.entry[k]], order |-> o,
                 pending |-> s.pending, dirty |-> s.dirty, moved |-> s.moved]
<1>1. /\ s.entry \in [Keys -> EntryRecords] /\ s.pending \in Nat /\ s.dirty \in BOOLEAN /\ s.moved \in BOOLEAN
      /\ s.entry[k] \in EntryRecords /\ s.entry[k].status # "none"
  BY DEF ShardFine, Held
<1>2. t = u
  <2>1. s.entry = [s.entry EXCEPT ![k] = s.entry[k]]
    BY <1>1
  <2>2. s \in [entry : [Keys -> EntryRecords], order : Seq(Keys), pending : Nat,
               dirty : BOOLEAN, moved : BOOLEAN]
    BY DEF ShardFine
  <2>3. t = [s EXCEPT !.order = o]
    BY DEF Used
  <2> HIDE DEF o, t
  <2>4. t = [entry |-> s.entry, order |-> o,
             pending |-> s.pending, dirty |-> s.dirty, moved |-> s.moved]
    BY <2>2, <2>3
  <2> QED BY <2>1, <2>4
<1>3. s.pending = s.pending - PendingOne(s.entry[k]) + PendingOne(s.entry[k])
  BY <1>1 DEF PendingOne
<1>4. /\ ShardFine(u) /\ u.entry[k] = s.entry[k] /\ \A j \in Keys \ {k} : u.entry[j] = s.entry[j]
      /\ Len(u.order) = IF k \in Held(s) THEN Len(s.order) ELSE Len(s.order) + 1
  <2>1. PutInto(s, u, k, s.entry[k])
    BY <1>1, <1>3 DEF PutInto
  <2>2. u.entry[k] = s.entry[k] /\ \A j \in Keys \ {k} : u.entry[j] = s.entry[j]
    BY <1>1
  <2> HIDE DEF u
  <2> QED BY <1>1, <2>1, <2>2, PutShard
<1>5. u.entry = s.entry /\ u.dirty = s.dirty /\ u.moved = s.moved
  BY <1>1
<1> HIDE DEF u
<1> QED BY <1>2, <1>4, <1>5 DEF ShardStep, Marked

(* A new record at the back; the front one leaves when there are too many. *)
LEMMA PushedShard ==
    ASSUME NEW s, ShardFine(s), Len(s.order) <= ShardRecords,
           NEW k \in Keys, s.entry[k].status = "none", NEW e \in EntryRecords, e.status # "none"
    PROVE  LET t == Pushed(s, k, e)
           IN  ShardStep(s, t, k) /\ (t.entry[k] = e \/ t.entry[k].status = "none")
<1> DEFINE n == s.pending + PendingOne(e)
           o == Append(Unlisted(s.order, k), k)
           u == [entry |-> [s.entry EXCEPT ![k] = e], order |-> o,
                 pending |-> n, dirty |-> TRUE, moved |-> TRUE]
           t == Pushed(s, k, e)
<1>1. /\ s.entry \in [Keys -> EntryRecords] /\ s.pending \in Nat /\ k \notin Held(s)
      /\ PendingOne(s.entry[k]) = 0 /\ PendingOne(e) \in {0, 1} /\ s.order \in Seq(Keys)
  BY DEF ShardFine, Held, PendingOne
<1>2. t = IF Len(u.order) > ShardRecords THEN Dropped(u, Head(u.order)) ELSE u
  <2> DEFINE v == Changed(Used([s EXCEPT !.entry[k] = e,
                                         !.pending = @ + (IF e.status = "pending" THEN 1 ELSE 0)], k))
  <2>1. s \in [entry : [Keys -> EntryRecords], order : Seq(Keys), pending : Nat,
               dirty : BOOLEAN, moved : BOOLEAN]
    BY DEF ShardFine
  <2>2. v = u
    <3>1. v = [[[s EXCEPT !.entry[k] = e, !.pending = n] EXCEPT !.order = o] EXCEPT !.dirty = TRUE, !.moved = TRUE]
      BY <2>1 DEF Changed, Used, PendingOne
    <3> HIDE DEF v, o, n
    <3> QED BY <2>1, <3>1
  <2>3. t = IF Len(v.order) > ShardRecords THEN Dropped(v, Head(v.order)) ELSE v
    BY DEF Pushed
  <2> QED BY <2>2, <2>3
<1>3. n \in Int /\ n = s.pending - PendingOne(s.entry[k]) + PendingOne(e)
  BY <1>1
<1>4. /\ ShardFine(u) /\ u.entry[k] = e /\ \A j \in Keys \ {k} : u.entry[j] = s.entry[j]
      /\ Len(u.order) = IF k \in Held(s) THEN Len(s.order) ELSE Len(s.order) + 1
  <2>1. PutInto(s, u, k, e)
    BY <1>1, <1>3 DEF PutInto
  <2>2. u.entry[k] = e /\ \A j \in Keys \ {k} : u.entry[j] = s.entry[j]
    BY <1>1
  <2> HIDE DEF u
  <2> QED BY <1>1, <2>1, <2>2, PutShard
<1>5. u.dirty /\ u.moved
  OBVIOUS
<1> HIDE DEF u, t
<1>6. CASE Len(u.order) <= ShardRecords
  <2>1. t = u
    BY <1>2, <1>4, <1>6, <1>1, BoundsTyped
  <2> QED BY <2>1, <1>4, <1>5, <1>6 DEF ShardStep, Marked, t
<1>7. CASE ~(Len(u.order) <= ShardRecords)
  <2> DEFINE h == Head(u.order)
  <2>1. t = Dropped(u, h)
    BY <1>2, <1>4, <1>7, <1>1, BoundsTyped
  <2>2. u.order \in Seq(Keys) /\ Len(u.order) > 0 /\ Range(u.order) = Held(u)
    BY <1>4, <1>1 DEF ShardFine
  <2>3. h \in Keys /\ h \in Held(u)
    BY <2>2 DEF Range
  <2>4. /\ ShardFine(t) /\ Marked(u, t)
        /\ t.entry[h].status = "none" /\ \A j \in Keys \ {h} : t.entry[j] = u.entry[j]
        /\ Len(t.order) = IF h \in Held(u) THEN Len(u.order) - 1 ELSE Len(u.order)
    BY <1>4, <2>1, <2>3, DroppedShard
  <2>5. Len(t.order) <= ShardRecords
    BY <2>3, <2>4, <1>1, <1>4
  <2>6. Marked(s, t)
    BY <2>4, <1>5 DEF Marked
  <2>7. t.entry[k] = e \/ t.entry[k].status = "none"
    BY <2>4, <1>4
  <2>8. \A j \in Keys \ {k} : t.entry[j] = s.entry[j] \/ t.entry[j].status = "none"
    BY <2>3, <2>4, <1>4
  <2> QED BY <2>4, <2>5, <2>6, <2>7, <2>8 DEF ShardStep, t
<1> QED BY <1>6, <1>7

(* A lookup answers from a live reply, and otherwise leaves no reply in its place. *)
LEMMA LookedUp ==
    ASSUME ShardFine(shard), Len(shard.order) <= ShardRecords, moment \in 0 .. MaxTime, NEW k \in Keys
    PROVE  LET l == Lookup(k)
           IN  /\ ShardStep(shard, l.shard, k) /\ l.ready \in BOOLEAN
               /\ l.ready => /\ shard.entry[k].status = "ready" /\ ~Expired(shard.entry[k])
                             /\ l.shard.entry = shard.entry
               /\ ~l.ready => l.shard.entry[k].status # "ready"
<1> DEFINE e == shard.entry[k]
           l == Lookup(k)
<1>1. /\ shard.entry \in [Keys -> EntryRecords] /\ e \in EntryRecords
      /\ e.status \in {"none", "pending", "ready"} /\ shard.pending \in Nat
      /\ shard \in [entry : [Keys -> EntryRecords], order : Seq(Keys), pending : Nat,
                    dirty : BOOLEAN, moved : BOOLEAN]
  BY DEF ShardFine, EntryRecords
<1>2. CASE e.status = "none" \/ Expired(e)
  <2> DEFINE d == Dropped(shard, k)
             p == Pushed(d, k, NewPending)
  <2>1. l = [shard |-> p, ready |-> FALSE, dispatch |-> TRUE]
    BY <1>2 DEF Lookup, Expired
  <2>2. NewPending \in EntryRecords /\ NewPending.status = "pending"
    BY NoEntryTyped DEF NewPending, EntryRecords
  <2>3. /\ ShardFine(d) /\ Marked(shard, d)
        /\ d.entry[k].status = "none" /\ \A j \in Keys \ {k} : d.entry[j] = shard.entry[j]
        /\ Len(d.order) = IF k \in Held(shard) THEN Len(shard.order) - 1 ELSE Len(shard.order)
    BY DroppedShard
  <2>4. Len(d.order) <= ShardRecords
    BY <1>1, <2>3, BoundsTyped
  <2> HIDE DEF d
  <2>5. ShardStep(d, p, k) /\ (p.entry[k] = NewPending \/ p.entry[k].status = "none")
    BY <2>2, <2>3, <2>4, PushedShard
  <2> HIDE DEF p
  <2>6. ShardStep(shard, p, k)
    BY <2>3, <2>5 DEF ShardStep, Marked
  <2>7. p.entry[k].status # "ready"
    BY <2>2, <2>5
  <2> QED BY <2>1, <2>6, <2>7
<1>3. CASE e.status = "ready" /\ ~Expired(e)
  <2>1. l = [shard |-> Used(shard, k), ready |-> TRUE, dispatch |-> FALSE]
    BY <1>3 DEF Lookup, Expired
  <2>2. ShardStep(shard, Used(shard, k), k) /\ Used(shard, k).entry = shard.entry
    BY <1>3, UsedShard DEF Held
  <2> QED BY <1>3, <2>1, <2>2
<1>4. CASE e.status = "pending" /\ moment - e.dispatched >= PendingTimeout
  <2> DEFINE o == Append(Unlisted(shard.order, k), k)
             r == [e EXCEPT !.dispatched = moment]
             t == Changed(Used([shard EXCEPT !.entry[k].dispatched = moment], k))
  <2>1. l = [shard |-> t, ready |-> FALSE, dispatch |-> TRUE]
    BY <1>4 DEF Lookup, Expired
  <2>2. r \in EntryRecords /\ r.status = "pending"
    BY <1>1, <1>4 DEF EntryRecords
  <2>3. t = [[[shard EXCEPT !.entry[k].dispatched = moment] EXCEPT !.order = o] EXCEPT !.dirty = TRUE, !.moved = TRUE]
    BY <1>1 DEF Changed, Used
  <2> HIDE DEF o, t
  <2>4. t = [entry |-> [shard.entry EXCEPT ![k].dispatched = moment], order |-> o, pending |-> shard.pending,
             dirty |-> TRUE, moved |-> TRUE]
    BY <1>1, <2>3
  <2>5. t.entry[k] = r /\ \A j \in Keys \ {k} : t.entry[j] = shard.entry[j]
    BY <1>1, <2>4
  <2>6. t.entry \in [Keys -> EntryRecords]
    <3>1. t.entry = [shard.entry EXCEPT ![k] = r]
      BY <1>1, <2>4
    <3> QED BY <3>1, <1>1, <2>2
  <2>7. t.pending = shard.pending - PendingOne(shard.entry[k]) + PendingOne(r)
    BY <1>1, <1>4, <2>2, <2>4 DEF PendingOne
  <2>8. t = [entry |-> t.entry, order |-> t.order, pending |-> t.pending, dirty |-> t.dirty, moved |-> t.moved]
        /\ t.dirty \in BOOLEAN /\ t.moved \in BOOLEAN /\ t.dirty /\ t.moved /\ t.order = Append(Unlisted(shard.order, k), k)
    BY <2>4 DEF o
  <2> HIDE DEF r
  <2>9. ShardFine(t) /\ Len(t.order) = IF k \in Held(shard) THEN Len(shard.order) ELSE Len(shard.order) + 1
    <3>1. PutInto(shard, t, k, r)
      BY <2>5, <2>6, <2>7, <2>8 DEF PutInto
    <3> QED BY <2>2, <3>1, PutShard
  <2>10. k \in Held(shard)
    BY <1>4 DEF Held
  <2> QED BY <2>1, <2>2, <2>5, <2>8, <2>9, <2>10 DEF ShardStep, Marked
<1>5. CASE e.status = "pending" /\ ~(moment - e.dispatched >= PendingTimeout)
  <2>1. l = [shard |-> Used(shard, k), ready |-> FALSE, dispatch |-> FALSE]
    BY <1>5 DEF Lookup, Expired
  <2>2. ShardStep(shard, Used(shard, k), k) /\ Used(shard, k).entry = shard.entry
    BY <1>5, UsedShard DEF Held
  <2> QED BY <1>5, <2>1, <2>2
<1> QED BY <1>1, <1>2, <1>3, <1>4, <1>5

(* A reply is kept under its key with its group, or nothing is. *)
LEMMA ReadySet ==
    ASSUME ShardFine(shard), Len(shard.order) <= ShardRecords, moment \in 0 .. MaxTime,
           NEW k \in Keys, NEW from \in 0 .. MaxGroups, NEW life \in Nat
    PROVE  LET t == SetReady(k, from, life)
           IN  /\ ShardStep(shard, t, k)
               /\ t.entry[k].status = "none" \/ (t.entry[k].status = "ready" /\ t.entry[k].from = from)
<1> DEFINE r == [NoEntry EXCEPT !.status = "ready", !.from = from, !.expires = moment + life]
           t == SetReady(k, from, life)
<1>1. /\ shard.entry \in [Keys -> EntryRecords] /\ shard.entry[k] \in EntryRecords /\ shard.pending \in Nat
      /\ shard \in [entry : [Keys -> EntryRecords], order : Seq(Keys), pending : Nat,
                    dirty : BOOLEAN, moved : BOOLEAN]
  BY DEF ShardFine
<1>2. r \in EntryRecords /\ r.status = "ready" /\ r.from = from
  <2>1. moment + life \in Nat
    BY BoundsTyped
  <2> QED BY <2>1, NoEntryTyped DEF EntryRecords
<1> HIDE DEF r
<1>3. CASE life = 0
  <2>1. t = Dropped(shard, k)
    BY <1>3 DEF SetReady
  <2>2. /\ ShardFine(t) /\ Marked(shard, t)
        /\ t.entry[k].status = "none" /\ \A j \in Keys \ {k} : t.entry[j] = shard.entry[j]
        /\ Len(t.order) = IF k \in Held(shard) THEN Len(shard.order) - 1 ELSE Len(shard.order)
    BY <2>1, DroppedShard
  <2>3. Len(t.order) <= ShardRecords
    BY <1>1, <2>2, BoundsTyped
  <2> QED BY <2>2, <2>3 DEF ShardStep
<1>4. CASE life # 0 /\ shard.entry[k].status = "none"
  <2>1. t = Pushed(shard, k, r)
    BY <1>4 DEF SetReady, r
  <2> QED BY <2>1, <1>2, <1>4, PushedShard
<1>5. CASE life # 0 /\ shard.entry[k].status # "none"
  <2> DEFINE o == Append(Unlisted(shard.order, k), k)
             n == IF shard.entry[k].status = "pending" THEN shard.pending - 1 ELSE shard.pending
  <2>1. t = Changed(Used([[shard EXCEPT !.pending = n] EXCEPT !.entry[k] = r], k))
    BY <1>5 DEF SetReady, r
  <2> HIDE DEF t, n
  <2>2. t = [[[[shard EXCEPT !.pending = n] EXCEPT !.entry[k] = r] EXCEPT !.order = o] EXCEPT !.dirty = TRUE, !.moved = TRUE]
    BY <1>1, <2>1 DEF Changed, Used
  <2> HIDE DEF o
  <2>3. t = [entry |-> [shard.entry EXCEPT ![k] = r], order |-> o, pending |-> n,
             dirty |-> TRUE, moved |-> TRUE]
    BY <1>1, <2>2
  <2>4. /\ t.entry \in [Keys -> EntryRecords] /\ t.entry[k] = r
        /\ \A j \in Keys \ {k} : t.entry[j] = shard.entry[j]
    BY <1>1, <1>2, <2>3
  <2>5. t.pending = shard.pending - PendingOne(shard.entry[k]) + PendingOne(r)
    BY <1>1, <1>2, <2>3 DEF PendingOne, n
  <2>6. t = [entry |-> t.entry, order |-> t.order, pending |-> t.pending, dirty |-> t.dirty, moved |-> t.moved]
        /\ t.dirty \in BOOLEAN /\ t.moved \in BOOLEAN /\ t.dirty /\ t.moved /\ t.order = Append(Unlisted(shard.order, k), k)
    BY <2>3 DEF o
  <2>7. ShardFine(t) /\ Len(t.order) = IF k \in Held(shard) THEN Len(shard.order) ELSE Len(shard.order) + 1
    <3>1. PutInto(shard, t, k, r)
      BY <2>4, <2>5, <2>6 DEF PutInto
    <3> QED BY <1>2, <3>1, PutShard
  <2>8. k \in Held(shard)
    BY <1>5 DEF Held
  <2> QED BY <1>2, <2>4, <2>6, <2>7, <2>8 DEF ShardStep, Marked, t
<1> QED BY <1>3, <1>4, <1>5

Hows  == {"hit", "refused", "failed", "answered", "dropped"}
Tales == [waiter : Waiters, how : Hows, own : Nat, from : Nat]

RegistryTyped ==
    /\ engine \in BOOLEAN
    /\ wanted \in [Waiters -> Keys \cup {"none"}]
    /\ groups \in [Keys -> [serial : 0 .. MaxGroups, id : {0} \cup DnsIds, waiters : SUBSET Waiters]]
    /\ made \in Seq([key : Keys, id : DnsIds, cycle : Nat]) /\ Len(made) <= MaxGroups
    /\ byId \in [DnsIds -> 0 .. MaxGroups] /\ issued \subseteq DnsIds /\ cycle \in Nat
    /\ timers \subseteq 1 .. Len(made) /\ fired \subseteq 1 .. Len(made) /\ sent \subseteq 1 .. Len(made)

(* A waiting group is the one made under its serial, and its ID leads to it. *)
GroupsIndexed ==
    \A k \in Keys :
        /\ Waiting(k) => /\ groups[k].serial \in 1 .. Len(made) /\ groups[k].id \in issued
                         /\ made[groups[k].serial].key = k
                         /\ made[groups[k].serial].id = groups[k].id
                         /\ byId[groups[k].id] = groups[k].serial
        /\ ~Waiting(k) => groups[k].waiters = {}

(* Its timer is armed, or ran off and waits for the lock. *)
GroupsTimed == \A k \in Keys : Waiting(k) => groups[k].serial \in timers \cup fired

(* An ID leads to the last group that was made under it. *)
IdsIndexed ==
    \A i \in DnsIds : byId[i] # 0 =>
        /\ byId[i] \in 1 .. Len(made) /\ made[byId[i]].id = i
        /\ groups[made[byId[i]].key].serial = byId[i]
        /\ \A h \in 1 .. Len(made) : made[h].id = i => h <= byId[i]

(* An ID is issued once in a cycle. *)
IdsCycled ==
    \A s \in 1 .. Len(made) :
        /\ made[s].cycle <= cycle
        /\ made[s].cycle = cycle => made[s].id \in issued
        /\ \A h \in 1 .. Len(made) : s < h /\ made[s].id = made[h].id => made[s].cycle < made[h].cycle

AllWaiting == UNION {groups[k].waiters : k \in Keys}

(* A query that came waits in the group of its key, or was told, once. *)
WaitersPlaced ==
    /\ told \subseteq Tales
    /\ \A k \in Keys : \A w \in groups[k].waiters : wanted[w] = k
    /\ \A r \in told : wanted[r.waiter] # "none" /\ r.waiter \notin AllWaiting
    /\ \A r, q \in told : r.waiter = q.waiter => r = q
    /\ \A w \in Waiters : wanted[w] # "none" => w \in AllWaiting \/ \E r \in told : r.waiter = w
    /\ total = Cardinality(AllWaiting) /\ total <= MaxWaiting

RegistryInv ==
    RegistryTyped /\ GroupsIndexed /\ GroupsTimed /\ IdsIndexed /\ IdsCycled /\ WaitersPlaced

(* What a query was told is true, and a reply is kept under a key of its question. *)
Honest(r) ==
    /\ r.how = "failed" => r.from = r.own
    /\ r.how = "answered" /\ r.from # r.own =>
         /\ ~engine
         /\ r.from \in 1 .. Len(made) /\ r.own \in 1 .. Len(made)
         /\ made[r.from].cycle < made[r.own].cycle
         /\ Question[made[r.from].key] = Question[wanted[r.waiter]]
    /\ r.how = "hit" => r.from \in 1 .. Len(made) /\ Question[made[r.from].key] = Question[wanted[r.waiter]]

Meant(e, k) ==
    e.status = "ready" => e.from \in 1 .. Len(made) /\ Question[made[e.from].key] = Question[k]

HonestInv ==
    /\ \A r \in told : Honest(r)
    /\ \A k \in Keys : Meant(shard.entry[k], k) /\ Meant(file[k], k) /\ Meant(temp[k], k)

(* The snapshot taken for the file is the cache, unless it moved since. *)
TempAgrees ==
    saving = "taken" /\ ~shard.moved =>
        \A k \in Keys : Kept(shard)[k].status = "ready" => temp[k] = shard.entry[k]

StoredInv ==
    /\ ShardFine(shard) /\ Len(shard.order) <= ShardRecords
    /\ file \in [Keys -> EntryRecords] /\ temp \in [Keys -> EntryRecords]
    /\ saving \in {"no", "begun", "taken"} /\ moment \in 0 .. MaxTime
    /\ FileAgrees /\ TempAgrees /\ NoneMissed

LookupsInv == RegistryInv /\ HonestInv /\ StoredInv

LEMMA MadeTyped ==
    ASSUME RegistryTyped, NEW s \in 1 .. Len(made)
    PROVE  made[s] \in [key : Keys, id : DnsIds, cycle : Nat] /\ Len(made) \in Nat
<1>1. made \in Seq([key : Keys, id : DnsIds, cycle : Nat])
  BY DEF RegistryTyped
<1> QED BY <1>1, ElementOfSeq, LenProperties

LEMMA WaitingTyped ==
    ASSUME RegistryTyped, NEW S \in SUBSET Keys
    PROVE  LET W == UNION {groups[k].waiters : k \in S}
           IN  W \subseteq Waiters /\ IsFiniteSet(W) /\ Cardinality(W) \in Nat
<1> DEFINE W == UNION {groups[k].waiters : k \in S}
<1>1. W \subseteq Waiters
  BY DEF RegistryTyped
<1> HIDE DEF W
<1>2. IsFiniteSet(W)
  BY <1>1, BoundsTyped, FS_Subset
<1> QED BY <1>1, <1>2, FS_CardinalityType DEF W

(* The waiters of the groups that go, all told of it. *)
LEMMA TakenTold ==
    ASSUME RegistryTyped, WaitersPlaced, NEW ks \in SUBSET Keys,
           groups' = [k \in Keys |-> IF k \in ks THEN NoGroup ELSE groups[k]],
           total' = total - Cardinality(UNION {groups[k].waiters : k \in ks}), wanted' = wanted,
           NEW how \in Hows, NEW from \in Nat, Tell(ks, how, from)
    PROVE  WaitersPlaced'
<1> DEFINE leaving == UNION {groups[k].waiters : k \in ks}
           tales == UNION {{[waiter |-> w, how |-> how, own |-> groups[k].serial, from |-> from] :
                                w \in groups[k].waiters} : k \in ks}
<1>1. RegistryTyped /\ WaitersPlaced /\ total' = total - Cardinality(leaving) /\ told' = told \cup tales
  BY DEF Tell
<1>2. /\ \A k \in ks : groups'[k].waiters = {}
      /\ \A k \in Keys \ ks : groups'[k] = groups[k]
  BY DEF NoGroup
<1>3. /\ leaving \subseteq AllWaiting /\ AllWaiting' = AllWaiting \ leaving
  <2>1. leaving \subseteq AllWaiting
    BY DEF AllWaiting
  <2>2. ASSUME NEW w \in AllWaiting' PROVE w \in AllWaiting \ leaving
    <3>1. PICK k \in Keys : w \in groups'[k].waiters
      BY <2>2 DEF AllWaiting
    <3>2. k \notin ks /\ w \in groups[k].waiters
      BY <3>1, <1>2
    <3>3. wanted[w] = k
      BY <3>2, <1>1 DEF WaitersPlaced
    <3>4. w \notin leaving
      BY <3>2, <3>3, <1>1 DEF WaitersPlaced
    <3> QED BY <3>2, <3>4 DEF AllWaiting
  <2>3. ASSUME NEW w \in AllWaiting \ leaving PROVE w \in AllWaiting'
    <3>1. PICK k \in Keys : w \in groups[k].waiters
      BY <2>3 DEF AllWaiting
    <3>2. k \notin ks
      BY <2>3, <3>1
    <3>3. w \in groups'[k].waiters
      BY <3>1, <3>2, <1>2
    <3> QED BY <3>3 DEF AllWaiting
  <2> QED BY <2>1, <2>2, <2>3
<1>4. \A r \in tales : r \in Tales /\ r.waiter \in leaving /\ r.how = how /\ r.from = from
  <2>1. ASSUME NEW k \in ks, NEW w \in groups[k].waiters
        PROVE  [waiter |-> w, how |-> how, own |-> groups[k].serial, from |-> from] \in Tales
    <3>1. w \in Waiters /\ groups[k].serial \in Nat
      BY <1>1, BoundsTyped DEF RegistryTyped
    <3> QED BY <3>1 DEF Tales
  <2> QED BY <2>1
<1>5. \A r, q \in tales : r.waiter = q.waiter => r = q
  <2>1. SUFFICES ASSUME NEW r \in tales, NEW q \in tales, r.waiter = q.waiter PROVE r = q
    OBVIOUS
  <2>2. PICK k \in ks : \E w \in groups[k].waiters :
               r = [waiter |-> w, how |-> how, own |-> groups[k].serial, from |-> from]
    OBVIOUS
  <2>3. PICK j \in ks : \E w \in groups[j].waiters :
               q = [waiter |-> w, how |-> how, own |-> groups[j].serial, from |-> from]
    OBVIOUS
  <2>4. r.waiter \in groups[k].waiters /\ q.waiter \in groups[j].waiters
    BY <2>2, <2>3
  <2>5. k = j
    BY <2>1, <2>4, <1>1 DEF WaitersPlaced
  <2> QED BY <2>1, <2>2, <2>3, <2>5
<1>6. \A w \in leaving : \E r \in tales : r.waiter = w
  <2>1. ASSUME NEW w \in leaving PROVE \E r \in tales : r.waiter = w
    <3>1. PICK k \in ks : w \in groups[k].waiters
      OBVIOUS
    <3> DEFINE r == [waiter |-> w, how |-> how, own |-> groups[k].serial, from |-> from]
    <3>2. r \in tales /\ r.waiter = w
      BY <3>1
    <3> QED BY <3>2
  <2> QED BY <2>1
<1>7. \A w \in AllWaiting : wanted[w] # "none"
  <2>1. ASSUME NEW w \in AllWaiting PROVE wanted[w] # "none"
    <3>1. PICK k \in Keys : w \in groups[k].waiters
      BY DEF AllWaiting
    <3> QED BY <3>1, <1>1, LookupsAssumption DEF WaitersPlaced
  <2> QED BY <2>1
<1>8. total' = Cardinality(AllWaiting') /\ total' <= MaxWaiting
  <2>1. IsFiniteSet(AllWaiting) /\ Cardinality(AllWaiting) \in Nat
    BY <1>1, WaitingTyped DEF AllWaiting
  <2>2. IsFiniteSet(leaving) /\ Cardinality(leaving) \in Nat
    BY <1>1, WaitingTyped
  <2> HIDE DEF leaving
  <2>3. leaving = AllWaiting \cap leaving
    BY <1>3
  <2>4. Cardinality(AllWaiting \ leaving) = Cardinality(AllWaiting) - Cardinality(AllWaiting \cap leaving)
    BY <2>1, <2>2, FS_Difference
  <2>5. Cardinality(AllWaiting') = total - Cardinality(leaving) /\ total \in Nat /\ total <= MaxWaiting
    BY <2>1, <2>3, <2>4, <1>1, <1>3 DEF WaitersPlaced
  <2> QED BY <2>2, <2>5, <1>1, BoundsTyped
<1> HIDE DEF leaving, tales
<1>9. WaitersPlaced'
  <2>1. told' \subseteq Tales
    BY <1>1, <1>2, <1>4 DEF WaitersPlaced
  <2>2. \A k \in Keys : \A w \in groups'[k].waiters : wanted'[w] = k
    BY <1>1, <1>2 DEF WaitersPlaced
  <2>3. \A r \in told' : wanted'[r.waiter] # "none" /\ r.waiter \notin AllWaiting'
    BY <1>1, <1>2, <1>3, <1>4, <1>7 DEF WaitersPlaced
  <2>4. \A r, q \in told' : r.waiter = q.waiter => r = q
    <3>1. \A r \in told, q \in tales : r.waiter # q.waiter
      BY <1>1, <1>3, <1>4 DEF WaitersPlaced
    <3> QED BY <3>1, <1>1, <1>2, <1>5 DEF WaitersPlaced
  <2>5. \A w \in Waiters : wanted'[w] # "none" => w \in AllWaiting' \/ \E r \in told' : r.waiter = w
    BY <1>1, <1>2, <1>3, <1>6 DEF WaitersPlaced
  <2> QED BY <2>1, <2>2, <2>3, <2>4, <2>5, <1>8 DEF WaitersPlaced
<1> QED BY <1>9

(* Groups that are taken: their IDs, timers and waiters go with them, and the waiters are told. *)
LEMMA TakenKeeps ==
    ASSUME RegistryInv, NEW ks \in SUBSET Keys, Take(ks),
           engine' = engine, wanted' = wanted, sent' \subseteq sent, fired' \subseteq fired,
           \A k \in Keys \ ks : Waiting(k) /\ groups[k].serial \in fired => groups[k].serial \in fired',
           NEW how \in Hows, NEW from \in Nat, Tell(ks, how, from)
    PROVE  RegistryInv'
<1>1. /\ RegistryTyped /\ GroupsIndexed /\ GroupsTimed /\ IdsIndexed /\ IdsCycled /\ WaitersPlaced
  BY DEF RegistryInv
<1>2. /\ groups' = [k \in Keys |-> IF k \in ks THEN NoGroup ELSE groups[k]]
      /\ byId' = [i \in DnsIds |-> IF \E k \in ks : Waiting(k) /\ groups[k].id = i THEN 0 ELSE byId[i]]
      /\ total' = total - Cardinality(UNION {groups[k].waiters : k \in ks})
      /\ timers' = timers \ {groups[k].serial : k \in ks}
      /\ made' = made /\ issued' = issued /\ cycle' = cycle
  BY DEF Take
<1>3. \A k \in Keys : groups'[k] = IF k \in ks THEN NoGroup ELSE groups[k]
  BY <1>2
<1>4. \A k \in ks : ~Waiting(k)' /\ groups'[k].waiters = {}
  BY <1>3 DEF Waiting, NoGroup
<1>5. \A k \in Keys \ ks : groups'[k] = groups[k] /\ (Waiting(k)' <=> Waiting(k))
  BY <1>3 DEF Waiting
<1>6. RegistryTyped'
  <2>1. groups' \in [Keys -> [serial : 0 .. MaxGroups, id : {0} \cup DnsIds, waiters : SUBSET Waiters]]
    <3>1. NoGroup \in [serial : 0 .. MaxGroups, id : {0} \cup DnsIds, waiters : SUBSET Waiters]
      BY BoundsTyped DEF NoGroup
    <3> QED BY <1>1, <1>2, <3>1 DEF RegistryTyped
  <2>2. byId' \in [DnsIds -> 0 .. MaxGroups]
    BY <1>1, <1>2, BoundsTyped DEF RegistryTyped
  <2> QED BY <2>1, <2>2, <1>1, <1>2 DEF RegistryTyped
<1>7. ASSUME NEW k \in Keys \ ks, Waiting(k)
      PROVE  /\ byId'[groups[k].id] = byId[groups[k].id]
             /\ groups[k].serial \notin {groups[j].serial : j \in ks}
  <2>1. groups[k].id \in DnsIds
    BY <1>1, <1>7 DEF RegistryTyped, GroupsIndexed
  <2>2. ~ \E j \in ks : Waiting(j) /\ groups[j].id = groups[k].id
    <3>1. SUFFICES ASSUME NEW j \in ks, Waiting(j), groups[j].id = groups[k].id PROVE FALSE
      OBVIOUS
    <3>2. groups[j].serial = groups[k].serial
      BY <1>1, <1>7, <3>1 DEF GroupsIndexed
    <3>3. j = k
      BY <1>1, <1>7, <3>1, <3>2 DEF GroupsIndexed
    <3> QED BY <3>3
  <2>3. \A j \in ks : groups[j].serial # groups[k].serial
    <3>1. SUFFICES ASSUME NEW j \in ks, groups[j].serial = groups[k].serial PROVE FALSE
      OBVIOUS
    <3>2. Waiting(j)
      BY <1>7, <3>1 DEF Waiting
    <3>3. j = k
      BY <1>1, <1>7, <3>1, <3>2 DEF GroupsIndexed
    <3> QED BY <3>3
  <2> QED BY <1>2, <2>1, <2>2, <2>3
<1>8. GroupsIndexed'
  <2>1. ASSUME NEW k \in Keys, Waiting(k)'
        PROVE  /\ groups'[k].serial \in 1 .. Len(made') /\ groups'[k].id \in issued'
               /\ made'[groups'[k].serial].key = k
               /\ made'[groups'[k].serial].id = groups'[k].id
               /\ byId'[groups'[k].id] = groups'[k].serial
    <3>1. k \in Keys \ ks /\ Waiting(k) /\ groups'[k] = groups[k]
      BY <2>1, <1>4, <1>5
    <3> QED BY <3>1, <1>1, <1>2, <1>7 DEF GroupsIndexed
  <2>2. ASSUME NEW k \in Keys, ~Waiting(k)' PROVE groups'[k].waiters = {}
    BY <2>2, <1>1, <1>4, <1>5 DEF GroupsIndexed
  <2> QED BY <2>1, <2>2 DEF GroupsIndexed
<1>9. GroupsTimed'
  <2>1. ASSUME NEW k \in Keys, Waiting(k)' PROVE groups'[k].serial \in timers' \cup fired'
    <3>1. k \in Keys \ ks /\ Waiting(k) /\ groups'[k] = groups[k]
      BY <2>1, <1>4, <1>5
    <3> QED BY <3>1, <1>1, <1>2, <1>7 DEF GroupsTimed
  <2> QED BY <2>1 DEF GroupsTimed
<1>10. IdsIndexed'
  <2>1. ASSUME NEW i \in DnsIds, byId'[i] # 0
        PROVE  /\ byId'[i] \in 1 .. Len(made') /\ made'[byId'[i]].id = i
               /\ groups'[made'[byId'[i]].key].serial = byId'[i]
               /\ \A h \in 1 .. Len(made') : made'[h].id = i => h <= byId'[i]
    <3>1. byId'[i] = byId[i] /\ ~ \E k \in ks : Waiting(k) /\ groups[k].id = i
      BY <2>1, <1>2
    <3>2. /\ byId[i] # 0 /\ byId[i] \in 1 .. Len(made) /\ made[byId[i]].id = i
          /\ groups[made[byId[i]].key].serial = byId[i]
          /\ \A h \in 1 .. Len(made) : made[h].id = i => h <= byId[i]
      BY <1>1, <2>1, <3>1 DEF IdsIndexed
    <3> DEFINE k == made[byId[i]].key
    <3>3. k \in Keys /\ Waiting(k) /\ groups[k].id = i
      <4>1. made[byId[i]] \in [key : Keys, id : DnsIds, cycle : Nat]
        BY <1>1, <3>2, MadeTyped
      <4>2. k \in Keys
        BY <4>1
      <4>3. groups[k].serial = byId[i]
        BY <3>2
      <4> HIDE DEF k
      <4>4. Waiting(k)
        BY <3>2, <4>3 DEF Waiting
      <4> QED BY <1>1, <3>2, <4>2, <4>3, <4>4 DEF GroupsIndexed
    <3>4. k \notin ks
      BY <3>1, <3>3
    <3> QED BY <1>2, <1>3, <3>1, <3>2, <3>3, <3>4
  <2> QED BY <2>1 DEF IdsIndexed
<1>11. IdsCycled'
  BY <1>1, <1>2 DEF IdsCycled
<1>12. WaitersPlaced'
  BY <1>1, <1>2, TakenTold
<1> QED BY <1>6, <1>8, <1>9, <1>10, <1>11, <1>12 DEF RegistryInv

(* A query that comes and is told at once, or waits in the group of its key. *)
LEMMA ToldPlaced ==
    ASSUME RegistryInv, NEW w \in Waiters, wanted[w] = "none", NEW k \in Keys,
           wanted' = [wanted EXCEPT ![w] = k], NEW how \in Hows, NEW from \in Nat,
           TellOne(w, how, from), groups' = groups, total' = total
    PROVE  WaitersPlaced'
<1> DEFINE r == [waiter |-> w, how |-> how, own |-> 0, from |-> from]
<1>1. RegistryTyped /\ WaitersPlaced /\ AllWaiting' = AllWaiting
  BY DEF RegistryInv, AllWaiting
<1>2. told' = told \cup {r} /\ r \in Tales /\ r.waiter = w
  BY DEF TellOne, Tales
<1> HIDE DEF r
<1>3. k # "none" /\ \A j \in Keys : j # "none"
  BY LookupsAssumption
<1>4. wanted'[w] = k /\ \A v \in Waiters : v # w => wanted'[v] = wanted[v]
  BY <1>1 DEF RegistryTyped
<1>5. \A j \in Keys : w \notin groups[j].waiters
  BY <1>1, <1>3 DEF WaitersPlaced
<1>6. w \notin AllWaiting
  BY <1>5 DEF AllWaiting
<1>7. \A q \in told : q \in Tales /\ q.waiter \in Waiters /\ q.waiter # w
  BY <1>1 DEF WaitersPlaced, Tales
<1>8. told' \subseteq Tales
  BY <1>1, <1>2 DEF WaitersPlaced
<1>9. \A j \in Keys : \A v \in groups'[j].waiters : wanted'[v] = j
  BY <1>1, <1>4, <1>5 DEF WaitersPlaced, RegistryTyped
<1>10. \A q \in told' : wanted'[q.waiter] # "none" /\ q.waiter \notin AllWaiting'
  BY <1>1, <1>2, <1>3, <1>4, <1>6, <1>7 DEF WaitersPlaced
<1>11. \A p, q \in told' : p.waiter = q.waiter => p = q
  BY <1>1, <1>2, <1>7 DEF WaitersPlaced
<1>12. \A v \in Waiters : wanted'[v] # "none" => v \in AllWaiting' \/ \E q \in told' : q.waiter = v
  BY <1>1, <1>2, <1>4 DEF WaitersPlaced
<1> QED BY <1>1, <1>8, <1>9, <1>10, <1>11, <1>12 DEF WaitersPlaced

LEMMA WaiterPlaced ==
    ASSUME RegistryInv, NEW w \in Waiters, wanted[w] = "none", NEW k \in Keys,
           wanted' = [wanted EXCEPT ![w] = k], told' = told, total < MaxWaiting, total' = total + 1,
           groups'[k].waiters = groups[k].waiters \cup {w},
           \A j \in Keys \ {k} : groups'[j].waiters = groups[j].waiters
    PROVE  WaitersPlaced'
<1>1. RegistryTyped /\ WaitersPlaced
  BY DEF RegistryInv
<1>2. \A j \in Keys : j # "none"
  BY LookupsAssumption
<1>3. wanted'[w] = k /\ \A v \in Waiters : v # w => wanted'[v] = wanted[v]
  BY <1>1 DEF RegistryTyped
<1>4. \A j \in Keys : w \notin groups[j].waiters
  BY <1>1, <1>2 DEF WaitersPlaced
<1>5. w \notin AllWaiting
  BY <1>4 DEF AllWaiting
<1>6. AllWaiting' = AllWaiting \cup {w}
  <2>1. \A v : v \in AllWaiting' <=> \E j \in Keys : v \in groups'[j].waiters
    BY DEF AllWaiting
  <2>2. \A v : v \in AllWaiting <=> \E j \in Keys : v \in groups[j].waiters
    BY DEF AllWaiting
  <2>3. \A v : v \in AllWaiting' <=> v \in AllWaiting \/ v = w
    BY <2>1, <2>2
  <2> QED BY <2>3
<1>7. \A j \in Keys : \A v \in groups'[j].waiters : wanted'[v] = j
  <2>1. SUFFICES ASSUME NEW j \in Keys, NEW v \in groups'[j].waiters PROVE wanted'[v] = j
    OBVIOUS
  <2>2. CASE v \in groups[j].waiters
    <3>1. v \in Waiters /\ v # w /\ wanted[v] = j
      BY <2>2, <1>1, <1>4 DEF WaitersPlaced, RegistryTyped
    <3> QED BY <3>1, <1>3
  <2>3. CASE v \notin groups[j].waiters
    <3>1. j = k /\ v = w
      BY <2>1, <2>3
    <3> QED BY <3>1, <1>3
  <2> QED BY <2>2, <2>3
<1>8. \A q \in told : q.waiter \in Waiters /\ q.waiter # w
  BY <1>1 DEF WaitersPlaced, Tales
<1>9. \A q \in told' : wanted'[q.waiter] # "none" /\ q.waiter \notin AllWaiting'
  BY <1>1, <1>3, <1>6, <1>8 DEF WaitersPlaced
<1>10. \A v \in Waiters : wanted'[v] # "none" => v \in AllWaiting' \/ \E q \in told' : q.waiter = v
  BY <1>1, <1>3, <1>6 DEF WaitersPlaced
<1>11. total' = Cardinality(AllWaiting') /\ total' <= MaxWaiting
  <2>1. IsFiniteSet(AllWaiting) /\ Cardinality(AllWaiting) \in Nat
    BY <1>1, WaitingTyped DEF AllWaiting
  <2>2. Cardinality(AllWaiting \cup {w}) = Cardinality(AllWaiting) + 1
    BY <1>5, <2>1, FS_AddElement
  <2>3. total = Cardinality(AllWaiting)
    BY <1>1 DEF WaitersPlaced
  <2> QED BY <2>1, <2>2, <2>3, <1>6, BoundsTyped
<1>12. told' \subseteq Tales /\ \A p, q \in told' : p.waiter = q.waiter => p = q
  BY <1>1 DEF WaitersPlaced
<1> QED BY <1>7, <1>9, <1>10, <1>11, <1>12 DEF WaitersPlaced

(* A waiter that joins the group of its key. *)
LEMMA JoinKeeps ==
    ASSUME RegistryInv, NEW w \in Waiters, wanted[w] = "none", NEW k \in Keys,
           wanted' = [wanted EXCEPT ![w] = k], told' = told, HasRoom(k), Waiting(k),
           JoinGroup(w, k), total' = total + 1, engine' = engine,
           sent' \subseteq sent \cup {groups[k].serial}
    PROVE  RegistryInv'
<1>1. /\ RegistryTyped /\ GroupsIndexed /\ GroupsTimed /\ IdsIndexed /\ IdsCycled /\ WaitersPlaced
  BY DEF RegistryInv
<1>2. /\ groups' = [groups EXCEPT ![k].waiters = @ \cup {w}]
      /\ made' = made /\ byId' = byId /\ issued' = issued /\ cycle' = cycle /\ timers' = timers /\ fired' = fired
  BY DEF JoinGroup
<1>3. /\ \A j \in Keys : groups'[j].serial = groups[j].serial /\ groups'[j].id = groups[j].id
      /\ groups'[k].waiters = groups[k].waiters \cup {w}
      /\ \A j \in Keys \ {k} : groups'[j] = groups[j]
  BY <1>1, <1>2 DEF RegistryTyped
<1>4. \A j \in Keys : Waiting(j)' <=> Waiting(j)
  BY <1>3 DEF Waiting
<1>5. groups' \in [Keys -> [serial : 0 .. MaxGroups, id : {0} \cup DnsIds, waiters : SUBSET Waiters]]
  <2> DEFINE G == [serial : 0 .. MaxGroups, id : {0} \cup DnsIds, waiters : SUBSET Waiters]
  <2>1. groups[k] \in G /\ groups \in [Keys -> G]
    BY <1>1 DEF RegistryTyped
  <2>2. [groups[k] EXCEPT !.waiters = @ \cup {w}] \in G
    BY <2>1
  <2>3. groups' = [groups EXCEPT ![k] = [groups[k] EXCEPT !.waiters = @ \cup {w}]]
    BY <1>2, <2>1
  <2> QED BY <2>1, <2>2, <2>3
<1>6. RegistryTyped'
  <2>1. groups[k].serial \in 1 .. Len(made)
    BY <1>1 DEF GroupsIndexed
  <2>2. wanted' \in [Waiters -> Keys \cup {"none"}]
    BY <1>1 DEF RegistryTyped
  <2> QED BY <1>1, <1>2, <1>5, <2>1, <2>2 DEF RegistryTyped
<1>7. GroupsIndexed'
  BY <1>1, <1>2, <1>3, <1>4 DEF GroupsIndexed
<1>8. GroupsTimed'
  BY <1>1, <1>2, <1>3, <1>4 DEF GroupsTimed
<1>9. IdsIndexed'
  <2>1. \A i \in DnsIds : byId[i] # 0 => made[byId[i]].key \in Keys
    BY <1>1, MadeTyped DEF IdsIndexed
  <2> QED BY <1>1, <1>2, <1>3, <2>1 DEF IdsIndexed
<1>10. IdsCycled'
  BY <1>1, <1>2 DEF IdsCycled
<1>11. WaitersPlaced'
  BY <1>3, WaiterPlaced DEF HasRoom
<1> QED BY <1>6, <1>7, <1>8, <1>9, <1>10, <1>11 DEF RegistryInv

(* The first waiter of a key: a group under an ID that is free in this cycle, and its timer. *)
LEMMA NewKeeps ==
    ASSUME RegistryInv, NEW w \in Waiters, wanted[w] = "none", NEW k \in Keys, NEW i \in DnsIds,
           wanted' = [wanted EXCEPT ![w] = k], told' = told, HasRoom(k), ~Waiting(k),
           NewGroup(w, k, i), total' = total + 1, engine' = engine
    PROVE  RegistryInv' /\ Len(made') = Len(made) + 1 /\ \A s \in 1 .. Len(made) : made'[s] = made[s]
<1> DEFINE n == Len(made) + 1
           c == cycle + (IF issued = DnsIds THEN 1 ELSE 0)
           G == [serial : 0 .. MaxGroups, id : {0} \cup DnsIds, waiters : SUBSET Waiters]
           g == [serial |-> n, id |-> i, waiters |-> {w}]
           M == [key : Keys, id : DnsIds, cycle : Nat]
           m == [key |-> k, id |-> i, cycle |-> c]
<1>1. /\ RegistryTyped /\ GroupsIndexed /\ GroupsTimed /\ IdsIndexed /\ IdsCycled /\ WaitersPlaced
  BY DEF RegistryInv
<1>2. /\ i \in Free /\ n \in Serials
      /\ groups' = [groups EXCEPT ![k] = g]
      /\ made' = Append(made, m)
      /\ byId' = [byId EXCEPT ![i] = n]
      /\ issued' = Retired \cup {i} /\ cycle' = c
      /\ timers' = timers \cup {n} /\ sent' = sent \cup {n} /\ fired' = fired
  BY DEF NewGroup
<1>3. /\ Len(made) \in Nat /\ n \in Nat /\ n \in 1 .. MaxGroups /\ n <= MaxGroups
      /\ c \in Nat /\ cycle \in Nat /\ cycle <= c
  BY <1>1, <1>2, BoundsTyped DEF RegistryTyped, Serials
<1>4. i \notin Retired /\ byId[i] = 0
  BY <1>2 DEF Free
<1>5. m \in M /\ g \in G
  BY <1>1, <1>3
<1>6. /\ made' \in Seq(M) /\ Len(made') = n /\ made'[n] = m
      /\ \A s \in 1 .. Len(made) : made'[s] = made[s]
  <2>1. made \in Seq(M)
    BY <1>1 DEF RegistryTyped
  <2> HIDE DEF m, M
  <2> QED BY <1>2, <1>5, <2>1
<1>7. m.key = k /\ m.id = i /\ m.cycle = c /\ g.serial = n /\ g.id = i /\ g.waiters = {w}
  OBVIOUS
<1> HIDE DEF m, g
<1>8. groups'[k] = g /\ \A j \in Keys \ {k} : groups'[j] = groups[j]
  BY <1>1, <1>2 DEF RegistryTyped
<1>9. byId'[i] = n /\ \A h \in DnsIds \ {i} : byId'[h] = byId[h]
  BY <1>1, <1>2 DEF RegistryTyped
<1>10. Waiting(k)' /\ \A j \in Keys \ {k} : Waiting(j)' <=> Waiting(j)
  BY <1>3, <1>7, <1>8 DEF Waiting
<1>11. /\ Retired \subseteq DnsIds
       /\ \A j \in Keys : Waiting(j) => groups[j].id \in Retired /\ groups[j].id # i
  <2>1. \A j \in Keys : Waiting(j) => byId[groups[j].id] # 0 /\ groups[j].id \in issued /\ groups[j].id \in DnsIds
    BY <1>1 DEF GroupsIndexed, Waiting, RegistryTyped
  <2> QED BY <1>1, <1>4, <2>1 DEF Retired, RegistryTyped
<1>12. RegistryTyped'
  <2>1. groups' \in [Keys -> G]
    BY <1>1, <1>2, <1>5 DEF RegistryTyped
  <2>2. byId' \in [DnsIds -> 0 .. MaxGroups]
    BY <1>1, <1>2, <1>3 DEF RegistryTyped
  <2>3. wanted' \in [Waiters -> Keys \cup {"none"}]
    BY <1>1 DEF RegistryTyped
  <2>4. timers' \subseteq 1 .. Len(made') /\ fired' \subseteq 1 .. Len(made') /\ sent' \subseteq 1 .. Len(made')
    <3>1. 1 .. Len(made) \subseteq 1 .. Len(made') /\ n \in 1 .. Len(made')
      BY <1>3, <1>6
    <3> HIDE DEF n
    <3> QED BY <1>1, <1>2, <3>1 DEF RegistryTyped
  <2>5. issued' \subseteq DnsIds /\ cycle' \in Nat /\ engine' \in BOOLEAN
    BY <1>1, <1>2, <1>3, <1>11 DEF RegistryTyped
  <2> QED BY <1>3, <1>6, <2>1, <2>2, <2>3, <2>4, <2>5 DEF RegistryTyped
<1>13. GroupsIndexed'
  <2>1. ASSUME NEW j \in Keys, Waiting(j)'
        PROVE  /\ groups'[j].serial \in 1 .. Len(made') /\ groups'[j].id \in issued'
               /\ made'[groups'[j].serial].key = j
               /\ made'[groups'[j].serial].id = groups'[j].id
               /\ byId'[groups'[j].id] = groups'[j].serial
    <3>1. CASE j = k
      BY <3>1, <1>2, <1>3, <1>6, <1>7, <1>8, <1>9
    <3>2. CASE j # k
      <4>1. Waiting(j) /\ groups'[j] = groups[j]
        BY <2>1, <3>2, <1>8, <1>10
      <4>2. /\ groups[j].serial \in 1 .. Len(made)
            /\ made[groups[j].serial].key = j
            /\ made[groups[j].serial].id = groups[j].id
            /\ byId[groups[j].id] = groups[j].serial
        BY <4>1, <1>1 DEF GroupsIndexed
      <4>3. groups[j].id \in Retired /\ groups[j].id # i /\ groups[j].id \in DnsIds
        BY <4>1, <1>11
      <4> QED BY <4>1, <4>2, <4>3, <1>2, <1>3, <1>6, <1>9
    <3> QED BY <3>1, <3>2
  <2>2. ASSUME NEW j \in Keys, ~Waiting(j)' PROVE groups'[j].waiters = {}
    BY <2>2, <1>1, <1>8, <1>10 DEF GroupsIndexed
  <2> QED BY <2>1, <2>2 DEF GroupsIndexed
<1>14. GroupsTimed'
  <2>1. ASSUME NEW j \in Keys, Waiting(j)' PROVE groups'[j].serial \in timers' \cup fired'
    <3>1. CASE j = k
      BY <3>1, <1>2, <1>7, <1>8
    <3>2. CASE j # k
      BY <2>1, <3>2, <1>1, <1>2, <1>8, <1>10 DEF GroupsTimed
    <3> QED BY <3>1, <3>2
  <2> QED BY <2>1 DEF GroupsTimed
<1>15. IdsIndexed'
  <2>1. ASSUME NEW h \in DnsIds, byId'[h] # 0
        PROVE  /\ byId'[h] \in 1 .. Len(made') /\ made'[byId'[h]].id = h
               /\ groups'[made'[byId'[h]].key].serial = byId'[h]
               /\ \A s \in 1 .. Len(made') : made'[s].id = h => s <= byId'[h]
    <3>1. CASE h = i
      BY <3>1, <1>3, <1>6, <1>7, <1>8, <1>9
    <3>2. CASE h # i
      <4>1. byId'[h] = byId[h] /\ byId[h] # 0
        BY <2>1, <3>2, <1>9
      <4>2. /\ byId[h] \in 1 .. Len(made) /\ made[byId[h]].id = h
            /\ groups[made[byId[h]].key].serial = byId[h]
            /\ \A s \in 1 .. Len(made) : made[s].id = h => s <= byId[h]
        BY <4>1, <1>1 DEF IdsIndexed
      <4>3. made[byId[h]].key \in Keys
        BY <4>2, <1>1, MadeTyped
      <4>4. made[byId[h]].key # k
        BY <4>1, <4>2 DEF Waiting
      <4>5. made'[byId'[h]] = made[byId[h]]
        BY <4>1, <4>2, <1>6
      <4>6. \A s \in 1 .. Len(made') : made'[s].id = h => s <= byId'[h]
        BY <4>1, <4>2, <3>2, <1>3, <1>6, <1>7
      <4> QED BY <4>1, <4>2, <4>3, <4>4, <4>5, <4>6, <1>3, <1>6, <1>8
    <3> QED BY <3>1, <3>2
  <2> QED BY <2>1 DEF IdsIndexed
<1>16. \A s \in 1 .. Len(made) : made[s].cycle <= cycle /\ made[s].cycle \in Nat /\ (made[s].id = i => made[s].cycle < c)
  <2>1. SUFFICES ASSUME NEW s \in 1 .. Len(made)
                 PROVE  made[s].cycle <= cycle /\ made[s].cycle \in Nat /\ (made[s].id = i => made[s].cycle < c)
    OBVIOUS
  <2>2. made[s].cycle <= cycle /\ made[s].cycle \in Nat /\ (made[s].cycle = cycle => made[s].id \in issued)
    BY <1>1, MadeTyped DEF IdsCycled
  <2>3. CASE issued = DnsIds
    BY <2>2, <2>3, <1>3
  <2>4. CASE issued # DnsIds
    <3>1. i \notin issued
      BY <2>4, <1>4 DEF Retired
    <3> QED BY <2>2, <2>4, <3>1, <1>3
  <2> QED BY <2>3, <2>4
<1>17. IdsCycled'
  <2>1. ASSUME NEW s \in 1 .. Len(made')
        PROVE  /\ made'[s].cycle <= cycle'
               /\ made'[s].cycle = cycle' => made'[s].id \in issued'
               /\ \A h \in 1 .. Len(made') :
                      s < h /\ made'[s].id = made'[h].id => made'[s].cycle < made'[h].cycle
    <3>1. CASE s = n
      BY <3>1, <1>2, <1>3, <1>6, <1>7
    <3>2. CASE s # n
      <4>1. s \in 1 .. Len(made) /\ made'[s] = made[s]
        BY <3>2, <1>3, <1>6
      <4>2. made[s].cycle <= cycle /\ made[s].cycle \in Nat /\ (made[s].id = i => made[s].cycle < c)
        BY <4>1, <1>16
      <4>3. made'[s].cycle = cycle' => made'[s].id \in issued'
        <5>1. CASE issued = DnsIds
          BY <5>1, <4>1, <4>2, <1>2, <1>3
        <5>2. CASE issued # DnsIds
          BY <5>2, <4>1, <1>1, <1>2, <1>3 DEF IdsCycled, Retired
        <5> QED BY <5>1, <5>2
      <4>4. ASSUME NEW h \in 1 .. Len(made'), s < h, made'[s].id = made'[h].id
            PROVE  made'[s].cycle < made'[h].cycle
        <5>1. CASE h = n
          BY <5>1, <4>1, <4>2, <4>4, <1>6, <1>7
        <5>2. CASE h # n
          <6>1. h \in 1 .. Len(made) /\ made'[h] = made[h]
            BY <5>2, <1>3, <1>6
          <6> QED BY <6>1, <4>1, <4>4, <1>1 DEF IdsCycled
        <5> QED BY <5>1, <5>2
      <4>5. made'[s].cycle <= cycle'
        BY <4>1, <4>2, <1>2, <1>3
      <4> QED BY <4>3, <4>4, <4>5
    <3> QED BY <3>1, <3>2
  <2> QED BY <2>1 DEF IdsCycled
<1>18. WaitersPlaced'
  <2>1. groups[k].waiters = {}
    BY <1>1 DEF GroupsIndexed
  <2>2. groups'[k].waiters = groups[k].waiters \cup {w}
    BY <2>1, <1>7, <1>8
  <2> QED BY <2>2, <1>8, WaiterPlaced DEF HasRoom
<1> QED BY <1>6, <1>12, <1>13, <1>14, <1>15, <1>17, <1>18 DEF RegistryInv

(* A restart: the waiters are dropped and no ID is issued in the new cycle. *)
LEMMA CrashKeeps ==
    ASSUME RegistryInv, Crash
    PROVE  RegistryInv'
<1>1. /\ RegistryTyped /\ GroupsIndexed /\ GroupsTimed /\ IdsIndexed /\ IdsCycled /\ WaitersPlaced
  BY DEF RegistryInv
<1>2. /\ Tell(Keys, "dropped", 0)
      /\ groups' = [k \in Keys |-> NoGroup] /\ byId' = [i \in DnsIds |-> 0]
      /\ issued' = {} /\ cycle' = cycle + 1 /\ total' = 0
      /\ timers' = {} /\ fired' = {} /\ sent' = {}
      /\ engine' = engine /\ wanted' = wanted /\ made' = made
  BY DEF Crash
<1>3. \A k \in Keys : groups'[k] = NoGroup /\ ~Waiting(k)' /\ groups'[k].waiters = {}
  BY <1>2 DEF Waiting, NoGroup
<1>4. RegistryTyped'
  <2>1. NoGroup \in [serial : 0 .. MaxGroups, id : {0} \cup DnsIds, waiters : SUBSET Waiters]
    BY BoundsTyped DEF NoGroup
  <2>2. groups' \in [Keys -> [serial : 0 .. MaxGroups, id : {0} \cup DnsIds, waiters : SUBSET Waiters]]
    BY <1>2, <2>1
  <2>3. byId' \in [DnsIds -> 0 .. MaxGroups]
    BY <1>2, BoundsTyped
  <2> QED BY <1>1, <1>2, <2>2, <2>3 DEF RegistryTyped
<1>5. GroupsIndexed' /\ GroupsTimed'
  BY <1>3 DEF GroupsIndexed, GroupsTimed
<1>6. IdsIndexed'
  BY <1>2 DEF IdsIndexed
<1>7. IdsCycled'
  <2>1. \A s \in 1 .. Len(made) : made[s].cycle \in Nat
    BY <1>1, MadeTyped
  <2> QED BY <1>1, <1>2, <2>1 DEF IdsCycled, RegistryTyped
<1>8. WaitersPlaced'
  <2>1. groups' = [k \in Keys |-> IF k \in Keys THEN NoGroup ELSE groups[k]]
    BY <1>2
  <2>2. total' = total - Cardinality(UNION {groups[k].waiters : k \in Keys})
    <3>1. total = Cardinality(AllWaiting) /\ Cardinality(AllWaiting) \in Nat
      BY <1>1, WaitingTyped DEF WaitersPlaced, AllWaiting
    <3> QED BY <3>1, <1>2 DEF AllWaiting
  <2> QED BY <1>1, <1>2, <2>1, <2>2, TakenTold DEF Hows
<1> QED BY <1>4, <1>5, <1>6, <1>7, <1>8 DEF RegistryInv

(* A step of the registry's surroundings: no group, ID or waiter moves. *)
LEMMA RegistryStays ==
    ASSUME RegistryInv, engine' = engine, wanted' = wanted, groups' = groups, made' = made, byId' = byId,
           issued' = issued, cycle' = cycle, total' = total, told' = told,
           timers' \cup fired' \subseteq timers \cup fired, sent' \subseteq sent,
           \A k \in Keys : Waiting(k) => groups[k].serial \in timers' \cup fired'
    PROVE  RegistryInv'
<1>1. /\ RegistryTyped /\ GroupsIndexed /\ GroupsTimed /\ IdsIndexed /\ IdsCycled /\ WaitersPlaced
  BY DEF RegistryInv
<1>2. RegistryTyped'
  <2>1. timers' \subseteq 1 .. Len(made') /\ fired' \subseteq 1 .. Len(made') /\ sent' \subseteq 1 .. Len(made')
    BY <1>1 DEF RegistryTyped
  <2> QED BY <2>1, <1>1 DEF RegistryTyped
<1>3. GroupsIndexed' /\ IdsIndexed' /\ IdsCycled'
  BY <1>1 DEF GroupsIndexed, IdsIndexed, IdsCycled, Waiting
<1>4. GroupsTimed'
  BY <1>1 DEF GroupsTimed, Waiting
<1>5. WaitersPlaced'
  BY <1>1 DEF WaitersPlaced, AllWaiting
<1> QED BY <1>2, <1>3, <1>4, <1>5 DEF RegistryInv

(* A query that is told when it comes: a hit, or no room for it. *)
LEMMA ToldKeeps ==
    ASSUME RegistryInv, NEW w \in Waiters, wanted[w] = "none", NEW k \in Keys,
           wanted' = [wanted EXCEPT ![w] = k], NEW how \in Hows, NEW from \in Nat,
           TellOne(w, how, from), UNCHANGED <<engine, queue, sent>>
    PROVE  RegistryInv'
<1>1. /\ RegistryTyped /\ GroupsIndexed /\ GroupsTimed /\ IdsIndexed /\ IdsCycled /\ WaitersPlaced
  BY DEF RegistryInv
<1>2. RegistryTyped'
  <2>1. wanted' \in [Waiters -> Keys \cup {"none"}]
    BY <1>1 DEF RegistryTyped
  <2> QED BY <2>1, <1>1 DEF RegistryTyped, queue
<1>3. GroupsIndexed' /\ IdsIndexed' /\ IdsCycled' /\ GroupsTimed'
  BY <1>1 DEF GroupsIndexed, IdsIndexed, IdsCycled, GroupsTimed, Waiting, queue
<1>4. groups' = groups /\ total' = total
  BY DEF queue
<1>5. WaitersPlaced'
  BY <1>4, ToldPlaced
<1> QED BY <1>2, <1>3, <1>5 DEF RegistryInv

(* What was true stays true while the groups made are only added to. *)
LEMMA HonestKeeps ==
    ASSUME RegistryInv, HonestInv, engine' = engine, Len(made) <= Len(made'), Len(made') \in Nat,
           \A s \in 1 .. Len(made) : made'[s] = made[s],
           \A w \in Waiters : wanted[w] # "none" => wanted'[w] = wanted[w],
           \A r \in told' : r \in told \/ Honest(r)',
           \A k \in Keys : Meant(shard.entry[k], k)' \/ shard'.entry[k] = shard.entry[k],
           \A k \in Keys : file'[k] \in {file[k], temp[k], NoEntry},
           \A k \in Keys : temp'[k] \in {temp[k], shard.entry[k], NoEntry}
    PROVE  HonestInv'
<1>1. RegistryTyped /\ WaitersPlaced /\ Len(made) \in Nat
  BY DEF RegistryInv, RegistryTyped
<1>2. \A e : \A k \in Keys : Meant(e, k) => Meant(e, k)'
  BY <1>1 DEF Meant
<1>3. \A k \in Keys : Meant(NoEntry, k)'
  BY NoEntryTyped DEF Meant
<1>4. ASSUME NEW r \in told PROVE Honest(r)'
  <2>1. Honest(r) /\ wanted'[r.waiter] = wanted[r.waiter]
    BY <1>1 DEF HonestInv, WaitersPlaced, Tales
  <2>2. \A s \in 1 .. Len(made) : s \in 1 .. Len(made') /\ made'[s] = made[s]
    BY <1>1
  <2> QED BY <2>1, <2>2 DEF Honest
<1>5. \A k \in Keys : Meant(shard.entry[k], k) /\ Meant(file[k], k) /\ Meant(temp[k], k)
  BY DEF HonestInv
<1>6. ASSUME NEW k \in Keys
      PROVE  Meant(shard.entry[k], k)' /\ Meant(file[k], k)' /\ Meant(temp[k], k)'
  <2>1. Meant(shard.entry[k], k)'
    <3>1. CASE shard'.entry[k] = shard.entry[k]
      BY <3>1, <1>2, <1>5 DEF Meant
    <3> QED BY <3>1
  <2>2. Meant(file[k], k)'
    <3>1. file'[k] \in {file[k], temp[k], NoEntry}
      OBVIOUS
    <3> QED BY <3>1, <1>2, <1>3, <1>5 DEF Meant
  <2>3. Meant(temp[k], k)'
    <3>1. temp'[k] \in {temp[k], shard.entry[k], NoEntry}
      OBVIOUS
    <3> QED BY <3>1, <1>2, <1>3, <1>5 DEF Meant
  <2> QED BY <2>1, <2>2, <2>3
<1> QED BY <1>4, <1>6 DEF HonestInv

(* The marks of a shard say nothing of its records. *)
LEMMA MarksFree ==
    ASSUME NEW s, ShardFine(s), NEW d \in BOOLEAN, NEW m \in BOOLEAN
    PROVE  LET t == [s EXCEPT !.dirty = d, !.moved = m]
           IN  /\ ShardFine(t) /\ t.entry = s.entry /\ t.order = s.order
               /\ t.dirty = d /\ t.moved = m
<1> DEFINE t == [s EXCEPT !.dirty = d, !.moved = m]
<1>1. s \in [entry : [Keys -> EntryRecords], order : Seq(Keys), pending : Nat,
             dirty : BOOLEAN, moved : BOOLEAN]
  BY DEF ShardFine
<1>2. /\ t \in [entry : [Keys -> EntryRecords], order : Seq(Keys), pending : Nat,
                dirty : BOOLEAN, moved : BOOLEAN]
      /\ t.entry = s.entry /\ t.order = s.order /\ t.pending = s.pending /\ t.dirty = d /\ t.moved = m
  BY <1>1
<1> HIDE DEF t
<1>3. Held(t) = Held(s) /\ Pending(t) = Pending(s)
  BY <1>2 DEF Held, Pending
<1>4. ShardFine(t)
  BY <1>2, <1>3 DEF ShardFine
<1> QED BY <1>2, <1>4 DEF t

LEMMA ChangedShard ==
    ASSUME NEW s, NEW t, NEW k, ShardStep(s, t, k)
    PROVE  ShardStep(s, Changed(t), k) /\ Changed(t).entry = t.entry
<1> DEFINE u == [t EXCEPT !.dirty = TRUE, !.moved = TRUE]
<1>1. ShardFine(u) /\ u.entry = t.entry /\ u.order = t.order /\ u.dirty = TRUE /\ u.moved = TRUE
  BY MarksFree DEF ShardStep
<1>2. Changed(t) = u
  BY DEF Changed
<1> HIDE DEF u
<1> QED BY <1>1, <1>2 DEF ShardStep, Marked

LEMMA KeptRecord ==
    ASSUME NEW s, NEW k \in Keys
    PROVE  /\ Kept(s)[k] \in {s.entry[k], NoEntry}
           /\ Kept(s)[k].status = "ready" <=> s.entry[k].status = "ready" /\ ~(moment >= s.entry[k].expires)
           /\ Kept(s)[k].status = "ready" => Kept(s)[k] = s.entry[k]
BY NoEntryTyped DEF Kept, Expired

(* A step on the record of one key loses nothing that is not marked, and leaves no one beside a live reply. *)
LEMMA StoredKeeps ==
    ASSUME StoredInv, NEW k \in Keys, ShardStep(shard, shard', k),
           saving' = saving, temp' = temp, file' = file, moment' = moment,
           \A j \in Keys : Waiting(j)' => \/ shard'.entry[j].status # "ready"
                                          \/ Waiting(j) /\ shard'.entry[j] = shard.entry[j]
    PROVE  StoredInv'
<1>1. ShardFine(shard)' /\ (Len(shard.order) <= ShardRecords)' /\ Marked(shard, shard')
  BY DEF ShardStep, ShardFine, Held, Pending, Once, Range
<1>2. ASSUME ~shard'.dirty \/ ~shard'.moved
      PROVE  shard'.entry = shard.entry /\ shard'.dirty = shard.dirty /\ shard'.moved = shard.moved
  BY <1>1, <1>2 DEF Marked
<1>3. ASSUME shard'.entry = shard.entry PROVE Kept(shard)' = Kept(shard)
  BY <1>3 DEF Kept, Expired
<1>4. FileAgrees'
  BY <1>2, <1>3 DEF FileAgrees, StoredInv
<1>5. TempAgrees'
  BY <1>2, <1>3 DEF TempAgrees, StoredInv
<1>6. NoneMissed'
  BY DEF NoneMissed, StoredInv, Expired
<1> QED BY <1>1, <1>4, <1>5, <1>6 DEF StoredInv

(* What a query does to the cache, whatever becomes of the query. *)
LEMMA QueryCached ==
    ASSUME LookupsInv, NEW k \in Keys, NEW touched \in BOOLEAN,
           shard' = IF touched /\ shard.entry[k].status # "none" THEN Changed(Lookup(k).shard) ELSE Lookup(k).shard
    PROVE  /\ ShardStep(shard, shard', k) /\ Lookup(k).ready \in BOOLEAN
           /\ Lookup(k).ready => /\ shard.entry[k].status = "ready" /\ ~Expired(shard.entry[k])
                                 /\ shard'.entry = shard.entry
           /\ ~Lookup(k).ready => shard'.entry[k].status # "ready"
           /\ \A j \in Keys : Meant(shard.entry[j], j)' \/ shard'.entry[j] = shard.entry[j]
<1> DEFINE l == Lookup(k)
<1>1. ShardFine(shard) /\ Len(shard.order) <= ShardRecords /\ moment \in 0 .. MaxTime
  BY DEF LookupsInv, StoredInv
<1>2. /\ ShardStep(shard, l.shard, k) /\ l.ready \in BOOLEAN
      /\ l.ready => /\ shard.entry[k].status = "ready" /\ ~Expired(shard.entry[k])
                    /\ l.shard.entry = shard.entry
      /\ ~l.ready => l.shard.entry[k].status # "ready"
  BY <1>1, LookedUp
<1>3. shard' = IF touched /\ shard.entry[k].status # "none" THEN Changed(l.shard) ELSE l.shard
  OBVIOUS
<1> HIDE DEF l
<1>4. ShardStep(shard, shard', k) /\ shard'.entry = l.shard.entry
  <2>1. ShardStep(shard, Changed(l.shard), k) /\ Changed(l.shard).entry = l.shard.entry
    BY <1>2, ChangedShard
  <2> QED BY <1>2, <1>3, <2>1
<1>5. ASSUME NEW j \in Keys PROVE Meant(shard.entry[j], j)' \/ shard'.entry[j] = shard.entry[j]
  <2>1. CASE j = k
    BY <2>1, <1>2, <1>4 DEF Meant
  <2>2. CASE j # k
    BY <2>2, <1>4 DEF Meant, ShardStep
  <2> QED BY <2>1, <2>2
<1> QED BY <1>2, <1>4, <1>5 DEF l

LEMMA QueryKeeps ==
    ASSUME LookupsInv, NEW w \in Waiters, NEW k \in Keys, ProcessQuery(w, k)
    PROVE  LookupsInv'
<1>1. /\ RegistryInv /\ HonestInv /\ StoredInv
  BY DEF LookupsInv
<1>2. /\ wanted[w] = "none" /\ wanted' = [wanted EXCEPT ![w] = k]
      /\ engine' = engine /\ saving' = saving /\ temp' = temp /\ file' = file /\ moment' = moment
  BY DEF ProcessQuery
<1>3. PICK touched \in BOOLEAN :
        /\ shard' = IF touched /\ shard.entry[k].status # "none" THEN Changed(Lookup(k).shard) ELSE Lookup(k).shard
        /\ \/ /\ Lookup(k).ready
              /\ TellOne(w, "hit", shard.entry[k].from)
              /\ UNCHANGED <<queue, sent>>
           \/ /\ ~Lookup(k).ready /\ ~(HasRoom(k) /\ (Waiting(k) \/ Free # {}))
              /\ TellOne(w, "refused", 0)
              /\ UNCHANGED <<queue, sent>>
           \/ /\ ~Lookup(k).ready /\ HasRoom(k) /\ ~Waiting(k)
              /\ \E i \in DnsIds : NewGroup(w, k, i)
              /\ total' = total + 1
              /\ UNCHANGED told
           \/ /\ ~Lookup(k).ready /\ HasRoom(k) /\ Waiting(k)
              /\ JoinGroup(w, k)
              /\ total' = total + 1
              /\ sent' = IF Lookup(k).dispatch THEN sent \cup {groups[k].serial} ELSE sent
              /\ UNCHANGED told
  BY DEF ProcessQuery
<1> DEFINE hit == Lookup(k).ready
<1>4. /\ ShardStep(shard, shard', k) /\ hit \in BOOLEAN
      /\ hit => /\ shard.entry[k].status = "ready" /\ ~Expired(shard.entry[k])
                  /\ shard'.entry = shard.entry
      /\ ~hit => shard'.entry[k].status # "ready"
      /\ \A j \in Keys : Meant(shard.entry[j], j)' \/ shard'.entry[j] = shard.entry[j]
  BY <1>3, QueryCached
<1> HIDE DEF hit
<1>5. \A v \in Waiters : wanted[v] # "none" => wanted'[v] = wanted[v]
  BY <1>1, <1>2 DEF RegistryInv, RegistryTyped
<1>6. wanted'[w] = k
  BY <1>1, <1>2 DEF RegistryInv, RegistryTyped
<1>7. Len(made) \in Nat /\ \A s \in 1 .. Len(made) : made[s] = made[s]
  BY <1>1 DEF RegistryInv, RegistryTyped
<1>8. ASSUME \A j \in Keys \ {k} : groups'[j] = groups[j], hit => groups' = groups PROVE StoredInv'
  <2>1. \A j \in Keys : Waiting(j)' => \/ shard'.entry[j].status # "ready"
                                       \/ Waiting(j) /\ shard'.entry[j] = shard.entry[j]
    <3>1. SUFFICES ASSUME NEW j \in Keys, Waiting(j)', shard'.entry[j].status = "ready"
                   PROVE  Waiting(j) /\ shard'.entry[j] = shard.entry[j]
      OBVIOUS
    <3>2. CASE j = k
      BY <3>1, <3>2, <1>4, <1>8 DEF Waiting
    <3>3. CASE j # k
      BY <3>1, <3>3, <1>4, <1>8 DEF Waiting, ShardStep
    <3> QED BY <3>2, <3>3
  <2> QED BY <2>1, <1>1, <1>2, <1>4, StoredKeeps
<1>9. ASSUME NEW how \in {"hit", "refused"}, NEW from \in Nat, TellOne(w, how, from), UNCHANGED <<queue, sent>>,
             how = "hit" => from \in 1 .. Len(made) /\ Question[made[from].key] = Question[k]
      PROVE  LookupsInv'
  <2>1. RegistryInv'
    BY <1>1, <1>2, <1>9, ToldKeeps DEF Hows
  <2>2. made' = made /\ groups' = groups
    BY <1>9 DEF queue
  <2> DEFINE r == [waiter |-> w, how |-> how, own |-> 0, from |-> from]
  <2>3. told' = told \cup {r} /\ r.how = how /\ r.from = from /\ r.waiter = w
    BY <1>9 DEF TellOne
  <2> HIDE DEF r
  <2>4. Honest(r)'
    BY <2>2, <2>3, <1>2, <1>6, <1>9 DEF Honest
  <2>5. \A q \in told' : q \in told \/ Honest(q)'
    BY <2>3, <2>4
  <2>6. HonestInv'
    BY <2>2, <2>5, <1>1, <1>2, <1>4, <1>5, <1>7, HonestKeeps
  <2>7. StoredInv'
    BY <2>2, <1>8
  <2> QED BY <2>1, <2>6, <2>7 DEF LookupsInv
<1>10. CASE hit /\ TellOne(w, "hit", shard.entry[k].from) /\ UNCHANGED <<queue, sent>>
  <2> DEFINE from == shard.entry[k].from
  <2>1. from \in 1 .. Len(made) /\ Question[made[from].key] = Question[k]
    BY <1>1, <1>4, <1>10 DEF HonestInv, Meant
  <2>2. from \in Nat
    BY <2>1, <1>7
  <2> HIDE DEF from
  <2>3. TellOne(w, "hit", from)
    BY <1>10 DEF from
  <2> QED BY <2>1, <2>2, <2>3, <1>9, <1>10
<1>11. CASE TellOne(w, "refused", 0) /\ UNCHANGED <<queue, sent>>
  BY <1>9, <1>11
<1>12. CASE /\ ~hit /\ HasRoom(k) /\ ~Waiting(k) /\ \E i \in DnsIds : NewGroup(w, k, i)
            /\ total' = total + 1 /\ told' = told
  <2>1. PICK i \in DnsIds : NewGroup(w, k, i)
    BY <1>12
  <2>2. RegistryInv' /\ Len(made') = Len(made) + 1 /\ \A s \in 1 .. Len(made) : made'[s] = made[s]
    BY <2>1, <1>1, <1>2, <1>12, NewKeeps
  <2>3. \A j \in Keys \ {k} : groups'[j] = groups[j]
    BY <2>1, <1>1 DEF NewGroup, RegistryInv, RegistryTyped
  <2>4. Len(made) <= Len(made') /\ Len(made') \in Nat
    BY <2>2, <1>7
  <2>5. HonestInv'
    BY <2>2, <2>4, <1>1, <1>2, <1>4, <1>5, <1>12, HonestKeeps
  <2>6. StoredInv'
    BY <2>3, <1>8, <1>12
  <2> QED BY <2>2, <2>5, <2>6 DEF LookupsInv
<1>13. CASE /\ ~hit /\ HasRoom(k) /\ Waiting(k) /\ JoinGroup(w, k)
            /\ total' = total + 1 /\ told' = told /\ sent' \subseteq sent \cup {groups[k].serial}
  <2>1. RegistryInv'
    BY <1>1, <1>2, <1>13, JoinKeeps
  <2>2. made' = made /\ \A j \in Keys \ {k} : groups'[j] = groups[j]
    BY <1>1, <1>13 DEF JoinGroup, RegistryInv, RegistryTyped
  <2>3. HonestInv'
    BY <2>2, <1>1, <1>2, <1>4, <1>5, <1>7, <1>13, HonestKeeps
  <2>4. StoredInv'
    BY <2>2, <1>8, <1>13
  <2> QED BY <2>1, <2>3, <2>4 DEF LookupsInv
<1> QED BY <1>3, <1>10, <1>11, <1>12, <1>13 DEF hit

(* A step that leaves the cache and the file alone. *)
LEMMA StoredStays ==
    ASSUME StoredInv, UNCHANGED <<shard, saving, temp, file, moment>>, \A j \in Keys : Waiting(j)' => Waiting(j)
    PROVE  StoredInv'
<1>1. Kept(shard)' = Kept(shard)
  BY DEF Kept, Expired
<1>2. FileAgrees' /\ TempAgrees'
  BY <1>1 DEF FileAgrees, TempAgrees, StoredInv
<1>3. NoneMissed'
  BY DEF NoneMissed, StoredInv, Expired
<1>4. ShardFine(shard)'
  BY DEF StoredInv, ShardFine, Held, Pending
<1> QED BY <1>2, <1>3, <1>4 DEF StoredInv

(* Groups that are taken, seen by what their waiters are told. *)
LEMMA TakenHonest ==
    ASSUME RegistryInv, NEW ks \in SUBSET Keys, Take(ks), engine' = engine, wanted' = wanted,
           NEW how, NEW from, Tell(ks, how, from),
           \A k \in ks : \A w \in groups[k].waiters :
               Honest([waiter |-> w, how |-> how, own |-> groups[k].serial, from |-> from])
    PROVE  /\ made' = made /\ \A r \in told' : r \in told \/ Honest(r)'
           /\ \A k \in Keys : Waiting(k)' => Waiting(k) /\ k \notin ks
<1>1. made' = made /\ groups' = [k \in Keys |-> IF k \in ks THEN NoGroup ELSE groups[k]]
  BY DEF Take
<1>2. \A k \in Keys : Waiting(k)' => Waiting(k) /\ k \notin ks
  BY <1>1 DEF Waiting, NoGroup
<1>3. ASSUME NEW r \in told', r \notin told PROVE Honest(r)'
  <2>1. PICK k \in ks : \E w \in groups[k].waiters :
               r = [waiter |-> w, how |-> how, own |-> groups[k].serial, from |-> from]
    BY <1>3 DEF Tell
  <2>2. Honest(r)
    BY <2>1
  <2> QED BY <2>2, <1>1 DEF Honest
<1> QED BY <1>1, <1>2, <1>3

LEMMA LookupsParts ==
    ASSUME LookupsInv
    PROVE  /\ RegistryInv /\ HonestInv /\ StoredInv
           /\ RegistryTyped /\ GroupsIndexed /\ GroupsTimed /\ IdsIndexed /\ IdsCycled /\ WaitersPlaced
           /\ Len(made) \in Nat /\ Len(made) <= MaxGroups
           /\ ShardFine(shard) /\ Len(shard.order) <= ShardRecords
           /\ file \in [Keys -> EntryRecords] /\ temp \in [Keys -> EntryRecords] /\ moment \in 0 .. MaxTime
<1>1. RegistryInv /\ HonestInv /\ StoredInv
  BY DEF LookupsInv
<1>2. RegistryTyped /\ GroupsIndexed /\ GroupsTimed /\ IdsIndexed /\ IdsCycled /\ WaitersPlaced
  BY <1>1 DEF RegistryInv
<1>3. Len(made) \in Nat /\ Len(made) <= MaxGroups
  BY <1>2 DEF RegistryTyped
<1>4. /\ ShardFine(shard) /\ Len(shard.order) <= ShardRecords
      /\ file \in [Keys -> EntryRecords] /\ temp \in [Keys -> EntryRecords] /\ moment \in 0 .. MaxTime
  BY <1>1 DEF StoredInv
<1> QED BY <1>1, <1>2, <1>3, <1>4

(* expirePendingDNS, for the group whose timer ran off or whose exchange failed. *)
LEMMA ExpireKeeps ==
    ASSUME LookupsInv, NEW s \in 1 .. Len(made), ExpireGroup(s), engine' = engine, wanted' = wanted,
           sent' \subseteq sent, fired' \in {fired, fired \ {s}},
           UNCHANGED <<shard, saving, temp, file, moment>>
    PROVE  LookupsInv'
<1> DEFINE k == made[s].key
<1>1. /\ RegistryInv /\ HonestInv /\ StoredInv /\ RegistryTyped /\ GroupsIndexed /\ GroupsTimed
      /\ Len(made) \in Nat
  BY LookupsParts
<1>2. k \in Keys
  BY <1>1, MadeTyped
<1>3. \A j \in Keys : Waiting(j) /\ groups[j].serial = s => j = k
  BY <1>1 DEF GroupsIndexed
<1>4. /\ groups[k].serial = s => Take({k}) /\ Tell({k}, "failed", s)
      /\ groups[k].serial # s => UNCHANGED <<groups, made, byId, issued, cycle, total, timers, told>>
  BY DEF ExpireGroup
<1> HIDE DEF k
<1>5. CASE groups[k].serial = s
  <2>1. {k} \in SUBSET Keys /\ "failed" \in Hows /\ s \in Nat
    BY <1>1, <1>2 DEF Hows
  <2>2. \A j \in Keys \ {k} : Waiting(j) /\ groups[j].serial \in fired => groups[j].serial \in fired'
    BY <1>3
  <2>3. fired' \subseteq fired
    OBVIOUS
  <2>4. RegistryInv'
    BY <2>1, <2>2, <2>3, <1>1, <1>4, <1>5, TakenKeeps
  <2>5. \A j \in {k} : \A w \in groups[j].waiters :
            Honest([waiter |-> w, how |-> "failed", own |-> groups[j].serial, from |-> s])
    BY <1>5 DEF Honest
  <2>6. /\ made' = made /\ \A r \in told' : r \in told \/ Honest(r)'
        /\ \A j \in Keys : Waiting(j)' => Waiting(j) /\ j \notin {k}
    BY <2>1, <2>5, <1>1, <1>4, <1>5, TakenHonest
  <2>7. HonestInv'
    BY <2>6, <1>1, HonestKeeps
  <2>8. StoredInv'
    BY <2>6, <1>1, StoredStays
  <2> QED BY <2>4, <2>7, <2>8 DEF LookupsInv
<1>6. CASE groups[k].serial # s
  <2>1. UNCHANGED <<groups, made, byId, issued, cycle, total, timers, told>>
    BY <1>4, <1>6
  <2>2. \A j \in Keys : Waiting(j) => groups[j].serial \in timers' \cup fired'
    BY <2>1, <1>1, <1>3, <1>6 DEF GroupsTimed
  <2>3. RegistryInv'
    BY <2>1, <2>2, <1>1, RegistryStays
  <2>4. HonestInv'
    BY <2>1, <1>1, HonestKeeps
  <2>5. StoredInv'
    BY <2>1, <1>1, StoredStays DEF Waiting
  <2> QED BY <2>3, <2>4, <2>5 DEF LookupsInv
<1> QED BY <1>5, <1>6

LEMMA TimersKeep ==
    ASSUME LookupsInv, NEW s \in 1 .. Len(made), TimerFires(s) \/ Expires(s) \/ ExchangeFails(s)
    PROVE  LookupsInv'
<1>1. /\ RegistryInv /\ HonestInv /\ StoredInv /\ RegistryTyped /\ GroupsTimed /\ Len(made) \in Nat
  BY LookupsParts
<1>2. CASE TimerFires(s)
  <2>1. /\ timers' = timers \ {s} /\ fired' = fired \cup {s} /\ s \in timers
        /\ UNCHANGED <<engine, wanted, groups, made, byId, issued, cycle, total, sent, told,
                       shard, saving, temp, file, moment>>
    BY <1>2 DEF TimerFires
  <2>2. RegistryInv'
    BY <2>1, <1>1, RegistryStays DEF GroupsTimed
  <2>3. HonestInv'
    BY <2>1, <1>1, HonestKeeps
  <2>4. StoredInv'
    BY <2>1, <1>1, StoredStays DEF Waiting
  <2> QED BY <2>2, <2>3, <2>4 DEF LookupsInv
<1>3. CASE Expires(s)
  BY <1>3, ExpireKeeps DEF Expires
<1>4. CASE ExchangeFails(s)
  BY <1>4, ExpireKeeps DEF ExchangeFails
<1> QED BY <1>2, <1>3, <1>4

(* A reply, the first one or a late one: it is for the last group made under its ID. *)
LEMMA ReplyKeeps ==
    ASSUME LookupsInv, NEW s \in 1 .. Len(made), Reply(s)
    PROVE  LookupsInv'
<1> DEFINE i == made[s].id
           g == byId[i]
           k == made[g].key
           ours == g # 0 /\ Question[k] = Question[made[s].key] /\ (engine => g = s)
<1>1. /\ RegistryInv /\ HonestInv /\ StoredInv /\ RegistryTyped /\ GroupsTimed
      /\ GroupsIndexed /\ IdsIndexed /\ IdsCycled /\ WaitersPlaced /\ Len(made) \in Nat
  BY LookupsParts
<1>2. /\ sent' \subseteq sent /\ UNCHANGED <<engine, wanted, fired, saving, temp, file, moment>>
      /\ ours => /\ \E life \in Lifetimes : shard' = SetReady(k, s, life)
                 /\ Take({k}) /\ Tell({k}, "answered", s)
      /\ ~ours => UNCHANGED <<groups, made, byId, issued, cycle, total, timers, told, shard>>
  BY DEF Reply
<1>3. i \in DnsIds
  BY <1>1, MadeTyped
<1>4. CASE ~ours
  <2>1. UNCHANGED <<groups, made, byId, issued, cycle, total, timers, told, shard>>
    BY <1>2, <1>4
  <2>2. RegistryInv'
    BY <2>1, <1>1, <1>2, RegistryStays DEF GroupsTimed
  <2>3. HonestInv'
    BY <2>1, <1>1, <1>2, HonestKeeps
  <2>4. StoredInv'
    BY <2>1, <1>1, <1>2, StoredStays DEF Waiting
  <2> QED BY <2>2, <2>3, <2>4 DEF LookupsInv
<1>5. CASE ours
  <2> HIDE DEF i
  <2>1. /\ g \in 1 .. Len(made) /\ made[g].id = i /\ groups[k].serial = g
        /\ s <= g
    BY <1>1, <1>3, <1>5 DEF IdsIndexed, i
  <2>2. k \in Keys /\ {k} \in SUBSET Keys /\ s \in Nat /\ "answered" \in Hows
    BY <2>1, <1>1, MadeTyped DEF Hows
  <2>3. /\ Question[k] = Question[made[s].key] /\ (engine => g = s)
    BY <1>5
  <2>4. s # g => made[s].cycle < made[g].cycle
    BY <2>1, <1>1 DEF IdsCycled, i
  <2> HIDE DEF g, k
  <2>5. \A w \in groups[k].waiters : wanted[w] = k
    BY <2>2, <1>1 DEF WaitersPlaced
  <2>6. \A j \in {k} : \A w \in groups[j].waiters :
            Honest([waiter |-> w, how |-> "answered", own |-> groups[j].serial, from |-> s])
    BY <2>1, <2>3, <2>4, <2>5 DEF Honest
  <2>7. Take({k}) /\ Tell({k}, "answered", s)
    BY <1>2, <1>5
  <2>8. RegistryInv'
    BY <2>2, <2>7, <1>1, <1>2, TakenKeeps
  <2>9. /\ made' = made /\ \A r \in told' : r \in told \/ Honest(r)'
        /\ \A j \in Keys : Waiting(j)' => Waiting(j) /\ j \notin {k}
    BY <2>2, <2>6, <2>7, <1>1, <1>2, TakenHonest
  <2>10. PICK life \in Lifetimes : shard' = SetReady(k, s, life)
    BY <1>2, <1>5
  <2>11. s \in 0 .. MaxGroups /\ life \in Nat
    BY <1>1, BoundsTyped DEF RegistryTyped, Lifetimes
  <2>12. /\ ShardStep(shard, shard', k)
         /\ shard'.entry[k].status = "none" \/ (shard'.entry[k].status = "ready" /\ shard'.entry[k].from = s)
    BY <2>2, <2>10, <2>11, <1>1, ReadySet DEF StoredInv
  <2>13. ASSUME NEW j \in Keys PROVE Meant(shard.entry[j], j)' \/ shard'.entry[j] = shard.entry[j]
    <3>1. CASE j = k
      BY <3>1, <2>3, <2>9, <2>12 DEF Meant
    <3>2. CASE j # k
      BY <3>2, <2>12 DEF Meant, ShardStep
    <3> QED BY <3>1, <3>2
  <2>14. HonestInv'
    BY <2>9, <2>13, <1>1, <1>2, HonestKeeps
  <2>15. \A j \in Keys : Waiting(j)' => \/ shard'.entry[j].status # "ready"
                                        \/ Waiting(j) /\ shard'.entry[j] = shard.entry[j]
    BY <2>9, <2>12 DEF ShardStep
  <2>16. StoredInv'
    BY <2>2, <2>12, <2>15, <1>1, <1>2, StoredKeeps
  <2> QED BY <2>8, <2>14, <2>16 DEF LookupsInv
<1> QED BY <1>4, <1>5

(* A list without repetitions is as long as what it lists. *)
LEMMA OnceCounts ==
    ASSUME NEW o \in Seq(Keys), Once(o)
    PROVE  Cardinality(Range(o)) = Len(o)
<1>1. Len(o) \in Nat /\ DOMAIN o = 1 .. Len(o) /\ o \in [1 .. Len(o) -> Range(o)]
  BY DEF Range
<1>2. o \in Surjection(1 .. Len(o), Range(o))
  BY <1>1 DEF Surjection, Range
<1>3. o \in Injection(1 .. Len(o), Range(o))
  BY <1>1 DEF Injection, IsInjective, Once
<1>4. \A n \in Nat : IsFiniteSet(1 .. n) /\ Cardinality(1 .. n) = n
  BY FS_Interval
<1>5. \E f : f \in Bijection(1 .. Len(o), Range(o))
  BY <1>2, <1>3 DEF Bijection
<1>6. ExistsBijection(1 .. Len(o), Range(o))
  BY <1>5 DEF ExistsBijection
<1> QED BY <1>1, <1>4, <1>6, FS_Bijection

(* A clear drops the pending records of a shard and no other. *)
LEMMA ClearedShard ==
    ASSUME NEW s, ShardFine(s), Len(s.order) <= ShardRecords, NEW t \in Cleared(s)
    PROVE  /\ ShardFine(t) /\ Len(t.order) <= ShardRecords /\ Marked(s, t)
           /\ \A k \in Keys : t.entry[k] = s.entry[k] \/ t.entry[k] = NoEntry
<1> DEFINE left == Held(s) \ Pending(s)
<1>1. CASE Pending(s) = {}
  BY <1>1 DEF Cleared, Marked
<1>2. CASE Pending(s) # {}
  <2>1. PICK o \in [1 .. Cardinality(left) -> left] :
          /\ Range(o) = left
          /\ t = Settled(s, left, o)
    <3>1. t \in {Settled(s, left, o) : o \in Remaining(s.order, left)}
      BY <1>2 DEF Cleared
    <3> HIDE DEF left
    <3>2. PICK o \in Remaining(s.order, left) : t = Settled(s, left, o)
      BY <3>1
    <3>3. o \in [1 .. Cardinality(left) -> left] /\ Range(o) = left
      BY <3>2 DEF Remaining
    <3> QED BY <3>2, <3>3
  <2>2. /\ s \in [entry : [Keys -> EntryRecords], order : Seq(Keys), pending : Nat,
                   dirty : BOOLEAN, moved : BOOLEAN]
        /\ Once(s.order) /\ Range(s.order) = Held(s)
    BY DEF ShardFine
  <2>3. /\ t.entry = [k \in Keys |-> IF k \in left THEN s.entry[k] ELSE NoEntry]
        /\ t.order = o /\ t.pending = 0 /\ t.dirty = TRUE /\ t.moved = TRUE
        /\ t = [entry |-> [k \in Keys |-> IF k \in left THEN s.entry[k] ELSE NoEntry],
                order |-> o, pending |-> 0, dirty |-> TRUE, moved |-> TRUE]
    BY <2>1, <2>2 DEF Changed, Settled
  <2>4. left \in SUBSET Held(s) /\ left \in SUBSET Keys /\ \A k \in left : s.entry[k].status \notin {"none", "pending"}
    BY DEF Held, Pending
  <2> HIDE DEF left
  <2>5. Cardinality(Held(s)) = Len(s.order) /\ IsFiniteSet(Held(s))
    <3>1. Held(s) \in SUBSET Keys
      BY DEF Held
    <3> QED BY <3>1, <2>2, OnceCounts, BoundsTyped, FS_Subset
  <2>6. IsFiniteSet(left) /\ Cardinality(left) \in Nat /\ Cardinality(left) <= Len(s.order)
    BY <2>4, <2>5, FS_Subset, FS_CardinalityType
  <2>7. o \in Seq(Keys) /\ Len(o) = Cardinality(left) /\ DOMAIN o = 1 .. Cardinality(left)
    <3>1. o \in [1 .. Cardinality(left) -> Keys]
      BY <2>1, <2>4
    <3> QED BY <3>1, <2>6
  <2>8. Once(o)
    <3>1. o \in Surjection(1 .. Cardinality(left), left)
      BY <2>1, <2>7 DEF Surjection, Range
    <3>2. IsFiniteSet(1 .. Cardinality(left)) /\ Cardinality(1 .. Cardinality(left)) = Cardinality(left)
      BY <2>6, FS_Interval
    <3>3. o \in Injection(1 .. Cardinality(left), left)
      BY <2>6, <3>1, <3>2, FS_SurjSameCardinalityImpliesInj
    <3> QED BY <3>3, <2>7 DEF Injection, IsInjective, Once
  <2>9. t.entry \in [Keys -> EntryRecords]
    BY <2>2, <2>3, NoEntryTyped
  <2>10. Held(t) = left /\ Pending(t) = {}
    BY <2>3, <2>4, NoEntryTyped DEF Held, Pending
  <2>11. Cardinality(Pending(t)) = 0
    BY <2>10, FS_EmptySet
  <2>12. t \in [entry : [Keys -> EntryRecords], order : Seq(Keys), pending : Nat,
                dirty : BOOLEAN, moved : BOOLEAN]
    <3>1. t.entry \in [Keys -> EntryRecords] /\ o \in Seq(Keys)
      BY <2>7, <2>9
    <3>2. PICK e : e = t.entry
      OBVIOUS
    <3>3. t = [entry |-> e, order |-> o, pending |-> 0, dirty |-> TRUE, moved |-> TRUE]
      BY <2>3, <3>2
    <3> QED BY <3>1, <3>2, <3>3
  <2>13. ShardFine(t)
    BY <2>1, <2>3, <2>8, <2>10, <2>11, <2>12 DEF ShardFine
  <2>14. Len(t.order) <= ShardRecords
    <3>1. Len(s.order) \in Nat /\ ShardRecords \in Nat
      BY <2>2, BoundsTyped
    <3>2. Len(t.order) = Cardinality(left)
      BY <2>3, <2>7
    <3> QED BY <3>1, <3>2, <2>6
  <2>15. Marked(s, t)
    BY <2>3 DEF Marked
  <2>16. \A k \in Keys : t.entry[k] = s.entry[k] \/ t.entry[k] = NoEntry
    BY <2>3
  <2> QED BY <2>13, <2>14, <2>15, <2>16
<1> QED BY <1>1, <1>2

LEMMA ClearKeeps ==
    ASSUME LookupsInv, Clear
    PROVE  LookupsInv'
<1>1. /\ RegistryInv /\ HonestInv /\ StoredInv /\ Len(made) \in Nat
  BY LookupsParts
<1>2. /\ Take(Keys) /\ Tell(Keys, "dropped", 0) /\ Keys \in SUBSET Keys /\ "dropped" \in Hows
      /\ UNCHANGED <<engine, wanted, fired, sent, saving, temp, file, moment>>
      /\ shard' = shard \/ shard' \in Cleared(shard)
  BY DEF Clear, Hows
<1>3. RegistryInv'
  BY <1>1, <1>2, TakenKeeps
<1>4. \A k \in Keys : \A w \in groups[k].waiters :
          Honest([waiter |-> w, how |-> "dropped", own |-> groups[k].serial, from |-> 0])
  BY DEF Honest
<1>5. /\ made' = made /\ \A r \in told' : r \in told \/ Honest(r)'
      /\ \A j \in Keys : Waiting(j)' => Waiting(j) /\ j \notin Keys
  BY <1>1, <1>2, <1>4, TakenHonest
<1>6. CASE shard' = shard
  <2>1. HonestInv'
    BY <1>1, <1>2, <1>5, <1>6, HonestKeeps
  <2>2. StoredInv'
    BY <1>1, <1>2, <1>5, <1>6, StoredStays
  <2> QED BY <1>3, <2>1, <2>2 DEF LookupsInv
<1>7. CASE shard' \in Cleared(shard)
  <2>1. ShardFine(shard) /\ Len(shard.order) <= ShardRecords
    BY <1>1 DEF StoredInv
  <2>2. \E t : t = shard' /\ t \in Cleared(shard)
    BY <1>7
  <2>3. PICK t : t = shard' /\ t \in Cleared(shard)
    BY <2>2
  <2>4. /\ ShardFine(t) /\ Len(t.order) <= ShardRecords /\ Marked(shard, t)
        /\ \A k \in Keys : t.entry[k] = shard.entry[k] \/ t.entry[k] = NoEntry
    BY <2>1, <2>3, ClearedShard
  <2>5. ShardFine(shard)' /\ (Len(shard.order) <= ShardRecords)' /\ Marked(shard, shard')
    BY <2>3, <2>4 DEF ShardFine, Held, Pending
  <2>6. ASSUME NEW k \in Keys PROVE Meant(shard.entry[k], k)' \/ shard'.entry[k] = shard.entry[k]
    BY <2>3, <2>4, NoEntryTyped DEF Meant
  <2>7. HonestInv'
    BY <2>6, <1>1, <1>2, <1>5, HonestKeeps
  <2>8. ASSUME ~shard'.dirty \/ ~shard'.moved
        PROVE  Kept(shard)' = Kept(shard) /\ shard'.entry = shard.entry
               /\ shard'.dirty = shard.dirty /\ shard'.moved = shard.moved
    BY <2>5, <2>8, <1>2 DEF Marked, Kept, Expired
  <2>9. FileAgrees' /\ TempAgrees'
    BY <2>8, <1>1, <1>2 DEF FileAgrees, TempAgrees, StoredInv
  <2>10. NoneMissed'
    BY <1>5 DEF NoneMissed
  <2>11. StoredInv'
    BY <2>5, <2>9, <2>10, <1>1, <1>2 DEF StoredInv
  <2> QED BY <1>3, <2>7, <2>11 DEF LookupsInv
<1> QED BY <1>2, <1>6, <1>7

LEMMA KeptTyped ==
    ASSUME ShardFine(shard)
    PROVE  Kept(shard) \in [Keys -> EntryRecords]
<1>1. shard.entry \in [Keys -> EntryRecords]
  BY DEF ShardFine
<1> QED BY <1>1, NoEntryTyped DEF Kept

(* SaveToFile: what moves between its snapshot and its rename is left to be saved. *)
LEMMA SaveKeeps ==
    ASSUME LookupsInv, SaveBegins \/ SaveSnapshot \/ (\E ok \in BOOLEAN : SaveEnds(ok))
    PROVE  LookupsInv'
<1>1. /\ RegistryInv /\ HonestInv /\ StoredInv /\ GroupsTimed /\ Len(made) \in Nat /\ ShardFine(shard)
  BY LookupsParts
<1>2. shard \in [entry : [Keys -> EntryRecords], order : Seq(Keys), pending : Nat,
                 dirty : BOOLEAN, moved : BOOLEAN]
  BY <1>1 DEF ShardFine
<1>3. /\ engine' = engine /\ wanted' = wanted /\ groups' = groups /\ made' = made /\ byId' = byId
      /\ issued' = issued /\ cycle' = cycle /\ total' = total /\ timers' = timers /\ fired' = fired
      /\ told' = told /\ sent' = sent /\ moment' = moment
  BY DEF SaveBegins, SaveSnapshot, SaveEnds, queue
<1>4. RegistryInv'
  BY <1>1, <1>3, RegistryStays DEF GroupsTimed
<1>5. /\ shard'.entry = shard.entry /\ shard'.order = shard.order /\ shard'.pending = shard.pending
      /\ shard' \in [entry : [Keys -> EntryRecords], order : Seq(Keys), pending : Nat,
                     dirty : BOOLEAN, moved : BOOLEAN]
      /\ SaveBegins => shard'.dirty = shard.dirty /\ shard'.moved = FALSE
      /\ SaveSnapshot => shard' = shard
      /\ \A ok \in BOOLEAN : SaveEnds(ok) => shard'.dirty = IF ok THEN shard.moved ELSE shard.dirty
  BY <1>2 DEF SaveBegins, SaveSnapshot, SaveEnds
<1>6. Held(shard)' = Held(shard) /\ Pending(shard)' = Pending(shard) /\ Kept(shard)' = Kept(shard)
  BY <1>3, <1>5 DEF Held, Pending, Kept, Expired
<1>7. ShardFine(shard)' /\ (Len(shard.order) <= ShardRecords)'
  BY <1>1, <1>5, <1>6 DEF ShardFine, StoredInv
<1>8. /\ \A k \in Keys : temp'[k] \in {temp[k], shard.entry[k], NoEntry}
      /\ temp' \in [Keys -> EntryRecords]
      /\ \A k \in Keys : file'[k] \in {file[k], temp[k], NoEntry}
      /\ file' \in [Keys -> EntryRecords] /\ saving' \in {"no", "begun", "taken"}
  <2>1. CASE SaveBegins
    BY <2>1, <1>1 DEF SaveBegins, StoredInv
  <2>2. CASE SaveSnapshot
    <3>1. temp' = Kept(shard) /\ file' = file /\ saving' = "taken"
      BY <2>2 DEF SaveSnapshot
    <3>2. \A k \in Keys : Kept(shard)[k] \in {shard.entry[k], NoEntry}
      BY KeptRecord
    <3> QED BY <3>1, <3>2, <1>1, KeptTyped DEF StoredInv
  <2>3. ASSUME NEW ok \in BOOLEAN, SaveEnds(ok)
        PROVE  /\ \A k \in Keys : temp'[k] \in {temp[k], shard.entry[k], NoEntry}
               /\ temp' \in [Keys -> EntryRecords]
               /\ \A k \in Keys : file'[k] \in {file[k], temp[k], NoEntry}
               /\ file' \in [Keys -> EntryRecords] /\ saving' \in {"no", "begun", "taken"}
    BY <2>3, <1>1, NoEntryTyped DEF SaveEnds, StoredInv, NoFile
  <2> QED BY <2>1, <2>2, <2>3
<1>9. HonestInv'
  BY <1>1, <1>3, <1>5, <1>8, HonestKeeps
<1>10. NoneMissed'
  BY <1>1, <1>3, <1>5 DEF StoredInv, NoneMissed, Waiting, Expired
<1>11. FileAgrees' /\ TempAgrees'
  <2>1. CASE SaveBegins
    BY <2>1, <1>1, <1>5, <1>6 DEF SaveBegins, StoredInv, FileAgrees, TempAgrees
  <2>2. CASE SaveSnapshot
    <3>1. temp' = Kept(shard) /\ file' = file /\ shard' = shard
      BY <2>2, <1>5 DEF SaveSnapshot
    <3>2. \A k \in Keys : Kept(shard)[k].status = "ready" => Kept(shard)[k] = shard.entry[k]
      BY KeptRecord
    <3> QED BY <3>1, <3>2, <1>1, <1>6 DEF StoredInv, FileAgrees, TempAgrees
  <2>3. ASSUME NEW ok \in BOOLEAN, SaveEnds(ok) PROVE FileAgrees' /\ TempAgrees'
    <3>1. /\ saving = "taken" /\ saving' = "no" /\ file' = IF ok THEN temp ELSE file
          /\ shard'.dirty = IF ok THEN shard.moved ELSE shard.dirty
      BY <2>3, <1>5 DEF SaveEnds
    <3> QED BY <3>1, <1>1, <1>5, <1>6 DEF StoredInv, FileAgrees, TempAgrees
  <2> QED BY <2>1, <2>2, <2>3
<1>12. StoredInv'
  BY <1>1, <1>3, <1>7, <1>8, <1>10, <1>11 DEF StoredInv
<1> QED BY <1>4, <1>9, <1>12 DEF LookupsInv

LEMMA TickKeeps ==
    ASSUME LookupsInv, Tick
    PROVE  LookupsInv'
<1>1. /\ RegistryInv /\ HonestInv /\ StoredInv /\ GroupsTimed /\ Len(made) \in Nat /\ ShardFine(shard)
  BY LookupsParts
<1>2. /\ moment < MaxTime /\ moment' = moment + 1 /\ moment \in 0 .. MaxTime
      /\ UNCHANGED <<engine, wanted, groups, made, byId, issued, cycle, total, timers, fired,
                     sent, told, shard, saving, temp, file>>
  BY <1>1 DEF Tick, queue, StoredInv
<1>3. RegistryInv'
  BY <1>1, <1>2, RegistryStays DEF GroupsTimed
<1>4. HonestInv'
  BY <1>1, <1>2, HonestKeeps
<1>5. moment' \in 0 .. MaxTime
  BY <1>2, BoundsTyped
<1>6. \A k \in Keys : shard.entry[k].expires \in Nat
  BY <1>1 DEF ShardFine, EntryRecords
<1>7. \A k \in Keys : Kept(shard)'[k].status = "ready" => Kept(shard)[k].status = "ready"
  <2>1. SUFFICES ASSUME NEW k \in Keys, Kept(shard)'[k].status = "ready" PROVE Kept(shard)[k].status = "ready"
    OBVIOUS
  <2>2. Kept(shard)'[k] = IF shard.entry[k].status = "ready"
                             /\ ~(shard.entry[k].status = "ready" /\ moment + 1 >= shard.entry[k].expires)
                          THEN shard.entry[k] ELSE NoEntry
    BY <1>2 DEF Kept, Expired
  <2>3. shard.entry[k].status = "ready" /\ ~(moment + 1 >= shard.entry[k].expires)
    BY <2>1, <2>2, NoEntryTyped
  <2> QED BY <2>3, <1>2, <1>6, KeptRecord
<1>8. FileAgrees' /\ TempAgrees'
  BY <1>1, <1>2, <1>7 DEF StoredInv, FileAgrees, TempAgrees
<1>9. NoneMissed'
  BY <1>1, <1>2, <1>6 DEF StoredInv, NoneMissed, Waiting, Expired
<1>10. ShardFine(shard)'
  BY <1>1, <1>2 DEF ShardFine, Held, Pending
<1>11. StoredInv'
  BY <1>1, <1>2, <1>5, <1>8, <1>9, <1>10 DEF StoredInv
<1> QED BY <1>3, <1>4, <1>11 DEF LookupsInv

(* What is loaded from a file is a shard of its own records, in order. *)
LEMMA LoadedShard ==
    ASSUME NEW f \in [Keys -> EntryRecords], NEW s \in Loaded(f)
    PROVE  /\ ShardFine(s) /\ Len(s.order) <= ShardRecords /\ s.dirty = FALSE /\ s.moved = FALSE
           /\ \A k \in Keys : s.entry[k] = f[k] \/ s.entry[k] = NoEntry
<1> DEFINE live == {k \in Keys : f[k].status = "ready" /\ ~Expired(f[k])}
           fit  == IF Cardinality(live) > ShardRecords THEN ShardRecords ELSE Cardinality(live)
<1>1. PICK ks \in SUBSET live :
         Cardinality(ks) = fit /\ \E o \in [1 .. fit -> ks] : Range(o) = ks /\ s = Restored(f, ks, o)
  <2>1. Loaded(f) = UNION {{Restored(f, ks, o) : o \in {o \in [1 .. fit -> ks] : Range(o) = ks}} :
                             ks \in {ks \in SUBSET live : Cardinality(ks) = fit}}
    BY DEF Loaded
  <2> HIDE DEF live, fit
  <2>2. PICK ks \in {ks \in SUBSET live : Cardinality(ks) = fit} :
           s \in {Restored(f, ks, o) : o \in {o \in [1 .. fit -> ks] : Range(o) = ks}}
    BY <2>1
  <2> QED BY <2>2
<1>2. PICK o \in [1 .. fit -> ks] : Range(o) = ks /\ s = Restored(f, ks, o)
  BY <1>1
<1>3. live \subseteq Keys /\ \A k \in live : f[k].status = "ready"
  OBVIOUS
<1>4. IsFiniteSet(live) /\ Cardinality(live) \in Nat
  BY <1>3, BoundsTyped, FS_Subset, FS_CardinalityType
<1> HIDE DEF live
<1>5. fit \in Nat /\ fit <= ShardRecords
  BY <1>4, BoundsTyped
<1> HIDE DEF fit
<1>6. s = [entry |-> [k \in Keys |-> IF k \in ks THEN f[k] ELSE NoEntry], order |-> o, pending |-> 0,
           dirty |-> FALSE, moved |-> FALSE]
  BY <1>2 DEF Restored, EmptyStore
<1>7. /\ s.entry = [k \in Keys |-> IF k \in ks THEN f[k] ELSE NoEntry] /\ s.order = o /\ s.pending = 0
      /\ s.dirty = FALSE /\ s.moved = FALSE
  BY <1>6
<1>8. s.entry \in [Keys -> EntryRecords]
  BY <1>7, NoEntryTyped
<1>9. ks \in SUBSET Keys /\ Cardinality(ks) = fit
  BY <1>1, <1>3
<1>10. Held(s) = ks /\ Pending(s) = {}
  BY <1>3, <1>7, <1>9, <1>1, NoEntryTyped DEF Held, Pending
<1>11. o \in Seq(Keys) /\ Len(o) = fit /\ DOMAIN o = 1 .. fit
  <2>1. o \in [1 .. fit -> Keys]
    BY <1>9, <1>2
  <2> QED BY <2>1, <1>5
<1>12. Range(o) = ks
  BY <1>2
<1>13. Once(o)
  <2>1. o \in Surjection(1 .. fit, ks)
    BY <1>11, <1>12 DEF Surjection, Range
  <2>2. IsFiniteSet(1 .. fit) /\ Cardinality(1 .. fit) = fit
    BY <1>5, FS_Interval
  <2>3. o \in Injection(1 .. fit, ks)
    BY <1>9, <2>1, <2>2, FS_SurjSameCardinalityImpliesInj
  <2> QED BY <2>3, <1>11 DEF Injection, IsInjective, Once
<1>14. Cardinality(Pending(s)) = 0
  BY <1>10, FS_EmptySet
<1>15. ShardFine(s)
  <2>1. s \in [entry : [Keys -> EntryRecords], order : Seq(Keys), pending : Nat,
               dirty : BOOLEAN, moved : BOOLEAN]
    BY <1>6, <1>7, <1>8, <1>11
  <2> QED BY <2>1, <1>7, <1>10, <1>12, <1>13, <1>14 DEF ShardFine
<1> QED BY <1>5, <1>7, <1>11, <1>15

LEMMA CrashCached ==
    ASSUME LookupsInv, Crash
    PROVE  LookupsInv'
<1>1. /\ RegistryInv /\ HonestInv /\ StoredInv /\ Len(made) \in Nat
      /\ file \in [Keys -> EntryRecords] /\ moment \in 0 .. MaxTime
  BY LookupsParts
<1>2. /\ shard' \in Loaded(file) /\ saving' = "no" /\ temp' = NoFile
      /\ Tell(Keys, "dropped", 0) /\ groups' = [k \in Keys |-> NoGroup]
      /\ UNCHANGED <<engine, wanted, made, file, moment>>
  BY DEF Crash
<1>3. RegistryInv'
  BY <1>1, CrashKeeps
<1>4. \E s : s = shard' /\ s \in Loaded(file)
  BY <1>2
<1>5. PICK s : s = shard' /\ s \in Loaded(file)
  BY <1>4
<1>6. /\ ShardFine(s) /\ Len(s.order) <= ShardRecords /\ s.dirty = FALSE /\ s.moved = FALSE
      /\ \A k \in Keys : s.entry[k] = file[k] \/ s.entry[k] = NoEntry
  BY <1>1, <1>5, LoadedShard
<1>7. ShardFine(shard)' /\ (Len(shard.order) <= ShardRecords)'
  BY <1>5, <1>6 DEF ShardFine, Held, Pending
<1>8. \A k \in Keys : shard'.entry[k] = file[k] \/ shard'.entry[k] = NoEntry
  BY <1>5, <1>6
<1>9. ASSUME NEW k \in Keys PROVE Meant(shard.entry[k], k)'
  BY <1>1, <1>2, <1>8, NoEntryTyped DEF HonestInv, Meant
<1>10. ASSUME NEW r \in told', r \notin told PROVE Honest(r)'
  BY <1>2, <1>10 DEF Tell, Honest
<1>11. \A k \in Keys : temp'[k] = NoEntry
  BY <1>2 DEF NoFile
<1>12. HonestInv'
  BY <1>1, <1>2, <1>9, <1>10, <1>11, HonestKeeps
<1>13. FileAgrees'
  BY <1>2, <1>8, NoEntryTyped DEF FileAgrees, Kept
<1>14. TempAgrees' /\ NoneMissed'
  BY <1>2 DEF TempAgrees, NoneMissed, Waiting, NoGroup
<1>15. temp' \in [Keys -> EntryRecords]
  BY <1>2, NoEntryTyped DEF NoFile
<1>16. StoredInv'
  BY <1>1, <1>2, <1>7, <1>13, <1>14, <1>15 DEF StoredInv
<1> QED BY <1>3, <1>12, <1>16 DEF LookupsInv

LEMMA LookupsStart ==
    ASSUME LookupsInit
    PROVE  LookupsInv
<1>1. /\ engine \in BOOLEAN
      /\ wanted = [w \in Waiters |-> "none"]
      /\ groups = [k \in Keys |-> NoGroup]
      /\ made = <<>>
      /\ byId = [i \in DnsIds |-> 0]
      /\ issued \in {{}, {1}}
      /\ cycle = 0 /\ total = 0
      /\ timers = {} /\ fired = {} /\ sent = {} /\ told = {}
      /\ shard = EmptyStore
      /\ saving = "no" /\ file = NoFile /\ temp = NoFile /\ moment = 0
  BY DEF LookupsInit
<1>2. \A k \in Keys : ~Waiting(k) /\ groups[k] = NoGroup /\ groups[k].waiters = {}
  BY <1>1 DEF Waiting, NoGroup
<1>3. RegistryTyped
  <2>1. NoGroup \in [serial : 0 .. MaxGroups, id : {0} \cup DnsIds, waiters : SUBSET Waiters]
    BY BoundsTyped DEF NoGroup
  <2>2. groups \in [Keys -> [serial : 0 .. MaxGroups, id : {0} \cup DnsIds, waiters : SUBSET Waiters]]
    BY <1>1, <2>1
  <2>3. byId \in [DnsIds -> 0 .. MaxGroups] /\ issued \subseteq DnsIds /\ cycle \in Nat
    BY <1>1, BoundsTyped, LookupsAssumption
  <2>4. made \in Seq([key : Keys, id : DnsIds, cycle : Nat]) /\ Len(made) = 0
    BY <1>1
  <2>5. wanted \in [Waiters -> Keys \cup {"none"}]
    BY <1>1
  <2>6. timers \subseteq 1 .. Len(made) /\ fired \subseteq 1 .. Len(made) /\ sent \subseteq 1 .. Len(made)
    BY <1>1
  <2> QED BY <1>1, <2>2, <2>3, <2>4, <2>5, <2>6, BoundsTyped DEF RegistryTyped
<1>4. GroupsIndexed /\ GroupsTimed
  BY <1>2 DEF GroupsIndexed, GroupsTimed
<1>5. IdsIndexed /\ IdsCycled
  <2>1. 1 .. Len(made) = {}
    BY <1>1
  <2> QED BY <1>1, <2>1 DEF IdsIndexed, IdsCycled
<1>6. WaitersPlaced
  <2>1. AllWaiting = {}
    BY <1>2 DEF AllWaiting
  <2>2. total = Cardinality(AllWaiting) /\ total <= MaxWaiting
    BY <1>1, <2>1, FS_EmptySet, BoundsTyped
  <2> QED BY <1>1, <1>2, <2>1, <2>2 DEF WaitersPlaced
<1>7. NoFile \in [Keys -> EntryRecords] /\ \A k \in Keys : NoFile[k] = NoEntry /\ NoFile[k].status = "none"
  BY NoEntryTyped DEF NoFile
<1>8. ShardFine(shard) /\ shard.entry = NoFile /\ Len(shard.order) = 0
  <2>1. /\ shard.entry = NoFile /\ shard.order = <<>> /\ shard.pending = 0
        /\ shard = [entry |-> NoFile, order |-> <<>>, pending |-> 0, dirty |-> FALSE, moved |-> FALSE]
    BY <1>1 DEF EmptyStore
  <2>2. Held(shard) = {} /\ Pending(shard) = {}
    BY <1>7, <2>1 DEF Held, Pending
  <2>3. shard \in [entry : [Keys -> EntryRecords], order : Seq(Keys), pending : Nat,
                   dirty : BOOLEAN, moved : BOOLEAN]
    BY <1>7, <2>1
  <2>4. Range(shard.order) = {} /\ Once(shard.order) /\ Len(shard.order) = 0
    BY <2>1 DEF Range, Once
  <2> QED BY <2>1, <2>2, <2>3, <2>4, FS_EmptySet DEF ShardFine
<1>9. HonestInv
  BY <1>1, <1>7, <1>8 DEF HonestInv, Meant
<1>10. \A k \in Keys : Kept(shard)[k].status # "ready"
  BY <1>7, <1>8, KeptRecord
<1>11. StoredInv
  <2>1. FileAgrees /\ TempAgrees /\ NoneMissed
    BY <1>2, <1>10 DEF FileAgrees, TempAgrees, NoneMissed
  <2> QED BY <1>1, <1>7, <1>8, <2>1, BoundsTyped DEF StoredInv
<1> QED BY <1>3, <1>4, <1>5, <1>6, <1>9, <1>11 DEF LookupsInv, RegistryInv

LEMMA LookupsStep ==
    ASSUME LookupsInv, [LookupsNext]_lookupVars
    PROVE  LookupsInv'
<1>1. timers \subseteq 1 .. Len(made) /\ fired \subseteq 1 .. Len(made) /\ sent \subseteq 1 .. Len(made)
  BY LookupsParts DEF RegistryTyped
<1>2. CASE \E w \in Waiters, k \in Keys : ProcessQuery(w, k)
  BY <1>2, QueryKeeps
<1>3. CASE \E s \in timers : TimerFires(s)
  BY <1>1, <1>3, TimersKeep
<1>4. CASE \E s \in fired : Expires(s)
  BY <1>1, <1>4, TimersKeep
<1>5. CASE \E s \in sent : ExchangeFails(s) \/ Reply(s)
  BY <1>1, <1>5, TimersKeep, ReplyKeeps
<1>6. CASE Clear
  BY <1>6, ClearKeeps
<1>7. CASE SaveBegins \/ SaveSnapshot \/ (\E ok \in BOOLEAN : SaveEnds(ok))
  BY <1>7, SaveKeeps
<1>8. CASE Crash
  BY <1>8, CrashCached
<1>9. CASE Tick
  BY <1>9, TickKeeps
<1>10. CASE UNCHANGED lookupVars
  <2>1. UNCHANGED <<engine, wanted, groups, made, byId, issued, cycle, total, timers, fired,
                    sent, told, shard, saving, temp, file, moment>>
    BY <1>10 DEF lookupVars
  <2>2. RegistryInv'
    BY <2>1, LookupsParts, RegistryStays DEF GroupsTimed
  <2>3. HonestInv'
    BY <2>1, LookupsParts, HonestKeeps
  <2>4. StoredInv'
    BY <2>1, LookupsParts, StoredStays DEF Waiting
  <2> QED BY <2>2, <2>3, <2>4 DEF LookupsInv
<1> QED BY <1>2, <1>3, <1>4, <1>5, <1>6, <1>7, <1>8, <1>9, <1>10 DEF LookupsNext

(* The invariant says what the run checks. *)
LEMMA OneFateEach ==
    ASSUME LookupsInv
    PROVE  OneFate
<1>1. WaitersPlaced /\ RegistryTyped /\ GroupsTimed
  BY LookupsParts
<1>2. ASSUME NEW w \in Waiters, wanted[w] # "none"
      PROVE  Cardinality({k \in Keys : w \in groups[k].waiters}) + Cardinality({r \in told : r.waiter = w}) = 1
  <2> DEFINE in == {k \in Keys : w \in groups[k].waiters}
             of == {r \in told : r.waiter = w}
  <2>1. CASE w \in AllWaiting
    <3>1. PICK k \in Keys : w \in groups[k].waiters
      BY <2>1 DEF AllWaiting
    <3>2. in = {k}
      BY <3>1, <1>1 DEF WaitersPlaced
    <3>3. of = {}
      BY <2>1, <1>1 DEF WaitersPlaced
    <3>4. Cardinality(in) = 1 /\ Cardinality(of) = 0
      BY <3>2, <3>3, FS_Singleton, FS_EmptySet
    <3> QED BY <3>4
  <2>2. CASE w \notin AllWaiting
    <3>1. PICK r \in told : r.waiter = w
      BY <2>2, <1>1, <1>2 DEF WaitersPlaced
    <3>2. of = {r}
      BY <3>1, <1>1 DEF WaitersPlaced
    <3>3. in = {}
      BY <2>2 DEF AllWaiting
    <3>4. Cardinality(in) = 0 /\ Cardinality(of) = 1
      BY <3>2, <3>3, FS_Singleton, FS_EmptySet
    <3> QED BY <3>4
  <2> QED BY <2>1, <2>2
<1> QED BY <1>1, <1>2 DEF OneFate, GroupsTimed

LEMMA LookupsFollow ==
    ASSUME LookupsInv
    PROVE  LookupsSound
<1>1. LookupsTypeOK
  <2>1. total \in 0 .. MaxWaiting
    <3>1. total = Cardinality(AllWaiting) /\ total <= MaxWaiting /\ Cardinality(AllWaiting) \in Nat
      BY LookupsParts, WaitingTyped DEF WaitersPlaced, AllWaiting
    <3> QED BY <3>1, BoundsTyped
  <2>2. timers \cup fired \cup sent \subseteq Serials
    BY LookupsParts, BoundsTyped DEF RegistryTyped, Serials
  <2>3. shard.entry \in [Keys -> EntryRecords]
    BY LookupsParts DEF ShardFine
  <2>4. saving \in {"no", "begun", "taken"}
    BY LookupsParts DEF StoredInv
  <2>5. /\ engine \in BOOLEAN
        /\ wanted \in [Waiters -> Keys \cup {"none"}]
        /\ groups \in [Keys -> [serial : 0 .. MaxGroups, id : {0} \cup DnsIds, waiters : SUBSET Waiters]]
        /\ Len(made) <= MaxGroups
        /\ byId \in [DnsIds -> 0 .. MaxGroups] /\ issued \subseteq DnsIds
    BY LookupsParts DEF RegistryTyped
  <2> QED BY <2>1, <2>2, <2>3, <2>4, <2>5 DEF LookupsTypeOK, EntryRecords
<1>2. CensusExact
  <2>1. total = Cardinality(UNION {groups[k].waiters : k \in Keys})
    BY LookupsParts DEF WaitersPlaced, AllWaiting
  <2>2. \A i \in DnsIds : byId[i] # 0 => groups[made[byId[i]].key].serial = byId[i]
    BY LookupsParts DEF IdsIndexed
  <2>3. \A k \in Keys : Waiting(k) => byId[groups[k].id] = groups[k].serial /\ groups[k].id \in issued
    BY LookupsParts DEF GroupsIndexed
  <2>4. /\ shard.pending = Cardinality(Pending(shard))
        /\ Range(shard.order) = Held(shard) /\ Len(shard.order) <= ShardRecords
    BY LookupsParts DEF ShardFine
  <2> QED BY <2>1, <2>2, <2>3, <2>4 DEF CensusExact
<1>3. OneFate
  BY OneFateEach
<1>4. OwnAnswers
  BY DEF LookupsInv, HonestInv, Honest, OwnAnswers
<1>5. NoneMissed /\ FileAgrees
  BY DEF LookupsInv, StoredInv
<1> QED BY <1>1, <1>2, <1>3, <1>4, <1>5 DEF LookupsSound

(* For any keys, queries and IDs and any sizes of the cache: each query is *)
(* answered once, by its own reply or its own timer, the indexes and the   *)
(* counts agree, no reply is missed, and a cache with nothing to save is   *)
(* the file's.                                                             *)
THEOREM LookupsAnsweredOnce == LookupsSpec => []LookupsSound
<1>1. LookupsInit => LookupsInv
  BY LookupsStart
<1>2. LookupsInv /\ [LookupsNext]_lookupVars => LookupsInv'
  BY LookupsStep
<1>3. LookupsInv => LookupsSound
  BY LookupsFollow
<1> QED BY <1>1, <1>2, <1>3, PTL DEF LookupsSpec
=============================================================================
