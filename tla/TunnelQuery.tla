---------------------------- MODULE TunnelQuery ----------------------------
(* A DNS question on its way into the server: the client seals each        *)
(* fragment anew whenever it sends it, the resolvers between repeat what   *)
(* they were given, and the server guards each ciphertext it dispatched,   *)
(* collects the fragments and hands a complete question to its workers.    *)
(* internal/udpserver/server_replay.go, server_postsession.go              *)
(* handleDNSQueryRequest, internal/fragmentstore/store.go.                 *)
EXTENDS Integers, FiniteSets, Sequences, Functions

CONSTANTS
    Questions,     \* each a session's sequence number
    Total,         \* fragments of a question
    MaxGuards,     \* entries of the replay cache
    MaxBytes,      \* bytes of the replies it retains (a reply is one)
    GuardTTL,      \* how long a completed guard lasts
    KeptTicks,     \* fragment assembly and completion retention
    Counts,        \* 2^8: the width of an assembly's count
    MaxSeals, MaxTick   \* bounds of the model

ASSUME QueryAssumption ==
    /\ Total \in Nat \ {0} /\ MaxGuards \in Nat /\ MaxBytes \in Nat \ {0}
    /\ GuardTTL \in Nat /\ KeptTicks \in Nat /\ Counts \in Nat \ {0} /\ MaxSeals \in Nat

VARIABLES
    sealed,     \* ciphertext -> the fragment it carries; empty if its payload is
    guards,     \* ciphertext -> none, running or done, with its reply and its expiry
    order,      \* the completed guards, oldest first
    bytes,
    inside,     \* ciphertexts between begin and finish, and whether dispatched
    pieces,     \* question -> the fragments held, their count, when the assembly began
    completed,  \* question -> until when it is known to be complete
    ready,      \* questions taken by the deferred processor
    whole,      \* question -> times it was found complete
    runs,       \* question -> times it was executed
    acks,       \* fragments acknowledged to the client
    clock

queryVars == <<sealed, guards, order, bytes, inside, pieces, completed, ready, whole, runs, acks, clock>>
store == <<pieces, completed, ready, whole, acks>>

Fragments == 0 .. Total - 1
Seals == 1 .. MaxSeals
NoGuard == [state |-> "none", reply |-> 0, expires |-> 0]
NoChunks == [held |-> {}, count |-> 0, born |-> 0]

QueryInit ==
    /\ sealed = <<>>
    /\ guards = [c \in Seals |-> NoGuard]
    /\ order = <<>> /\ bytes = 0 /\ inside = {}
    /\ pieces = [q \in Questions |-> NoChunks]
    /\ completed = [q \in Questions |-> 0]
    /\ ready = {}
    /\ whole = [q \in Questions |-> 0] /\ runs = [q \in Questions |-> 0] /\ acks = {}
    /\ clock = 0
-----------------------------------------------------------------------------
\* The client sends a fragment, or sends it again: always a new ciphertext.
Seal(q, f, empty) ==
    /\ Len(sealed) < MaxSeals
    /\ sealed' = Append(sealed, [q |-> q, f |-> f, empty |-> empty])
    /\ UNCHANGED <<guards, order, bytes, inside, store, runs, clock>>

Entries  == {c \in Seals : guards[c].state # "none"}
First(n) == {order[i] : i \in 1 .. n}

\* The completed guards that have run out: those in front, up to the first that has not.
RunOut(n) ==
    /\ \A i \in 1 .. n : guards[order[i]].expires <= clock
    /\ n < Len(order) => clock < guards[order[n + 1]].expires

\* Emptied the oldest n there is a place for one more.
\* MUTANT: one place too many
Room_OffByOne(n) == Cardinality(Entries \ First(n)) <= MaxGuards
Room(n) == Cardinality(Entries \ First(n)) < MaxGuards

Emptied(gone) == [c \in Seals |-> IF c \in gone THEN NoGuard ELSE guards[c]]
Freed(gone) == Cardinality({c \in gone : guards[c].reply = 1})

\* begin: a guarded ciphertext is not dispatched again, and one that finds every place
\* taken by a running request is not dispatched either. Of the m oldest completed guards,
\* which go, n have run out and the others make room.
Begin(c) ==
    /\ c \in DOMAIN sealed
    /\ \E n, m \in 0 .. Len(order) :
         /\ RunOut(n) /\ n <= m
         /\ bytes' = bytes - Freed(First(m)) /\ order' = SubSeq(order, m + 1, Len(order))
         /\ \/ /\ c \in Entries \ First(n) /\ m = n
               /\ guards' = Emptied(First(m)) /\ UNCHANGED inside
            \/ /\ c \notin Entries \ First(n) /\ m = Len(order) /\ ~Room(m)
               /\ guards' = Emptied(First(m)) /\ UNCHANGED inside
            \/ /\ c \notin Entries \ First(n) /\ Room(m) /\ (m > n => ~Room(m - 1))
               /\ guards' = [Emptied(First(m)) EXCEPT ![c] = [NoGuard EXCEPT !.state = "running"]]
               /\ inside' = inside \cup {[c |-> c, dispatched |-> FALSE]}
    /\ UNCHANGED <<sealed, store, runs, clock>>

Completed(c, poorer) ==
    /\ guards' = [d \in Seals |->
         IF d = c THEN [state |-> "done", reply |-> 1, expires |-> clock + GuardTTL]
         ELSE IF d \in poorer THEN [guards[d] EXCEPT !.reply = 0] ELSE guards[d]]
    /\ bytes' = bytes + 1 - Cardinality(poorer)

\* finish: the oldest reply loses its bytes when there is no room for one more; every guard
\* stays. It also runs when the dispatch panics.
Finish(c) ==
    /\ [c |-> c, dispatched |-> TRUE] \in inside
    /\ inside' = inside \ {[c |-> c, dispatched |-> TRUE]}
    /\ \/ bytes < MaxBytes /\ Completed(c, {})
       \/ /\ bytes >= MaxBytes
          /\ \E i \in 1 .. Len(order) :
               /\ guards[order[i]].reply = 1 /\ \A j \in 1 .. i - 1 : guards[order[j]].reply = 0
               /\ Completed(c, {order[i]})
    /\ order' = Append(order, c)
    /\ UNCHANGED <<sealed, store, runs, clock>>
-----------------------------------------------------------------------------
(* The fragment store, under its lock. *)
Purged(q) ==
    IF pieces[q].count > 0 /\ clock - pieces[q].born >= KeptTicks THEN NoChunks ELSE pieces[q]

\* One more chunk. An empty payload leaves its chunk nil, and is counted whenever it comes.
Stored(q, f, empty) ==
    LET e == IF Purged(q).count = 0 THEN [NoChunks EXCEPT !.born = clock] ELSE Purged(q)
    IN  [e EXCEPT !.held = IF empty THEN @ ELSE @ \cup {f},
                  !.count = IF f \in e.held THEN @ ELSE (@ + 1) % Counts]

Complete(e) == Total = 1 \/ (e.count >= Total /\ e.held = Fragments)

\* handleDNSQueryRequest: collect, and dispatch what is complete. The store has marked the
\* question complete before the ready has taken it.
Dispatch(c) ==
    LET m == sealed[c]
        e == Stored(m.q, m.f, m.empty)
    IN  /\ [c |-> c, dispatched |-> FALSE] \in inside
        /\ inside' = (inside \ {[c |-> c, dispatched |-> FALSE]}) \cup {[c |-> c, dispatched |-> TRUE]}
        /\ \/ /\ clock < completed[m.q]
              /\ UNCHANGED store
           \/ UNCHANGED store   \* the handler panics: its guard stays all the same
           \/ /\ clock >= completed[m.q] /\ ~Complete(e)
              /\ pieces' = [pieces EXCEPT ![m.q] = e]
              /\ UNCHANGED <<completed, ready, whole, acks>>
           \/ /\ clock >= completed[m.q] /\ Complete(e)
              /\ pieces' = [pieces EXCEPT ![m.q] = NoChunks]
              /\ completed' = [completed EXCEPT ![m.q] = clock + KeptTicks]
              /\ whole' = [whole EXCEPT ![m.q] = @ + 1]
              /\ \/ ready' = ready \cup {m.q} /\ acks' = acks \cup {<<m.q, m.f>>}
                 \/ m.q \notin ready /\ UNCHANGED <<ready, acks>>   \* other sessions fill the ready
        /\ UNCHANGED <<sealed, guards, order, bytes, runs, clock>>

\* A worker takes the question; its deadline may have passed while it was queued.
Run(q, late) ==
    /\ q \in ready
    /\ ready' = ready \ {q}
    /\ runs' = IF late THEN runs ELSE [runs EXCEPT ![q] = @ + 1]
    /\ UNCHANGED <<sealed, guards, order, bytes, inside, pieces, completed, whole, acks, clock>>

ClockTicks ==
    /\ clock < MaxTick
    /\ clock' = clock + 1
    /\ UNCHANGED <<sealed, guards, order, bytes, inside, store, runs>>

QueryNext ==
    \/ \E q \in Questions, f \in Fragments, empty \in BOOLEAN : Seal(q, f, empty)
    \/ \E c \in Seals : Begin(c) \/ Dispatch(c) \/ Finish(c)
    \/ \E q \in Questions, late \in BOOLEAN : Run(q, late)
    \/ ClockTicks

QuerySpec == QueryInit /\ [][QueryNext]_queryVars
-----------------------------------------------------------------------------
QueryTypeOK ==
    /\ guards \in [Seals -> [state : {"none", "running", "done"}, reply : 0 .. 1, expires : Nat]]
    /\ inside \subseteq [c : Seals, dispatched : BOOLEAN]
    /\ \A q \in Questions : pieces[q].held \subseteq Fragments /\ pieces[q].count \in 0 .. Counts - 1
    /\ ready \subseteq Questions

\* A request under way keeps its guard whatever presses on the cache, runs once at a time,
\* and the count of guards and the bytes of the replies are those of the entries.
GuardsExact ==
    /\ {x.c : x \in inside} = {c \in Seals : guards[c].state = "running"}
    /\ \A x, y \in inside : x.c = y.c => x = y
    /\ First(Len(order)) = {c \in Seals : guards[c].state = "done"} /\ IsInjective(order)
    /\ Cardinality(Entries) <= MaxGuards
    /\ bytes = Cardinality({c \in Seals : guards[c].reply = 1}) /\ bytes <= MaxBytes

\* A question is executed once in a retention, however its fragments are repeated, replayed
\* or reordered, and only when each of them came with a payload.
OnceWhole ==
    \A q \in Questions :
      /\ whole[q] > 0 => (whole[q] - 1) * KeptTicks <= clock
      /\ runs[q] <= whole[q]
      /\ whole[q] > 0 /\ Total > 1 => \A f \in Fragments : \E c \in DOMAIN sealed : sealed[c] = [q |-> q, f |-> f, empty |-> FALSE]

\* What the client is told was taken was complete.
AcksTrue == \A a \in acks : whole[a[1]] > 0

\* Replays, retransmissions and pressure on the cache run no question twice and none in part.
QuerySound == QueryTypeOK /\ GuardsExact /\ OnceWhole /\ AcksTrue
=============================================================================
