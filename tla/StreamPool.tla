----------------------------- MODULE StreamPool -----------------------------
(***************************************************************************)
(* The data plane over TCP and DoT: workers that take queued queries and   *)
(* write each to one of a resolver's persistent connections, which any of  *)
(* them dials when there is none; the connections' readers; the end.       *)
(* (tcp_data.go)                                                           *)
(*                                                                         *)
(* One resolver. A manager is started once and stopped once: each runtime  *)
(* makes its own. A connection's stream is whole when it ends at a frame's *)
(* end and cut when a write failed inside a frame.                         *)
(***************************************************************************)
EXTENDS Integers

CONSTANTS
    Workers, Stripes,   \* tcpDataWorkers, tcpDataStripes
    MaxJobs,
    ControlCap, DataCap,
    MaxConns            \* connections that are dialed in a behaviour

VARIABLES
    phase,      \* "up", "closing", "waiting", "stopped"
    jobs,       \* queries accepted so far
    control, data, \* the queues' lengths
    next,       \* m.next
    worker,     \* what each is doing
    table,      \* m.conns, by stripe
    conn,       \* the connections dialed
    victims,    \* those that Stop took from the table
    tracked     \* queries being written that the resolvers' statistics wait for

poolVars == <<phase, jobs, control, data, next, worker, table, conn, victims, tracked>>

Resting == [at |-> "rests", slot |-> 0, conn |-> 0]
None    == 0
Made    == {c \in DOMAIN conn : conn[c].slot >= 0}
Fresh   == [slot |-> -1, open |-> FALSE, whole |-> TRUE, read |-> FALSE]

Init ==
    /\ phase = "up" /\ jobs = 0 /\ control = 0 /\ data = 0 /\ next = 0
    /\ worker = [w \in Workers |-> Resting]
    /\ table = [s \in 0..Stripes - 1 |-> None] /\ conn = [c \in 1..MaxConns |-> Fresh]
    /\ victims = {} /\ tracked = 0

(* Send waits for room, or for the end *)
Send ==
    /\ phase = "up" /\ jobs < MaxJobs /\ jobs' = jobs + 1
    /\ \/ control < ControlCap /\ control' = control + 1 /\ UNCHANGED data
       \/ data < DataCap /\ data' = data + 1 /\ UNCHANGED control
    /\ UNCHANGED <<phase, next, worker, table, conn, victims, tracked>>

Moves(w, place) == worker' = [worker EXCEPT ![w] = place]
Rests(w)        == Moves(w, Resting)

(* The control queue first; sendJob takes the next stripe. *)
Take(w) ==
    /\ worker[w].at = "rests"
    /\ \/ control > 0 /\ control' = control - 1 /\ UNCHANGED data
       \/ control = 0 /\ data > 0 /\ data' = data - 1 /\ UNCHANGED control
    /\ next' = (next + 1) % Stripes
    /\ Moves(w, [Resting EXCEPT !.at = "looks", !.slot = next])
    /\ UNCHANGED <<phase, jobs, table, conn, victims, tracked>>

Quit(w) ==
    /\ worker[w].at = "rests" /\ phase # "up" /\ Moves(w, [Resting EXCEPT !.at = "gone"])
    /\ UNCHANGED <<phase, jobs, control, data, next, table, conn, victims, tracked>>

(* connFor: what the table holds, or a dial without the lock *)
Look(w) ==
    LET s == worker[w].slot IN
    /\ worker[w].at = "looks"
    /\ IF phase # "up" THEN Rests(w)
       ELSE IF table[s] # None THEN Moves(w, [worker[w] EXCEPT !.at = "has", !.conn = table[s]])
       ELSE Moves(w, [worker[w] EXCEPT !.at = "dials"])
    /\ UNCHANGED <<phase, jobs, control, data, next, table, conn, victims, tracked>>

Dial(w) ==
    /\ worker[w].at = "dials"
    /\ \/ Rests(w) /\ UNCHANGED conn
       \/ \E c \in DOMAIN conn \ Made :
            /\ \A d \in DOMAIN conn \ Made : c <= d
            /\ conn' = [conn EXCEPT ![c] = [@ EXCEPT !.slot = worker[w].slot, !.open = TRUE]]
            /\ Moves(w, [worker[w] EXCEPT !.at = "dialed", !.conn = c])
    /\ UNCHANGED <<phase, jobs, control, data, next, table, victims, tracked>>

(* The manager may be dead by now, or another worker was faster. *)
Register(w) ==
    LET s == worker[w].slot
        c == worker[w].conn
    IN
    /\ worker[w].at = "dialed"
    /\ IF phase # "up" THEN Rests(w) /\ conn' = [conn EXCEPT ![c].open = FALSE] /\ UNCHANGED table
       ELSE IF table[s] # None
       THEN /\ conn' = [conn EXCEPT ![c].open = FALSE] /\ UNCHANGED table
            /\ Moves(w, [worker[w] EXCEPT !.at = "has", !.conn = table[s]])
       ELSE /\ table' = [table EXCEPT ![s] = c] /\ conn' = [conn EXCEPT ![c].read = TRUE]
            /\ Moves(w, [worker[w] EXCEPT !.at = "has"])
    /\ UNCHANGED <<phase, jobs, control, data, next, victims, tracked>>

(* writeMu, and trackResolverSend under it *)
Lock(w) ==
    /\ worker[w].at = "has"
    /\ \A v \in Workers : worker[v].at = "writes" => worker[v].conn # worker[w].conn
    /\ Moves(w, [worker[w] EXCEPT !.at = "writes"]) /\ tracked' = tracked + 1
    /\ UNCHANGED <<phase, jobs, control, data, next, table, conn, victims>>

(* The whole frame is written, or a part of it or nothing; the lock is     *)
(* released before a failure is acted upon.                                *)
Write(w) ==
    LET c == worker[w].conn IN
    /\ worker[w].at = "writes"
    /\ \/ /\ conn[c].open /\ Rests(w) /\ tracked' = tracked - 1
          /\ UNCHANGED conn
       \/ /\ Moves(w, [worker[w] EXCEPT !.at = "failed"])
          /\ conn' \in {conn, [conn EXCEPT ![c].whole = @ /\ ~conn[c].open]}
          /\ UNCHANGED tracked
    /\ UNCHANGED <<phase, jobs, control, data, next, table, victims>>

(* discardResolverSend, close, then remove *)
CloseBad(w) ==
    /\ worker[w].at = "failed" /\ tracked' = tracked - 1
    /\ conn' = [conn EXCEPT ![worker[w].conn].open = FALSE]
    /\ Moves(w, [worker[w] EXCEPT !.at = "removes"])
    /\ UNCHANGED <<phase, jobs, control, data, next, table, victims>>

Without(c) == [s \in DOMAIN table |-> IF table[s] = c THEN None ELSE table[s]]

RemoveBad(w) ==
    /\ worker[w].at = "removes" /\ Rests(w) /\ table' = Without(worker[w].conn)
    /\ UNCHANGED <<phase, jobs, control, data, next, conn, victims, tracked>>

(* The resolver closes, or sends what is no answer: the reader closes.     *)
ReadEnds(c) ==
    /\ conn[c].read /\ conn[c].open /\ conn' = [conn EXCEPT ![c].open = FALSE]
    /\ UNCHANGED <<phase, jobs, control, data, next, worker, table, victims, tracked>>

ReaderLeaves(c) ==
    /\ conn[c].read /\ ~conn[c].open /\ conn' = [conn EXCEPT ![c].read = FALSE] /\ table' = Without(c)
    /\ UNCHANGED <<phase, jobs, control, data, next, worker, victims, tracked>>

Stop ==
    /\ phase = "up" /\ phase' = "closing"
    /\ victims' = {table[s] : s \in DOMAIN table} \ {None} /\ table' = [s \in DOMAIN table |-> None]
    /\ UNCHANGED <<jobs, control, data, next, worker, conn, tracked>>

StopCloses ==
    /\ phase = "closing"
    /\ IF victims = {} THEN phase' = "waiting" /\ UNCHANGED <<victims, conn>>
       ELSE \E c \in victims : /\ victims' = victims \ {c} /\ conn' = [conn EXCEPT ![c].open = FALSE]
                               /\ UNCHANGED phase
    /\ UNCHANGED <<jobs, control, data, next, worker, table, tracked>>

StopReturns ==
    /\ phase = "waiting" /\ \A w \in Workers : worker[w].at = "gone"
    /\ phase' = "stopped"
    /\ UNCHANGED <<jobs, control, data, next, worker, table, conn, victims, tracked>>

Next ==
    \/ Send \/ Stop \/ StopCloses \/ StopReturns
    \/ \E w \in Workers : \/ Take(w) \/ Quit(w) \/ Look(w) \/ Dial(w) \/ Register(w) \/ Lock(w) \/ Write(w)
                          \/ CloseBad(w) \/ RemoveBad(w)
    \/ \E c \in Made : ReadEnds(c) \/ ReaderLeaves(c)

Spec == Init /\ [][Next]_poolVars

----------------------------------------------------------------------------
TypeOK ==
    /\ phase \in {"up", "closing", "waiting", "stopped"} /\ jobs \in 0..MaxJobs
    /\ control \in 0..ControlCap /\ data \in 0..DataCap
    /\ \A s \in DOMAIN table : table[s] \in Made \union {None}

(* An open connection is the table's, or someone is about to register or   *)
(* close it: none is forgotten, though two workers dial the same stripe    *)
(* and Stop runs while they do (connFor, remove).                          *)
Owned ==
    \A c \in Made : conn[c].open =>
        \/ table[conn[c].slot] = c \/ c \in victims
        \/ \E w \in Workers : worker[w].at \in {"dialed", "failed"} /\ worker[w].conn = c

(* A stripe's entry is a connection of that stripe, with its reader, or    *)
(* one that is closed and about to be removed: no stripe stays blocked.    *)
NoneStuck ==
    \A s \in DOMAIN table : table[s] # None =>
        /\ conn[table[s]].slot = s
        /\ conn[table[s]].read \/ \E w \in Workers : worker[w].at = "removes" /\ worker[w].conn = table[s]

(* A stream that a failed write has cut is closed by the worker that cut   *)
(* it; until then another one's query may be lost in it, counted as sent.  *)
CutCloses ==
    \A c \in Made : conn[c].open /\ ~conn[c].whole =>
        \E w \in Workers : worker[w].at = "failed" /\ worker[w].conn = c

(* Stop ends: nothing that a worker may still wait for is left open; and   *)
(* when it has returned no connection is, and the statistics wait for no   *)
(* query that was not written.                                             *)
StopEnds ==
    /\ phase = "waiting" => \A w \in Workers : worker[w].at = "writes" => ~conn[worker[w].conn].open
    /\ phase = "stopped" => (\A c \in Made : ~conn[c].open) /\ tracked = 0

StreamPoolSound == TypeOK /\ Owned /\ NoneStuck /\ CutCloses /\ StopEnds
=============================================================================
