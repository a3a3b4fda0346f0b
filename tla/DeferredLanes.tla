--------------------------- MODULE DeferredLanes ---------------------------
(***************************************************************************)
(* The deferred-session processor of the server                            *)
(* (internal/udpserver/deferred_session.go): a fixed pool of workers, each *)
(* with a buffered channel of tasks.  A lane is one (session, stream) pair;*)
(* all of a lane's pending tasks go to the same worker, which makes the    *)
(* lane serial.  Removing a lane or a session drops its queued tasks and   *)
(* cancels the context of the running one.                                 *)
(*                                                                         *)
(* Every method body between p.mu.Lock and p.mu.Unlock is one action.      *)
(* What runs OUTSIDE p.mu is a step of its own: the worker's channel       *)
(* receive, its call of task.run, and worker.pending.Add(-1).  A worker    *)
(* may also receive from the channel while another goroutine holds p.mu    *)
(* and is draining that channel (compactWorkerLocked): see Compact.        *)
(*                                                                         *)
(* A task is one submission, so it is enqueued at most once; a retry is    *)
(* another task of the same lane.  Session 0 is left out: only packets of  *)
(* a live session are dispatched (dispatchDeferredSessionPacketTracked).   *)
(***************************************************************************)
EXTENDS Integers, FiniteSets

CONSTANTS
    Tasks,         \* submissions
    Lanes,         \* (session, stream) pairs
    Sessions,
    LaneOf,        \* the lane of each task
    SessionOf,     \* the session of each lane
    NumWorkers,
    QueueLimit,    \* capacity of a worker's channel
    SessionCap,    \* deriveDeferredSessionPendingCap
    MaxGen,        \* bound on the removals of a lane that stays pending
    NoTask

ASSUME TasksAssumption  == IsFiniteSet(Tasks) /\ NoTask \notin Tasks
ASSUME LaneAssumption   == LaneOf \in [Tasks -> Lanes] /\ SessionOf \in [Lanes -> Sessions]
ASSUME SizeAssumption   == /\ NumWorkers \in Nat \ {0}
                           /\ QueueLimit \in Nat \ {0}
                           /\ SessionCap \in Nat \ {0}
                           /\ MaxGen \in Nat

Workers == 1 .. NumWorkers

VARIABLES
    where,          \* where each task is in its life
    worker,         \* the worker whose channel a task was sent to, 0 before
    ticket,         \* a task's position in the order of channel sends
    nextTicket,
    gen,            \* task.generation
    live,           \* tasks whose context is not cancelled
    laneWorker,     \* p.laneWorker, 0 when the key is absent
    lanePending,    \* p.lanePending, 0 when absent
    laneGen,        \* p.laneGeneration, 0 when absent
    cancelled,      \* the keys of p.cancelled
    running,        \* p.running, NoTask when absent
    sessionPending, \* p.sessionPending, 0 when absent
    workerPending,  \* worker.pending, an atomic read without p.mu
    nextWorker,     \* p.nextWorker
    ctxDone,        \* the processor's context was cancelled
    exited,         \* workers whose goroutine returned
    revoked         \* history: tasks that a removal was meant to stop

laneVars == <<laneWorker, lanePending, laneGen, cancelled>>
vars == <<where, worker, ticket, nextTicket, gen, live, laneVars, running,
          sessionPending, workerPending, nextWorker, ctxDone, exited, revoked>>

----------------------------------------------------------------------------
Queued(w)  == {t \in Tasks : where[t] = "queued" /\ worker[t] = w}
Held       == {"taken", "running", "ending"}
Pending    == {"queued"} \cup Held
HeldBy(w)  == {t \in Tasks : where[t] \in Held /\ worker[t] = w}
PendingOf(l) == {t \in Tasks : where[t] \in Pending /\ LaneOf[t] = l}
SessionTasks(s) == {t \in Tasks : where[t] \in Pending /\ SessionOf[LaneOf[t]] = s}
SessionLanes(s) == {l \in Lanes : SessionOf[l] = s}

(* Ready to receive: blocked in the select of runDeferredWorker. *)
Idle(w) == w \notin exited /\ HeldBy(w) = {}

(* How far worker w is from where the scan starts. *)
Offset(w) == (w - 1 - nextWorker + NumWorkers) % NumWorkers

(* selectLeastLoadedWorkerLocked: the first least loaded worker, scanning  *)
(* from nextWorker.                                                        *)
LeastLoaded(w) ==
    \A v \in Workers \ {w} :
        \/ workerPending[w] < workerPending[v]
        \/ workerPending[w] = workerPending[v] /\ Offset(w) < Offset(v)

Init ==
    /\ where = [t \in Tasks |-> "new"]
    /\ worker = [t \in Tasks |-> 0]
    /\ ticket = [t \in Tasks |-> 0]
    /\ nextTicket = 1
    /\ gen = [t \in Tasks |-> 0]
    /\ live = {}
    /\ laneWorker = [l \in Lanes |-> 0]
    /\ lanePending = [l \in Lanes |-> 0]
    /\ laneGen = [l \in Lanes |-> 0]
    /\ cancelled = {}
    /\ running = [l \in Lanes |-> NoTask]
    /\ sessionPending = [s \in Sessions |-> 0]
    /\ workerPending = [w \in Workers |-> 0]
    /\ nextWorker = 0
    /\ ctxDone = FALSE
    /\ exited = {}
    /\ revoked = {}

----------------------------------------------------------------------------
(* Enqueue.  Whatever the outcome, the lane's cancelled mark is deleted,   *)
(* which re-opens the lane.                                                *)
Reopened(l) == cancelled \ {l}

(* canAcceptSessionLocked, negated *)
AtCap(s) == sessionPending[s] >= SessionCap

(* p.nextWorker counts from 0, the workers here from 1. *)
After(w) == w % NumWorkers

(* enqueueToExistingWorkerLocked and tryEnqueueLocked, the send succeeding *)
Send(t, w) ==
    LET l == LaneOf[t]
        s == SessionOf[l]
    IN  /\ Cardinality(Queued(w)) < QueueLimit
        /\ where' = [where EXCEPT ![t] = "queued"]
        /\ worker' = [worker EXCEPT ![t] = w]
        /\ ticket' = [ticket EXCEPT ![t] = nextTicket]
        /\ nextTicket' = nextTicket + 1
        /\ gen' = [gen EXCEPT ![t] = laneGen[l]]
        /\ laneWorker' = [laneWorker EXCEPT ![l] = w]
        /\ lanePending' = [lanePending EXCEPT ![l] = @ + 1]
        /\ sessionPending' = [sessionPending EXCEPT ![s] = @ + 1]
        /\ workerPending' = [workerPending EXCEPT ![w] = @ + 1]
        /\ UNCHANGED laneGen

Refuse(t) ==
    /\ where' = [where EXCEPT ![t] = "refused"]
    /\ UNCHANGED <<worker, ticket, nextTicket, gen, sessionPending, workerPending>>

EnqueueCapped(t) ==
    /\ AtCap(SessionOf[LaneOf[t]])
    /\ Refuse(t)
    /\ UNCHANGED <<laneWorker, lanePending, laneGen, nextWorker>>

EnqueueMapped(t) ==
    LET w == laneWorker[LaneOf[t]]
    IN  /\ ~AtCap(SessionOf[LaneOf[t]])
        /\ w # 0
        /\ \/ Send(t, w)
           \/ /\ Cardinality(Queued(w)) = QueueLimit
              /\ Refuse(t)
              /\ UNCHANGED <<laneWorker, lanePending, laneGen>>
        /\ UNCHANGED nextWorker

(* A refused first task of a lane undoes its counts, which clears the idle *)
(* lane again.                                                             *)
EnqueueFirst(t) ==
    \E w \in Workers :
        /\ LeastLoaded(w)
        /\ ~AtCap(SessionOf[LaneOf[t]])
        /\ laneWorker[LaneOf[t]] = 0
        /\ nextWorker' = After(w)
        /\ \/ Send(t, w)
           \/ /\ Cardinality(Queued(w)) = QueueLimit
              /\ Refuse(t)
              /\ laneGen' = [laneGen EXCEPT ![LaneOf[t]] = 0]
              /\ UNCHANGED <<laneWorker, lanePending>>

Enqueue(t) ==
    /\ where[t] = "new"
    /\ cancelled' = Reopened(LaneOf[t])
    /\ EnqueueCapped(t) \/ EnqueueMapped(t) \/ EnqueueFirst(t)
    /\ UNCHANGED <<live, running, ctxDone, exited, revoked>>

----------------------------------------------------------------------------
(* Removals. *)

(* compactQueuesLocked, with p.mu held and the lanes of `doomed` marked    *)
(* cancelled.  It drains each channel and sends the survivors back, so an  *)
(* idle worker can meanwhile receive ANY task of its channel - past the    *)
(* ones that are drained and not yet sent back - and a received task is    *)
(* out of the compaction's reach.  `stolen` are the tasks so received.     *)
Stealable == {t \in Tasks : where[t] = "queued" /\ Idle(worker[t])}

StolenSets ==
    {S \in SUBSET Stealable :
        \A t, u \in S : worker[t] = worker[u] => t = u}

(* shouldDropTaskLocked over what the drain finds. *)
Dropped(stolen, ls) ==
    {t \in Tasks : where[t] = "queued" /\ t \notin stolen /\ LaneOf[t] \in ls}

(* decrementSessionPendingLocked for every dropped task *)
SessionsLeft_Kept(dropped) == sessionPending
SessionsLeft(dropped) ==
    [s \in Sessions |->
        sessionPending[s] - Cardinality({t \in dropped : SessionOf[LaneOf[t]] = s})]

(* The lanes clearIdleLaneLocked is called for: those of the dropped tasks *)
(* and, at the end, the removed ones.                                      *)
Touched(doomed, dropped) == doomed \cup {LaneOf[t] : t \in dropped}

(* clearIdleLaneLocked: only what has nothing pending is forgotten. *)
Emptied(ls, left) == {l \in ls : left[l] = 0}

Compact(stolen, doomed, marked, newGen) ==
    LET dropped == Dropped(stolen, doomed \cup marked)
        left    == [l \in Lanes |->
                       lanePending[l] - Cardinality({t \in dropped : LaneOf[t] = l})]
        cleared == Emptied(Touched(doomed, dropped), left)
    IN  /\ where' = [t \in Tasks |-> IF t \in dropped THEN "dropped"
                                     ELSE IF t \in stolen THEN "taken" ELSE where[t]]
        /\ lanePending' = left
        /\ sessionPending' = SessionsLeft(dropped)
        /\ workerPending' = [w \in Workers |->
              workerPending[w] - Cardinality({t \in dropped : worker[t] = w})]
        /\ laneWorker' = [l \in Lanes |-> IF l \in cleared THEN 0 ELSE laneWorker[l]]
        /\ laneGen' = [l \in Lanes |-> IF l \in cleared THEN 0 ELSE newGen[l]]
        /\ cancelled' = marked \ cleared

(* The current runs of the lanes are cancelled and forgotten. *)
CancelRunning_Forget(ls) ==
    /\ live' = live
    /\ running' = [l \in Lanes |-> IF l \in ls THEN NoTask ELSE running[l]]
CancelRunning(ls) ==
    /\ live' = live \ {running[l] : l \in ls}
    /\ running' = [l \in Lanes |-> IF l \in ls THEN NoTask ELSE running[l]]

Bumped(ls) == [l \in Lanes |-> IF l \in ls THEN laneGen[l] + 1 ELSE laneGen[l]]

UnchangedByRemoval == <<worker, ticket, nextTicket, gen, nextWorker, ctxDone, exited>>

RemoveLane(l) ==
    /\ laneGen[l] < MaxGen
    /\ CancelRunning({l})
    /\ revoked' = revoked \cup PendingOf(l)
    /\ \E stolen \in StolenSets : Compact(stolen, {l}, cancelled \cup {l}, Bumped({l}))
    /\ UNCHANGED UnchangedByRemoval

(* Only the lanes with a worker are marked; only they can have tasks. *)
RemoveSession(s) ==
    LET mapped == {l \in SessionLanes(s) : laneWorker[l] # 0}
    IN  /\ \A l \in mapped : laneGen[l] < MaxGen
        /\ CancelRunning(SessionLanes(s))
        /\ revoked' = revoked \cup SessionTasks(s)
        /\ \E stolen \in StolenSets :
              Compact(stolen, SessionLanes(s), cancelled \cup mapped, Bumped(mapped))
        /\ UNCHANGED UnchangedByRemoval

(* FinalizeLane lets the running task end by itself: it is the one that    *)
(* produced the connect result.                                            *)
FinalizeLane(l) ==
    /\ laneGen[l] < MaxGen
    /\ revoked' = revoked \cup {t \in PendingOf(l) : where[t] \in {"queued", "taken"}}
    /\ \E stolen \in StolenSets : Compact(stolen, {l}, cancelled \cup {l}, Bumped({l}))
    /\ UNCHANGED <<live, running, UnchangedByRemoval>>

----------------------------------------------------------------------------
(* The worker goroutine. *)

Receive(w) ==
    /\ Idle(w)
    /\ \E t \in Queued(w) :
          /\ \A u \in Queued(w) : ticket[t] <= ticket[u]
          /\ where' = [where EXCEPT ![t] = "taken"]
    /\ UNCHANGED <<worker, ticket, nextTicket, gen, live, laneVars, running,
                   sessionPending, workerPending, nextWorker, ctxDone, exited, revoked>>

(* beginTaskContext: a task of a cancelled lane or of an older generation  *)
(* gets a context that is already cancelled and never becomes the lane's   *)
(* current run.                                                            *)
Stale_NoGeneration(t) == LaneOf[t] \in cancelled
Stale(t) == LaneOf[t] \in cancelled \/ gen[t] # laneGen[LaneOf[t]]

Begin_Waits(w) ==
    \E t \in HeldBy(w) :
        /\ where[t] = "taken" /\ ~Stale(t)
        /\ where' = [where EXCEPT ![t] = "running"]
        /\ running' = [running EXCEPT ![LaneOf[t]] = t]
        /\ live' = IF ctxDone THEN live ELSE live \cup {t}
        /\ UNCHANGED <<worker, ticket, nextTicket, gen, laneVars, sessionPending,
                       workerPending, nextWorker, ctxDone, exited, revoked>>

Begin(w) ==
    \E t \in HeldBy(w) :
        /\ where[t] = "taken"
        /\ where' = [where EXCEPT ![t] = "running"]
        /\ IF Stale(t)
           THEN UNCHANGED <<live, running>>
           ELSE /\ running' = [running EXCEPT ![LaneOf[t]] = t]
                /\ live' = IF ctxDone THEN live ELSE live \cup {t}
        /\ UNCHANGED <<worker, ticket, nextTicket, gen, laneVars, sessionPending,
                       workerPending, nextWorker, ctxDone, exited, revoked>>

(* task.run returns or panics; the deferred function cancels the context   *)
(* and lowers worker.pending before it takes p.mu.                         *)
Return(w) ==
    \E t \in HeldBy(w) :
        /\ where[t] = "running"
        /\ where' = [where EXCEPT ![t] = "ending"]
        /\ live' = live \ {t}
        /\ workerPending' = [workerPending EXCEPT ![w] = @ - 1]
        /\ UNCHANGED <<worker, ticket, nextTicket, gen, laneVars, running,
                       sessionPending, nextWorker, ctxDone, exited, revoked>>

(* decrementLanePendingLocked: was it the last pending task of the lane? *)
LastOfLane(l)     == lanePending[l] = 1

(* finishLane, with decrementLanePendingLocked and clearIdleLaneLocked. *)
Finish(w) ==
    \E t \in HeldBy(w) :
        LET l == LaneOf[t]
        IN  /\ where[t] = "ending"
            /\ where' = [where EXCEPT ![t] = "done"]
            /\ running' = IF running[l] = t THEN [running EXCEPT ![l] = NoTask] ELSE running
            /\ lanePending' = [lanePending EXCEPT ![l] = @ - 1]
            /\ sessionPending' = [sessionPending EXCEPT ![SessionOf[l]] = @ - 1]
            /\ IF LastOfLane(l)
               THEN /\ laneWorker' = [laneWorker EXCEPT ![l] = 0]
                    /\ laneGen' = [laneGen EXCEPT ![l] = 0]
                    /\ cancelled' = cancelled \ {l}
               ELSE UNCHANGED <<laneWorker, laneGen, cancelled>>
            /\ UNCHANGED <<worker, ticket, nextTicket, gen, live, workerPending,
                           nextWorker, ctxDone, exited, revoked>>

(* The parent context ends every task context; a worker's select may pick  *)
(* either ready case, so it may still receive tasks before it returns.     *)
Shutdown ==
    /\ ~ctxDone
    /\ ctxDone' = TRUE
    /\ live' = {}
    /\ UNCHANGED <<where, worker, ticket, nextTicket, gen, laneVars, running,
                   sessionPending, workerPending, nextWorker, exited, revoked>>

MayExit(w) == Idle(w)

Exit(w) ==
    /\ ctxDone
    /\ MayExit(w)
    /\ exited' = exited \cup {w}
    /\ UNCHANGED <<where, worker, ticket, nextTicket, gen, live, laneVars, running,
                   sessionPending, workerPending, nextWorker, ctxDone, revoked>>

----------------------------------------------------------------------------
WorkerStep(w) == Receive(w) \/ Begin(w) \/ Return(w) \/ Finish(w) \/ Exit(w)

Removal == \/ \E l \in Lanes : RemoveLane(l) \/ FinalizeLane(l)
           \/ \E s \in Sessions : RemoveSession(s)

Next == \/ \E t \in Tasks : Enqueue(t)
        \/ Removal
        \/ \E w \in Workers : WorkerStep(w)
        \/ Shutdown

Spec == Init /\ [][Next]_vars

(* The worker goroutines are scheduled and every task function returns: a  *)
(* dial and a DNS query both run under a deadline.                         *)
Fairness == \A w \in Workers : WF_vars(WorkerStep(w))

FairSpec == Spec /\ Fairness

----------------------------------------------------------------------------
(* What the processor promises: SerialExecutor, a task being active while  *)
(* its function runs.                                                      *)
Phase(t) == CASE where[t] \in {"new", "refused"}      -> where[t]
              [] where[t] \in {"queued", "taken"}     -> "waiting"
              [] where[t] = "running"                 -> "active"
              [] OTHER                                -> "over"

Promise == INSTANCE SerialExecutor
             WITH phase <- [t \in Tasks |-> Phase(t)], down <- ctxDone

Places == {"new", "refused", "dropped", "done"} \cup Pending

TypeOK ==
    /\ where \in [Tasks -> Places]
    /\ worker \in [Tasks -> 0 .. NumWorkers]
    /\ ticket \in [Tasks -> Nat] /\ nextTicket \in Nat
    /\ gen \in [Tasks -> Nat]
    /\ live \subseteq Tasks
    /\ laneWorker \in [Lanes -> 0 .. NumWorkers]
    /\ lanePending \in [Lanes -> Nat]
    /\ laneGen \in [Lanes -> Nat]
    /\ cancelled \subseteq Lanes
    /\ running \in [Lanes -> Tasks \cup {NoTask}]
    /\ sessionPending \in [Sessions -> Nat]
    /\ workerPending \in [Workers -> Nat]
    /\ nextWorker \in 0 .. NumWorkers - 1
    /\ ctxDone \in BOOLEAN
    /\ exited \subseteq Workers
    /\ revoked \subseteq Tasks

(* The promise in the comment above decrementLanePendingLocked: tasks of   *)
(* one lane never execute concurrently, whatever removals, retries and     *)
(* finishes interleave.                                                    *)
LaneSerial ==
    \A t, u \in Tasks :
        where[t] \in Held /\ where[u] \in Held /\ LaneOf[t] = LaneOf[u] => t = u

(* Every behaviour of the processor is one of the serial executor: starts, *)
(* ends, removals and contexts of the tasks are those the abstract         *)
(* executor allows.                                                        *)
ImplementsPromise == Promise!Spec

(* A task that a removal was meant to stop never has a live context again: *)
(* not the one that was running, not the one a worker had already received *)
(* when the queues were compacted, and not after a retry re-opened the     *)
(* lane by deleting its cancelled mark.                                    *)
RevokedNeverLive == revoked \cap live = {}

(* The converse: a task enqueued after the removal is not hit by it.       *)
FreshRunsLive ==
    \A t \in Tasks : where[t] = "running" /\ t \notin revoked /\ ~ctxDone => t \in live

(* The lane and session counters agree with the tasks that are queued,     *)
(* received, running or ending, through every refused send, drop and       *)
(* finish; the session limit is decided on them.                           *)
LaneCount    == \A l \in Lanes : lanePending[l] = Cardinality(PendingOf(l))
SessionCount == \A s \in Sessions : sessionPending[s] = Cardinality(SessionTasks(s))
PendingExact == LaneCount /\ SessionCount

(* A lane without pending work leaves nothing in the processor's maps, or  *)
(* they would grow with every stream that ever existed.                    *)
NoResidue ==
    \A l \in Lanes : PendingOf(l) = {} =>
        laneWorker[l] = 0 /\ laneGen[l] = 0 /\ l \notin cancelled /\ running[l] = NoTask

(* No session ever holds more than its share of the workers' queues. *)
SessionBounded == \A s \in Sessions : Cardinality(SessionTasks(s)) <= SessionCap

(* An accepted task is eventually run or dropped, unless the processor is  *)
(* shut down under it.                                                     *)
AcceptedSettles ==
    \A t \in Tasks : where[t] = "queued" ~> (where[t] \in {"done", "dropped"} \/ ctxDone)

(* wait() returns after the context is cancelled. *)
WorkersExit == ctxDone ~> (exited = Workers)

(* Removals, retries and two workers keep a lane serial: what was removed  *)
(* never runs live, what came later always does.                           *)
LanesSound == TypeOK /\ LaneSerial /\ RevokedNeverLive /\ FreshRunsLive

(* The counters that decide on limits and on what is retained are exact.   *)
Accounted == PendingExact /\ NoResidue /\ SessionBounded

(* Every accepted task and every worker comes to an end.                   *)
TasksSettle == AcceptedSettles /\ WorkersExit
=============================================================================
