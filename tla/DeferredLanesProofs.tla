------------------------ MODULE DeferredLanesProofs ------------------------
(***************************************************************************)
(* Proofs about DeferredLanes: for any number of tasks, lanes, sessions    *)
(* and workers the lanes are serial, removed tasks never run live, retries *)
(* are not hit, the counters are exact, and the processor implements the   *)
(* serial executor.                                                        *)
(***************************************************************************)
EXTENDS DeferredLanes, FiniteSetTheorems, TLAPS

(* The worker's atomic counter: what it has queued, received or runs, the  *)
(* ending task no longer among them.                                       *)
WorkerTasks(w) == {t \in Tasks : where[t] \in {"queued", "taken", "running"} /\ worker[t] = w}
WorkerCount == \A w \in Workers : workerPending[w] = Cardinality(WorkerTasks(w))

Counts == LaneCount /\ SessionCount /\ WorkerCount

(* The mapping belongs to every pending task of the lane. *)
Home ==
    \A t \in Tasks : where[t] \in Pending =>
        worker[t] \in Workers /\ laneWorker[LaneOf[t]] = worker[t]

OneHeld ==
    \A t, u \in Tasks :
        where[t] \in Held /\ where[u] \in Held /\ worker[t] = worker[u] => t = u

IdleClean ==
    \A l \in Lanes : lanePending[l] = 0 =>
        laneWorker[l] = 0 /\ laneGen[l] = 0 /\ l \notin cancelled

CurrentRun ==
    \A l \in Lanes : running[l] # NoTask =>
        where[running[l]] \in {"running", "ending"} /\ LaneOf[running[l]] = l

LiveRuns ==
    \A t \in live : where[t] = "running" /\ running[LaneOf[t]] = t /\ t \notin revoked /\ ~ctxDone

(* The generation separates the tasks of before a removal from the later. *)
Generations ==
    \A t \in Tasks : where[t] \in {"queued", "taken"} =>
        /\ t \in revoked => gen[t] < laneGen[LaneOf[t]]
        /\ t \notin revoked => gen[t] = laneGen[LaneOf[t]] /\ LaneOf[t] \notin cancelled

RevokedWereAccepted == \A t \in revoked : where[t] \notin {"new", "refused"}

CapKept == \A s \in Sessions : sessionPending[s] <= SessionCap

IInv == /\ TypeOK
        /\ Counts
        /\ Home
        /\ OneHeld
        /\ IdleClean
        /\ CurrentRun
        /\ LiveRuns
        /\ FreshRunsLive
        /\ Generations
        /\ RevokedWereAccepted
        /\ CapKept

USE TasksAssumption, LaneAssumption, SizeAssumption

----------------------------------------------------------------------------
(* Sets of tasks are finite, and counting them is counting naturals. *)
LEMMA TaskSetsFinite ==
    ASSUME NEW S \in SUBSET Tasks
    PROVE  IsFiniteSet(S) /\ Cardinality(S) \in Nat
BY FS_Subset, FS_CardinalityType

LEMMA CountedNonzero ==
    ASSUME NEW S \in SUBSET Tasks, NEW t \in S
    PROVE  Cardinality(S) # 0
BY TaskSetsFinite, FS_EmptySet

LEMMA CountAdd ==
    ASSUME NEW S \in SUBSET Tasks, NEW t \in Tasks, t \notin S
    PROVE  Cardinality(S \cup {t}) = Cardinality(S) + 1
BY TaskSetsFinite, FS_AddElement

LEMMA CountRemove ==
    ASSUME NEW S \in SUBSET Tasks, NEW t \in S
    PROVE  Cardinality(S \ {t}) = Cardinality(S) - 1
BY TaskSetsFinite, FS_RemoveElement

LEMMA CountDifference ==
    ASSUME NEW S \in SUBSET Tasks, NEW D \in SUBSET S
    PROVE  /\ Cardinality(S \ D) = Cardinality(S) - Cardinality(D)
           /\ Cardinality(S) - Cardinality(D) \in Nat
<1>1. S \cap D = D
  OBVIOUS
<1>2. IsFiniteSet(S) /\ IsFiniteSet(D) /\ Cardinality(S) \in Nat /\ Cardinality(D) \in Nat
  <2>1. D \in SUBSET Tasks
    OBVIOUS
  <2> QED
    BY <2>1, TaskSetsFinite
<1>3. Cardinality(S \ D) = Cardinality(S) - Cardinality(S \cap D)
  BY <1>2, FS_Difference
<1>4. Cardinality(D) <= Cardinality(S)
  BY <1>2, FS_Subset
<1> QED
  BY <1>1, <1>2, <1>3, <1>4

----------------------------------------------------------------------------
LEMMA InitHolds == Init => IInv
<1> SUFFICES ASSUME Init PROVE IInv
  OBVIOUS
<1>1. TypeOK
  <2>1. /\ 0 \in 0 .. NumWorkers /\ 0 \in 0 .. NumWorkers - 1
        /\ "new" \in Places
    BY DEF Places
  <2> QED
    BY <2>1 DEF Init, TypeOK
<1>2. /\ \A l \in Lanes : PendingOf(l) = {}
      /\ \A s \in Sessions : SessionTasks(s) = {}
      /\ \A w \in Workers : WorkerTasks(w) = {}
  BY DEF Init, PendingOf, SessionTasks, WorkerTasks, Pending, Held
<1>3. Counts
  BY <1>2, FS_EmptySet DEF Init, Counts, LaneCount, SessionCount, WorkerCount
<1>4. Home /\ OneHeld /\ IdleClean /\ CurrentRun /\ LiveRuns /\ FreshRunsLive
  BY DEF Init, Home, OneHeld, IdleClean, CurrentRun, LiveRuns, FreshRunsLive, Pending, Held
<1>5. Generations /\ RevokedWereAccepted /\ CapKept
  BY DEF Init, Generations, RevokedWereAccepted, CapKept
<1> QED
  BY <1>1, <1>3, <1>4, <1>5 DEF IInv

LEMMA Stuttering == IInv /\ UNCHANGED vars => IInv'
<1> SUFFICES ASSUME IInv, UNCHANGED vars PROVE IInv'
  OBVIOUS
<1> USE DEF vars, laneVars, IInv
<1>1. TypeOK' /\ Home' /\ OneHeld' /\ IdleClean' /\ CurrentRun'
  BY DEF TypeOK, Home, OneHeld, IdleClean, CurrentRun
<1>2. Counts'
  BY DEF Counts, LaneCount, SessionCount, WorkerCount, PendingOf, SessionTasks, WorkerTasks
<1>3. LiveRuns' /\ FreshRunsLive' /\ Generations' /\ RevokedWereAccepted' /\ CapKept'
  BY DEF LiveRuns, FreshRunsLive, Generations, RevokedWereAccepted, CapKept
<1> QED
  BY <1>1, <1>2, <1>3

----------------------------------------------------------------------------
(* What a step that moves one task t within the pending phases keeps: its  *)
(* lane and session still count it.                                        *)
LEMMA CountsKept ==
    ASSUME IInv, NEW t \in Tasks, NEW place \in Pending,
           where[t] \in Pending,
           where' = [where EXCEPT ![t] = place],
           UNCHANGED <<lanePending, sessionPending>>
    PROVE  LaneCount' /\ SessionCount'
<1>1. \A u \in Tasks : (where'[u] \in Pending) <=> (where[u] \in Pending)
  BY DEF IInv, TypeOK
<1>2. \A l \in Lanes : PendingOf(l)' = PendingOf(l)
  BY <1>1 DEF PendingOf
<1>3. \A s \in Sessions : SessionTasks(s)' = SessionTasks(s)
  BY <1>1 DEF SessionTasks
<1> QED
  BY <1>2, <1>3 DEF IInv, Counts, LaneCount, SessionCount

LEMMA ReceivePreserves ==
    ASSUME IInv, NEW w \in Workers, Receive(w)
    PROVE  IInv'
<1>1. PICK t \in Queued(w) : where' = [where EXCEPT ![t] = "taken"]
  BY DEF Receive
<1>2. t \in Tasks /\ where[t] = "queued" /\ worker[t] = w
  BY DEF Queued
<1>3. /\ HeldBy(w) = {}
      /\ UNCHANGED <<worker, ticket, nextTicket, gen, live, laneVars, running,
                     sessionPending, workerPending, nextWorker, ctxDone, exited, revoked>>
  BY DEF Receive, Idle
<1>4. TypeOK'
  BY <1>1, <1>2, <1>3 DEF IInv, TypeOK, Places, Pending, Held, laneVars
<1>5. Counts'
  <2>1. LaneCount' /\ SessionCount'
    BY <1>1, <1>2, <1>3, CountsKept DEF Pending, Held, laneVars
  <2>2. \A v \in Workers : WorkerTasks(v)' = WorkerTasks(v)
    BY <1>1, <1>2, <1>3 DEF IInv, TypeOK, WorkerTasks
  <2> QED
    BY <1>3, <2>1, <2>2 DEF IInv, Counts, WorkerCount
<1>6. Home' /\ IdleClean' /\ CurrentRun' /\ CapKept'
  BY <1>1, <1>2, <1>3 DEF IInv, TypeOK, Home, IdleClean, CurrentRun, CapKept, Pending, Held, laneVars
<1>7. OneHeld'
  BY <1>1, <1>2, <1>3 DEF IInv, TypeOK, OneHeld, HeldBy, Held
<1>8. LiveRuns' /\ FreshRunsLive' /\ Generations' /\ RevokedWereAccepted'
  BY <1>1, <1>2, <1>3
     DEF IInv, TypeOK, LiveRuns, FreshRunsLive, Generations, RevokedWereAccepted, laneVars
<1> QED
  BY <1>4, <1>5, <1>6, <1>7, <1>8 DEF IInv

LEMMA BeginPreserves ==
    ASSUME IInv, NEW w \in Workers, Begin(w)
    PROVE  IInv'
<1>1. PICK t \in HeldBy(w) :
        /\ where[t] = "taken"
        /\ where' = [where EXCEPT ![t] = "running"]
        /\ IF Stale(t)
           THEN UNCHANGED <<live, running>>
           ELSE /\ running' = [running EXCEPT ![LaneOf[t]] = t]
                /\ live' = IF ctxDone THEN live ELSE live \cup {t}
        /\ UNCHANGED <<worker, ticket, nextTicket, gen, laneVars, sessionPending,
                       workerPending, nextWorker, ctxDone, exited, revoked>>
  BY DEF Begin
<1>2. t \in Tasks /\ worker[t] = w /\ LaneOf[t] \in Lanes /\ where[t] = "taken"
  BY <1>1 DEF HeldBy
<1>3. TypeOK'
  BY <1>1, <1>2 DEF IInv, TypeOK, Places, Pending, Held, laneVars
<1>4. Counts'
  <2>1. LaneCount' /\ SessionCount'
    BY <1>1, <1>2, CountsKept DEF Pending, Held, laneVars
  <2>2. \A v \in Workers : WorkerTasks(v)' = WorkerTasks(v)
    BY <1>1, <1>2 DEF IInv, TypeOK, WorkerTasks
  <2> QED
    BY <1>1, <2>1, <2>2 DEF IInv, Counts, WorkerCount
<1>5. Home' /\ OneHeld' /\ IdleClean' /\ CapKept'
  BY <1>1, <1>2 DEF IInv, TypeOK, Home, OneHeld, IdleClean, CapKept, Pending, Held, laneVars
(* No other task of the lane is held, so the lane has no current run.      *)
<1>6. \A u \in Tasks : where[u] \in Held /\ LaneOf[u] = LaneOf[t] => u = t
  BY <1>2 DEF IInv, Home, OneHeld, Held, Pending
<1>7. running[LaneOf[t]] = NoTask
  BY <1>2, <1>6 DEF IInv, TypeOK, CurrentRun, Held
<1>8. CurrentRun'
  BY <1>1, <1>2, <1>7 DEF IInv, TypeOK, CurrentRun
<1>9. Stale(t) <=> t \in revoked
  BY <1>2 DEF IInv, TypeOK, Stale, Generations
<1>10. LiveRuns'
  BY <1>1, <1>2, <1>7, <1>9 DEF IInv, TypeOK, LiveRuns
<1>11. FreshRunsLive' /\ Generations' /\ RevokedWereAccepted'
  BY <1>1, <1>2, <1>9 DEF IInv, TypeOK, FreshRunsLive, Generations, RevokedWereAccepted, laneVars
<1> QED
  BY <1>3, <1>4, <1>5, <1>8, <1>10, <1>11 DEF IInv

LEMMA ReturnPreserves ==
    ASSUME IInv, NEW w \in Workers, Return(w)
    PROVE  IInv'
<1>1. PICK t \in HeldBy(w) :
        /\ where[t] = "running"
        /\ where' = [where EXCEPT ![t] = "ending"]
        /\ live' = live \ {t}
        /\ workerPending' = [workerPending EXCEPT ![w] = @ - 1]
        /\ UNCHANGED <<worker, ticket, nextTicket, gen, laneVars, running,
                       sessionPending, nextWorker, ctxDone, exited, revoked>>
  BY DEF Return
<1>2. t \in Tasks /\ worker[t] = w /\ where[t] = "running"
  BY <1>1 DEF HeldBy
<1>3. WorkerCount' /\ workerPending' \in [Workers -> Nat]
  <2>1. WorkerTasks(w)' = WorkerTasks(w) \ {t}
    BY <1>1, <1>2 DEF IInv, TypeOK, WorkerTasks
  <2>2. t \in WorkerTasks(w) /\ WorkerTasks(w) \in SUBSET Tasks
    BY <1>2 DEF WorkerTasks
  <2>3. Cardinality(WorkerTasks(w)') = workerPending[w] - 1 /\ workerPending[w] - 1 \in Nat
    BY <2>1, <2>2, CountRemove, TaskSetsFinite DEF IInv, Counts, WorkerCount
  <2>4. \A v \in Workers \ {w} : WorkerTasks(v)' = WorkerTasks(v)
    BY <1>1, <1>2 DEF IInv, TypeOK, WorkerTasks
  <2> QED
    BY <1>1, <2>3, <2>4 DEF IInv, TypeOK, Counts, WorkerCount
<1>4. TypeOK'
  BY <1>1, <1>2, <1>3 DEF IInv, TypeOK, Places, Pending, Held, laneVars
<1>5. Counts'
  BY <1>1, <1>2, <1>3, CountsKept DEF Counts, Pending, Held, laneVars
<1>6. Home' /\ OneHeld' /\ IdleClean' /\ CapKept' /\ CurrentRun'
  BY <1>1, <1>2
     DEF IInv, TypeOK, Home, OneHeld, IdleClean, CapKept, CurrentRun, Pending, Held, laneVars
<1>7. LiveRuns' /\ FreshRunsLive' /\ Generations' /\ RevokedWereAccepted'
  BY <1>1, <1>2
     DEF IInv, TypeOK, LiveRuns, FreshRunsLive, Generations, RevokedWereAccepted, laneVars
<1> QED
  BY <1>4, <1>5, <1>6, <1>7 DEF IInv

LEMMA FinishPreserves ==
    ASSUME IInv, NEW w \in Workers, Finish(w)
    PROVE  IInv'
<1>1. PICK t \in HeldBy(w) :
        LET l == LaneOf[t]
        IN  /\ where[t] = "ending"
            /\ where' = [where EXCEPT ![t] = "done"]
            /\ running' = IF running[l] = t THEN [running EXCEPT ![l] = NoTask] ELSE running
            /\ lanePending' = [lanePending EXCEPT ![l] = @ - 1]
            /\ sessionPending' = [sessionPending EXCEPT ![SessionOf[l]] = @ - 1]
            /\ IF LastOfLane(l)
               THEN /\ laneWorker' = [laneWorker EXCEPT ![l] = 0]
                    /\ laneGen' = [laneGen EXCEPT ![l] = 0]
                    /\ cancelled' = cancelled \ {l}
               ELSE UNCHANGED <<laneWorker, laneGen, cancelled>>
            /\ UNCHANGED <<worker, ticket, nextTicket, gen, live, workerPending,
                           nextWorker, ctxDone, exited, revoked>>
  BY DEF Finish
<1> DEFINE l == LaneOf[t]
           s == SessionOf[l]
<1>2. t \in Tasks /\ worker[t] = w /\ where[t] = "ending" /\ l \in Lanes /\ s \in Sessions
  BY <1>1 DEF HeldBy
<1>3. LaneCount' /\ lanePending' \in [Lanes -> Nat]
  <2>1. PendingOf(l)' = PendingOf(l) \ {t}
    BY <1>1, <1>2 DEF IInv, TypeOK, PendingOf, Pending, Held
  <2>2. t \in PendingOf(l) /\ PendingOf(l) \in SUBSET Tasks
    BY <1>2 DEF PendingOf, Pending, Held
  <2>a. Cardinality(PendingOf(l)) = lanePending[l]
    BY <1>2 DEF IInv, Counts, LaneCount
  <2>b. Cardinality(PendingOf(l) \ {t}) = Cardinality(PendingOf(l)) - 1
    BY <2>2, CountRemove
  <2>c. Cardinality(PendingOf(l) \ {t}) \in Nat
    BY <2>2, TaskSetsFinite
  <2>3. Cardinality(PendingOf(l)') = lanePending[l] - 1 /\ lanePending[l] - 1 \in Nat
    BY <2>1, <2>a, <2>b, <2>c
  <2>4. \A k \in Lanes \ {l} : PendingOf(k)' = PendingOf(k)
    BY <1>1, <1>2 DEF IInv, TypeOK, PendingOf, Pending, Held
  <2> QED
    BY <1>1, <1>2, <2>3, <2>4 DEF IInv, TypeOK, Counts, LaneCount
<1>4. SessionCount' /\ sessionPending' \in [Sessions -> Nat]
  <2>1. SessionTasks(s)' = SessionTasks(s) \ {t}
    BY <1>1, <1>2 DEF IInv, TypeOK, SessionTasks, Pending, Held
  <2>2. t \in SessionTasks(s) /\ SessionTasks(s) \in SUBSET Tasks
    BY <1>2 DEF SessionTasks, Pending, Held
  <2>a. Cardinality(SessionTasks(s)) = sessionPending[s]
    BY <1>2 DEF IInv, Counts, SessionCount
  <2>b. Cardinality(SessionTasks(s) \ {t}) = Cardinality(SessionTasks(s)) - 1
    BY <2>2, CountRemove
  <2>c. Cardinality(SessionTasks(s) \ {t}) \in Nat
    BY <2>2, TaskSetsFinite
  <2>3. Cardinality(SessionTasks(s)') = sessionPending[s] - 1 /\ sessionPending[s] - 1 \in Nat
    BY <2>1, <2>a, <2>b, <2>c
  <2>4. \A k \in Sessions \ {s} : SessionTasks(k)' = SessionTasks(k)
    BY <1>1, <1>2 DEF IInv, TypeOK, SessionTasks, Pending, Held
  <2> QED
    BY <1>1, <1>2, <2>3, <2>4 DEF IInv, TypeOK, Counts, SessionCount
<1>5. WorkerCount'
  <2>1. \A v \in Workers : WorkerTasks(v)' = WorkerTasks(v)
    BY <1>1, <1>2 DEF IInv, TypeOK, WorkerTasks
  <2> QED
    BY <1>1, <2>1 DEF IInv, Counts, WorkerCount
<1>6. TypeOK'
  BY <1>1, <1>2, <1>3, <1>4 DEF IInv, TypeOK, Places
(* When the lane's state is deleted, no other task of the lane is pending. *)
<1>7. LastOfLane(l) => \A u \in Tasks : where'[u] \in Pending => LaneOf[u] # l
  <2> SUFFICES ASSUME LastOfLane(l), NEW u \in Tasks, where'[u] \in Pending, LaneOf[u] = l
               PROVE  FALSE
    OBVIOUS
  <2>1. u \in PendingOf(l)' /\ PendingOf(l)' \in SUBSET Tasks
    BY DEF PendingOf
  <2>2. lanePending'[l] = 0
    BY <1>1, <1>2 DEF IInv, TypeOK, LastOfLane
  <2>3. Cardinality(PendingOf(l)') = 0
    BY <1>2, <1>3, <2>2 DEF LaneCount
  <2> QED
    BY <2>1, <2>3, CountedNonzero
<1>8. Home'
  BY <1>1, <1>2, <1>7 DEF IInv, TypeOK, Home, Pending, Held
<1>9. OneHeld'
  BY <1>1, <1>2 DEF IInv, TypeOK, OneHeld, Held
<1>10. IdleClean'
  BY <1>1, <1>2 DEF IInv, TypeOK, IdleClean, LastOfLane
<1>11. CurrentRun'
  BY <1>1, <1>2 DEF IInv, TypeOK, CurrentRun
<1>12. LiveRuns' /\ FreshRunsLive' /\ RevokedWereAccepted'
  BY <1>1, <1>2 DEF IInv, TypeOK, LiveRuns, FreshRunsLive, RevokedWereAccepted
<1>13. Generations'
  BY <1>1, <1>2, <1>7 DEF IInv, TypeOK, Generations, Pending, Held
<1>14. CapKept'
  BY <1>1, <1>2, <1>4 DEF IInv, TypeOK, CapKept
<1> QED
  BY <1>3, <1>4, <1>5, <1>6, <1>8, <1>9, <1>10, <1>11, <1>12, <1>13, <1>14 DEF IInv, Counts

LEMMA ShutdownPreserves ==
    ASSUME IInv, Shutdown \/ \E w \in Workers : Exit(w)
    PROVE  IInv'
<1>1. /\ UNCHANGED <<where, worker, ticket, nextTicket, gen, laneVars, running,
                     sessionPending, workerPending, nextWorker, revoked>>
      /\ \/ live' = {} /\ ctxDone' = TRUE /\ UNCHANGED exited
         \/ UNCHANGED <<live, ctxDone>> /\ exited' \in SUBSET Workers
  BY DEF Shutdown, Exit, IInv, TypeOK
<1>2. TypeOK'
  BY <1>1 DEF IInv, TypeOK, laneVars
<1>3. Counts'
  BY <1>1 DEF IInv, Counts, LaneCount, SessionCount, WorkerCount, PendingOf, SessionTasks,
              WorkerTasks, laneVars
<1>4. Home' /\ OneHeld' /\ IdleClean' /\ CurrentRun' /\ Generations'
  BY <1>1 DEF IInv, Home, OneHeld, IdleClean, CurrentRun, Generations, laneVars
<1>5. LiveRuns' /\ FreshRunsLive' /\ RevokedWereAccepted' /\ CapKept'
  BY <1>1 DEF IInv, LiveRuns, FreshRunsLive, RevokedWereAccepted, CapKept, laneVars
<1> QED
  BY <1>2, <1>3, <1>4, <1>5 DEF IInv

----------------------------------------------------------------------------
(* Enqueue.  A refused task changes nothing but its own place and the      *)
(* lane's cancelled mark - a mark that is only ever there for revoked      *)
(* tasks, which an older generation keeps cancelled.                       *)
LEMMA RefusePreserves ==
    ASSUME IInv, NEW t \in Tasks, where[t] = "new", Refuse(t),
           cancelled' = Reopened(LaneOf[t]),
           UNCHANGED <<laneWorker, lanePending>>,
           \/ laneGen' = laneGen
           \/ laneWorker[LaneOf[t]] = 0 /\ laneGen' = [laneGen EXCEPT ![LaneOf[t]] = 0],
           nextWorker' \in 0 .. NumWorkers - 1,
           UNCHANGED <<live, running, ctxDone, exited, revoked>>
    PROVE  IInv'
<1> DEFINE l == LaneOf[t]
<1>1. /\ where' = [where EXCEPT ![t] = "refused"]
      /\ UNCHANGED <<worker, ticket, nextTicket, gen, sessionPending, workerPending>>
  BY DEF Refuse
<1>2. TypeOK'
  BY <1>1 DEF IInv, TypeOK, Places, Reopened
<1>3. Counts'
  <2>1. /\ \A k \in Lanes : PendingOf(k)' = PendingOf(k)
        /\ \A s \in Sessions : SessionTasks(s)' = SessionTasks(s)
        /\ \A w \in Workers : WorkerTasks(w)' = WorkerTasks(w)
    BY <1>1 DEF IInv, TypeOK, PendingOf, SessionTasks, WorkerTasks, Pending, Held
  <2> QED
    BY <1>1, <2>1 DEF IInv, Counts, LaneCount, SessionCount, WorkerCount
<1>4. Home' /\ OneHeld' /\ CurrentRun' /\ CapKept'
  BY <1>1 DEF IInv, TypeOK, Home, OneHeld, CurrentRun, CapKept, Pending, Held
<1>5. IdleClean'
  BY <1>1 DEF IInv, TypeOK, IdleClean, Reopened
(* An unmapped lane has no pending task, by Home. *)
<1>6. laneWorker[l] = 0 => \A u \in Tasks : where[u] \in Pending => LaneOf[u] # l
  BY DEF IInv, Home, Workers
<1>7. Generations'
  BY <1>1, <1>6 DEF IInv, TypeOK, Generations, Reopened, Pending, Held
<1>8. LiveRuns' /\ FreshRunsLive' /\ RevokedWereAccepted'
  <2>1. t \notin revoked
    BY DEF IInv, RevokedWereAccepted
  <2> QED
    BY <1>1, <2>1 DEF IInv, TypeOK, LiveRuns, FreshRunsLive, RevokedWereAccepted
<1> QED
  BY <1>2, <1>3, <1>4, <1>5, <1>7, <1>8 DEF IInv

LEMMA SendPreserves ==
    ASSUME IInv, NEW t \in Tasks, NEW w \in Workers, where[t] = "new",
           \/ laneWorker[LaneOf[t]] = w
           \/ laneWorker[LaneOf[t]] = 0,
           ~AtCap(SessionOf[LaneOf[t]]),
           Send(t, w),
           cancelled' = Reopened(LaneOf[t]),
           nextWorker' \in 0 .. NumWorkers - 1,
           UNCHANGED <<live, running, ctxDone, exited, revoked>>
    PROVE  IInv'
<1> DEFINE l == LaneOf[t]
           s == SessionOf[l]
<1>1. /\ where' = [where EXCEPT ![t] = "queued"]
      /\ worker' = [worker EXCEPT ![t] = w]
      /\ ticket' = [ticket EXCEPT ![t] = nextTicket]
      /\ nextTicket' = nextTicket + 1
      /\ gen' = [gen EXCEPT ![t] = laneGen[l]]
      /\ laneWorker' = [laneWorker EXCEPT ![l] = w]
      /\ lanePending' = [lanePending EXCEPT ![l] = @ + 1]
      /\ sessionPending' = [sessionPending EXCEPT ![s] = @ + 1]
      /\ workerPending' = [workerPending EXCEPT ![w] = @ + 1]
      /\ UNCHANGED laneGen
  BY DEF Send
<1>2. l \in Lanes /\ s \in Sessions /\ w \in 0 .. NumWorkers /\ w # 0
  BY DEF Workers
<1>3. TypeOK'
  BY <1>1, <1>2 DEF IInv, TypeOK, Places, Pending, Reopened
<1>4. LaneCount'
  <2>1. PendingOf(l)' = PendingOf(l) \cup {t}
    BY <1>1, <1>2 DEF IInv, TypeOK, PendingOf, Pending, Held
  <2>2. t \notin PendingOf(l) /\ PendingOf(l) \in SUBSET Tasks
    BY DEF PendingOf, Pending, Held
  <2>3. Cardinality(PendingOf(l)) = lanePending[l]
    BY <1>2 DEF IInv, Counts, LaneCount
  <2>4. Cardinality(PendingOf(l) \cup {t}) = Cardinality(PendingOf(l)) + 1
    BY <2>2, CountAdd
  <2>5. \A k \in Lanes \ {l} : PendingOf(k)' = PendingOf(k)
    BY <1>1 DEF IInv, TypeOK, PendingOf, Pending, Held
  <2> QED
    BY <1>1, <1>2, <2>1, <2>3, <2>4, <2>5 DEF IInv, TypeOK, Counts, LaneCount
<1>5. SessionCount'
  <2>1. SessionTasks(s)' = SessionTasks(s) \cup {t}
    BY <1>1, <1>2 DEF IInv, TypeOK, SessionTasks, Pending, Held
  <2>2. t \notin SessionTasks(s) /\ SessionTasks(s) \in SUBSET Tasks
    BY DEF SessionTasks, Pending, Held
  <2>3. Cardinality(SessionTasks(s)) = sessionPending[s]
    BY <1>2 DEF IInv, Counts, SessionCount
  <2>4. Cardinality(SessionTasks(s) \cup {t}) = Cardinality(SessionTasks(s)) + 1
    BY <2>2, CountAdd
  <2>5. \A k \in Sessions \ {s} : SessionTasks(k)' = SessionTasks(k)
    BY <1>1 DEF IInv, TypeOK, SessionTasks, Pending, Held
  <2> QED
    BY <1>1, <1>2, <2>1, <2>3, <2>4, <2>5 DEF IInv, TypeOK, Counts, SessionCount
<1>6. WorkerCount'
  <2>1. WorkerTasks(w)' = WorkerTasks(w) \cup {t}
    BY <1>1 DEF IInv, TypeOK, WorkerTasks
  <2>2. t \notin WorkerTasks(w) /\ WorkerTasks(w) \in SUBSET Tasks
    BY DEF WorkerTasks
  <2>3. Cardinality(WorkerTasks(w)) = workerPending[w]
    BY DEF IInv, Counts, WorkerCount
  <2>4. Cardinality(WorkerTasks(w) \cup {t}) = Cardinality(WorkerTasks(w)) + 1
    BY <2>2, CountAdd
  <2>5. \A v \in Workers \ {w} : WorkerTasks(v)' = WorkerTasks(v)
    BY <1>1 DEF IInv, TypeOK, WorkerTasks
  <2> QED
    BY <1>1, <2>1, <2>3, <2>4, <2>5 DEF IInv, TypeOK, Counts, WorkerCount
<1>7. laneWorker[l] = 0 => \A u \in Tasks : where[u] \in Pending => LaneOf[u] # l
  BY DEF IInv, Home, Workers
<1>8. Home'
  BY <1>1, <1>2, <1>7 DEF IInv, TypeOK, Home, Pending, Held
<1>9. OneHeld' /\ CurrentRun' /\ RevokedWereAccepted'
  BY <1>1 DEF IInv, TypeOK, OneHeld, CurrentRun, RevokedWereAccepted, Held
<1>10. IdleClean'
  BY <1>1, <1>2 DEF IInv, TypeOK, IdleClean, Reopened
<1>11. t \notin revoked
  BY DEF IInv, RevokedWereAccepted
<1>12. Generations'
  BY <1>1, <1>2, <1>11 DEF IInv, TypeOK, Generations, Reopened
<1>13. LiveRuns' /\ FreshRunsLive'
  BY <1>1, <1>11 DEF IInv, TypeOK, LiveRuns, FreshRunsLive
<1>14. CapKept'
  BY <1>1, <1>2 DEF IInv, TypeOK, CapKept, AtCap
<1> QED
  BY <1>3, <1>4, <1>5, <1>6, <1>8, <1>9, <1>10, <1>12, <1>13, <1>14 DEF IInv, Counts

LEMMA EnqueuePreserves ==
    ASSUME IInv, NEW t \in Tasks, Enqueue(t)
    PROVE  IInv'
<1>1. /\ where[t] = "new"
      /\ cancelled' = Reopened(LaneOf[t])
      /\ UNCHANGED <<live, running, ctxDone, exited, revoked>>
      /\ nextWorker \in 0 .. NumWorkers - 1
  BY DEF Enqueue, IInv, TypeOK
<1>2. CASE EnqueueCapped(t)
  BY <1>1, <1>2, RefusePreserves DEF EnqueueCapped
<1>3. CASE EnqueueMapped(t)
  <2>1. laneWorker[LaneOf[t]] \in Workers
    BY <1>3 DEF EnqueueMapped, IInv, TypeOK, Workers
  <2>2. CASE Send(t, laneWorker[LaneOf[t]])
    BY <1>1, <1>3, <2>1, <2>2, SendPreserves DEF EnqueueMapped
  <2>3. CASE Refuse(t) /\ UNCHANGED <<laneWorker, lanePending, laneGen>>
    BY <1>1, <1>3, <2>3, RefusePreserves DEF EnqueueMapped
  <2> QED
    BY <1>3, <2>2, <2>3 DEF EnqueueMapped
<1>4. CASE EnqueueFirst(t)
  <2>1. PICK w \in Workers :
          /\ ~AtCap(SessionOf[LaneOf[t]])
          /\ laneWorker[LaneOf[t]] = 0
          /\ nextWorker' = After(w)
          /\ \/ Send(t, w)
             \/ /\ Refuse(t)
                /\ laneGen' = [laneGen EXCEPT ![LaneOf[t]] = 0]
                /\ UNCHANGED <<laneWorker, lanePending>>
    BY <1>4 DEF EnqueueFirst
  <2>2. nextWorker' \in 0 .. NumWorkers - 1
    BY <2>1 DEF After, Workers
  <2>3. CASE Send(t, w)
    BY <1>1, <2>1, <2>2, <2>3, SendPreserves
  <2>4. CASE /\ Refuse(t)
             /\ laneGen' = [laneGen EXCEPT ![LaneOf[t]] = 0]
             /\ UNCHANGED <<laneWorker, lanePending>>
    BY <1>1, <2>1, <2>2, <2>4, RefusePreserves
  <2> QED
    BY <2>1, <2>3, <2>4
<1> QED
  BY <1>2, <1>3, <1>4 DEF Enqueue

----------------------------------------------------------------------------
(* Removals.  All three compact the queues with the lanes of `hit` marked  *)
(* and moved to a new generation; `doomed` may hold more lanes, which have *)
(* no tasks.                                                               *)
LEMMA CompactPreserves ==
    ASSUME IInv,
           NEW hit \in SUBSET Lanes, NEW doomed \in SUBSET Lanes, hit \subseteq doomed,
           \A t \in Tasks : where[t] \in Pending /\ LaneOf[t] \in doomed => LaneOf[t] \in hit,
           NEW stolen \in StolenSets,
           Compact(stolen, doomed, cancelled \cup hit, Bumped(hit)),
           UNCHANGED <<worker, ticket, nextTicket, gen, nextWorker, ctxDone, exited>>,
           live' \in SUBSET Tasks, running' \in [Lanes -> Tasks \cup {NoTask}],
           NEW stopped \in SUBSET Tasks, revoked' = revoked \cup stopped,
           \A t \in stopped : where[t] \in Pending /\ LaneOf[t] \in hit,
           \A t \in Tasks : where[t] \in {"queued", "taken"} /\ LaneOf[t] \in hit => t \in stopped
    PROVE  /\ TypeOK' /\ Counts' /\ Home' /\ OneHeld' /\ IdleClean' /\ Generations'
           /\ RevokedWereAccepted' /\ CapKept'
           /\ \A t \in Tasks : \/ where'[t] = where[t]
                               \/ where[t] = "queued" /\ where'[t] \in {"taken", "dropped"}
<1> DEFINE dropped == Dropped(stolen, doomed \cup (cancelled \cup hit))
           dropL(l) == {t \in dropped : LaneOf[t] = l}
           dropS(s) == {t \in dropped : SessionOf[LaneOf[t]] = s}
           dropW(w) == {t \in dropped : worker[t] = w}
           left == [l \in Lanes |-> lanePending[l] - Cardinality(dropL(l))]
           cleared == {l \in Touched(doomed, dropped) : left[l] = 0}
<1>1. /\ where' = [t \in Tasks |-> IF t \in dropped THEN "dropped"
                                    ELSE IF t \in stolen THEN "taken" ELSE where[t]]
      /\ lanePending' = left
      /\ sessionPending' = [s \in Sessions |-> sessionPending[s] - Cardinality(dropS(s))]
      /\ workerPending' = [w \in Workers |-> workerPending[w] - Cardinality(dropW(w))]
      /\ laneWorker' = [l \in Lanes |-> IF l \in cleared THEN 0 ELSE laneWorker[l]]
      /\ laneGen' = [l \in Lanes |-> IF l \in cleared THEN 0 ELSE Bumped(hit)[l]]
      /\ cancelled' = (cancelled \cup hit) \ cleared
  BY DEF Compact, SessionsLeft, Emptied
<1>2. /\ dropped \in SUBSET Tasks
      /\ \A t \in dropped : where[t] = "queued" /\ t \notin stolen
      /\ stolen \in SUBSET Tasks
      /\ \A t \in stolen : where[t] = "queued" /\ Idle(worker[t])
      /\ \A t, u \in stolen : worker[t] = worker[u] => t = u
  BY DEF Dropped, StolenSets, Stealable
<1> HIDE DEF dropped
<1>3. \A l \in Lanes : /\ PendingOf(l)' = PendingOf(l) \ dropL(l)
                       /\ dropL(l) \in SUBSET PendingOf(l)
                       /\ PendingOf(l) \in SUBSET Tasks
  BY <1>1, <1>2 DEF IInv, TypeOK, PendingOf, Pending, Held
<1>4. \A l \in Lanes : left[l] = Cardinality(PendingOf(l)') /\ left[l] \in Nat
  <2> TAKE l \in Lanes
  <2>1. lanePending[l] = Cardinality(PendingOf(l))
    BY DEF IInv, Counts, LaneCount
  <2>2. /\ Cardinality(PendingOf(l) \ dropL(l)) = Cardinality(PendingOf(l)) - Cardinality(dropL(l))
        /\ Cardinality(PendingOf(l)) - Cardinality(dropL(l)) \in Nat
    BY <1>3, CountDifference
  <2> QED
    BY <1>3, <2>1, <2>2
<1>5. LaneCount' /\ lanePending' \in [Lanes -> Nat]
  BY <1>1, <1>4 DEF LaneCount
<1>6. SessionCount' /\ sessionPending' \in [Sessions -> Nat]
  <2> SUFFICES ASSUME NEW s \in Sessions
               PROVE  sessionPending'[s] = Cardinality(SessionTasks(s)') /\ sessionPending'[s] \in Nat
    BY <1>1 DEF SessionCount
  <2>1. SessionTasks(s)' = SessionTasks(s) \ dropS(s)
    BY <1>1, <1>2 DEF IInv, TypeOK, SessionTasks, Pending, Held
  <2>2. dropS(s) \in SUBSET SessionTasks(s) /\ SessionTasks(s) \in SUBSET Tasks
    BY <1>2 DEF SessionTasks, Pending
  <2>3. /\ Cardinality(SessionTasks(s) \ dropS(s)) = Cardinality(SessionTasks(s)) - Cardinality(dropS(s))
        /\ Cardinality(SessionTasks(s)) - Cardinality(dropS(s)) \in Nat
    BY <2>2, CountDifference
  <2>4. sessionPending[s] = Cardinality(SessionTasks(s))
    BY DEF IInv, Counts, SessionCount
  <2> QED
    BY <1>1, <2>1, <2>3, <2>4
<1>7. WorkerCount' /\ workerPending' \in [Workers -> Nat]
  <2> SUFFICES ASSUME NEW w \in Workers
               PROVE  workerPending'[w] = Cardinality(WorkerTasks(w)') /\ workerPending'[w] \in Nat
    BY <1>1 DEF WorkerCount
  <2>1. WorkerTasks(w)' = WorkerTasks(w) \ dropW(w)
    BY <1>1, <1>2 DEF IInv, TypeOK, WorkerTasks
  <2>2. dropW(w) \in SUBSET WorkerTasks(w) /\ WorkerTasks(w) \in SUBSET Tasks
    BY <1>2 DEF WorkerTasks
  <2>3. /\ Cardinality(WorkerTasks(w) \ dropW(w)) = Cardinality(WorkerTasks(w)) - Cardinality(dropW(w))
        /\ Cardinality(WorkerTasks(w)) - Cardinality(dropW(w)) \in Nat
    BY <2>2, CountDifference
  <2>4. workerPending[w] = Cardinality(WorkerTasks(w))
    BY DEF IInv, Counts, WorkerCount
  <2> QED
    BY <1>1, <2>1, <2>3, <2>4
<1>8. Bumped(hit) \in [Lanes -> Nat]
  BY DEF Bumped, IInv, TypeOK
<1>9. TypeOK'
  <2>1. where' \in [Tasks -> Places]
    BY <1>1 DEF IInv, TypeOK, Places, Pending, Held
  <2>2. /\ laneWorker' \in [Lanes -> 0 .. NumWorkers]
        /\ laneGen' \in [Lanes -> Nat]
        /\ cancelled' \subseteq Lanes
        /\ revoked' \subseteq Tasks
    BY <1>1, <1>8 DEF IInv, TypeOK
  <2> QED
    BY <1>5, <1>6, <1>7, <2>1, <2>2 DEF IInv, TypeOK
(* A lane that is cleared has no pending task left. *)
<1>10. \A t \in Tasks : where'[t] \in Pending => LaneOf[t] \notin cleared
  <2> SUFFICES ASSUME NEW t \in Tasks, where'[t] \in Pending, left[LaneOf[t]] = 0
               PROVE  FALSE
    OBVIOUS
  <2>1. t \in PendingOf(LaneOf[t])'
    BY DEF PendingOf
  <2>2. PendingOf(LaneOf[t])' \in SUBSET Tasks
    BY DEF PendingOf
  <2>3. Cardinality(PendingOf(LaneOf[t])') = 0
    BY <1>4
  <2> QED
    BY <2>1, <2>2, <2>3, CountedNonzero
<1>11. \A t \in Tasks : \/ where'[t] = where[t]
                        \/ where[t] = "queued" /\ where'[t] \in {"taken", "dropped"}
  BY <1>1, <1>2
<1>12. Home'
  <2> SUFFICES ASSUME NEW t \in Tasks, where'[t] \in Pending
               PROVE  worker'[t] \in Workers /\ laneWorker'[LaneOf[t]] = worker'[t]
    BY DEF Home
  <2>1. where[t] \in Pending /\ LaneOf[t] \notin cleared
    BY <1>10, <1>11 DEF Pending, Held
  <2> QED
    BY <1>1, <2>1 DEF IInv, Home
<1>13. OneHeld'
  <2> SUFFICES ASSUME NEW t \in Tasks, NEW u \in Tasks,
                      where'[t] \in Held, where'[u] \in Held, worker[t] = worker[u]
               PROVE  t = u
    BY DEF OneHeld
  <2>1. (where[t] \in Held \/ t \in stolen) /\ (where[u] \in Held \/ u \in stolen)
    BY <1>1 DEF Held
  <2>2. \A x, y \in Tasks : x \in stolen /\ worker[x] = worker[y] => where[y] \notin Held
    BY <1>2 DEF Idle, HeldBy
  <2> QED
    BY <1>2, <2>1, <2>2 DEF IInv, OneHeld
<1>14. IdleClean'
  <2> SUFFICES ASSUME NEW l \in Lanes, left[l] = 0, l \notin cleared
               PROVE  laneWorker'[l] = 0 /\ laneGen'[l] = 0 /\ l \notin cancelled'
    BY <1>1 DEF IdleClean
  <2>1. l \notin doomed /\ dropL(l) = {}
    BY DEF Touched
  <2>2. Cardinality(dropL(l)) = 0
    BY <2>1, FS_EmptySet
  <2>3. lanePending[l] = 0
    BY <2>2 DEF IInv, TypeOK
  <2> QED
    BY <1>1, <2>1, <2>3 DEF IInv, IdleClean, Bumped
<1>15. Generations'
  <2> SUFFICES ASSUME NEW t \in Tasks, where'[t] \in {"queued", "taken"}
               PROVE  /\ t \in revoked' => gen[t] < laneGen'[LaneOf[t]]
                      /\ t \notin revoked' => gen[t] = laneGen'[LaneOf[t]] /\ LaneOf[t] \notin cancelled'
    BY DEF Generations
  <2>1. where[t] \in {"queued", "taken"} /\ LaneOf[t] \notin cleared /\ LaneOf[t] \in Lanes
    BY <1>10, <1>11 DEF Pending, Held
  <2>2. laneGen'[LaneOf[t]] = Bumped(hit)[LaneOf[t]]
    BY <1>1, <2>1
  <2>3. CASE LaneOf[t] \in hit
    BY <2>1, <2>2, <2>3 DEF IInv, TypeOK, Generations, Bumped
  <2>4. CASE LaneOf[t] \notin hit
    BY <1>1, <2>1, <2>2, <2>4 DEF IInv, TypeOK, Generations, Bumped
  <2> QED
    BY <2>3, <2>4
<1>16. RevokedWereAccepted'
  BY <1>11 DEF IInv, TypeOK, RevokedWereAccepted, Pending, Held
<1>17. CapKept'
  <2> SUFFICES ASSUME NEW s \in Sessions PROVE sessionPending'[s] <= SessionCap
    BY DEF CapKept
  <2>1. Cardinality(dropS(s)) \in Nat
    <3>1. dropS(s) \in SUBSET Tasks
      BY <1>2
    <3> QED
      BY <3>1, TaskSetsFinite
  <2>2. sessionPending'[s] = sessionPending[s] - Cardinality(dropS(s))
    BY <1>1
  <2> QED
    BY <2>1, <2>2 DEF IInv, TypeOK, CapKept
<1> QED
  BY <1>5, <1>6, <1>7, <1>9, <1>11, <1>12, <1>13, <1>14, <1>15, <1>16, <1>17 DEF Counts

(* The runs of the doomed lanes are cancelled together with the revocation *)
(* of every pending task of those lanes.                                   *)
LEMMA CancelPreserves ==
    ASSUME IInv, NEW doomed \in SUBSET Lanes,
           CancelRunning(doomed),
           UNCHANGED ctxDone,
           revoked' = revoked \cup {t \in Tasks : where[t] \in Pending /\ LaneOf[t] \in doomed},
           \A t \in Tasks : \/ where'[t] = where[t]
                            \/ where[t] = "queued" /\ where'[t] \in {"taken", "dropped"}
    PROVE  CurrentRun' /\ LiveRuns' /\ FreshRunsLive'
<1>1. /\ live' = live \ {running[l] : l \in doomed}
      /\ running' = [l \in Lanes |-> IF l \in doomed THEN NoTask ELSE running[l]]
  BY DEF CancelRunning
<1>2. CurrentRun'
  BY <1>1 DEF IInv, TypeOK, CurrentRun
<1>3. LiveRuns'
  BY <1>1 DEF IInv, TypeOK, LiveRuns, Pending, Held
<1>4. FreshRunsLive'
  <2> SUFFICES ASSUME NEW t \in Tasks, where'[t] = "running", t \notin revoked', ~ctxDone
               PROVE  t \in live'
    BY DEF FreshRunsLive
  <2>1. where[t] = "running" /\ t \in live /\ LaneOf[t] \notin doomed
    BY DEF IInv, FreshRunsLive, Pending, Held
  <2>2. \A l \in doomed : running[l] # t
    BY <2>1 DEF IInv, TypeOK, CurrentRun
  <2> QED
    BY <1>1, <2>1, <2>2
<1> QED
  BY <1>2, <1>3, <1>4

LEMMA RemoveLanePreserves ==
    ASSUME IInv, NEW l \in Lanes, RemoveLane(l)
    PROVE  IInv'
<1>1. PICK stolen \in StolenSets : Compact(stolen, {l}, cancelled \cup {l}, Bumped({l}))
  BY DEF RemoveLane
<1>2. /\ CancelRunning({l})
      /\ revoked' = revoked \cup PendingOf(l)
      /\ UNCHANGED <<worker, ticket, nextTicket, gen, nextWorker, ctxDone, exited>>
  BY DEF RemoveLane, UnchangedByRemoval
<1>3. live' \in SUBSET Tasks /\ running' \in [Lanes -> Tasks \cup {NoTask}]
  BY <1>2 DEF CancelRunning, IInv, TypeOK
<1>4. PendingOf(l) = {t \in Tasks : where[t] \in Pending /\ LaneOf[t] \in {l}}
  BY DEF PendingOf
<1>5. /\ TypeOK' /\ Counts' /\ Home' /\ OneHeld' /\ IdleClean' /\ Generations'
      /\ RevokedWereAccepted' /\ CapKept'
      /\ \A t \in Tasks : \/ where'[t] = where[t]
                          \/ where[t] = "queued" /\ where'[t] \in {"taken", "dropped"}
  <2>1. \A t \in Tasks : where[t] \in {"queued", "taken"} /\ LaneOf[t] \in {l} => t \in PendingOf(l)
    BY DEF PendingOf, Pending, Held
  <2>2. /\ \A t \in Tasks : where[t] \in Pending /\ LaneOf[t] \in {l} => LaneOf[t] \in {l}
        /\ {l} \in SUBSET Lanes /\ {l} \subseteq {l}
        /\ PendingOf(l) \in SUBSET Tasks
        /\ \A t \in PendingOf(l) : where[t] \in Pending /\ LaneOf[t] \in {l}
    BY DEF PendingOf
  <2> QED
    BY <1>1, <1>2, <1>3, <2>1, <2>2, CompactPreserves
<1>6. CurrentRun' /\ LiveRuns' /\ FreshRunsLive'
  BY <1>2, <1>4, <1>5, CancelPreserves
<1> QED
  BY <1>5, <1>6 DEF IInv

LEMMA FinalizeLanePreserves ==
    ASSUME IInv, NEW l \in Lanes, FinalizeLane(l)
    PROVE  IInv'
<1> DEFINE stopped == {t \in PendingOf(l) : where[t] \in {"queued", "taken"}}
<1>1. PICK stolen \in StolenSets : Compact(stolen, {l}, cancelled \cup {l}, Bumped({l}))
  BY DEF FinalizeLane
<1>2. /\ revoked' = revoked \cup stopped
      /\ UNCHANGED <<live, running, worker, ticket, nextTicket, gen, nextWorker, ctxDone, exited>>
  BY DEF FinalizeLane, UnchangedByRemoval
<1>3. /\ TypeOK' /\ Counts' /\ Home' /\ OneHeld' /\ IdleClean' /\ Generations'
      /\ RevokedWereAccepted' /\ CapKept'
      /\ \A t \in Tasks : \/ where'[t] = where[t]
                          \/ where[t] = "queued" /\ where'[t] \in {"taken", "dropped"}
  <2>1. live' \in SUBSET Tasks /\ running' \in [Lanes -> Tasks \cup {NoTask}]
    BY <1>2 DEF IInv, TypeOK
  <2>2. /\ stopped \in SUBSET Tasks
        /\ \A t \in stopped : where[t] \in Pending /\ LaneOf[t] \in {l}
    BY DEF PendingOf
  <2>3. \A t \in Tasks : where[t] \in {"queued", "taken"} /\ LaneOf[t] \in {l} => t \in stopped
    BY DEF PendingOf, Pending, Held
  <2>4. /\ {l} \in SUBSET Lanes /\ {l} \subseteq {l}
        /\ \A t \in Tasks : where[t] \in Pending /\ LaneOf[t] \in {l} => LaneOf[t] \in {l}
    OBVIOUS
  <2> HIDE DEF stopped
  <2> QED
    BY <1>1, <1>2, <2>1, <2>2, <2>3, <2>4, CompactPreserves
<1>4. CurrentRun' /\ LiveRuns' /\ FreshRunsLive'
  BY <1>2, <1>3 DEF IInv, TypeOK, CurrentRun, LiveRuns, FreshRunsLive
<1> QED
  BY <1>3, <1>4 DEF IInv

LEMMA RemoveSessionPreserves ==
    ASSUME IInv, NEW s \in Sessions, RemoveSession(s)
    PROVE  IInv'
<1> DEFINE mapped == {l \in SessionLanes(s) : laneWorker[l] # 0}
<1>1. PICK stolen \in StolenSets :
          Compact(stolen, SessionLanes(s), cancelled \cup mapped, Bumped(mapped))
  BY DEF RemoveSession
<1>2. /\ CancelRunning(SessionLanes(s))
      /\ revoked' = revoked \cup SessionTasks(s)
      /\ UNCHANGED <<worker, ticket, nextTicket, gen, nextWorker, ctxDone, exited>>
  BY DEF RemoveSession, UnchangedByRemoval
<1>3. live' \in SUBSET Tasks /\ running' \in [Lanes -> Tasks \cup {NoTask}]
  BY <1>2 DEF CancelRunning, IInv, TypeOK
(* A pending task's lane has a worker, so it is marked. *)
<1>4. \A t \in Tasks : where[t] \in Pending /\ LaneOf[t] \in SessionLanes(s) => LaneOf[t] \in mapped
  BY DEF IInv, Home, Workers
<1>5. /\ SessionTasks(s) = {t \in Tasks : where[t] \in Pending /\ LaneOf[t] \in SessionLanes(s)}
      /\ SessionLanes(s) \in SUBSET Lanes /\ mapped \in SUBSET Lanes /\ mapped \subseteq SessionLanes(s)
  BY DEF SessionTasks, SessionLanes
<1>6. /\ TypeOK' /\ Counts' /\ Home' /\ OneHeld' /\ IdleClean' /\ Generations'
      /\ RevokedWereAccepted' /\ CapKept'
      /\ \A t \in Tasks : \/ where'[t] = where[t]
                          \/ where[t] = "queued" /\ where'[t] \in {"taken", "dropped"}
  <2>1. /\ SessionTasks(s) \in SUBSET Tasks
        /\ \A t \in SessionTasks(s) : where[t] \in Pending /\ LaneOf[t] \in mapped
    BY <1>4, <1>5
  <2>2. \A t \in Tasks : where[t] \in {"queued", "taken"} /\ LaneOf[t] \in mapped => t \in SessionTasks(s)
    BY <1>5 DEF Pending, Held
  <2> HIDE DEF mapped
  <2> QED
    BY <1>1, <1>2, <1>3, <1>4, <1>5, <2>1, <2>2, CompactPreserves
<1>7. CurrentRun' /\ LiveRuns' /\ FreshRunsLive'
  BY <1>2, <1>5, <1>6, CancelPreserves
<1> QED
  BY <1>6, <1>7 DEF IInv

----------------------------------------------------------------------------
LEMMA StepPreserves == IInv /\ [Next]_vars => IInv'
<1> SUFFICES ASSUME IInv, [Next]_vars PROVE IInv'
  OBVIOUS
<1>1. ASSUME NEW t \in Tasks, Enqueue(t) PROVE IInv'
  BY <1>1, EnqueuePreserves
<1>2. CASE Removal
  BY <1>2, RemoveLanePreserves, FinalizeLanePreserves, RemoveSessionPreserves DEF Removal
<1>3. ASSUME NEW w \in Workers, WorkerStep(w) PROVE IInv'
  BY <1>3, ReceivePreserves, BeginPreserves, ReturnPreserves, FinishPreserves, ShutdownPreserves
     DEF WorkerStep
<1>4. CASE Shutdown
  BY <1>4, ShutdownPreserves
<1>5. CASE UNCHANGED vars
  BY <1>5, Stuttering
<1> QED
  BY <1>1, <1>2, <1>3, <1>4, <1>5 DEF Next

THEOREM Invariance == Spec => []IInv
BY InitHolds, StepPreserves, PTL DEF Spec

(* Type correctness, for every set of tasks, lanes and workers. *)
THEOREM TypeCorrect == Spec => []TypeOK
<1>1. IInv => TypeOK
  BY DEF IInv
<1> QED
  BY <1>1, Invariance, PTL

(* Tasks of one lane never execute concurrently: they share the lane's     *)
(* worker, and a worker holds one task.                                    *)
THEOREM LanesAreSerial == Spec => []LaneSerial
<1>1. IInv => LaneSerial
  BY DEF IInv, LaneSerial, Home, OneHeld, Pending
<1> QED
  BY <1>1, Invariance, PTL

(* A task hit by a removal never has a live context afterwards. *)
THEOREM RevokedStayDead == Spec => []RevokedNeverLive
<1>1. IInv => RevokedNeverLive
  BY DEF IInv, RevokedNeverLive, LiveRuns
<1> QED
  BY <1>1, Invariance, PTL

(* A task no removal hit runs with a live context. *)
THEOREM FreshAreLive == Spec => []FreshRunsLive
<1>1. IInv => FreshRunsLive
  BY DEF IInv
<1> QED
  BY <1>1, Invariance, PTL

(* The lane and session counters are exact. *)
THEOREM CountersExact == Spec => []PendingExact
<1>1. IInv => PendingExact
  BY DEF IInv, PendingExact, Counts
<1> QED
  BY <1>1, Invariance, PTL

(* A lane without pending tasks has no entry in any map. *)
THEOREM NothingRetained == Spec => []NoResidue
<1>1. IInv => NoResidue
  <2> SUFFICES ASSUME IInv, NEW l \in Lanes, PendingOf(l) = {}
               PROVE  laneWorker[l] = 0 /\ laneGen[l] = 0 /\ l \notin cancelled /\ running[l] = NoTask
    BY DEF NoResidue
  <2>1. Cardinality(PendingOf(l)) = 0
    BY FS_EmptySet
  <2>2. lanePending[l] = 0
    BY <2>1 DEF IInv, Counts, LaneCount
  <2>3. running[l] = NoTask
    BY DEF IInv, TypeOK, CurrentRun, PendingOf, Pending, Held
  <2> QED
    BY <2>2, <2>3 DEF IInv, IdleClean
<1> QED
  BY <1>1, Invariance, PTL

(* No session exceeds its share of the queues. *)
THEOREM SessionsBounded == Spec => []SessionBounded
<1>1. IInv => SessionBounded
  BY DEF IInv, SessionBounded, CapKept, Counts, SessionCount
<1> QED
  BY <1>1, Invariance, PTL

----------------------------------------------------------------------------
(* Refinement: each step of the processor is a step of the serial executor *)
(* or leaves it alone.                                                     *)
PhaseOf == [t \in Tasks |-> Phase(t)]

LEMMA InitRefines == Init => Promise!Init
BY DEF Init, Promise!Init, Phase

(* A removal: the stopped tasks are revoked, what is dropped was revoked. *)
LEMMA CompactRevokes ==
    ASSUME IInv, NEW hit \in SUBSET Lanes, NEW doomed \in SUBSET Lanes,
           NEW stolen \in StolenSets,
           Compact(stolen, doomed, cancelled \cup hit, Bumped(hit)),
           NEW stopped \in SUBSET Tasks, revoked' = revoked \cup stopped,
           \A t \in stopped : where[t] \in Pending,
           \A t \in Tasks : where[t] = "queued" /\ LaneOf[t] \in doomed \cup hit => t \in stopped,
           live' = live \ stopped,
           UNCHANGED ctxDone
    PROVE  Promise!Revoke
<1> DEFINE dropped == Dropped(stolen, doomed \cup (cancelled \cup hit))
<1>1. where' = [t \in Tasks |-> IF t \in dropped THEN "dropped"
                                ELSE IF t \in stolen THEN "taken" ELSE where[t]]
  BY DEF Compact
<1>2. /\ dropped \in SUBSET Tasks
      /\ \A t \in dropped : where[t] = "queued" /\ LaneOf[t] \in doomed \cup (cancelled \cup hit)
      /\ \A t \in stolen : where[t] = "queued"
  BY DEF Dropped, StolenSets, Stealable
<1> HIDE DEF dropped
<1>3. dropped \subseteq revoked'
  BY <1>2 DEF IInv, Generations
<1>4. PhaseOf' = [t \in Tasks |-> IF t \in dropped THEN "over" ELSE PhaseOf[t]]
  BY <1>1, <1>2 DEF PhaseOf, Phase
<1>5. \A t \in stopped : PhaseOf[t] \in {"waiting", "active", "over"}
  BY DEF PhaseOf, Phase, Pending, Held
<1>6. \A t \in dropped : PhaseOf[t] = "waiting"
  BY <1>2 DEF PhaseOf, Phase
<1>7. stopped \in SUBSET {t \in Tasks : PhaseOf[t] \in {"waiting", "active", "over"}}
  BY <1>5
<1>8. dropped \in SUBSET {t \in Tasks : PhaseOf[t] = "waiting" /\ t \in revoked'}
  BY <1>2, <1>3, <1>6
<1> QED
  BY <1>4, <1>7, <1>8 DEF Promise!Revoke, PhaseOf

LEMMA RemovalRefines ==
    ASSUME IInv, Removal
    PROVE  Promise!Revoke
(* Exactly the live tasks of the doomed lanes are their current runs. *)
<1>1. ASSUME NEW doomed \in SUBSET Lanes, NEW stopped, CancelRunning(doomed),
             stopped = {t \in Tasks : where[t] \in Pending /\ LaneOf[t] \in doomed}
      PROVE  live' = live \ stopped
  <2>1. \A t \in live : where[t] = "running" /\ running[LaneOf[t]] = t /\ t \in Tasks
    BY DEF IInv, TypeOK, LiveRuns
  <2>2. \A l \in doomed : running[l] \in live => LaneOf[running[l]] = l
    BY DEF IInv, TypeOK, CurrentRun
  <2>3. \A t \in live : t \in stopped <=> \E l \in doomed : running[l] = t
    BY <1>1, <2>1, <2>2 DEF Pending, Held
  <2> QED
    BY <1>1, <2>3 DEF CancelRunning
<1>2. ASSUME NEW l \in Lanes, RemoveLane(l) PROVE Promise!Revoke
  <2>1. PICK stolen \in StolenSets : Compact(stolen, {l}, cancelled \cup {l}, Bumped({l}))
    BY <1>2 DEF RemoveLane
  <2>2. /\ CancelRunning({l}) /\ UNCHANGED ctxDone
        /\ revoked' = revoked \cup PendingOf(l)
    BY <1>2 DEF RemoveLane, UnchangedByRemoval
  <2>3. live' = live \ PendingOf(l)
    BY <1>1, <2>2 DEF PendingOf
  <2>4. /\ PendingOf(l) \in SUBSET Tasks
        /\ \A t \in PendingOf(l) : where[t] \in Pending
        /\ \A t \in Tasks : where[t] = "queued" /\ LaneOf[t] \in {l} \cup {l} => t \in PendingOf(l)
    BY DEF PendingOf, Pending
  <2>5. {l} \in SUBSET Lanes
    OBVIOUS
  <2> QED
    BY <2>1, <2>2, <2>3, <2>4, <2>5, CompactRevokes
<1>3. ASSUME NEW l \in Lanes, FinalizeLane(l) PROVE Promise!Revoke
  <2> DEFINE stopped == {t \in PendingOf(l) : where[t] \in {"queued", "taken"}}
  <2>1. PICK stolen \in StolenSets : Compact(stolen, {l}, cancelled \cup {l}, Bumped({l}))
    BY <1>3 DEF FinalizeLane
  <2>2. UNCHANGED ctxDone /\ live' = live /\ revoked' = revoked \cup stopped
    BY <1>3 DEF FinalizeLane, UnchangedByRemoval
  <2>3. live' = live \ stopped
    BY <2>2 DEF IInv, LiveRuns
  <2>4. /\ stopped \in SUBSET Tasks
        /\ \A t \in stopped : where[t] \in Pending
        /\ \A t \in Tasks : where[t] = "queued" /\ LaneOf[t] \in {l} \cup {l} => t \in stopped
    BY DEF PendingOf, Pending
  <2>5. {l} \in SUBSET Lanes
    OBVIOUS
  <2> HIDE DEF stopped
  <2> QED
    BY <2>1, <2>2, <2>3, <2>4, <2>5, CompactRevokes
<1>4. ASSUME NEW s \in Sessions, RemoveSession(s) PROVE Promise!Revoke
  <2> DEFINE mapped == {l \in SessionLanes(s) : laneWorker[l] # 0}
  <2>1. PICK stolen \in StolenSets :
            Compact(stolen, SessionLanes(s), cancelled \cup mapped, Bumped(mapped))
    BY <1>4 DEF RemoveSession
  <2>2. /\ CancelRunning(SessionLanes(s)) /\ UNCHANGED ctxDone
        /\ revoked' = revoked \cup SessionTasks(s)
    BY <1>4 DEF RemoveSession, UnchangedByRemoval
  <2>3. /\ SessionTasks(s) = {t \in Tasks : where[t] \in Pending /\ LaneOf[t] \in SessionLanes(s)}
        /\ SessionLanes(s) \in SUBSET Lanes /\ mapped \in SUBSET Lanes /\ mapped \subseteq SessionLanes(s)
    BY DEF SessionTasks, SessionLanes
  <2>4. live' = live \ SessionTasks(s)
    BY <1>1, <2>2, <2>3
  <2>5. /\ SessionTasks(s) \in SUBSET Tasks
        /\ \A t \in SessionTasks(s) : where[t] \in Pending
        /\ \A t \in Tasks : where[t] = "queued" /\ LaneOf[t] \in SessionLanes(s) \cup mapped
                              => t \in SessionTasks(s)
    BY <2>3 DEF Pending
  <2> HIDE DEF mapped
  <2> QED
    BY <2>1, <2>2, <2>3, <2>4, <2>5, CompactRevokes
<1> QED
  BY <1>2, <1>3, <1>4 DEF Removal

LEMMA StepRefines == IInv /\ [Next]_vars => [Promise!Next]_(Promise!execVars)
<1> SUFFICES ASSUME IInv, [Next]_vars PROVE Promise!Next \/ UNCHANGED Promise!execVars
  OBVIOUS
<1>1. ASSUME NEW t \in Tasks, Enqueue(t) PROVE Promise!Next
  <2>1. /\ where[t] = "new"
        /\ \E place \in {"queued", "refused"} : where' = [where EXCEPT ![t] = place]
        /\ UNCHANGED <<live, revoked, ctxDone>>
    BY <1>1 DEF Enqueue, EnqueueCapped, EnqueueMapped, EnqueueFirst, Send, Refuse
  <2>2. PhaseOf[t] = "new"
    BY <2>1 DEF PhaseOf, Phase
  <2>3. \E answer \in {"waiting", "refused"} : PhaseOf' = [PhaseOf EXCEPT ![t] = answer]
    BY <2>1 DEF PhaseOf, Phase, IInv, TypeOK
  <2> QED
    BY <2>1, <2>2, <2>3 DEF Promise!Next, Promise!Submit, PhaseOf
<1>2. CASE Removal
  BY <1>2, RemovalRefines DEF Promise!Next
<1>3. ASSUME NEW w \in Workers, Receive(w) PROVE UNCHANGED Promise!execVars
  <2>1. PICK t \in Queued(w) : where' = [where EXCEPT ![t] = "taken"]
    BY <1>3 DEF Receive
  <2>2. PhaseOf' = PhaseOf
    BY <2>1 DEF PhaseOf, Phase, Queued, IInv, TypeOK
  <2> QED
    BY <1>3, <2>2 DEF Receive, Promise!execVars, PhaseOf
<1>4. ASSUME NEW w \in Workers, Begin(w) PROVE Promise!Next
  <2>1. PICK t \in HeldBy(w) :
          /\ where[t] = "taken"
          /\ where' = [where EXCEPT ![t] = "running"]
          /\ IF Stale(t) THEN live' = live
             ELSE live' = IF ctxDone THEN live ELSE live \cup {t}
          /\ UNCHANGED <<ctxDone, revoked>>
    BY <1>4 DEF Begin
  <2>2. t \in Tasks
    BY DEF HeldBy
  <2>3. Stale(t) <=> t \in revoked
    BY <2>1, <2>2 DEF IInv, TypeOK, Stale, Generations
  <2>4. \A u \in Tasks : LaneOf[u] = LaneOf[t] => PhaseOf[u] # "active"
    BY <2>1, <2>2 DEF IInv, Home, OneHeld, Held, Pending, PhaseOf, Phase
  <2>5. PhaseOf[t] = "waiting" /\ PhaseOf' = [PhaseOf EXCEPT ![t] = "active"]
    BY <2>1, <2>2 DEF PhaseOf, Phase, IInv, TypeOK
  <2>6. live' = IF t \in revoked \/ ctxDone THEN live ELSE live \cup {t}
    BY <2>1, <2>3
  <2> QED
    BY <2>1, <2>2, <2>4, <2>5, <2>6 DEF Promise!Next, Promise!Start, PhaseOf
<1>5. ASSUME NEW w \in Workers, Return(w) PROVE Promise!Next
  <2>1. PICK t \in HeldBy(w) :
          /\ where[t] = "running"
          /\ where' = [where EXCEPT ![t] = "ending"]
          /\ live' = live \ {t}
          /\ UNCHANGED <<ctxDone, revoked>>
    BY <1>5 DEF Return
  <2>2. t \in Tasks
    BY DEF HeldBy
  <2>3. PhaseOf[t] = "active"
    BY <2>1, <2>2 DEF PhaseOf, Phase
  <2>4. PhaseOf' = [PhaseOf EXCEPT ![t] = "over"]
    BY <2>1, <2>2 DEF PhaseOf, Phase, IInv, TypeOK, Places, Pending, Held
  <2> QED
    BY <2>1, <2>2, <2>3, <2>4 DEF Promise!Next, Promise!End, PhaseOf
<1>6. ASSUME NEW w \in Workers, Finish(w) PROVE UNCHANGED Promise!execVars
  <2>1. PICK t \in HeldBy(w) : /\ where[t] = "ending"
                              /\ where' = [where EXCEPT ![t] = "done"]
                              /\ UNCHANGED <<live, revoked, ctxDone>>
    BY <1>6 DEF Finish
  <2>2. PhaseOf' = PhaseOf
    BY <2>1 DEF PhaseOf, Phase, HeldBy, IInv, TypeOK
  <2> QED
    BY <2>1, <2>2 DEF Promise!execVars, PhaseOf
<1>7. ASSUME NEW w \in Workers, Exit(w) PROVE UNCHANGED Promise!execVars
  BY <1>7 DEF Exit, Promise!execVars, Phase
<1>8. CASE Shutdown
  BY <1>8 DEF Shutdown, Promise!Next, Promise!Close, Phase
<1>9. CASE UNCHANGED vars
  BY <1>9 DEF vars, Promise!execVars, Phase
<1> QED
  BY <1>1, <1>2, <1>3, <1>4, <1>5, <1>6, <1>7, <1>8, <1>9 DEF Next, WorkerStep

(* The processor implements the serial executor. *)
THEOREM Refinement == Spec => ImplementsPromise
BY InitRefines, StepRefines, Invariance, PTL DEF Spec, ImplementsPromise, Promise!Spec
(* What the removals promise, all together.                               *)
THEOREM LanesAreSound == Spec => []LanesSound
BY TypeCorrect, LanesAreSerial, RevokedStayDead, FreshAreLive, PTL DEF LanesSound

(* What the limits and the maps rest on, all together.                    *)
THEOREM LanesAccounted == Spec => []Accounted
BY CountersExact, NothingRetained, SessionsBounded, PTL DEF Accounted

=============================================================================
