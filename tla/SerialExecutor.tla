--------------------------- MODULE SerialExecutor ---------------------------
(***************************************************************************)
(* What the server expects of its deferred-session processor, without      *)
(* workers, channels, counters or generations: tasks of one lane run one   *)
(* at a time, a revoked task never runs with a live context, a task nobody *)
(* revoked always does, and only revoked tasks are discarded.              *)
(***************************************************************************)
CONSTANTS Tasks, LaneOf

VARIABLES
    phase,    \* new, refused, waiting, active or over, for each task
    live,     \* the active tasks whose context is not cancelled
    revoked,  \* the tasks that some removal was meant to stop
    down      \* the executor was shut down

execVars == <<phase, live, revoked, down>>

Init ==
    /\ phase = [t \in Tasks |-> "new"]
    /\ live = {}
    /\ revoked = {}
    /\ down = FALSE

Submit(t) ==
    /\ phase[t] = "new"
    /\ \E answer \in {"waiting", "refused"} : phase' = [phase EXCEPT ![t] = answer]
    /\ UNCHANGED <<live, revoked, down>>

Start(t) ==
    /\ phase[t] = "waiting"
    /\ \A u \in Tasks : LaneOf[u] = LaneOf[t] => phase[u] # "active"
    /\ phase' = [phase EXCEPT ![t] = "active"]
    /\ live' = IF t \in revoked \/ down THEN live ELSE live \cup {t}
    /\ UNCHANGED <<revoked, down>>

End(t) ==
    /\ phase[t] = "active"
    /\ phase' = [phase EXCEPT ![t] = "over"]
    /\ live' = live \ {t}
    /\ UNCHANGED <<revoked, down>>

(* A removal revokes a set of tasks.  Revoked tasks that still wait may be *)
(* discarded, now or at a later removal.                                   *)
Revoke ==
    \E S \in SUBSET {t \in Tasks : phase[t] \in {"waiting", "active", "over"}} :
        /\ revoked' = revoked \cup S
        /\ live' = live \ S
        /\ \E D \in SUBSET {t \in Tasks : phase[t] = "waiting" /\ t \in revoked'} :
              phase' = [t \in Tasks |-> IF t \in D THEN "over" ELSE phase[t]]
        /\ UNCHANGED down

Close ==
    /\ down' = TRUE
    /\ live' = {}
    /\ UNCHANGED <<phase, revoked>>

Next == Close \/ Revoke \/ \E t \in Tasks : Submit(t) \/ Start(t) \/ End(t)

Spec == Init /\ [][Next]_execVars
=============================================================================
