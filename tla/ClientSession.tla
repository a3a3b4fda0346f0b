--------------------------- MODULE ClientSession ---------------------------
(***************************************************************************)
(* The client's session (internal/client): the main loop of Run, which     *)
(* scans for resolvers, establishes a session, starts the goroutines that  *)
(* carry it and tears them down again when one of them asks for a restart  *)
(* or a recovery; and those goroutines, as far as they ask.                *)
(*                                                                         *)
(* The restart flag and its channel of one, the recovery flag and the      *)
(* streak are atomics that goroutines touch one at a time, so each access  *)
(* is a step.  What only the main loop reads and writes changes with it.   *)
(* Waiting (back-off, the second between two looks at the channel) is left *)
(* out; a cooldown may end at any moment.                                  *)
(***************************************************************************)
EXTENDS Integers

CONSTANTS
    Processors,     \* the goroutines of asyncProcessorWorker
    Health, Ping,   \* runResolverHealthLoop and pingLoop
    Mtus            \* the operating points that a scan may arrive at

(* A scan that ends with an MTU of zero has failed (client.go:649). *)
ASSUME ConstantsAssumption ==
    /\ Health # Ping /\ Processors \cap {Health, Ping} = {}
    /\ Mtus \subseteq Nat \ {0}

Threshold == 3      \* transportRecoveryEscalateThreshold
FailureLimit == 3   \* runtimeSessionInitFailureLimit

Async   == Processors \cup {Health}     \* those asyncWG waits for
Workers == Async \cup {Ping}

VARIABLES
    pc,             \* where the main loop is
    ended,          \* ctx.Done
    scanned,        \* successMTUChecks
    mtu,            \* the discovered MTUs
    ready,          \* sessionReady
    payload,        \* the cached SESSION_INIT: the MTU it advertises, None if there is none
    failures,       \* sessionInitRetryFailures, up to FailureLimit
    at,             \* where a worker is
    cancelled,      \* the workers whose context has been cancelled
    resetPending,   \* runtimeResetPending
    signal,         \* sessionResetSignal holds its one element
    recovery,       \* transportRecoveryPending
    cooldown,       \* less than the cooldown has passed since lastTransportRecovery
    streak,         \* transportRecoveryStreak, up to Threshold
    asked,          \* history: a restart was asked for in this session
    spent           \* history: the cached SESSION_INIT has established a session

loopVars   == <<pc, scanned, mtu, ready, payload, failures, cancelled, spent>>
sharedVars == <<resetPending, signal, recovery, cooldown, streak, asked>>
vars == <<loopVars, sharedVars, at, ended>>

None == 0

Least(a, b) == IF a < b THEN a ELSE b

Off(ws) == \A w \in ws : at[w] = "off"

Init ==
    /\ pc = "top" /\ ended = FALSE
    /\ scanned = FALSE /\ ready = FALSE
    /\ mtu = None /\ payload = None /\ failures = 0
    /\ at = [w \in Workers |-> "off"] /\ cancelled = {}
    /\ resetPending = FALSE /\ signal = FALSE
    /\ recovery = FALSE /\ cooldown = FALSE /\ streak = 0
    /\ asked = FALSE /\ spent = FALSE

----------------------------------------------------------------------------
(* The workers.  A goroutine whose context is cancelled may still take up  *)
(* what is ready beside it in its select.                                  *)

Goto(w, place) == at' = [at EXCEPT ![w] = place]

(* recordTunnelResponse looks at the streak before it stores zero. *)
Answered(w) ==
    /\ w \in Processors /\ at[w] = "idle" /\ streak # 0
    /\ Goto(w, "answer")
    /\ UNCHANGED <<loopVars, sharedVars, ended>>

ClearStreak(w) ==
    /\ at[w] = "answer"
    /\ streak' = 0
    /\ Goto(w, "idle")
    /\ UNCHANGED <<loopVars, resetPending, signal, recovery, cooldown, asked, ended>>

(* A reject, a busy or a dropped packet; a primary pool below its minimum. *)
AskRestart(w) ==
    /\ w \in Async /\ at[w] = "idle"
    /\ Goto(w, "restart")
    /\ UNCHANGED <<loopVars, sharedVars, ended>>

Counted(n) == Least(n + 1, Threshold)

(* requestTransportRecovery: no resolver answers, or none for too long. *)
AskRecovery(w) ==
    /\ w \in {Health, Ping} /\ at[w] = "idle"
    /\ streak' = Counted(streak)
    /\ Goto(w, IF streak' < Threshold THEN "restart" ELSE "check")
    /\ UNCHANGED <<loopVars, resetPending, signal, recovery, cooldown, asked, ended>>

CheckCooldown(w) ==
    /\ at[w] = "check"
    /\ Goto(w, IF cooldown THEN "restart" ELSE "arm")
    /\ UNCHANGED <<loopVars, sharedVars, ended>>

ArmRecovery(w) ==
    /\ at[w] = "arm"
    /\ recovery' = TRUE
    /\ Goto(w, IF recovery THEN "restart" ELSE "stamp")
    /\ UNCHANGED <<loopVars, resetPending, signal, cooldown, streak, asked, ended>>

StampRecovery(w) ==
    /\ at[w] = "stamp"
    /\ cooldown' = TRUE
    /\ Goto(w, "rewind")
    /\ UNCHANGED <<loopVars, resetPending, signal, recovery, streak, asked, ended>>

RewindStreak(w) ==
    /\ at[w] = "rewind"
    /\ streak' = 0
    /\ Goto(w, "restart")
    /\ UNCHANGED <<loopVars, resetPending, signal, recovery, cooldown, asked, ended>>

(* requestSessionRestart *)
FlagRestart(w) ==
    /\ at[w] = "restart"
    /\ resetPending' = TRUE
    /\ Goto(w, IF resetPending THEN "idle" ELSE "send")
    /\ asked' = (asked \/ ~resetPending)
    /\ UNCHANGED <<loopVars, signal, recovery, cooldown, streak, ended>>

SendSignal(w) ==
    /\ at[w] = "send"
    /\ signal' = TRUE
    /\ Goto(w, "idle")
    /\ UNCHANGED <<loopVars, resetPending, recovery, cooldown, streak, asked, ended>>

Exit(w) ==
    /\ at[w] = "idle" /\ (ended \/ w \in cancelled)
    /\ Goto(w, "off")
    /\ UNCHANGED <<loopVars, sharedVars, ended>>

Work(w) ==
    \/ ClearStreak(w) \/ CheckCooldown(w) \/ ArmRecovery(w) \/ StampRecovery(w)
    \/ RewindStreak(w) \/ FlagRestart(w) \/ SendSignal(w)

----------------------------------------------------------------------------
(* The main loop.  Only it writes ready, scanned, the payload and the MTU. *)

(* A scan that finds resolvers; one that does not is tried again. *)
Scan ==
    /\ pc = "top" /\ ~scanned
    /\ mtu' \in Mtus
    /\ scanned' = TRUE
    /\ UNCHANGED <<pc, ready, payload, failures, cancelled, spent, sharedVars, at, ended>>

(* resetSessionInitState *)
ResetSessionInitState_Kept == payload
ResetSessionInitState      == None

(* recomputeMTUOperatingPoint may settle on another of the points the      *)
(* surviving resolvers allow; nextSessionInitRacers keeps the payload of   *)
(* an earlier attempt, else it builds one.                                 *)
TrySessionInit(sent) ==
    /\ pc = "top" /\ scanned /\ ~ready
    /\ mtu' \in Mtus
    /\ sent = IF payload = None THEN mtu' ELSE payload

(* activatePendingTransportRecovery *)
Activated(pending) ==
    /\ recovery' = FALSE
    /\ scanned' = (scanned /\ ~pending)

(* applySessionAccept and StartAsyncRuntime, which may fail to open its    *)
(* sockets or listeners and then ends Run.                                 *)
Established ==
    /\ \E sent \in Mtus : TrySessionInit(sent)
    /\ ready' = TRUE /\ payload' = ResetSessionInitState /\ failures' = 0
    /\ spent' = TRUE /\ asked' = FALSE
    /\ \/ /\ pc' = "startPing"
          /\ at' = [w \in Workers |-> IF w \in Async THEN "idle" ELSE at[w]]
          /\ cancelled' = {}
       \/ pc' = "returned" /\ UNCHANGED <<at, cancelled>>
    /\ UNCHANGED <<scanned, resetPending, signal, recovery, cooldown, streak, ended>>

(* The third failure in a row, outside the cooldown, makes a recovery of   *)
(* its own.                                                                *)
NotEstablished ==
    /\ \E sent \in Mtus : TrySessionInit(sent) /\ payload' = sent
    /\ spent' = (spent /\ payload # None)
    /\ failures' = Least(failures + 1, FailureLimit)
    /\ IF failures' = FailureLimit /\ ~cooldown
       THEN cooldown' = TRUE /\ Activated(TRUE)
       ELSE UNCHANGED <<cooldown, recovery, scanned>>
    /\ UNCHANGED <<pc, ready, cancelled, resetPending, signal, streak, asked, at, ended>>

StartPing ==
    /\ pc = "startPing"
    /\ at' = [at EXCEPT ![Ping] = "idle"]
    /\ pc' = "wait"
    /\ UNCHANGED <<scanned, mtu, ready, payload, failures, cancelled, spent, sharedVars, ended>>

(* The order in which Run ends a session, for a restart or for good. *)
Following_ClearFirst ==
    [wait |-> "clear", clear |-> "drain", drain |-> "join", join |-> "joinPing",
     joinPing |-> "reset", reset |-> "activate", activate |-> "top",
     leave |-> "leavePing", leavePing |-> "returned"]
Following ==
    [wait |-> "join", join |-> "joinPing", joinPing |-> "reset", reset |-> "activate",
     activate |-> "clear", clear |-> "drain", drain |-> "top",
     leave |-> "leavePing", leavePing |-> "returned"]

Proceed == pc' = Following[pc]

TakeSignal ==
    /\ pc = "wait" /\ signal
    /\ signal' = FALSE
    /\ cancelled' = Async
    /\ Proceed
    /\ UNCHANGED <<scanned, mtu, ready, payload, failures, spent,
                   resetPending, recovery, cooldown, streak, asked, at, ended>>

(* asyncWG.Wait, and wg.Wait of the ping loop. *)
Waited_ForAsync(ws) == Off(ws \cap Async)
Waited(ws)          == Off(ws)

(* StopAsyncRuntime joins the runtime's goroutines, then the ping loop. *)
Joined ==
    /\ pc \in {"join", "leave"} /\ Waited(Async)
    /\ cancelled' = Workers
    /\ Proceed
    /\ UNCHANGED <<scanned, mtu, ready, payload, failures, spent, sharedVars, at, ended>>

JoinedPing ==
    /\ pc \in {"joinPing", "leavePing"} /\ Waited({Ping})
    /\ Proceed
    /\ UNCHANGED <<scanned, mtu, ready, payload, failures, cancelled, spent, sharedVars, at, ended>>

ResetSessionState_WithStreak ==
    /\ pc = "reset"
    /\ ready' = FALSE /\ payload' = ResetSessionInitState /\ streak' = 0
    /\ Proceed
    /\ UNCHANGED <<scanned, mtu, failures, cancelled, spent,
                   resetPending, signal, recovery, cooldown, asked, at, ended>>
ResetSessionState ==
    /\ pc = "reset"
    /\ ready' = FALSE /\ payload' = ResetSessionInitState
    /\ Proceed
    /\ UNCHANGED <<scanned, mtu, failures, cancelled, spent, sharedVars, at, ended>>

Activate ==
    /\ pc = "activate"
    /\ Activated(recovery)
    /\ Proceed
    /\ UNCHANGED <<mtu, ready, payload, failures, cancelled, spent,
                   resetPending, signal, cooldown, streak, asked, at, ended>>

(* clearRuntimeResetRequest *)
Lowered_Not == resetPending
Lowered     == FALSE

ClearFlag ==
    /\ pc = "clear"
    /\ resetPending' = Lowered
    /\ Proceed
    /\ UNCHANGED <<scanned, mtu, ready, payload, failures, cancelled, spent,
                   signal, recovery, cooldown, streak, asked, at, ended>>

Drain ==
    /\ pc = "drain"
    /\ signal' = FALSE
    /\ failures' = Least(failures + 1, FailureLimit)
    /\ Proceed
    /\ UNCHANGED <<scanned, mtu, ready, payload, cancelled, spent,
                   resetPending, recovery, cooldown, streak, asked, at, ended>>

(* The loop and its waits see that the context is done. *)
Leave ==
    /\ ended
    /\ \/ pc = "top"  /\ pc' = "returned" /\ UNCHANGED cancelled
       \/ pc = "wait" /\ pc' = "leave"    /\ cancelled' = Async
    /\ UNCHANGED <<scanned, mtu, ready, payload, failures, spent, sharedVars, at, ended>>

RestartSteps == TakeSignal \/ Joined \/ JoinedPing \/ ResetSessionState \/ Activate
                \/ ClearFlag \/ Drain

----------------------------------------------------------------------------
CooldownEnds ==
    /\ cooldown /\ cooldown' = FALSE
    /\ UNCHANGED <<loopVars, resetPending, signal, recovery, streak, asked, at, ended>>

End ==
    /\ ~ended /\ ended' = TRUE
    /\ UNCHANGED <<loopVars, sharedVars, at>>

Next ==
    \/ \E w \in Workers :
          \/ Answered(w) \/ AskRestart(w) \/ AskRecovery(w)
          \/ Work(w) \/ Exit(w)
    \/ Scan \/ Established \/ NotEstablished \/ StartPing
    \/ RestartSteps \/ Leave
    \/ CooldownEnds \/ End

(* Goroutines are scheduled and a select does not pass over a done context *)
(* for ever; an attempt at a session ends one way or the other; time       *)
(* passes.  Nothing promises that a scan or an attempt succeeds.           *)
Fairness ==
    /\ \A w \in Workers : WF_vars(Work(w)) /\ SF_vars(Exit(w))
    /\ WF_vars(Established \/ NotEstablished) /\ WF_vars(StartPing)
    /\ WF_vars(RestartSteps) /\ WF_vars(Leave)
    /\ WF_vars(CooldownEnds)

Spec == Init /\ [][Next]_vars /\ Fairness

----------------------------------------------------------------------------
TypeOK ==
    /\ pc \in {"top", "startPing", "wait", "join", "joinPing", "reset", "activate",
               "clear", "drain", "leave", "leavePing", "returned"}
    /\ ended \in BOOLEAN /\ scanned \in BOOLEAN /\ ready \in BOOLEAN
    /\ mtu \in Mtus \cup {None} /\ payload \in Mtus \cup {None}
    /\ failures \in 0 .. FailureLimit /\ streak \in 0 .. Threshold
    /\ at \in [Workers -> {"off", "idle", "answer", "restart", "check", "arm", "stamp",
                           "rewind", "send"}]
    /\ cancelled \subseteq Workers
    /\ resetPending \in BOOLEAN /\ signal \in BOOLEAN
    /\ recovery \in BOOLEAN /\ cooldown \in BOOLEAN
    /\ asked \in BOOLEAN /\ spent \in BOOLEAN

(* A request for a restart does not outlive the session it was made in: a  *)
(* request that a goroutine of the old session makes while it is being     *)
(* stopped must not end the next session.                                  *)
RequestsDieWithSession == ready /\ (resetPending \/ signal) => asked

(* activatePendingTransportRecovery: resetting the MTU state cannot race   *)
(* active workers.  The same holds when Run has returned.                  *)
Quiet == ~scanned \/ pc = "returned" => Off(Workers)

(* The heavy path is rate-limited: a recovery begins outside the cooldown  *)
(* of the last, whoever begins it.  The check, the flag and the stamp are  *)
(* three steps, of three goroutines.                                       *)
CooldownRespected ==
    [][\/ recovery' /\ ~recovery
       \/ ~scanned' /\ scanned /\ ~recovery
       => ~cooldown]_vars

(* An attempt repeats its SESSION_INIT so that the server finds the session *)
(* it may have made already; a new session needs a new one, or the server   *)
(* hands out the old session again.                                         *)
FreshToken == [][ready' /\ ~ready => payload = None \/ ~spent]_vars

(* A request is answered by the end of its session: no request is lost in  *)
(* the flag and the channel, and no goroutine keeps the others waiting.    *)
RestartHappens == resetPending ~> (~ready \/ pc = "returned")

(* A failure that persists (recovery is asked for again and again, and no  *)
(* response comes in between) escalates to a new scan.                     *)
Responds == \E w \in Processors : ClearStreak(w)
Requests == \E w \in Workers : AskRecovery(w)
PersistentFailureEscalates ==
    <>[][~Responds]_vars /\ []<><<Requests>>_vars => []<>(~scanned)

(* sessionInitAdvertisedMTUs: a SESSION_INIT advertises the measured path. *)
AdvertisesMeasured == [][ready' /\ ~ready => payload \in {None, mtu'}]_vars

(* A restart leaves nothing of the old session behind: no request made of  *)
(* it and no goroutine.                                                    *)
RestartsClean == TypeOK /\ RequestsDieWithSession /\ Quiet
=============================================================================
