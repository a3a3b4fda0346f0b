------------------------- MODULE ClientRuntimeProofs ------------------------
(***************************************************************************)
(* The safety properties of ClientSession, for any number of processors    *)
(* and any operating points, and those of ResolverPool, for any paths, any *)
(* number of probes side by side, any floor and either kind of balancing.  *)
(***************************************************************************)
EXTENDS ClientSession, ResolverPool, FiniteSetTheorems, TLAPS

Up      == {"startPing", "wait", "join", "leave", "joinPing", "leavePing"}
Stopped == {"top", "reset", "activate", "clear", "drain", "returned"}

(* Where the loop is says what the session is and who still runs. *)
LoopPlaces ==
    /\ pc \in Up => ready /\ scanned
    /\ pc \in {"activate", "clear", "drain", "top"} => ~ready
    /\ pc \in {"reset", "activate"} => scanned
    /\ pc \in Stopped => Off(Workers)
    /\ pc \in {"joinPing", "leavePing"} => Off(Async)
    /\ pc = "drain" => ~resetPending
    /\ pc = "top" => ~resetPending /\ ~signal

(* A request that is under way was made in this session. *)
AskedInSession ==
    /\ ready /\ (resetPending \/ signal) => asked
    /\ \A w \in Workers : at[w] = "send" => asked /\ resetPending

(* Whoever passed the check meets the flag of whoever began the cooldown *)
(* since: the flag stays until all have left.                            *)
OneRecovery ==
    \A w \in Workers :
        /\ at[w] \in {"stamp"} => recovery
        /\ at[w] = "arm" /\ cooldown => recovery

TokenUnspent == payload # None => ~spent

IInv == TypeOK /\ LoopPlaces /\ AskedInSession /\ OneRecovery /\ TokenUnspent

USE ConstantsAssumption

----------------------------------------------------------------------------
LEMMA InitHolds == Init => IInv
<1> SUFFICES ASSUME Init PROVE IInv
  OBVIOUS
<1>1. TypeOK
  <2>1. 0 \in 0 .. FailureLimit /\ 0 \in 0 .. Threshold
    BY DEF FailureLimit, Threshold
  <2> QED
    BY <2>1 DEF Init, TypeOK
<1>2. LoopPlaces
  <2>1. Off(Workers)
    BY DEF Init, Off
  <2> QED
    BY <2>1 DEF Init, LoopPlaces, Up
<1>3. AskedInSession /\ OneRecovery /\ TokenUnspent
  BY DEF Init, AskedInSession, OneRecovery, TokenUnspent
<1> QED
  BY <1>1, <1>2, <1>3 DEF IInv

LEMMA Counts == \A n \in 0 .. 3 : Least(n + 1, 3) \in 0 .. 3
BY DEF Least

LEMMA Orders ==
    /\ Following["wait"] = "join" /\ Following["join"] = "joinPing"
    /\ Following["joinPing"] = "reset" /\ Following["reset"] = "activate"
    /\ Following["activate"] = "clear" /\ Following["clear"] = "drain"
    /\ Following["drain"] = "top" /\ Following["leave"] = "leavePing"
    /\ Following["leavePing"] = "returned"
BY DEF Following

----------------------------------------------------------------------------
(* The steps of the workers.  They leave the loop alone, and a worker that *)
(* takes one is running, so the loop is not where all have stopped.        *)

LEMMA Runs ==
    ASSUME IInv, NEW w \in Workers, at[w] # "off"
    PROVE  /\ pc \in Up /\ ready /\ scanned
           /\ pc \in {"joinPing", "leavePing"} => w \notin Async
BY DEF IInv, TypeOK, LoopPlaces, Up, Stopped, Off

(* A worker that moves without touching what is shared, and not to where   *)
(* OneRecovery or AskedInSession watch it.                                 *)
LEMMA QuietMove ==
    ASSUME IInv, NEW w \in Workers, at[w] # "off",
           NEW place \in {"off", "idle", "answer", "restart", "check", "rewind"},
           Goto(w, place), UNCHANGED <<loopVars, sharedVars, ended>>
    PROVE  IInv'
<1> USE DEF Goto, loopVars, sharedVars
<1>1. TypeOK'
  BY DEF IInv, TypeOK
<1>2. LoopPlaces'
  BY Runs DEF IInv, TypeOK, LoopPlaces, Up, Stopped, Off
<1>3. AskedInSession' /\ OneRecovery' /\ TokenUnspent'
  BY DEF IInv, TypeOK, AskedInSession, OneRecovery, TokenUnspent
<1> QED
  BY <1>1, <1>2, <1>3 DEF IInv

LEMMA WorkerKeeps ==
    ASSUME IInv, NEW w \in Workers,
           Answered(w) \/ AskRestart(w) \/ AskRecovery(w) \/ Work(w) \/ Exit(w)
    PROVE  IInv'
<1> USE DEF Goto, loopVars, sharedVars
<1>r. at[w] # "off"
  BY DEF Answered, AskRestart, AskRecovery, Work, Exit, ClearStreak, CheckCooldown,
         ArmRecovery, StampRecovery, RewindStreak, FlagRestart, SendSignal
<1>l. LoopPlaces' /\ TokenUnspent'
  <2>1. /\ UNCHANGED loopVars
        /\ \A v \in Workers \ {w} : at'[v] = at[v]
        /\ pc \in Up /\ ready /\ scanned
        /\ pc \in {"joinPing", "leavePing"} => w \notin Async
    BY <1>r, Runs DEF IInv, TypeOK, Answered, AskRestart, AskRecovery, Work, Exit, ClearStreak,
       CheckCooldown, ArmRecovery, StampRecovery, RewindStreak, FlagRestart, SendSignal
  <2> QED
    BY <2>1 DEF IInv, LoopPlaces, TokenUnspent, Up, Stopped, Off, Async, Workers
<1>1. CASE Answered(w)
  BY <1>1, <1>r, QuietMove DEF Answered
<1>2. CASE AskRestart(w)
  BY <1>2, <1>r, QuietMove DEF AskRestart
<1>3. CASE Exit(w)
  BY <1>3, <1>r, QuietMove DEF Exit
<1>4. CASE AskRecovery(w)
  <2>1. TypeOK'
    BY <1>4, Counts DEF IInv, TypeOK, AskRecovery, Counted, Threshold
  <2>2. AskedInSession' /\ OneRecovery'
    BY <1>4 DEF IInv, TypeOK, AskRecovery, AskedInSession, OneRecovery
  <2> QED
    BY <2>1, <2>2, <1>l DEF IInv
<1>5. CASE ClearStreak(w)
  <2>1. TypeOK'
    BY <1>5 DEF IInv, TypeOK, ClearStreak, Threshold
  <2>2. AskedInSession' /\ OneRecovery'
    BY <1>5 DEF IInv, TypeOK, ClearStreak, AskedInSession, OneRecovery
  <2> QED
    BY <2>1, <2>2, <1>l DEF IInv
<1>6. CASE CheckCooldown(w)
  <2>1. TypeOK'
    BY <1>6 DEF IInv, TypeOK, CheckCooldown
  <2>2. AskedInSession' /\ OneRecovery'
    BY <1>6 DEF IInv, TypeOK, CheckCooldown, AskedInSession, OneRecovery
  <2> QED
    BY <2>1, <2>2, <1>l DEF IInv
<1>7. CASE ArmRecovery(w)
  <2>1. TypeOK'
    BY <1>7 DEF IInv, TypeOK, ArmRecovery
  <2>2. AskedInSession' /\ OneRecovery'
    BY <1>7 DEF IInv, TypeOK, ArmRecovery, AskedInSession, OneRecovery
  <2> QED
    BY <2>1, <2>2, <1>l DEF IInv
<1>8. CASE StampRecovery(w)
  <2>1. TypeOK'
    BY <1>8 DEF IInv, TypeOK, StampRecovery
  <2>2. AskedInSession' /\ OneRecovery'
    BY <1>8 DEF IInv, TypeOK, StampRecovery, AskedInSession, OneRecovery
  <2> QED
    BY <2>1, <2>2, <1>l DEF IInv
<1>9. CASE RewindStreak(w)
  <2>1. TypeOK'
    BY <1>9 DEF IInv, TypeOK, RewindStreak, Threshold
  <2>2. AskedInSession' /\ OneRecovery'
    BY <1>9 DEF IInv, TypeOK, RewindStreak, AskedInSession, OneRecovery
  <2> QED
    BY <2>1, <2>2, <1>l DEF IInv
<1>10. CASE FlagRestart(w)
  <2>1. TypeOK'
    BY <1>10 DEF IInv, TypeOK, FlagRestart
  <2>2. AskedInSession' /\ OneRecovery'
    BY <1>10 DEF IInv, TypeOK, FlagRestart, AskedInSession, OneRecovery
  <2> QED
    BY <2>1, <2>2, <1>l DEF IInv
<1>11. CASE SendSignal(w)
  <2>1. TypeOK'
    BY <1>11 DEF IInv, TypeOK, SendSignal
  <2>2. AskedInSession' /\ OneRecovery'
    BY <1>11 DEF IInv, TypeOK, SendSignal, AskedInSession, OneRecovery
  <2> QED
    BY <2>1, <2>2, <1>l DEF IInv
<1> QED
  BY <1>1, <1>2, <1>3, <1>4, <1>5, <1>6, <1>7, <1>8, <1>9, <1>10, <1>11 DEF Work

----------------------------------------------------------------------------
(* The steps of the main loop. *)

LEMMA LeastBound == \A n \in 0 .. FailureLimit : Least(n + 1, FailureLimit) \in 0 .. FailureLimit
BY DEF Least, FailureLimit

LEMMA LoopKeeps ==
    ASSUME IInv,
           \/ Scan \/ Established \/ NotEstablished \/ StartPing
           \/ RestartSteps \/ Leave \/ CooldownEnds \/ End
    PROVE  IInv'
<1> USE DEF sharedVars, loopVars
<1>1. CASE Scan
  <2>1. TypeOK'
    BY <1>1 DEF IInv, TypeOK, Scan
  <2>2. LoopPlaces' /\ AskedInSession' /\ OneRecovery' /\ TokenUnspent'
    BY <1>1 DEF IInv, Scan, LoopPlaces, AskedInSession, OneRecovery, TokenUnspent, Off, Up, Stopped
  <2> QED
    BY <2>1, <2>2 DEF IInv
<1>2. CASE Established
  <2>0. mtu' \in Mtus /\ pc = "top" /\ scanned /\ Off(Workers) /\ ~resetPending /\ ~signal
    BY <1>2 DEF IInv, LoopPlaces, Established, TrySessionInit, Stopped
  <2>1. TypeOK'
    <3>1. 0 \in 0 .. FailureLimit
      BY DEF FailureLimit
    <3>2. at' \in [Workers -> {"off", "idle", "answer", "restart", "check", "arm", "stamp",
                               "rewind", "send"}]
      BY <1>2 DEF IInv, TypeOK, Established
    <3> QED
      BY <1>2, <2>0, <3>1, <3>2 DEF IInv, TypeOK, Established, ResetSessionInitState
  <2>2. LoopPlaces'
    BY <1>2, <2>0 DEF Established, LoopPlaces, Up, Stopped, Off
  <2>3. \A w \in Workers : at'[w] \in {"off", "idle"}
    BY <1>2, <2>0 DEF Established, Off
  <2>4. AskedInSession' /\ OneRecovery' /\ TokenUnspent'
    BY <1>2, <2>0, <2>3 DEF Established, ResetSessionInitState, AskedInSession, OneRecovery,
       TokenUnspent
  <2> QED
    BY <2>1, <2>2, <2>4 DEF IInv
<1>3. CASE NotEstablished
  <2>0. /\ mtu' \in Mtus /\ payload' \in Mtus /\ pc = "top" /\ Off(Workers)
        /\ ~ready /\ ~resetPending /\ ~signal
    BY <1>3 DEF IInv, LoopPlaces, NotEstablished, TrySessionInit, Stopped
  <2>1. TypeOK'
    BY <1>3, <2>0, LeastBound DEF IInv, TypeOK, NotEstablished, Activated
  <2>2. LoopPlaces'
    BY <1>3, <2>0 DEF NotEstablished, LoopPlaces, Up, Stopped, Off
  <2>3. AskedInSession' /\ OneRecovery' /\ TokenUnspent'
    BY <1>3, <2>0 DEF IInv, TypeOK, NotEstablished, AskedInSession, OneRecovery, TokenUnspent, Off
  <2> QED
    BY <2>1, <2>2, <2>3 DEF IInv
<1>4. CASE StartPing
  <2>1. TypeOK'
    <3>1. at' \in [Workers -> {"off", "idle", "answer", "restart", "check", "arm", "stamp",
                              "rewind", "send"}]
      BY <1>4 DEF IInv, TypeOK, StartPing
    <3>2. pc' = "wait" /\ UNCHANGED <<scanned, mtu, ready, payload, failures, cancelled, spent, sharedVars, ended>>
      BY <1>4 DEF StartPing
    <3> QED BY <3>1, <3>2 DEF IInv, TypeOK
  <2>2. LoopPlaces' /\ TokenUnspent'
    BY <1>4 DEF IInv, StartPing, LoopPlaces, TokenUnspent, Up, Stopped
  <2>3. AskedInSession' /\ OneRecovery'
    BY <1>4 DEF IInv, TypeOK, StartPing, AskedInSession, OneRecovery
  <2> QED
    BY <2>1, <2>2, <2>3 DEF IInv
<1>5. CASE TakeSignal
  <2>1. pc = "wait" /\ pc' = "join"
    BY <1>5, Orders DEF TakeSignal, Proceed
  <2>2. TypeOK'
    BY <1>5, <2>1 DEF IInv, TypeOK, TakeSignal, Workers
  <2>3. LoopPlaces' /\ AskedInSession' /\ OneRecovery' /\ TokenUnspent'
    BY <1>5, <2>1 DEF IInv, TakeSignal, LoopPlaces, AskedInSession, OneRecovery, TokenUnspent,
       Up, Stopped
  <2> QED
    BY <2>2, <2>3 DEF IInv
<1>6. CASE Joined
  <2>1. /\ Off(Async) /\ \/ pc = "join" /\ pc' = "joinPing"
                         \/ pc = "leave" /\ pc' = "leavePing"
    BY <1>6, Orders DEF Joined, Proceed, Waited
  <2>2. TypeOK'
    BY <1>6, <2>1 DEF IInv, TypeOK, Joined
  <2>3. LoopPlaces' /\ AskedInSession' /\ OneRecovery' /\ TokenUnspent'
    BY <1>6, <2>1 DEF IInv, Joined, LoopPlaces, AskedInSession, OneRecovery, TokenUnspent,
       Up, Stopped, Off
  <2> QED
    BY <2>2, <2>3 DEF IInv
<1>7. CASE JoinedPing
  <2>1. \/ pc = "joinPing" /\ pc' = "reset"
        \/ pc = "leavePing" /\ pc' = "returned"
    BY <1>7, Orders DEF JoinedPing, Proceed
  <2>2. Off(Workers)
    BY <1>7, <2>1 DEF IInv, JoinedPing, LoopPlaces, Waited, Off, Workers
  <2>3. TypeOK'
    BY <1>7, <2>1 DEF IInv, TypeOK, JoinedPing
  <2>4. LoopPlaces' /\ AskedInSession' /\ OneRecovery' /\ TokenUnspent'
    BY <1>7, <2>1, <2>2 DEF IInv, JoinedPing, LoopPlaces, AskedInSession, OneRecovery,
       TokenUnspent, Up, Stopped, Off
  <2> QED
    BY <2>3, <2>4 DEF IInv
<1>8. CASE ResetSessionState
  <2>1. pc = "reset" /\ pc' = "activate"
    BY <1>8, Orders DEF ResetSessionState, Proceed
  <2>2. TypeOK'
    BY <1>8, <2>1 DEF IInv, TypeOK, ResetSessionState, ResetSessionInitState
  <2>3. LoopPlaces' /\ AskedInSession' /\ OneRecovery' /\ TokenUnspent'
    BY <1>8, <2>1 DEF IInv, ResetSessionState, ResetSessionInitState, LoopPlaces, AskedInSession,
       OneRecovery, TokenUnspent, Up, Stopped, Off
  <2> QED
    BY <2>2, <2>3 DEF IInv
<1>9. CASE Activate
  <2>1. pc = "activate" /\ pc' = "clear" /\ Off(Workers)
    BY <1>9, Orders DEF Activate, Proceed, IInv, LoopPlaces, Stopped
  <2>2. TypeOK'
    BY <1>9, <2>1 DEF IInv, TypeOK, Activate, Activated
  <2>3. LoopPlaces' /\ AskedInSession' /\ OneRecovery' /\ TokenUnspent'
    BY <1>9, <2>1 DEF IInv, Activate, Activated, LoopPlaces, AskedInSession, OneRecovery,
       TokenUnspent, Up, Stopped, Off
  <2> QED
    BY <2>2, <2>3 DEF IInv
<1>10. CASE ClearFlag
  <2>1. pc = "clear" /\ pc' = "drain" /\ Off(Workers)
    BY <1>10, Orders DEF ClearFlag, Proceed, IInv, LoopPlaces, Stopped
  <2>2. TypeOK'
    BY <1>10, <2>1 DEF IInv, TypeOK, ClearFlag, Lowered
  <2>3. LoopPlaces' /\ AskedInSession' /\ OneRecovery' /\ TokenUnspent'
    BY <1>10, <2>1 DEF IInv, ClearFlag, Lowered, LoopPlaces, AskedInSession, OneRecovery,
       TokenUnspent, Up, Stopped, Off
  <2> QED
    BY <2>2, <2>3 DEF IInv
<1>11. CASE Drain
  <2>1. pc = "drain" /\ pc' = "top" /\ Off(Workers)
    BY <1>11, Orders DEF Drain, Proceed, IInv, LoopPlaces, Stopped
  <2>2. TypeOK'
    BY <1>11, <2>1, LeastBound DEF IInv, TypeOK, Drain
  <2>3. LoopPlaces' /\ AskedInSession' /\ OneRecovery' /\ TokenUnspent'
    BY <1>11, <2>1 DEF IInv, Drain, LoopPlaces, AskedInSession, OneRecovery, TokenUnspent,
       Up, Stopped, Off
  <2> QED
    BY <2>2, <2>3 DEF IInv
<1>12. CASE Leave
  <2>1. TypeOK'
    BY <1>12 DEF IInv, TypeOK, Leave, Workers
  <2>2. LoopPlaces' /\ AskedInSession' /\ OneRecovery' /\ TokenUnspent'
    BY <1>12 DEF IInv, Leave, LoopPlaces, AskedInSession, OneRecovery, TokenUnspent, Up, Stopped, Off
  <2> QED
    BY <2>1, <2>2 DEF IInv
<1>13. CASE CooldownEnds \/ End
  <2>1. TypeOK'
    <3>1. CASE CooldownEnds
      <4>1. cooldown' \in BOOLEAN
        BY <3>1 DEF CooldownEnds
      <4>2. /\ UNCHANGED <<loopVars, resetPending, signal, recovery, streak, asked>>
            /\ UNCHANGED <<at, ended>>
        BY <3>1 DEF CooldownEnds
      <4> QED
        BY <4>1, <4>2 DEF IInv, TypeOK
    <3>2. CASE End
      BY <3>2 DEF IInv, TypeOK, End
    <3> QED
      BY <1>13, <3>1, <3>2
  <2>2. LoopPlaces' /\ AskedInSession' /\ OneRecovery' /\ TokenUnspent'
    BY <1>13 DEF IInv, CooldownEnds, End, LoopPlaces, AskedInSession, OneRecovery, TokenUnspent, Off
  <2> QED
    BY <2>1, <2>2 DEF IInv
<1> QED
  BY <1>1, <1>2, <1>3, <1>4, <1>5, <1>6, <1>7, <1>8, <1>9, <1>10, <1>11, <1>12, <1>13
     DEF RestartSteps

LEMMA NextKeeps == IInv /\ [Next]_vars => IInv'
<1> SUFFICES ASSUME IInv, [Next]_vars PROVE IInv'
  OBVIOUS
<1>1. CASE Next
  BY <1>1, WorkerKeeps, LoopKeeps DEF Next
<1>2. CASE UNCHANGED vars
  BY <1>2 DEF IInv, TypeOK, LoopPlaces, AskedInSession, OneRecovery, TokenUnspent, Off,
     vars, loopVars, sharedVars
<1> QED
  BY <1>1, <1>2

----------------------------------------------------------------------------
(* The inductive invariant. *)
THEOREM Invariance == Spec => []IInv
BY InitHolds, NextKeeps, PTL DEF Spec

(* Type correctness of Run and of the goroutines that ask it to restart. *)
THEOREM TypeCorrect == Spec => []TypeOK
<1>1. IInv => TypeOK
  BY DEF IInv
<1> QED
  BY <1>1, Invariance, PTL

(* clearRuntimeResetRequest comes late enough: no request made while the   *)
(* old session is being stopped reaches the next one.                      *)
THEOREM RequestsStay == Spec => []RequestsDieWithSession
<1>1. IInv => RequestsDieWithSession
  BY DEF IInv, AskedInSession, RequestsDieWithSession
<1> QED
  BY <1>1, Invariance, PTL

(* No goroutine of the runtime is left when the MTU state is reset, the    *)
(* resolvers are scanned or Run has returned.                              *)
THEOREM QuietWhenReset == Spec => []Quiet
<1>1. IInv => Quiet
  BY DEF IInv, TypeOK, LoopPlaces, Quiet, Up, Stopped
<1> QED
  BY <1>1, Invariance, PTL

(* Two goroutines that decide on a recovery at once make one, and the next *)
(* waits for the cooldown of the last.                                     *)
THEOREM CooldownHolds == Spec => CooldownRespected
<1> DEFINE Begins == \/ recovery' /\ ~recovery
                     \/ ~scanned' /\ scanned /\ ~recovery
<1>1. ASSUME IInv, [Next]_vars, Begins PROVE ~cooldown
  <2>1. CASE \E w \in Workers : Answered(w) \/ AskRestart(w) \/ AskRecovery(w) \/ Work(w) \/ Exit(w)
    <3>1. PICK w \in Workers : Answered(w) \/ AskRestart(w) \/ AskRecovery(w) \/ Work(w) \/ Exit(w)
      BY <2>1
    <3>2. ArmRecovery(w) /\ ~recovery
      BY <1>1, <3>1 DEF Answered, AskRestart, AskRecovery, Work, Exit, ClearStreak,
         CheckCooldown, StampRecovery, RewindStreak, FlagRestart, SendSignal, ArmRecovery,
         loopVars, sharedVars
    <3> QED
      BY <1>1, <3>2 DEF IInv, OneRecovery, ArmRecovery
  <2>2. CASE NotEstablished
    BY <1>1, <2>2 DEF NotEstablished
  <2>3. CASE Activate
    BY <1>1, <2>3 DEF Activate, Activated
  <2>4. CASE \/ Scan \/ Established \/ StartPing \/ TakeSignal \/ Joined \/ JoinedPing
             \/ ResetSessionState \/ ClearFlag \/ Drain \/ Leave \/ CooldownEnds \/ End
             \/ UNCHANGED vars
    BY <1>1, <2>4 DEF Scan, Established, StartPing, TakeSignal, Joined, JoinedPing,
       ResetSessionState, ClearFlag, Drain, Leave, CooldownEnds, End, vars, loopVars, sharedVars
  <2> QED
    BY <1>1, <2>1, <2>2, <2>3, <2>4 DEF Next, RestartSteps
<1>2. IInv /\ [Next]_vars => [Begins => ~cooldown]_vars
  BY <1>1
<1> QED
  BY <1>2, Invariance, PTL DEF Spec, CooldownRespected

(* A SESSION_INIT that has established a session establishes no other. *)
THEOREM TokensAreFresh == Spec => FreshToken
<1>1. IInv /\ [Next]_vars => [ready' /\ ~ready => payload = None \/ ~spent]_vars
  BY DEF IInv, TokenUnspent
<1> QED
  BY <1>1, Invariance, PTL DEF Spec, FreshToken

(* Both, with the types they rest on.                                     *)
THEOREM RestartsAreClean == Spec => []RestartsClean
BY TypeCorrect, RequestsStay, QuietWhenReset, PTL DEF RestartsClean

HIDE ConstantsAssumption

----------------------------------------------------------------------------
(* The pool of resolvers. *)

(* Until the scan lets the connect go, no runtime is there, and the records *)
(* are those of the scan and of rechecks from before it.                    *)
Waiting ==
    ~released =>
      /\ step = Idle /\ candidates = {} /\ ~up /\ target = 0
      /\ \A r \in Resolvers :
           /\ ~source[r].reserve /\ scan[r] # "published"
           /\ scan[r] = "accepted" => source[r].ok

Running == (step # Idle \/ candidates # {} => up) /\ (up => target = 0)

(* What is published differs from what was decided in few ways. *)
Same ==
    released => \A r \in Resolvers :
      /\ snapshot[r].reserve = source[r].reserve
      /\ snapshot[r].ok /\ r \notin crossed => source[r].ok

Live(s, r) == probes[s] # Free /\ probes[s].of = r /\ ~probes[s].stray
Marks ==
    \A r \in Resolvers :
      /\ r \in marked <=> \E s \in 1..Slots : Live(s, r)
      /\ \A s, t \in 1..Slots : Live(s, r) /\ Live(t, r) => s = t

(* What the health loop disables is not rechecked. *)
Apart ==
    \A s \in 1..Slots : probes[s] # Free =>
      probes[s].of \notin candidates /\ (step # Idle => probes[s].of # step.of)

Disabling ==
    step # Idle /\ step.of \notin crossed =>
      IF step.at = "marked" THEN snapshot[step.of].ok ELSE ~source[step.of].ok /\ ~snapshot[step.of].ok

Room ==
    /\ step.at = "marked" /\ crossed = {} => \E q \in Valid(snapshot) : q # step.of
    /\ step.at = "marked" /\ HighPool = 0 /\ crossed = {} /\ demoted = {} =>
         /\ step.of \in Primary(snapshot) => Cardinality(Primary(snapshot)) > Floor
         /\ Primary(snapshot) = {} => Cardinality(Valid(snapshot)) > Floor

Now == IF target > 0 THEN target ELSE synced
Sized(c) ==
    \A r \in Valid(c) \ outrun :
      /\ 0 < c[r].size /\ c[r].size <= Path[r]
      /\ released => c[r].reserve \/ c[r].size >= Now \/ (scan[r] = "accepted" /\ c[r].size = Path[r])

Probed ==
    \A s \in 1..Slots : probes[s].at \in {"passed", "applied"} /\ probes[s].of \notin outrun =>
      /\ probes[s].size = synced /\ 0 < synced /\ synced <= Path[probes[s].of]
      /\ probes[s].at = "applied" =>
           synced <= source[probes[s].of].size /\ source[probes[s].of].size <= Path[probes[s].of]

PoolInv == /\ PoolTypeOK /\ Waiting /\ Running /\ Same /\ Marks /\ Apart /\ Disabling /\ Room
           /\ Sized(source) /\ Sized(snapshot) /\ Probed /\ FloorKept /\ OutIsOut /\ PublishedIsTrue

USE PoolAssumption

----------------------------------------------------------------------------
(* A transitive and irreflexive relation has a least element on a finite set. *)
LEMMA LeastExists ==
    ASSUME NEW S, IsFiniteSet(S), S # {}, NEW R,
           \A x \in S : <<x, x>> \notin R,
           \A x, y, z \in S : <<x, y>> \in R /\ <<y, z>> \in R => <<x, z>> \in R
    PROVE  \E x \in S : \A y \in S : <<y, x>> \notin R
<1> DEFINE Below(x) == {y \in S : <<y, x>> \in R}
           T == {Below(x) : x \in S}
<1>1. T \subseteq FiniteSubsetsOf(S) /\ T # {}
  <2>1. \A x \in S : Below(x) \in SUBSET S /\ IsFiniteSet(Below(x))
    BY FS_Subset
  <2>2. \A x \in S : Below(x) \in FiniteSubsetsOf(S)
    BY <2>1 DEF FiniteSubsetsOf
  <2> HIDE DEF Below
  <2>3. T # {}
    OBVIOUS
  <2> QED BY <2>2, <2>3
<1>2. IsWellFoundedOn(StrictSubsetOrdering(S), FiniteSubsetsOf(S))
  BY FS_StrictSubsetOrderingWellFounded
<1>3. PICK B \in T : \A C \in T : <<C, B>> \notin StrictSubsetOrdering(S)
  <2> HIDE DEF T
  <2> QED BY <1>1, <1>2, WFMin
<1>4. PICK x \in S : B = Below(x)
  BY <1>3
<1>5. ASSUME NEW y \in S, <<y, x>> \in R PROVE FALSE
  <2>1. Below(y) \in T
    <3> HIDE DEF Below
    <3> QED OBVIOUS
  <2>4. Below(y) \in SUBSET S /\ Below(x) \in SUBSET S
    OBVIOUS
  <2>2. Below(y) \subseteq Below(x) /\ Below(y) # Below(x)
    BY <1>5
  <2>3. <<Below(y), Below(x)>> \in StrictSubsetOrdering(S)
    BY <2>2, <2>4 DEF StrictSubsetOrdering
  <2> QED BY <1>3, <1>4, <2>1, <2>3
<1> QED BY <1>5

LEMMA MinIs ==
    ASSUME NEW S, S \subseteq Int, IsFiniteSet(S), S # {}
    PROVE  Min(S) \in S /\ \A y \in S : Min(S) <= y
<1> DEFINE R == {p \in S \X S : p[1] < p[2]}
<1>0. \A x, y \in S : <<x, y>> \in R <=> x < y
  OBVIOUS
<1> HIDE DEF R
<1>1. PICK x \in S : \A y \in S : <<y, x>> \notin R
  <2>2. \A x \in S : <<x, x>> \notin R
    BY <1>0
  <2>3. \A x, y, z \in S : <<x, y>> \in R /\ <<y, z>> \in R => <<x, z>> \in R
    BY <1>0
  <2> QED BY <2>2, <2>3, LeastExists
<1>2. ASSUME NEW y \in S PROVE x <= y
  <2>1. ~(y < x)
    BY <1>0, <1>1
  <2> QED BY <2>1
<1> QED BY <1>2 DEF Min

LEMMA MaxIs ==
    ASSUME NEW S, S \subseteq Int, IsFiniteSet(S), S # {}
    PROVE  Max(S) \in S /\ \A y \in S : y <= Max(S)
<1> DEFINE R == {p \in S \X S : p[2] < p[1]}
<1>0. \A x, y \in S : <<x, y>> \in R <=> y < x
  OBVIOUS
<1> HIDE DEF R
<1>1. PICK x \in S : \A y \in S : <<y, x>> \notin R
  <2>2. \A x \in S : <<x, x>> \notin R
    BY <1>0
  <2>3. \A x, y, z \in S : <<x, y>> \in R /\ <<y, z>> \in R => <<x, z>> \in R
    BY <1>0
  <2> QED BY <2>2, <2>3, LeastExists
<1>2. ASSUME NEW y \in S PROVE y <= x
  <2>1. ~(x < y)
    BY <1>0, <1>1
  <2> QED BY <2>1
<1> QED BY <1>2 DEF Max

LEMMA ResolversFinite ==
    /\ IsFiniteSet(Resolvers) /\ Resolvers # {} /\ Resolvers \subseteq Nat \ {0}
    /\ \A r \in Resolvers : Path[r] \in Nat /\ 1 .. r - 1 \subseteq Resolvers
    /\ \A S \in SUBSET Resolvers : IsFiniteSet(S) /\ Cardinality(S) \in Nat
<1>1. Resolvers = 1 .. Len(Path) /\ Len(Path) \in Nat /\ Len(Path) # 0
  BY DEF Resolvers
<1>2. IsFiniteSet(Resolvers)
  BY <1>1, FS_Interval
<1>3. \A r \in Resolvers : Path[r] \in Nat
  BY DEF Resolvers
<1>4. \A S \in SUBSET Resolvers : IsFiniteSet(S) /\ Cardinality(S) \in Nat
  BY <1>2, FS_Subset, FS_CardinalityType
<1>5. \A r \in Resolvers : 1 .. r - 1 \subseteq Resolvers
  BY <1>1
<1> QED BY <1>1, <1>2, <1>3, <1>4, <1>5

LEMMA MoreCount ==
    ASSUME NEW S, NEW T, S \subseteq T, T \subseteq Resolvers
    PROVE  Cardinality(S) \in Nat /\ Cardinality(T) \in Nat /\ Cardinality(S) <= Cardinality(T)
<1>1. S \in SUBSET Resolvers /\ T \in SUBSET Resolvers
  OBVIOUS
<1> QED BY <1>1, ResolversFinite, FS_Subset

LEMMA OneLess ==
    ASSUME NEW S, S \subseteq Resolvers, NEW r
    PROVE  Cardinality(S) \in Nat /\ Cardinality(S \ {r}) \in Nat /\ Cardinality(S \ {r}) >= Cardinality(S) - 1
<1>1. /\ IsFiniteSet(S) /\ Cardinality(S) \in Nat
      /\ IsFiniteSet(S \ {r}) /\ Cardinality(S \ {r}) \in Nat
  <2>1. S \in SUBSET Resolvers /\ S \ {r} \in SUBSET Resolvers
    OBVIOUS
  <2> QED BY <2>1, ResolversFinite
<1>2. CASE r \in S
  <2>1. Cardinality(S \ {r}) = Cardinality(S) - 1
    BY <1>1, <1>2, FS_RemoveElement
  <2> QED BY <1>1, <2>1
<1>3. CASE r \notin S
  <2>1. S \ {r} = S
    BY <1>3
  <2>2. Cardinality(S \ {r}) = Cardinality(S)
    BY <2>1
  <2> QED BY <1>1, <2>2
<1> QED BY <1>2, <1>3

LEMMA SizesNat == Sizes \subseteq Nat /\ 0 \in Sizes /\ \A r \in Resolvers : Path[r] \in Sizes
  BY ResolversFinite DEF Sizes

(* The operating point is a size that some resolver of the pool has, or none. *)
LEMMA OperatingPointIs ==
    ASSUME NEW c \in Connections, NEW rs, rs \subseteq Resolvers
    PROVE  OperatingPoint(c, rs) \in {0} \cup {c[r].size : r \in rs} /\ OperatingPoint(c, rs) \in Sizes
<1> DEFINE sizes == {c[r].size : r \in rs} \ {0}
           score(s) == s * Cardinality(Sustain(c, rs, s))
           best  == {s \in sizes : \A t \in sizes : score(t) < score(s) \/ (score(t) = score(s) /\ t <= s)}
           wide  == {s \in sizes : Cardinality(Sustain(c, rs, s)) >= HighPool}
           point == IF sizes = {} THEN 0 ELSE IF HighPool > 0 /\ wide # {} THEN Max(wide) ELSE CHOOSE s \in best : TRUE
<1>1. OperatingPoint(c, rs) = point
  BY DEF OperatingPoint
<1>2. \A r \in rs : c[r].size \in Sizes
  BY DEF Connections
<1>3. sizes \subseteq Sizes /\ sizes \subseteq Nat
  BY <1>2, SizesNat
<1>4. IsFiniteSet(sizes)
  <2>1. IsFiniteSet(rs)
    BY ResolversFinite
  <2> DEFINE f == [r \in rs |-> c[r].size]
  <2>3. IsFiniteSet({f[r] : r \in rs})
    <3>1. f \in [rs -> {f[r] : r \in rs}]
      OBVIOUS
    <3> HIDE DEF f
    <3>2. f \in Surjection(rs, {f[r] : r \in rs})
      BY <3>1 DEF Surjection
    <3> QED BY <2>1, <3>2, FS_Surjection
  <2>4. {f[r] : r \in rs} = {c[r].size : r \in rs}
    OBVIOUS
  <2>2. IsFiniteSet({c[r].size : r \in rs})
    BY <2>3, <2>4
  <2> QED BY <2>2, FS_Subset
<1>5. ASSUME sizes # {} PROVE best # {}
  <2>1. \A s \in sizes : score(s) \in Nat
    <3>1. ASSUME NEW s \in sizes PROVE Cardinality(Sustain(c, rs, s)) \in Nat
      <4>1. Sustain(c, rs, s) \subseteq Resolvers
        BY DEF Sustain
      <4> QED BY <4>1, ResolversFinite
    <3>2. \A m, n \in Nat : m * n \in Nat
      OBVIOUS
    <3> QED BY <1>3, <3>1, <3>2
  <2> DEFINE R == {p \in sizes \X sizes : ~(score(p[1]) < score(p[2]) \/ (score(p[1]) = score(p[2]) /\ p[1] <= p[2]))}
  <2>2. \A x, y \in sizes : <<x, y>> \in R <=> ~(score(x) < score(y) \/ (score(x) = score(y) /\ x <= y))
    OBVIOUS
  <2> HIDE DEF sizes, score, R
  <2>3. \A x \in sizes : <<x, x>> \notin R
    BY <1>3, <2>1, <2>2
  <2>4. ASSUME NEW x \in sizes, NEW y \in sizes, NEW z \in sizes, <<x, y>> \in R, <<y, z>> \in R
        PROVE  <<x, z>> \in R
    <3>1. x \in Nat /\ y \in Nat /\ z \in Nat /\ score(x) \in Nat /\ score(y) \in Nat /\ score(z) \in Nat
      BY <1>3, <2>1
    <3>2. /\ ~(score(x) < score(y)) /\ ~(score(x) = score(y) /\ x <= y)
          /\ ~(score(y) < score(z)) /\ ~(score(y) = score(z) /\ y <= z)
      BY <2>2, <2>4
    <3>3. ~(score(x) < score(z)) /\ ~(score(x) = score(z) /\ x <= z)
      BY <3>1, <3>2
    <3> QED BY <2>2, <3>3
  <2>5. PICK x \in sizes : \A y \in sizes : <<y, x>> \notin R
    BY <1>4, <1>5, <2>3, <2>4, LeastExists
  <2>6. x \in best
    BY <2>2, <2>5
  <2> QED BY <2>6
<1>6. ASSUME wide # {} PROVE Max(wide) \in wide
  <2>1. wide \subseteq Int /\ IsFiniteSet(wide)
    <3>1. wide \in SUBSET sizes
      OBVIOUS
    <3> HIDE DEF sizes, wide
    <3>2. IsFiniteSet(wide)
      BY <1>4, <3>1, FS_Subset
    <3> QED BY <1>3, <3>1, <3>2
  <2> HIDE DEF wide
  <2> QED BY <1>6, <2>1, MaxIs
<1>7. point \in {0} \cup sizes
  <2>1. wide \subseteq sizes /\ best \subseteq sizes
    OBVIOUS
  <2> HIDE DEF sizes, best, wide
  <2> QED BY <1>5, <1>6, <2>1
<1>8. point \in {0} \cup {c[r].size : r \in rs} /\ point \in Sizes
  <2> HIDE DEF point
  <2> QED BY <1>3, <1>7, SizesNat
<1> QED BY <1>1, <1>8

----------------------------------------------------------------------------
(* What the steps make of the records. *)
Conn == [ok : BOOLEAN, reserve : BOOLEAN, size : Sizes]

(* Only r's records change. *)
Differs(r) == \A q \in Resolvers \ {r} : source'[q] = source[q] /\ snapshot'[q] = snapshot[q]

LEMMA ConnectionsAre == Connections = [Resolvers -> Conn]
BY DEF Connections, Conn

LEMMA OkWritten ==
    ASSUME NEW v \in Conn, NEW ok \in BOOLEAN, NEW w, w = [v EXCEPT !.ok = ok]
    PROVE  w \in Conn /\ w.ok = ok /\ w.reserve = v.reserve /\ w.size = v.size
BY DEF Conn

LEMMA OkOrNot ==
    ASSUME NEW v \in Conn, NEW w
    PROVE  /\ w = [v EXCEPT !.ok = TRUE] => w \in Conn /\ w.ok = TRUE /\ w.reserve = v.reserve /\ w.size = v.size
           /\ w = [v EXCEPT !.ok = FALSE] => w \in Conn /\ w.ok = FALSE /\ w.reserve = v.reserve /\ w.size = v.size
BY DEF Conn

LEMMA SizeWritten ==
    ASSUME NEW v \in Conn, NEW size \in Sizes, NEW w, w = [v EXCEPT !.size = size]
    PROVE  w \in Conn /\ w.ok = v.ok /\ w.reserve = v.reserve /\ w.size = size
BY DEF Conn

LEMMA ReserveWritten ==
    ASSUME NEW v \in Conn, NEW reserve \in BOOLEAN, NEW w, w = [v EXCEPT !.reserve = reserve]
    PROVE  w \in Conn /\ w.ok = v.ok /\ w.reserve = reserve /\ w.size = v.size
BY DEF Conn

LEMMA ConnOf == ASSUME NEW c \in Connections, NEW r \in Resolvers
                PROVE  c[r] \in Conn /\ c[r].ok \in BOOLEAN /\ c[r].reserve \in BOOLEAN /\ c[r].size \in Sizes /\ c[r].size \in Nat
BY SizesNat DEF Connections, Conn

LEMMA SetValidityDoes ==
    ASSUME PoolTypeOK, NEW r \in Resolvers, NEW ok \in BOOLEAN, SetValidity(r, ok)
    PROVE  /\ source' \in Connections /\ snapshot' \in Connections /\ Differs(r)
           /\ source'[r].ok = ok /\ source'[r].reserve = source[r].reserve /\ source'[r].size = source[r].size
           /\ snapshot'[r] = source'[r]
<1>0. source \in Connections /\ snapshot \in Connections
  BY DEF PoolTypeOK
<1>a. source[r] \in Conn /\ source[r].reserve \in BOOLEAN /\ source[r].ok \in BOOLEAN
  BY <1>0, ConnOf
<1>1. PICK w : w = [source[r] EXCEPT !.ok = ok]
  OBVIOUS
<1>2. w \in Conn /\ w.ok = ok /\ w.reserve = source[r].reserve /\ w.size = source[r].size
  BY <1>1, <1>a, OkWritten
<1>3. source' = [source EXCEPT ![r] = w] /\ snapshot' = [snapshot EXCEPT ![r] = w]
  BY <1>1 DEF SetValidity
<1>4. source' \in Connections /\ source'[r] = w /\ \A q \in Resolvers \ {r} : source'[q] = source[q]
  BY <1>0, <1>2, <1>3, ConnectionsAre
<1>5. snapshot' \in Connections /\ snapshot'[r] = w /\ \A q \in Resolvers \ {r} : snapshot'[q] = snapshot[q]
  BY <1>0, <1>2, <1>3, ConnectionsAre
<1> QED BY <1>2, <1>4, <1>5 DEF Differs

LEMMA SetSizeDoes ==
    ASSUME PoolTypeOK, NEW r \in Resolvers, NEW size \in Sizes, SetSize(r, size)
    PROVE  /\ source' \in Connections /\ snapshot' \in Connections /\ Differs(r)
           /\ source'[r].ok = source[r].ok /\ source'[r].reserve = source[r].reserve /\ source'[r].size = size
           /\ snapshot'[r] = source'[r]
<1>0. source \in Connections /\ snapshot \in Connections
  BY DEF PoolTypeOK
<1>a. source[r] \in Conn /\ source[r].reserve \in BOOLEAN /\ source[r].ok \in BOOLEAN
  BY <1>0, ConnOf
<1>1. PICK w : w = [source[r] EXCEPT !.size = size]
  OBVIOUS
<1>2. w \in Conn /\ w.ok = source[r].ok /\ w.reserve = source[r].reserve /\ w.size = size
  BY <1>1, <1>a, SizeWritten
<1>3. source' = [source EXCEPT ![r] = w] /\ snapshot' = [snapshot EXCEPT ![r] = w]
  BY <1>1 DEF SetSize
<1>4. source' \in Connections /\ source'[r] = w /\ \A q \in Resolvers \ {r} : source'[q] = source[q]
  BY <1>0, <1>2, <1>3, ConnectionsAre
<1>5. snapshot' \in Connections /\ snapshot'[r] = w /\ \A q \in Resolvers \ {r} : snapshot'[q] = snapshot[q]
  BY <1>0, <1>2, <1>3, ConnectionsAre
<1> QED BY <1>2, <1>4, <1>5 DEF Differs

LEMMA AcceptDoes ==
    ASSUME PoolTypeOK, NEW r \in Resolvers, Accept(r)
    PROVE  /\ source' \in Connections /\ Differs(r)
           /\ source'[r].ok /\ source'[r].reserve = source[r].reserve /\ source'[r].size = Path[r]
<1>0. source \in Connections /\ snapshot \in Connections
  BY DEF PoolTypeOK
<1>a. source[r] \in Conn /\ source[r].reserve \in BOOLEAN /\ source[r].ok \in BOOLEAN
  BY <1>0, ConnOf
<1>1. PICK v : v = [source[r] EXCEPT !.ok = TRUE]
  OBVIOUS
<1>2. v \in Conn /\ v.ok = TRUE /\ v.reserve = source[r].reserve
  BY <1>1, <1>a, OkOrNot
<1>3. PICK w : w = [v EXCEPT !.size = Path[r]]
  OBVIOUS
<1>4. w \in Conn /\ w.ok = TRUE /\ w.reserve = source[r].reserve /\ w.size = Path[r]
  BY <1>2, <1>3, SizesNat, SizeWritten
<1>5. source' = [source EXCEPT ![r] = w] /\ snapshot' = snapshot
  BY <1>1, <1>3 DEF Accept, PoolTypeOK, Connections
<1>6. source' \in Connections /\ source'[r] = w /\ \A q \in Resolvers \ {r} : source'[q] = source[q]
  BY <1>0, <1>4, <1>5, ConnectionsAre
<1> QED BY <1>4, <1>5, <1>6 DEF Differs

LEMMA RejectDoes ==
    ASSUME PoolTypeOK, NEW r \in Resolvers, Reject(r)
    PROVE  /\ source' \in Connections /\ Differs(r)
           /\ ~source'[r].ok /\ source'[r].reserve = source[r].reserve /\ source'[r].size = source[r].size
<1>0. source \in Connections /\ snapshot \in Connections
  BY DEF PoolTypeOK
<1>a. source[r] \in Conn /\ source[r].reserve \in BOOLEAN /\ source[r].ok \in BOOLEAN
  BY <1>0, ConnOf
<1>1. PICK w : w = [source[r] EXCEPT !.ok = FALSE]
  OBVIOUS
<1>2. w \in Conn /\ w.ok = FALSE /\ w.reserve = source[r].reserve /\ w.size = source[r].size
  BY <1>1, <1>a, OkOrNot
<1>3. source' = [source EXCEPT ![r] = w] /\ snapshot' = snapshot
  BY <1>1 DEF Reject
<1>6. source' \in Connections /\ source'[r] = w /\ \A q \in Resolvers \ {r} : source'[q] = source[q]
  BY <1>0, <1>2, <1>3, ConnectionsAre
<1> QED BY <1>2, <1>3, <1>6 DEF Differs

LEMMA PublishDoes ==
    ASSUME PoolTypeOK, NEW r \in Resolvers, Publish(r)
    PROVE  /\ source' \in Connections /\ snapshot' = source'
           /\ \A q \in Resolvers \ {r} : source'[q] = source[q]
           /\ source'[r].ok = source[r].ok /\ source'[r].size = source[r].size
           /\ source'[r].reserve <=> source[r].reserve \/ Path[r] < synced
<1>0. source \in Connections /\ snapshot \in Connections
  BY DEF PoolTypeOK
<1>a. source[r] \in Conn /\ source[r].reserve \in BOOLEAN /\ source[r].ok \in BOOLEAN
  BY <1>0, ConnOf
<1>1. PICK w : w = [source[r] EXCEPT !.reserve = @ \/ Path[r] < synced]
  OBVIOUS
<1>2. /\ w \in Conn /\ w.ok = source[r].ok /\ w.size = source[r].size
      /\ w.reserve <=> source[r].reserve \/ Path[r] < synced
  <2>1. PICK b \in BOOLEAN : b <=> source[r].reserve \/ Path[r] < synced
    OBVIOUS
  <2>2. w = [source[r] EXCEPT !.reserve = b]
    <3>2. b = (source[r].reserve \/ Path[r] < synced)
      BY <2>1
    <3> QED BY <1>1, <3>2
  <2> QED BY <1>a, <2>1, <2>2, ReserveWritten
<1>3. source' = [source EXCEPT ![r] = w] /\ snapshot' = source'
  BY <1>1 DEF Publish
<1>6. source' \in Connections /\ source'[r] = w /\ \A q \in Resolvers \ {r} : source'[q] = source[q]
  BY <1>0, <1>2, <1>3, ConnectionsAre
<1> QED BY <1>2, <1>3, <1>6

LEMMA ReclassifyDoes ==
    ASSUME PoolTypeOK, NEW size \in Sizes, Reclassify(size)
    PROVE  /\ source' \in Connections /\ snapshot' = source'
           /\ \A q \in Resolvers :
                /\ source'[q].ok = source[q].ok /\ source'[q].size = source[q].size
                /\ source'[q].reserve <=> source[q].ok /\ source[q].size < size
<1>1. ASSUME NEW q \in Resolvers
      PROVE  /\ source'[q] \in Conn /\ source'[q].ok = source[q].ok /\ source'[q].size = source[q].size
             /\ source'[q].reserve <=> source[q].ok /\ source[q].size < size
  <2>1. PICK b \in BOOLEAN : b = (source[q].ok /\ source[q].size < size)
    OBVIOUS
  <2>2. source'[q] = [source[q] EXCEPT !.reserve = b]
    BY <2>1 DEF Reclassify
  <2>3. source[q] \in Conn
    BY ConnOf DEF PoolTypeOK
  <2>4. /\ source'[q] \in Conn /\ source'[q].ok = source[q].ok /\ source'[q].size = source[q].size
        /\ source'[q].reserve = b
    BY <2>2, <2>3, ReserveWritten
  <2> QED BY <2>1, <2>4
<1>2. source' \in Connections
  <2>1. source' = [q \in Resolvers |-> source'[q]]
    BY DEF Reclassify
  <2> QED BY <1>1, <2>1 DEF Connections, Conn
<1> QED BY <1>1, <1>2 DEF Reclassify

(* What the connect is let go with. *)
LEMMA FinalizeDoes ==
    ASSUME PoolTypeOK, Waiting, ~released, Measured(source) # {}, Finalize
    PROVE  /\ source' \in Connections /\ snapshot' = source' /\ synced' \in Sizes
           /\ \A q \in Resolvers :
                /\ source'[q].ok = source[q].ok /\ source'[q].size = source[q].size
                /\ source[q].ok /\ source[q].size # 0 => source'[q].reserve \/ source'[q].size >= synced'
<1> DEFINE valid == Valid(source)
           least == Min(Measured(source))
           point == OperatingPoint(source, valid)
           split == Grouping /\ Sustain(source, valid, point) # valid
           below == {r \in valid : ~source[r].reserve /\ source[r].size < point}
           size  == IF split /\ below # {} THEN point ELSE least
<1>1. /\ source' = [r \in Resolvers |-> IF split /\ r \in below THEN [source[r] EXCEPT !.reserve = TRUE] ELSE source[r]]
      /\ snapshot' = source' /\ synced' = size
  BY DEF Finalize
<1>2. valid \subseteq Resolvers
  BY DEF Valid
<1>3. least \in Sizes /\ \A r \in valid : source[r].size # 0 => least <= source[r].size
  <2> DEFINE S == {source[r].size : r \in valid}
             M == Measured(source)
  <2>0. M # {} /\ M = S \ {0}
    BY DEF Measured
  <2>1. S \subseteq Sizes /\ S \subseteq Nat /\ M # {} /\ M = S \ {0}
    <3>1. S \subseteq Sizes /\ S \subseteq Nat
      BY <1>2, ConnOf DEF PoolTypeOK
    <3> QED BY <2>0, <3>1
  <2>2. IsFiniteSet(S)
    <3> DEFINE f == [r \in valid |-> source[r].size]
    <3>1. f \in [valid -> S] /\ \A x \in S : \E r \in valid : f[r] = x
      OBVIOUS
    <3>2. f \in Surjection(valid, S)
      <4> HIDE DEF f, S
      <4> QED BY <3>1 DEF Surjection
    <3>3. IsFiniteSet(valid)
      BY <1>2, ResolversFinite
    <3> HIDE DEF f, S
    <3> QED BY <3>2, <3>3, FS_Surjection
  <2>3. Min(M) \in M /\ \A y \in M : Min(M) <= y
    <3>1. M \subseteq Int /\ IsFiniteSet(M)
      <4> HIDE DEF M, S
      <4> QED BY <2>1, <2>2, FS_Subset
    <3> HIDE DEF M, S
    <3> QED BY <2>1, <3>1, MinIs
  <2>4. \A r \in valid : source[r].size \in S
    OBVIOUS
  <2> HIDE DEF M, S
  <2> QED BY <2>1, <2>3, <2>4 DEF M
<1>4. point \in Sizes
  BY <1>2, OperatingPointIs DEF PoolTypeOK
<1>5. size \in Sizes
  BY <1>3, <1>4
<1>6. ASSUME NEW q \in Resolvers
      PROVE  /\ source'[q] \in Conn /\ source'[q].ok = source[q].ok /\ source'[q].size = source[q].size
             /\ source[q].ok /\ source[q].size # 0 => source'[q].reserve \/ source'[q].size >= synced'
  <2>1. source[q] \in Conn /\ source[q].size \in Nat /\ ~source[q].reserve
    BY ConnOf DEF PoolTypeOK, Waiting
  <2>2. CASE split /\ q \in below
    <3>1. source'[q] = [source[q] EXCEPT !.reserve = TRUE]
      BY <1>1, <2>2
    <3> QED BY <2>1, <3>1, ReserveWritten
  <2>3. CASE ~(split /\ q \in below)
    <3>1. source'[q] = source[q]
      BY <1>1, <2>3
    <3>2. ASSUME source[q].ok, source[q].size # 0 PROVE source[q].size >= size
      <4>1. q \in valid
        BY <3>2 DEF Valid
      <4>2. CASE split /\ below # {}
        <5>1. q \notin below
          BY <2>3, <4>2
        <5>2. ~(source[q].size < point)
          BY <2>1, <4>1, <5>1
        <5>3. point \in Nat
          BY <1>4, SizesNat
        <5>4. size = point
          BY <4>2
        <5> HIDE DEF point, size
        <5> QED BY <2>1, <5>2, <5>3, <5>4
      <4>3. CASE ~(split /\ below # {})
        <5>1. size = least
          BY <4>3
        <5>2. least \in Nat /\ least <= source[q].size
          BY <1>3, <3>2, <4>1, SizesNat
        <5> HIDE DEF least, size
        <5> QED BY <2>1, <5>1, <5>2
      <4> QED BY <4>2, <4>3
    <3> HIDE DEF size
    <3> QED BY <1>1, <2>1, <3>1, <3>2
  <2> QED BY <2>2, <2>3
<1>7. source' \in Connections
  <2>1. source' = [q \in Resolvers |-> source'[q]]
    BY <1>1
  <2> HIDE DEF split, below
  <2> QED BY <1>6, <2>1 DEF Connections, Conn
<1> HIDE DEF size
<1> QED BY <1>1, <1>5, <1>6, <1>7

(* What the steps make of the rechecks that are out. *)
LEMMA ProbeIs ==
    ASSUME PoolTypeOK, NEW s \in 1..Slots
    PROVE  \/ probes[s] = Free /\ probes[s].at = "free"
           \/ /\ probes[s] # Free /\ probes[s] \in Rechecks /\ probes[s].of \in Resolvers
              /\ probes[s].at \in {"probing", "passed", "applied", "active"}
              /\ probes[s].size \in Sizes /\ probes[s].stray \in BOOLEAN
<1>1. probes[s] \in {Free} \cup Rechecks
  BY DEF PoolTypeOK
<1>2. ASSUME NEW p \in Rechecks PROVE p # Free /\ p.at \in {"probing", "passed", "applied", "active"}
                                       /\ p.of \in Resolvers /\ p.size \in Sizes /\ p.stray \in BOOLEAN
  BY DEF Rechecks, Free
<1> QED BY <1>1, <1>2 DEF Free

LEMMA StepIs ==
    ASSUME PoolTypeOK
    PROVE  \/ step = Idle /\ step.at = "idle"
           \/ step # Idle /\ step.of \in Resolvers /\ step.at \in {"marked", "out"}
<1>1. step \in {Idle} \cup [at : {"marked", "out"}, of : Resolvers]
  BY DEF PoolTypeOK
<1>2. ASSUME NEW p \in [at : {"marked", "out"}, of : Resolvers]
      PROVE  p # Idle /\ p.at \in {"marked", "out"} /\ p.of \in Resolvers
  BY DEF Idle
<1> QED BY <1>1, <1>2 DEF Idle

LEMMA StrayWritten ==
    ASSUME NEW v \in Rechecks, NEW b \in BOOLEAN, NEW w, w = [v EXCEPT !.stray = b]
    PROVE  w \in Rechecks /\ w.at = v.at /\ w.of = v.of /\ w.size = v.size /\ w.stray = b
BY DEF Rechecks

LEMMA AtWritten ==
    ASSUME NEW v \in Rechecks, NEW a \in {"probing", "passed", "applied", "active"}, NEW w, w = [v EXCEPT !.at = a]
    PROVE  w \in Rechecks /\ w.at = a /\ w.of = v.of /\ w.size = v.size /\ w.stray = v.stray
BY DEF Rechecks

LEMMA ProbeSizeWritten ==
    ASSUME NEW v \in Rechecks, NEW z \in Sizes, NEW w, w = [v EXCEPT !.size = z]
    PROVE  w \in Rechecks /\ w.at = v.at /\ w.of = v.of /\ w.size = z /\ w.stray = v.stray
BY DEF Rechecks

(* A recheck is where it was. *)
Alike(t) ==
    /\ probes'[t] = Free <=> probes[t] = Free
    /\ probes'[t].at = probes[t].at
    /\ probes[t] # Free => probes'[t].of = probes[t].of /\ probes'[t].size = probes[t].size

LEMMA ForgetDoes ==
    ASSUME PoolTypeOK, ForgetRechecks
    PROVE  /\ probes' \in [1..Slots -> {Free} \cup Rechecks]
           /\ \A t \in 1..Slots : Alike(t) /\ (probes[t] # Free => probes'[t].stray)
<1>1. ASSUME NEW t \in 1..Slots
      PROVE  probes'[t] \in {Free} \cup Rechecks /\ Alike(t) /\ (probes[t] # Free => probes'[t].stray)
  <2>0. probes'[t] = IF probes[t] = Free THEN Free ELSE [probes[t] EXCEPT !.stray = TRUE]
    BY DEF ForgetRechecks
  <2>1. CASE probes[t] = Free
    BY <2>0, <2>1 DEF Alike
  <2>2. CASE probes[t] # Free
    <3>1. probes[t] \in Rechecks
      BY <2>2, ProbeIs
    <3>2. PICK b \in BOOLEAN : b = TRUE
      OBVIOUS
    <3>3. probes'[t] = [probes[t] EXCEPT !.stray = b]
      BY <2>0, <2>2, <3>2
    <3>4. /\ probes'[t] \in Rechecks /\ probes'[t].at = probes[t].at /\ probes'[t].of = probes[t].of
          /\ probes'[t].size = probes[t].size /\ probes'[t].stray = b
      BY <3>1, <3>3, StrayWritten
    <3>5. probes'[t] # Free
      BY <3>4 DEF Rechecks, Free
    <3> QED BY <2>2, <3>2, <3>4, <3>5 DEF Alike
  <2> QED BY <2>1, <2>2
<1>2. probes' = [t \in 1..Slots |-> probes'[t]]
  BY DEF ForgetRechecks
<1> QED BY <1>1, <1>2

LEMMA EndsDoes ==
    ASSUME PoolTypeOK, NEW s \in 1..Slots, probes[s] # Free, Ends(s)
    PROVE  /\ probes' \in [1..Slots -> {Free} \cup Rechecks] /\ probes'[s] = Free
           /\ \A t \in 1..Slots \ {s} :
                Alike(t) /\ (probes[t] # Free =>
                               (probes'[t].stray <=> probes[t].stray \/ probes[t].of = probes[s].of))
<1>0. probes'[s] = Free
  BY DEF Ends
<1>1. ASSUME NEW t \in 1..Slots \ {s}
      PROVE  /\ probes'[t] \in {Free} \cup Rechecks /\ Alike(t)
             /\ probes[t] # Free => (probes'[t].stray <=> probes[t].stray \/ probes[t].of = probes[s].of)
  <2>0. probes'[t] = IF probes[t] = Free THEN probes[t]
                     ELSE [probes[t] EXCEPT !.stray = @ \/ probes[t].of = probes[s].of]
    BY DEF Ends
  <2>1. CASE probes[t] = Free
    BY <2>0, <2>1 DEF Alike
  <2>2. CASE probes[t] # Free
    <3>1. probes[t] \in Rechecks /\ probes[t].stray \in BOOLEAN
      BY <2>2, ProbeIs
    <3>2. PICK b \in BOOLEAN : b = (probes[t].stray \/ probes[t].of = probes[s].of)
      OBVIOUS
    <3>3. probes'[t] = [probes[t] EXCEPT !.stray = b]
      BY <2>0, <2>2, <3>2
    <3>4. /\ probes'[t] \in Rechecks /\ probes'[t].at = probes[t].at /\ probes'[t].of = probes[t].of
          /\ probes'[t].size = probes[t].size /\ probes'[t].stray = b
      BY <3>1, <3>3, StrayWritten
    <3>5. probes'[t] # Free
      BY <3>4 DEF Rechecks, Free
    <3> QED BY <2>2, <3>2, <3>4, <3>5 DEF Alike
  <2> QED BY <2>1, <2>2
<1>2. probes' = [t \in 1..Slots |-> probes'[t]]
  BY DEF Ends
<1> QED BY <1>0, <1>1, <1>2

LEMMA LaunchDoes ==
    ASSUME PoolTypeOK, NEW r \in Resolvers, Launch(r)
    PROVE  /\ probes' \in [1..Slots -> {Free} \cup Rechecks]
           /\ \E t \in 1..Slots :
                /\ probes[t] = Free /\ probes'[t] # Free
                /\ probes'[t].at = "probing" /\ probes'[t].of = r /\ ~probes'[t].stray
                /\ \A u \in 1..Slots \ {t} : probes'[u] = probes[u]
<1> DEFINE new == [at |-> "probing", of |-> r, size |-> 0, stray |-> FALSE]
           t == Min(FreeSlots)
<1>1. t \in FreeSlots
  <2>1. FreeSlots \subseteq 1..Slots /\ FreeSlots # {}
    BY DEF Launch, FreeSlots
  <2>2. IsFiniteSet(1..Slots)
    BY FS_Interval, PoolAssumption
  <2>3. IsFiniteSet(FreeSlots)
    BY <2>1, <2>2, FS_Subset
  <2>4. FreeSlots \subseteq Int
    BY <2>1, PoolAssumption
  <2> QED BY <2>1, <2>3, <2>4, MinIs
<1>2. t \in 1..Slots /\ probes[t] = Free
  BY <1>1 DEF FreeSlots
<1>3. probes' = [probes EXCEPT ![t] = new]
  BY DEF Launch
<1>4. new \in Rechecks /\ new # Free /\ new.at = "probing" /\ new.of = r /\ ~new.stray
  BY SizesNat DEF Rechecks, Free
<1> HIDE DEF new, t
<1>5. probes \in [1..Slots -> {Free} \cup Rechecks]
  BY DEF PoolTypeOK
<1>6. probes'[t] = new /\ \A u \in 1..Slots \ {t} : probes'[u] = probes[u]
  BY <1>2, <1>3, <1>5
<1>7. probes' \in [1..Slots -> {Free} \cup Rechecks]
  BY <1>2, <1>3, <1>4, <1>5
<1> QED BY <1>2, <1>4, <1>6, <1>7

(* A recheck goes on to its next step. *)
Moves(s, a) ==
    /\ probes' \in [1..Slots -> {Free} \cup Rechecks]
    /\ probes'[s] # Free /\ probes'[s].at = a
    /\ probes'[s].of = probes[s].of /\ probes'[s].stray = probes[s].stray
    /\ \A t \in 1..Slots \ {s} : probes'[t] = probes[t]

LEMMA MovesDoes ==
    ASSUME PoolTypeOK, NEW s \in 1..Slots, probes[s] # Free,
           NEW a \in {"probing", "passed", "applied", "active"}, probes' = [probes EXCEPT ![s].at = a]
    PROVE  Moves(s, a) /\ probes'[s].size = probes[s].size
<1>1. PICK w : w = [probes[s] EXCEPT !.at = a]
  OBVIOUS
<1>2. w \in Rechecks /\ w.at = a /\ w.of = probes[s].of /\ w.size = probes[s].size /\ w.stray = probes[s].stray
  BY <1>1, ProbeIs, AtWritten
<1>3. w # Free
  BY <1>2 DEF Rechecks, Free
<1>4. probes \in [1..Slots -> {Free} \cup Rechecks]
  BY DEF PoolTypeOK
<1>5. probes' = [probes EXCEPT ![s] = w]
  BY <1>1
<1>6. probes' \in [1..Slots -> {Free} \cup Rechecks] /\ probes'[s] = w
      /\ \A t \in 1..Slots \ {s} : probes'[t] = probes[t]
  BY <1>2, <1>4, <1>5
<1> QED BY <1>2, <1>3, <1>6 DEF Moves

LEMMA PassDoes ==
    ASSUME PoolTypeOK, NEW s \in 1..Slots, probes[s] # Free,
           probes' = [probes EXCEPT ![s] = [@ EXCEPT !.at = "passed", !.size = synced]]
    PROVE  Moves(s, "passed") /\ probes'[s].size = synced
<1>0. synced \in Sizes /\ probes \in [1..Slots -> {Free} \cup Rechecks]
  BY DEF PoolTypeOK
<1>1. PICK v : v = [probes[s] EXCEPT !.at = "passed"]
  OBVIOUS
<1>a. PICK a \in {"probing", "passed", "applied", "active"} : a = "passed"
  OBVIOUS
<1>2. v \in Rechecks /\ v.at = a /\ v.of = probes[s].of /\ v.stray = probes[s].stray
  BY <1>1, <1>a, ProbeIs, AtWritten
<1>3. PICK w : w = [v EXCEPT !.size = synced]
  OBVIOUS
<1>4. w \in Rechecks /\ w.at = "passed" /\ w.of = probes[s].of /\ w.size = synced /\ w.stray = probes[s].stray
  BY <1>0, <1>a, <1>2, <1>3, ProbeSizeWritten
<1>5. w # Free
  BY <1>4 DEF Rechecks, Free
<1>6. probes' = [probes EXCEPT ![s] = w]
  <2>1. w = [probes[s] EXCEPT !.at = "passed", !.size = synced]
    BY <1>1, <1>3, <1>0, ProbeIs DEF Rechecks
  <2> QED BY <2>1, <1>0
<1>7. probes' \in [1..Slots -> {Free} \cup Rechecks] /\ probes'[s] = w
      /\ \A t \in 1..Slots \ {s} : probes'[t] = probes[t]
  BY <1>0, <1>4, <1>6
<1> QED BY <1>4, <1>5, <1>7 DEF Moves

(* ---- typing ---- *)
LEMMA TypeOfScan ==
    ASSUME PoolTypeOK, NEW r \in Resolvers,
           Accept(r) \/ Reject(r) \/ NotEnough(r) \/ Publish(r) \/ Rebuild(r)
    PROVE  PoolTypeOK'
<1>1. CASE Accept(r)
  <2>1. source' \in Connections
    BY <1>1, AcceptDoes
  <2> QED BY <1>1, <2>1 DEF PoolTypeOK, Accept, Over
<1>2. CASE Reject(r)
  <2>1. source' \in Connections
    BY <1>2, RejectDoes
  <2> QED BY <1>2, <2>1 DEF PoolTypeOK, Reject, Over
<1>3. CASE NotEnough(r)
  BY <1>3 DEF PoolTypeOK, NotEnough, Over
<1>4. CASE Publish(r)
  <2>1. source' \in Connections /\ snapshot' \in Connections
    BY <1>4, PublishDoes
  <2> QED BY <1>4, <2>1 DEF PoolTypeOK, Publish, Over
<1>5. CASE Rebuild(r)
  <2>1. probes' \in [1..Slots -> {Free} \cup Rechecks]
    BY <1>5, ForgetDoes DEF Rebuild
  <2>2. disabled' \in [Resolvers -> Absent..1] /\ marked' = {}
    BY <1>5 DEF Rebuild, ForgetRechecks, Absent
  <2> QED BY <1>5, <2>1, <2>2 DEF PoolTypeOK, Rebuild, Over
<1> QED BY <1>1, <1>2, <1>3, <1>4, <1>5


LEMMA TypeOfStart ==
    ASSUME PoolTypeOK, Waiting, (\E r \in Resolvers : Release(r)) \/ FullScan
    PROVE  PoolTypeOK' /\ ~released /\ Measured(source) # {} /\ Finalize
<1>1. ~released /\ Measured(source) # {} /\ Finalize
  <2>1. CASE \E r \in Resolvers : Release(r)
    BY <2>1 DEF Release, Starts
  <2>2. CASE FullScan
    BY <2>2 DEF FullScan
  <2> QED BY <2>1, <2>2
<1>2. source' \in Connections /\ snapshot' \in Connections /\ synced' \in Sizes
  BY <1>1, FinalizeDoes
<1>3. ForgetRechecks /\ released' = TRUE
  BY <1>1 DEF Finalize
<1>4. probes' \in [1..Slots -> {Free} \cup Rechecks] /\ disabled' \in [Resolvers -> Absent..1] /\ marked' = {}
  <2>1. probes' \in [1..Slots -> {Free} \cup Rechecks]
    BY <1>3, ForgetDoes
  <2>2. disabled' \in [Resolvers -> Absent..1] /\ marked' = {}
    BY <1>3 DEF ForgetRechecks, Absent
  <2> QED BY <2>1, <2>2
<1>5. scan' \in [Resolvers -> {"due", "accepted", "published"} \cup Over]
  BY DEF Release, FullScan, PoolTypeOK, Over
<1>6. UNCHANGED <<candidates, step, up, target, crossed, demoted, sunk>>
  BY DEF Release, FullScan
<1>7. outrun' \subseteq Resolvers
  BY <1>1 DEF Finalize, Returning, PoolTypeOK
<1> QED BY <1>1, <1>2, <1>3, <1>4, <1>5, <1>6, <1>7 DEF PoolTypeOK

(* The records that a scan begins with. *)
LEMMA AnewDoes ==
    ASSUME PoolTypeOK, Waiting, Rescan \/ Recover
    PROVE  /\ source' = Blank /\ snapshot' \in {source, snapshot, Blank} /\ released' = FALSE
           /\ source' \in Connections /\ snapshot' \in Connections
           /\ scan' \in [Resolvers -> {"due", "accepted", "published"} \cup Over]
           /\ \A r \in Resolvers : /\ scan'[r] = "due"
                                   /\ ~source'[r].ok /\ ~source'[r].reserve /\ source'[r].size = 0
           /\ UNCHANGED <<candidates, step, target, crossed, demoted, sunk>> /\ up' = FALSE
           /\ outrun \subseteq outrun'
<1>1. Blank \in Connections
  BY SizesNat DEF Blank, Connections
<1>2. CASE Rescan
  <2>1. ScanAnew(source) /\ ~released /\ UNCHANGED <<released, candidates, step, up, target, crossed, demoted, sunk>>
    BY <1>2 DEF Rescan
  <2>2. outrun \subseteq outrun'
    BY <1>2 DEF Rescan
  <2>3. up' = FALSE
    BY <2>1 DEF Waiting, PoolTypeOK
  <2>4. source \in Connections /\ released' = FALSE
    BY <2>1 DEF PoolTypeOK
  <2> QED BY <1>1, <2>1, <2>2, <2>3, <2>4 DEF ScanAnew, Blank
<1>3. CASE Recover
  BY <1>1, <1>3 DEF Recover, Stop, ScanAnew, PoolTypeOK, Blank
<1> QED BY <1>2, <1>3

LEMMA TypeOfSession ==
    ASSUME PoolTypeOK, Waiting, Rescan \/ Recover \/ Recompute \/ ApplySize \/ Restart \/ BeginPass
    PROVE  PoolTypeOK'
<1>a. Returning({"passed", "applied"}) \subseteq Resolvers /\ Returning({"applied"}) \subseteq Resolvers
  BY DEF Returning
<1>1. CASE Rescan
  <2>1. disabled' \in [Resolvers -> Absent..1] /\ marked' \subseteq Resolvers
        /\ probes' \in [1..Slots -> {Free} \cup Rechecks] /\ synced' \in Sizes
    <3>1. CASE ForgetRechecks /\ synced' = 0
      <4>1. disabled' \in [Resolvers -> Absent..1] /\ marked' \subseteq Resolvers
        BY <3>1 DEF ForgetRechecks, Absent
      <4> QED BY <3>1, <4>1, ForgetDoes, SizesNat
    <3>2. CASE UNCHANGED <<synced, disabled, marked, probes>>
      BY <3>2 DEF PoolTypeOK
    <3> QED BY <1>1, <3>1, <3>2 DEF Rescan
  <2>2. outrun' \subseteq Resolvers
    BY <1>1, <1>a DEF PoolTypeOK, Rescan
  <2>3. UNCHANGED <<released, candidates, step, up, target, crossed, demoted, sunk>>
    BY <1>1 DEF Rescan
  <2> QED BY <1>1, <2>1, <2>2, <2>3, AnewDoes DEF PoolTypeOK
<1>6. CASE Recover
  <2>1. outrun' \subseteq Resolvers
    BY <1>6, <1>a DEF PoolTypeOK, Recover
  <2>2. UNCHANGED <<synced, disabled, marked, probes, candidates, step, target, crossed, demoted, sunk>>
        /\ up' = FALSE /\ released' = FALSE
    BY <1>6 DEF Recover, Stop
  <2> QED BY <1>6, <2>1, <2>2, AnewDoes DEF PoolTypeOK
<1>2. CASE Recompute
  <2> DEFINE new == OperatingPoint(snapshot, Valid(snapshot))
  <2>1. new \in Sizes
    <3>1. Valid(snapshot) \subseteq Resolvers
      BY DEF Valid
    <3> QED BY <3>1, OperatingPointIs DEF PoolTypeOK
  <2>2. \/ up' = TRUE /\ UNCHANGED <<source, snapshot, target>>
        \/ Reclassify(new) /\ target' = new /\ up' = up
        \/ Reclassify(synced) /\ up' = TRUE /\ target' = target
    BY <1>2 DEF Recompute
  <2> HIDE DEF new
  <2>3. synced \in Sizes /\ source \in Connections /\ snapshot \in Connections /\ up \in BOOLEAN /\ target \in Sizes
    BY DEF PoolTypeOK
  <2>4. source' \in Connections /\ snapshot' \in Connections
    BY <2>1, <2>2, <2>3, ReclassifyDoes
  <2>5. up' \in BOOLEAN /\ target' \in Sizes
    BY <2>1, <2>2, <2>3
  <2> QED BY <1>2, <2>4, <2>5 DEF PoolTypeOK, Recompute
<1>3. CASE ApplySize
  BY <1>3, <1>a, SizesNat DEF PoolTypeOK, ApplySize
<1>4. CASE Restart
  BY <1>4 DEF PoolTypeOK, Restart, Stop
<1>5. CASE BeginPass
  BY <1>5 DEF PoolTypeOK, BeginPass
<1> QED BY <1>1, <1>2, <1>3, <1>4, <1>5, <1>6

LEMMA TypeOfDisable ==
    ASSUME PoolTypeOK, (\E r \in Resolvers : MarkDisabled(r)) \/ TakeOut \/ Record
    PROVE  PoolTypeOK'
<1>1. CASE \E r \in Resolvers : MarkDisabled(r)
  BY <1>1 DEF PoolTypeOK, MarkDisabled, Absent
<1>2. CASE TakeOut
  <2>1. step # Idle /\ step.of \in Resolvers
    BY <1>2, StepIs DEF TakeOut
  <2>2. source' \in Connections /\ snapshot' \in Connections
    <3>1. CASE SetValidity(step.of, FALSE)
      BY <2>1, <3>1, SetValidityDoes
    <3>2. CASE UNCHANGED <<source, snapshot>>
      BY <3>2 DEF PoolTypeOK
    <3> QED BY <1>2, <3>1, <3>2 DEF TakeOut
  <2>3. step' \in [at : {"marked", "out"}, of : Resolvers]
    BY <1>2, <2>1 DEF PoolTypeOK, TakeOut
  <2>4. sunk' \in BOOLEAN
    BY <1>2 DEF PoolTypeOK, TakeOut
  <2>5. UNCHANGED <<scan, released, synced, disabled, marked, probes, candidates, up, target, crossed, demoted, outrun>>
    BY <1>2 DEF TakeOut
  <2> QED BY <2>2, <2>3, <2>4, <2>5 DEF PoolTypeOK
<1>3. CASE Record
  BY <1>3, StepIs DEF PoolTypeOK, Record, Absent, Idle
<1> QED BY <1>1, <1>2, <1>3

(* A recheck that runs. *)
LEMMA RunsOne ==
    ASSUME PoolTypeOK, NEW s \in 1..Slots,
           Fail(s) \/ Pass(s) \/ ApplyRechecked(s) \/ Reactivate(s) \/ Clear(s)
    PROVE  probes[s] # Free /\ probes[s].of \in Resolvers
BY ProbeIs DEF Fail, Pass, ApplyRechecked, Reactivate, Clear

LEMMA TypeOfRecheck ==
    ASSUME PoolTypeOK, NEW s \in 1..Slots,
           Fail(s) \/ Pass(s) \/ ApplyRechecked(s) \/ Reactivate(s) \/ Clear(s)
    PROVE  PoolTypeOK'
<1>0. probes[s] # Free /\ probes[s].of \in Resolvers
  BY RunsOne
<1>a. ASSUME Ends(s)
      PROVE  probes' \in [1..Slots -> {Free} \cup Rechecks] /\ marked' \subseteq Resolvers
  <2>1. marked' \subseteq Resolvers
    BY <1>a DEF PoolTypeOK, Ends
  <2> QED BY <1>0, <1>a, <2>1, EndsDoes
<1>1. CASE Fail(s)
  <2>1. disabled' \in [Resolvers -> Absent..1]
    BY <1>1, <1>0 DEF PoolTypeOK, Fail, Absent
  <2>2. Ends(s) /\ UNCHANGED <<source, snapshot, scan, released, synced, candidates, step, up, target,
                   restarts, disables, crossed, demoted, outrun, sunk>>
    BY <1>1 DEF Fail
  <2> QED BY <1>a, <2>1, <2>2 DEF PoolTypeOK
<1>2. CASE Pass(s)
  <2>1. UNCHANGED <<source, snapshot, scan, released, synced, candidates, step, up, target,
                   restarts, disables, crossed, demoted, outrun, sunk>>
    BY <1>2 DEF Pass
  <2> DEFINE r == probes[s].of
  <2>2. CASE disabled[r] # Absent /\ disabled[r] + 1 < Successes
    <3>1. Ends(s) /\ disabled' = [disabled EXCEPT ![r] = @ + 1]
      BY <1>2, <2>2 DEF Pass
    <3>2. Successes \in {1, 2}
      BY DEF Successes
    <3>3. disabled \in [Resolvers -> Absent..1]
      BY DEF PoolTypeOK
    <3>4. disabled[r] + 1 \in Absent..1
      BY <1>0, <2>2, <3>2, <3>3 DEF Absent
    <3>5. disabled' \in [Resolvers -> Absent..1]
      BY <1>0, <3>1, <3>3, <3>4
    <3> QED BY <1>a, <2>1, <3>1, <3>5 DEF PoolTypeOK
  <2>3. CASE ~(disabled[r] # Absent /\ disabled[r] + 1 < Successes)
    <3>1. /\ probes' = [probes EXCEPT ![s] = [@ EXCEPT !.at = "passed", !.size = synced]]
          /\ UNCHANGED <<marked, disabled>>
      BY <1>2, <2>3 DEF Pass
    <3>2. probes' \in [1..Slots -> {Free} \cup Rechecks]
      BY <1>0, <3>1, PassDoes DEF Moves
    <3> QED BY <2>1, <3>1, <3>2 DEF PoolTypeOK
  <2> QED BY <2>2, <2>3
<1>3. CASE ApplyRechecked(s)
  <2>1. source' \in Connections /\ snapshot' \in Connections
    BY <1>3, <1>0, SetSizeDoes DEF ApplyRechecked, PoolTypeOK
  <2>2. probes' \in [1..Slots -> {Free} \cup Rechecks]
    <3>1. PICK a \in {"probing", "passed", "applied", "active"} : a = "applied"
      OBVIOUS
    <3> QED BY <1>3, <1>0, <3>1, MovesDoes DEF ApplyRechecked, Moves
  <2>3. outrun' \subseteq Resolvers
    BY <1>3, <1>0 DEF ApplyRechecked, PoolTypeOK
  <2>4. UNCHANGED <<scan, released, synced, disabled, marked, candidates, step, up, target, crossed, demoted, sunk>>
    BY <1>3 DEF ApplyRechecked
  <2> QED BY <2>1, <2>2, <2>3, <2>4 DEF PoolTypeOK
<1>4. CASE Reactivate(s)
  <2> DEFINE r == probes[s].of
  <2>0. UNCHANGED <<scan, released, synced, disabled, candidates, step, up, target, crossed, demoted, sunk>>
    BY <1>4 DEF Reactivate
  <2>1. CASE snapshot[r].ok
    <3>1. Ends(s) /\ UNCHANGED <<source, snapshot, outrun>>
      BY <1>4, <2>1 DEF Reactivate
    <3> QED BY <1>a, <2>0, <3>1 DEF PoolTypeOK
  <2>2. CASE ~snapshot[r].ok
    <3>1. /\ SetValidity(r, TRUE) /\ probes' = [probes EXCEPT ![s].at = "active"]
          /\ outrun' = (IF target > 0 THEN outrun \cup {r} ELSE outrun) /\ marked' = marked
      BY <1>4, <2>2 DEF Reactivate
    <3>2. source' \in Connections /\ snapshot' \in Connections
      BY <1>0, <3>1, SetValidityDoes
    <3>3. probes' \in [1..Slots -> {Free} \cup Rechecks]
      <4>1. PICK a \in {"probing", "passed", "applied", "active"} : a = "active"
        OBVIOUS
      <4> QED BY <1>0, <3>1, <4>1, MovesDoes DEF Moves
    <3>4. outrun' \subseteq Resolvers
      BY <1>0, <3>1 DEF PoolTypeOK
    <3> QED BY <2>0, <3>1, <3>2, <3>3, <3>4 DEF PoolTypeOK
  <2> QED BY <2>1, <2>2
<1>5. CASE Clear(s)
  <2>1. disabled' \in [Resolvers -> Absent..1]
    BY <1>5, <1>0 DEF PoolTypeOK, Clear, Absent
  <2>2. Ends(s) /\ UNCHANGED <<source, snapshot, scan, released, synced, candidates, step, up, target,
                   restarts, disables, crossed, demoted, outrun, sunk>>
    BY <1>5 DEF Clear
  <2> QED BY <1>a, <2>1, <2>2 DEF PoolTypeOK
<1> QED BY <1>1, <1>2, <1>3, <1>4, <1>5

LEMMA TypeOfLaunch ==
    ASSUME PoolTypeOK, NEW r \in Resolvers, Launch(r)
    PROVE  PoolTypeOK'
<1>1. probes' \in [1..Slots -> {Free} \cup Rechecks]
  BY LaunchDoes
<1> QED BY <1>1 DEF PoolTypeOK, Launch

LEMMA PoolTypeStep == ASSUME PoolTypeOK, Waiting, PoolNext PROVE PoolTypeOK'
BY TypeOfScan, TypeOfStart, TypeOfSession, TypeOfDisable, TypeOfRecheck, TypeOfLaunch DEF PoolNext

(* ---- the states before the connect is let go, and the runtime ---- *)
(* What the steps of the rechecks leave alone. *)
LEMMA RecheckLeaves ==
    ASSUME NEW s \in 1..Slots, Fail(s) \/ Pass(s) \/ ApplyRechecked(s) \/ Reactivate(s) \/ Clear(s)
    PROVE  UNCHANGED <<scan, released, synced, candidates, step, up, target, crossed, demoted, sunk>>
BY DEF Fail, Pass, ApplyRechecked, Reactivate, Clear

LEMMA ScanLeaves ==
    ASSUME NEW r \in Resolvers, Accept(r) \/ Reject(r) \/ Release(r) \/ NotEnough(r) \/ Publish(r) \/ Rebuild(r)
    PROVE  UNCHANGED <<candidates, step, up, target, sunk>>
BY DEF Accept, Reject, Release, NotEnough, Publish, Rebuild

LEMMA WaitingStep == ASSUME PoolInv, PoolNext, PoolTypeOK' PROVE Waiting'
<1> SUFFICES ASSUME ~released' PROVE Waiting'
  BY DEF Waiting
<1>h. PoolTypeOK /\ Waiting
  BY DEF PoolInv
<1>r. CASE Recover
  <2>1. step = Idle /\ candidates = {} /\ target = 0
    BY <1>r DEF Recover, Stop, PoolInv, Running
  <2> QED BY <1>h, <1>r, <2>1, AnewDoes DEF Waiting
<1> SUFFICES ASSUME ~Recover PROVE Waiting'
  BY <1>r
<1>i. ~released
  <2>1. \A r \in Resolvers : Release(r) => released'
    BY DEF Release, Finalize
  <2>2. FullScan => released'
    BY DEF FullScan, Finalize
  <2>3. ASSUME NEW r \in Resolvers,
               Accept(r) \/ Reject(r) \/ NotEnough(r) \/ Publish(r) \/ Rebuild(r) \/ MarkDisabled(r) \/ Launch(r)
        PROVE  released' = released
    BY <2>3 DEF Accept, Reject, NotEnough, Publish, Rebuild, MarkDisabled, Launch
  <2>4. ASSUME NEW s \in 1..Slots, Fail(s) \/ Pass(s) \/ ApplyRechecked(s) \/ Reactivate(s) \/ Clear(s)
        PROVE  released' = released
    BY <2>4, RecheckLeaves
  <2>5. ASSUME Rescan \/ Recompute \/ ApplySize \/ Restart \/ BeginPass \/ TakeOut \/ Record
        PROVE  released' = released
    BY <2>5 DEF Rescan, Recompute, ApplySize, Restart, BeginPass, TakeOut, Record
  <2> QED BY <2>1, <2>2, <2>3, <2>4, <2>5 DEF PoolNext
<1>j. /\ step = Idle /\ candidates = {} /\ ~up /\ target = 0
      /\ \A r \in Resolvers : ~source[r].reserve /\ scan[r] # "published" /\ (scan[r] = "accepted" => source[r].ok)
  BY <1>h, <1>i DEF Waiting
<1>s. ASSUME UNCHANGED <<candidates, step, up, target>>,
             \A r \in Resolvers : /\ ~source'[r].reserve /\ scan'[r] # "published"
                                  /\ scan'[r] = "accepted" => source'[r].ok
      PROVE  Waiting'
  BY <1>j, <1>s DEF Waiting
<1>a. ASSUME NEW r \in Resolvers
      PROVE  ~Release(r) /\ ~Publish(r) /\ ~Rebuild(r) /\ ~MarkDisabled(r) /\ ~Launch(r)
  <2>1. ~Release(r)
    BY DEF Release, Finalize
  <2> QED BY <2>1, <1>i, <1>j DEF Publish, Rebuild, MarkDisabled, Launch
<1>c. ~FullScan /\ ~Recompute /\ ~ApplySize /\ ~Restart /\ ~BeginPass /\ ~TakeOut /\ ~Record
  <2>1. step.at = "idle"
    BY <1>j DEF Idle
  <2>2. ~FullScan
    BY DEF FullScan, Finalize
  <2>3. ~ApplySize
    BY <1>j DEF ApplySize
  <2>4. ~Recompute /\ ~Restart /\ ~BeginPass
    BY <1>i, <1>j DEF Recompute, Restart, Stop, BeginPass
  <2>5. ~TakeOut /\ ~Record
    BY <2>1 DEF TakeOut, Record
  <2> QED BY <2>2, <2>3, <2>4, <2>5
<1>1. ASSUME NEW r \in Resolvers, Accept(r) \/ Reject(r) \/ NotEnough(r) PROVE Waiting'
  <2>1. CASE Accept(r)
    <3>1. /\ source'[r].ok /\ source'[r].reserve = source[r].reserve
          /\ \A q \in Resolvers \ {r} : source'[q] = source[q]
      BY <1>h, <2>1, AcceptDoes DEF Differs
    <3>2. \A q \in Resolvers : scan'[q] = IF q = r THEN "accepted" ELSE scan[q]
      BY <1>h, <2>1 DEF Accept, PoolTypeOK
    <3>3. UNCHANGED <<candidates, step, up, target>>
      BY <2>1 DEF Accept
    <3> QED BY <1>j, <1>s, <3>1, <3>2, <3>3
  <2>2. CASE Reject(r)
    <3>1. /\ source'[r].reserve = source[r].reserve
          /\ \A q \in Resolvers \ {r} : source'[q] = source[q]
      BY <1>h, <2>2, RejectDoes DEF Differs
    <3>2. \A q \in Resolvers : scan'[q] = IF q = r THEN "failed" ELSE scan[q]
      BY <1>h, <2>2 DEF Reject, PoolTypeOK
    <3>3. UNCHANGED <<candidates, step, up, target>>
      BY <2>2 DEF Reject
    <3> QED BY <1>j, <1>s, <3>1, <3>2, <3>3
  <2>3. CASE NotEnough(r)
    <3>2. \A q \in Resolvers : scan'[q] = IF q = r THEN "done" ELSE scan[q]
      BY <1>h, <2>3 DEF NotEnough, PoolTypeOK
    <3>3. UNCHANGED <<source, candidates, step, up, target>>
      BY <2>3 DEF NotEnough
    <3> QED BY <1>j, <1>s, <3>2, <3>3
  <2> QED BY <1>1, <2>1, <2>2, <2>3
<1>2. ASSUME NEW s \in 1..Slots, Fail(s) \/ Pass(s) \/ Clear(s) PROVE Waiting'
  <2>1. UNCHANGED <<source, scan, candidates, step, up, target>>
    BY <1>2 DEF Fail, Pass, Clear
  <2> QED BY <1>j, <1>s, <2>1
<1>3. ASSUME NEW s \in 1..Slots, ApplyRechecked(s) \/ Reactivate(s) PROVE Waiting'
  <2>1. UNCHANGED <<scan, candidates, step, up, target>>
    BY <1>3, RecheckLeaves
  <2>2. probes[s].of \in Resolvers
    BY <1>h, <1>3, RunsOne
  <2>3. \A q \in Resolvers : source'[q].reserve = source[q].reserve /\ (source[q].ok => source'[q].ok)
    <3>1. CASE ApplyRechecked(s)
      BY <1>h, <2>2, <3>1, SetSizeDoes DEF ApplyRechecked, PoolTypeOK, Differs
    <3>2. CASE Reactivate(s)
      <4>1. CASE UNCHANGED source
        BY <4>1
      <4>2. CASE SetValidity(probes[s].of, TRUE)
        BY <1>h, <2>2, <4>2, SetValidityDoes DEF Differs
      <4> QED BY <3>2, <4>1, <4>2 DEF Reactivate
    <3> QED BY <1>3, <3>1, <3>2
  <2> QED BY <1>j, <1>s, <2>1, <2>3
<1>4. CASE Rescan
  BY <1>h, <1>4, <1>s, AnewDoes, <1>j DEF PoolTypeOK
<1> QED BY <1>a, <1>c, <1>1, <1>2, <1>3, <1>4 DEF PoolNext

LEMMA RunningStep == ASSUME PoolInv, PoolNext, PoolTypeOK' PROVE Running'
<1> USE DEF PoolInv
<1>1. CASE UNCHANGED <<candidates, step, up, target>>
  BY <1>1 DEF Running
<1>2. ASSUME NEW r \in Resolvers, MarkDisabled(r) PROVE Running'
  BY <1>2 DEF MarkDisabled, Running
<1>3. CASE Recompute
  <2>1. step = Idle /\ candidates = {} /\ target = 0
    BY <1>3 DEF Recompute, Running
  <2>2. UNCHANGED <<step, candidates>> /\ ((up' = TRUE /\ target' = target) \/ up' = up)
    BY <1>3 DEF Recompute
  <2>3. ~up
    BY <1>3 DEF Recompute
  <2> QED BY <2>1, <2>2, <2>3 DEF Running
<1>4. CASE ApplySize \/ Restart \/ Recover \/ BeginPass \/ TakeOut \/ Record
  <2>1. CASE ApplySize
    BY <2>1 DEF ApplySize, Running
  <2>2. CASE Restart \/ Recover
    BY <2>2 DEF Restart, Recover, Stop, Running
  <2>3. CASE BeginPass
    BY <2>3 DEF BeginPass, Running
  <2>4. CASE TakeOut
    BY <2>4, StepIs DEF TakeOut, Running, Idle
  <2>5. CASE Record
    BY <2>5, StepIs DEF Record, Running, Idle
  <2> QED BY <1>4, <2>1, <2>2, <2>3, <2>4, <2>5
<1>5. ASSUME NEW r \in Resolvers, Launch(r) PROVE UNCHANGED <<candidates, step, up, target>>
  BY <1>5 DEF Launch
<1>6. ASSUME FullScan \/ Rescan PROVE UNCHANGED <<candidates, step, up, target>>
  BY <1>6 DEF FullScan, Rescan
<1> QED BY <1>1, <1>2, <1>3, <1>4, <1>5, <1>6, ScanLeaves, RecheckLeaves DEF PoolNext

(* ---- what is published and what was decided ---- *)
LEMMA QuietSteps ==
    ASSUME PoolNext
    PROVE  \/ UNCHANGED <<source, snapshot, scan, released, synced, target, crossed, demoted, sunk>>
           \/ \E r \in Resolvers :
                Accept(r) \/ Reject(r) \/ Release(r) \/ NotEnough(r) \/ Publish(r) \/ Rebuild(r)
           \/ \E s \in 1..Slots : ApplyRechecked(s) \/ Reactivate(s)
           \/ FullScan \/ Rescan \/ Recover \/ Recompute \/ ApplySize \/ TakeOut
<1>1. ASSUME NEW r \in Resolvers, MarkDisabled(r) \/ Launch(r)
      PROVE  UNCHANGED <<source, snapshot, scan, released, synced, target, crossed, demoted, sunk>>
  BY <1>1 DEF MarkDisabled, Launch
<1>2. ASSUME NEW s \in 1..Slots, Fail(s) \/ Pass(s) \/ Clear(s)
      PROVE  UNCHANGED <<source, snapshot, scan, released, synced, target, crossed, demoted, sunk>>
  BY <1>2 DEF Fail, Pass, Clear
<1>3. ASSUME Restart \/ BeginPass \/ Record
      PROVE  UNCHANGED <<source, snapshot, scan, released, synced, target, crossed, demoted, sunk>>
  BY <1>3 DEF Restart, BeginPass, Record
<1> QED BY <1>1, <1>2, <1>3 DEF PoolNext

LEMMA RecomputeDoes ==
    ASSUME PoolTypeOK, Recompute
    PROVE  /\ released /\ ~up /\ target = 0
           /\ UNCHANGED <<scan, released, synced, disabled, marked, probes, candidates, step, crossed, demoted, outrun, sunk>>
           /\ \/ UNCHANGED <<source, snapshot, target>>
              \/ \E size \in Sizes : /\ Reclassify(size) /\ size # 0
                                     /\ target' = size
              \/ Reclassify(synced) /\ target' = target
<1> DEFINE new == OperatingPoint(snapshot, Valid(snapshot))
<1>1. new \in Sizes
  <2>1. Valid(snapshot) \subseteq Resolvers
    BY DEF Valid
  <2> QED BY <2>1, OperatingPointIs DEF PoolTypeOK
<1>2. \/ UNCHANGED <<source, snapshot, target>>
      \/ new # 0 /\ Reclassify(new) /\ target' = new
      \/ Reclassify(synced) /\ target' = target
  BY DEF Recompute
<1>3. /\ released /\ ~up /\ target = 0
      /\ UNCHANGED <<scan, released, synced, disabled, marked, probes, candidates, step, crossed, demoted, outrun, sunk>>
  BY DEF Recompute
<1> HIDE DEF new
<1> QED BY <1>1, <1>2, <1>3

LEMMA RecomputeWrites ==
    ASSUME PoolTypeOK, Recompute
    PROVE  /\ released /\ released' /\ ~up /\ UNCHANGED <<scan, step, crossed>>
           /\ \/ UNCHANGED <<source, snapshot, target>>
              \/ snapshot' = source' /\ \A q \in Resolvers : source'[q].ok = source[q].ok /\ source'[q].size = source[q].size
<1>0. synced \in Sizes
  BY DEF PoolTypeOK
<1> QED BY <1>0, RecomputeDoes, ReclassifyDoes

(* A resolver comes back, or is written the size of the moment. *)
LEMMA RecheckWrites ==
    ASSUME PoolTypeOK, NEW s \in 1..Slots, ApplyRechecked(s) \/ Reactivate(s)
    PROVE  /\ probes[s] # Free /\ probes[s].of \in Resolvers
           /\ UNCHANGED <<scan, released, synced, step, target, crossed, demoted, sunk>>
           /\ \/ UNCHANGED <<source, snapshot>>
              \/ /\ Differs(probes[s].of) /\ snapshot'[probes[s].of] = source'[probes[s].of]
                 /\ source'[probes[s].of].reserve = source[probes[s].of].reserve
<1>0. probes[s] # Free /\ probes[s].of \in Resolvers
  BY RunsOne
<1>1. UNCHANGED <<scan, released, synced, step, target, crossed, demoted, sunk>>
  BY RecheckLeaves
<1>2. CASE ApplyRechecked(s)
  BY <1>0, <1>1, <1>2, SetSizeDoes DEF ApplyRechecked, PoolTypeOK
<1>3. CASE Reactivate(s)
  BY <1>0, <1>1, <1>3, SetValidityDoes DEF Reactivate
<1> QED BY <1>2, <1>3

LEMMA TakeOutDoes ==
    ASSUME PoolTypeOK, TakeOut
    PROVE  /\ step # Idle /\ step.of \in Resolvers /\ step.at = "marked"
           /\ UNCHANGED <<scan, released, synced, disabled, marked, probes, candidates, up, target, crossed, demoted, outrun>>
           /\ \/ ~snapshot[step.of].ok /\ UNCHANGED <<source, snapshot>>
              \/ /\ Differs(step.of) /\ snapshot'[step.of] = source'[step.of] /\ ~source'[step.of].ok
                 /\ source'[step.of].reserve = source[step.of].reserve /\ source'[step.of].size = source[step.of].size
           /\ step' # Idle /\ step'.at = "out" /\ step'.of = step.of
<1>1. step # Idle /\ step.of \in Resolvers /\ step.at = "marked"
  BY StepIs DEF TakeOut
<1>2. step' # Idle /\ step'.at = "out" /\ step'.of = step.of
  <2>1. step \in [at : {"marked", "out"}, of : Resolvers]
    BY <1>1 DEF PoolTypeOK
  <2>2. step' = [step EXCEPT !.at = "out"]
    BY DEF TakeOut
  <2>3. step'.at = "out" /\ step'.of = step.of
    BY <2>1, <2>2
  <2> QED BY <2>3 DEF Idle
<1>3. UNCHANGED <<scan, released, synced, disabled, marked, probes, candidates, up, target, crossed, demoted, outrun>>
  BY DEF TakeOut
<1>4. \/ ~snapshot[step.of].ok /\ UNCHANGED <<source, snapshot>>
      \/ SetValidity(step.of, FALSE)
  BY DEF TakeOut
<1> QED BY <1>1, <1>2, <1>3, <1>4, SetValidityDoes

LEMMA SameStep == ASSUME PoolInv, PoolNext, PoolTypeOK' PROVE Same'
<1>h. PoolTypeOK /\ Waiting /\ Same
  BY DEF PoolInv
<1> SUFFICES ASSUME released', NEW q \in Resolvers
             PROVE  /\ snapshot'[q].reserve = source'[q].reserve
                    /\ snapshot'[q].ok /\ q \notin crossed' => source'[q].ok
  BY DEF Same
<1>s. released => /\ snapshot[q].reserve = source[q].reserve
                  /\ snapshot[q].ok /\ q \notin crossed => source[q].ok
  BY <1>h DEF Same
<1>0. CASE UNCHANGED <<source, snapshot, released, crossed>>
  BY <1>0, <1>s
<1>1. ASSUME NEW r \in Resolvers, Accept(r)
      PROVE  /\ snapshot'[q].reserve = source'[q].reserve
             /\ snapshot'[q].ok /\ q \notin crossed' => source'[q].ok
  <2>1. /\ source'[r].ok /\ source'[r].reserve = source[r].reserve
        /\ \A p \in Resolvers \ {r} : source'[p] = source[p]
    BY <1>h, <1>1, AcceptDoes DEF Differs
  <2>2. UNCHANGED <<snapshot, released>> /\ crossed \subseteq crossed'
    BY <1>1 DEF Accept
  <2> QED BY <2>1, <2>2, <1>s
<1>2. ASSUME NEW r \in Resolvers, Reject(r)
      PROVE  /\ snapshot'[q].reserve = source'[q].reserve
             /\ snapshot'[q].ok /\ q \notin crossed' => source'[q].ok
  <2>1. /\ source'[r].reserve = source[r].reserve
        /\ \A p \in Resolvers \ {r} : source'[p] = source[p]
    BY <1>h, <1>2, RejectDoes DEF Differs
  <2>2. UNCHANGED <<snapshot, released>> /\ crossed \subseteq crossed' /\ (snapshot[r].ok => r \in crossed')
    BY <1>2 DEF Reject
  <2> QED BY <2>1, <2>2, <1>s
<1>3. ASSUME NEW r \in Resolvers, Release(r) \/ FullScan PROVE snapshot' = source'
  BY <1>3 DEF Release, FullScan, Finalize
<1>4. ASSUME NEW r \in Resolvers, Publish(r) PROVE snapshot' = source'
  BY <1>4 DEF Publish
<1>5. ASSUME NEW r \in Resolvers, NotEnough(r) \/ Rebuild(r) PROVE UNCHANGED <<source, snapshot, released, crossed>>
  BY <1>5 DEF NotEnough, Rebuild
<1>6. ASSUME NEW s \in 1..Slots, ApplyRechecked(s) \/ Reactivate(s)
      PROVE  /\ snapshot'[q].reserve = source'[q].reserve
             /\ snapshot'[q].ok /\ q \notin crossed' => source'[q].ok
  <2>1. UNCHANGED <<released, crossed>>
    BY <1>h, <1>6, RecheckWrites
  <2>2. CASE UNCHANGED <<source, snapshot>>
    BY <2>1, <2>2, <1>s
  <2>3. CASE Differs(probes[s].of) /\ snapshot'[probes[s].of] = source'[probes[s].of]
    BY <2>1, <2>3, <1>s DEF Differs
  <2> QED BY <1>h, <1>6, <2>2, <2>3, RecheckWrites
<1>7. ~Rescan /\ ~Recover
  BY <1>h, AnewDoes
<1>8. ASSUME Recompute PROVE snapshot' = source' \/ UNCHANGED <<source, snapshot, released, crossed>>
  BY <1>h, <1>8, RecomputeWrites, RecomputeDoes
<1>9. ASSUME ApplySize PROVE UNCHANGED <<source, snapshot, released, crossed>>
  BY <1>9 DEF ApplySize
<1>10. ASSUME TakeOut
       PROVE  /\ snapshot'[q].reserve = source'[q].reserve
              /\ snapshot'[q].ok /\ q \notin crossed' => source'[q].ok
  BY <1>h, <1>10, <1>s, TakeOutDoes DEF Differs
<1>11. snapshot' = source' => /\ snapshot'[q].reserve = source'[q].reserve
                              /\ snapshot'[q].ok /\ q \notin crossed' => source'[q].ok
  OBVIOUS
<1> QED BY <1>0, <1>1, <1>2, <1>3, <1>4, <1>5, <1>6, <1>7, <1>8, <1>9, <1>10, <1>11, QuietSteps

LEMMA DisablingStep == ASSUME PoolInv, PoolNext, PoolTypeOK' PROVE Disabling'
<1>h. PoolTypeOK /\ Waiting /\ Running /\ Same /\ Apart /\ Disabling
  BY DEF PoolInv
<1>i. ~released => step = Idle
  BY <1>h DEF Waiting
<1>0. CASE UNCHANGED <<source, snapshot, step, crossed>>
  BY <1>0, <1>h DEF Disabling
<1>k. step = Idle /\ step' = step => Disabling'
  BY DEF Disabling
<1>1. ASSUME NEW r \in Resolvers, Accept(r) PROVE Disabling'
  <2>1. \A p \in Resolvers \ {r} : source'[p] = source[p]
    BY <1>h, <1>1, AcceptDoes DEF Differs
  <2>2. UNCHANGED <<snapshot, step>> /\ crossed \subseteq crossed' /\ (step # Idle /\ step.of = r => r \in crossed')
    BY <1>1 DEF Accept
  <2>3. step # Idle => step.of \in Resolvers
    BY <1>h, StepIs
  <2> QED BY <2>1, <2>2, <2>3, <1>h DEF Disabling
<1>2. ASSUME NEW r \in Resolvers, Reject(r) PROVE Disabling'
  <2>1. ~source'[r].ok /\ \A p \in Resolvers \ {r} : source'[p] = source[p]
    BY <1>h, <1>2, RejectDoes DEF Differs
  <2>2. UNCHANGED <<snapshot, step>> /\ crossed \subseteq crossed'
    BY <1>2 DEF Reject
  <2>3. step # Idle => step.of \in Resolvers
    BY <1>h, StepIs
  <2> QED BY <2>1, <2>2, <2>3, <1>h DEF Disabling
<1>3. ASSUME NEW r \in Resolvers, Release(r) PROVE step' = step /\ step = Idle
  BY <1>3, <1>i DEF Release, Starts
<1>4. ASSUME FullScan \/ Rescan \/ Recover PROVE step' = step /\ step = Idle
  BY <1>4, <1>i DEF FullScan, Rescan, Recover, Stop
<1>5. ASSUME NEW r \in Resolvers, Publish(r) PROVE Disabling'
  <2>1. /\ snapshot' = source' /\ \A q \in Resolvers : source'[q].ok = source[q].ok
    BY <1>h, <1>5, PublishDoes
  <2>2. UNCHANGED <<step, crossed>> /\ released
    BY <1>5 DEF Publish
  <2>3. step # Idle => step.of \in Resolvers
    BY <1>h, StepIs
  <2>4. step # Idle /\ step.of \notin crossed /\ snapshot[step.of].ok => source[step.of].ok
    BY <2>2, <2>3, <1>h DEF Same
  <2> QED BY <2>1, <2>2, <2>3, <2>4, <1>h DEF Disabling
<1>6. ASSUME NEW r \in Resolvers, NotEnough(r) \/ Rebuild(r) \/ Launch(r) PROVE UNCHANGED <<source, snapshot, step, crossed>>
  BY <1>6 DEF NotEnough, Rebuild, Launch
<1>7. ASSUME NEW r \in Resolvers, MarkDisabled(r) PROVE Disabling'
  <2>1. CASE step' = [at |-> "marked", of |-> r] /\ snapshot[r].ok /\ snapshot' = snapshot
    BY <2>1 DEF Disabling
  <2>2. CASE step' = step /\ step = Idle
    BY <2>2, <1>k
  <2> QED BY <1>7, <2>1, <2>2 DEF MarkDisabled
<1>8. ASSUME NEW s \in 1..Slots, Fail(s) \/ Pass(s) \/ Clear(s) PROVE UNCHANGED <<source, snapshot, step, crossed>>
  BY <1>8 DEF Fail, Pass, Clear
<1>9. ASSUME NEW s \in 1..Slots, ApplyRechecked(s) \/ Reactivate(s) PROVE Disabling'
  <2>1. UNCHANGED <<step, crossed>> /\ probes[s] # Free
    BY <1>h, <1>9, RecheckWrites
  <2>2. step # Idle => step.of \in Resolvers \ {probes[s].of}
    BY <1>h, <2>1, StepIs DEF Apart
  <2>3. step # Idle => source'[step.of] = source[step.of] /\ snapshot'[step.of] = snapshot[step.of]
    BY <1>h, <1>9, <2>2, RecheckWrites DEF Differs
  <2> QED BY <2>1, <2>3, <1>h DEF Disabling
<1>10. ASSUME Recompute PROVE step' = step /\ step = Idle
  BY <1>10, <1>h DEF Recompute, Running
<1>11. ASSUME ApplySize \/ Restart \/ BeginPass PROVE UNCHANGED <<source, snapshot, step, crossed>>
  BY <1>11 DEF ApplySize, Restart, BeginPass
<1>12. ASSUME TakeOut PROVE Disabling'
  <2>1. step # Idle /\ step.at = "marked" /\ crossed' = crossed /\ step' # Idle /\ step'.at = "out" /\ step'.of = step.of
    BY <1>h, <1>12, TakeOutDoes
  <2>2. CASE ~snapshot[step.of].ok
    <3>1. step.of \in crossed
      BY <2>1, <2>2, <1>h DEF Disabling
    <3> QED BY <2>1, <3>1 DEF Disabling
  <2>3. CASE snapshot'[step.of] = source'[step.of] /\ ~source'[step.of].ok
    BY <2>1, <2>3 DEF Disabling
  <2> QED BY <1>h, <1>12, <2>2, <2>3, TakeOutDoes
<1>13. ASSUME Record PROVE Disabling'
  BY <1>13 DEF Record, Disabling
<1> QED BY <1>0, <1>k, <1>1, <1>2, <1>3, <1>4, <1>5, <1>6, <1>7, <1>8, <1>9, <1>10, <1>11, <1>12, <1>13 DEF PoolNext

(* ---- marks ---- *)
LEMMA MarksForgotten == ASSUME PoolTypeOK, ForgetRechecks PROVE Marks'
<1>1. \A s \in 1..Slots, r \in Resolvers : ~Live(s, r)'
  BY ForgetDoes DEF Live, Alike
<1>2. marked' = {}
  BY DEF ForgetRechecks
<1> QED BY <1>1, <1>2 DEF Marks

LEMMA MarksEnded == ASSUME PoolTypeOK, Marks, NEW s \in 1..Slots, probes[s] # Free, Ends(s) PROVE Marks'
<1>1. ASSUME NEW t \in 1..Slots, NEW q \in Resolvers
      PROVE  Live(t, q)' <=> Live(t, q) /\ q # probes[s].of
  <2>1. CASE t = s
    BY <2>1, EndsDoes DEF Live
  <2>2. CASE t # s
    BY <2>2, EndsDoes DEF Live, Alike
  <2> QED BY <2>1, <2>2
<1>2. marked' = marked \ {probes[s].of}
  BY DEF Ends
<1> QED BY <1>1, <1>2 DEF Marks

LEMMA MarksMoved == ASSUME PoolTypeOK, Marks, NEW s \in 1..Slots, probes[s] # Free, NEW a, Moves(s, a), marked' = marked PROVE Marks'
<1>1. ASSUME NEW t \in 1..Slots, NEW q \in Resolvers
      PROVE  Live(t, q)' <=> Live(t, q)
  <2>1. CASE t = s
    BY <2>1 DEF Live, Moves
  <2>2. CASE t # s
    BY <2>2 DEF Live, Moves
  <2> QED BY <2>1, <2>2
<1> QED BY <1>1 DEF Marks

LEMMA MarksLaunched == ASSUME PoolTypeOK, Marks, NEW r \in Resolvers, Launch(r) PROVE Marks'
<1>1. r \notin marked /\ marked' = marked \cup {r}
  BY DEF Launch, Due
<1>2. PICK t \in 1..Slots :
        /\ probes[t] = Free /\ probes'[t] # Free
        /\ probes'[t].at = "probing" /\ probes'[t].of = r /\ ~probes'[t].stray
        /\ \A u \in 1..Slots \ {t} : probes'[u] = probes[u]
  BY LaunchDoes
<1>3. ASSUME NEW u \in 1..Slots, NEW q \in Resolvers
      PROVE  Live(u, q)' <=> Live(u, q) \/ (u = t /\ q = r)
  BY <1>2 DEF Live
<1>4. \A u \in 1..Slots : ~Live(u, r)
  BY <1>1 DEF Marks
<1>5. \A q \in Resolvers : ~Live(t, q)
  BY <1>2 DEF Live
<1> QED BY <1>1, <1>3, <1>4, <1>5 DEF Marks

(* A recheck goes on to its next step or ends. *)
LEMMA RecheckGoes ==
    ASSUME PoolTypeOK, NEW s \in 1..Slots, Fail(s) \/ Pass(s) \/ ApplyRechecked(s) \/ Reactivate(s) \/ Clear(s)
    PROVE  Ends(s) \/ (marked' = marked /\ \E a : Moves(s, a))
<1>0. probes[s] # Free /\ probes[s].of \in Resolvers
  BY RunsOne
<1>1. CASE Fail(s) \/ Clear(s)
  BY <1>1 DEF Fail, Clear
<1>2. CASE Pass(s)
  <2>1. \/ Ends(s)
        \/ /\ probes' = [probes EXCEPT ![s] = [@ EXCEPT !.at = "passed", !.size = synced]]
           /\ marked' = marked
    BY <1>2 DEF Pass
  <2> QED BY <1>0, <2>1, PassDoes
<1>3. PICK a \in {"probing", "passed", "applied", "active"} : a = "applied"
  OBVIOUS
<1>4. PICK b \in {"probing", "passed", "applied", "active"} : b = "active"
  OBVIOUS
<1>5. CASE ApplyRechecked(s)
  BY <1>0, <1>3, <1>5, MovesDoes DEF ApplyRechecked
<1>6. CASE Reactivate(s)
  <2>1. Ends(s) \/ (marked' = marked /\ probes' = [probes EXCEPT ![s].at = "active"])
    BY <1>6 DEF Reactivate
  <2> QED BY <1>0, <1>4, <2>1, MovesDoes
<1> QED BY <1>1, <1>2, <1>5, <1>6

LEMMA MarksStep == ASSUME PoolInv, PoolNext, PoolTypeOK' PROVE Marks'
<1>h. PoolTypeOK /\ Marks
  BY DEF PoolInv
<1>0. CASE UNCHANGED <<marked, probes>>
  BY <1>0, <1>h DEF Marks, Live
<1>1. ASSUME NEW r \in Resolvers, Release(r) \/ FullScan \/ Rebuild(r) PROVE Marks'
  <2>1. ForgetRechecks
    BY <1>1 DEF Release, FullScan, Rebuild, Finalize
  <2> QED BY <2>1, <1>h, MarksForgotten
<1>2. ASSUME NEW r \in Resolvers, Accept(r) \/ Reject(r) \/ NotEnough(r) \/ Publish(r) \/ MarkDisabled(r)
      PROVE UNCHANGED <<marked, probes>>
  BY <1>2 DEF Accept, Reject, NotEnough, Publish, MarkDisabled
<1>6. CASE Rescan
  BY <1>0, <1>h, <1>6, MarksForgotten DEF Rescan
<1>3. ASSUME Recover \/ Recompute \/ ApplySize \/ Restart \/ BeginPass \/ TakeOut \/ Record
      PROVE UNCHANGED <<marked, probes>>
  BY <1>3 DEF Recover, Recompute, ApplySize, Restart, BeginPass, TakeOut, Record
<1>4. ASSUME NEW s \in 1..Slots, Fail(s) \/ Pass(s) \/ ApplyRechecked(s) \/ Reactivate(s) \/ Clear(s) PROVE Marks'
  <2>1. probes[s] # Free
    BY <1>h, <1>4, RunsOne
  <2> QED BY <1>h, <1>4, <2>1, RecheckGoes, MarksEnded, MarksMoved
<1>r. PICK any \in Resolvers : TRUE
  BY ResolversFinite
<1>5. FullScan => Marks'
  BY <1>r, <1>1
<1> QED BY <1>0, <1>h, <1>1, <1>2, <1>3, <1>4, <1>5, <1>6, MarksLaunched DEF PoolNext

LEMMA ApartStep == ASSUME PoolInv, PoolNext, PoolTypeOK' PROVE Apart'
<1>h. PoolTypeOK /\ Apart
  BY DEF PoolInv
<1>0. CASE UNCHANGED <<candidates, step, probes>>
  BY <1>0, <1>h DEF Apart
<1>k. (\A t \in 1..Slots : probes'[t] # Free => probes[t] # Free /\ probes'[t].of = probes[t].of)
      /\ UNCHANGED <<candidates, step>> => Apart'
  BY <1>h DEF Apart
<1>f. ASSUME ForgetRechecks, UNCHANGED <<candidates, step>> PROVE Apart'
  <2>1. \A t \in 1..Slots : Alike(t)
    BY <1>h, <1>f, ForgetDoes
  <2> QED BY <1>f, <2>1, <1>k DEF Alike
<1>1. ASSUME NEW r \in Resolvers, Release(r) \/ FullScan \/ Rebuild(r) PROVE Apart'
  <2>1. ForgetRechecks /\ UNCHANGED <<candidates, step>>
    BY <1>1 DEF Release, FullScan, Rebuild, Finalize
  <2> QED BY <2>1, <1>f
<1>2. ASSUME NEW r \in Resolvers, Accept(r) \/ Reject(r) \/ NotEnough(r) \/ Publish(r)
      PROVE UNCHANGED <<candidates, step, probes>>
  BY <1>2 DEF Accept, Reject, NotEnough, Publish
<1>3. ASSUME Recover \/ Recompute \/ ApplySize \/ Restart
      PROVE UNCHANGED <<candidates, step, probes>>
  BY <1>3 DEF Recover, Recompute, ApplySize, Restart
<1>11. CASE Rescan
  BY <1>0, <1>f, <1>11 DEF Rescan
<1>4. ASSUME NEW s \in 1..Slots, Fail(s) \/ Pass(s) \/ ApplyRechecked(s) \/ Reactivate(s) \/ Clear(s) PROVE Apart'
  <2>1. probes[s] # Free
    BY <1>h, <1>4, RunsOne
  <2>2. UNCHANGED <<candidates, step>>
    BY <1>4, RecheckLeaves
  <2>3. CASE Ends(s)
    <3>1. \A t \in 1..Slots : probes'[t] # Free => probes[t] # Free /\ probes'[t].of = probes[t].of
      BY <1>h, <2>1, <2>3, EndsDoes DEF Alike
    <3> QED BY <3>1, <2>2, <1>k
  <2>4. ASSUME NEW a, Moves(s, a) PROVE Apart'
    <3>1. \A t \in 1..Slots : probes'[t] # Free => probes[t] # Free /\ probes'[t].of = probes[t].of
      BY <2>1, <2>4 DEF Moves
    <3> QED BY <3>1, <2>2, <1>k
  <2> QED BY <1>h, <1>4, <2>3, <2>4, RecheckGoes
<1>5. ASSUME NEW r \in Resolvers, Launch(r) PROVE Apart'
  BY <1>5 DEF Launch, Apart
<1>6. ASSUME NEW r \in Resolvers, MarkDisabled(r) PROVE Apart'
  <2>1. probes' = probes /\ step = Idle /\ r \in candidates /\ candidates' = candidates \ {r}
    BY <1>6 DEF MarkDisabled
  <2>2. step' = [at |-> "marked", of |-> r] \/ step' = step
    BY <1>6 DEF MarkDisabled
  <2> QED BY <1>h, <2>1, <2>2 DEF Apart
<1>7. ASSUME BeginPass PROVE Apart'
  <2>1. UNCHANGED <<step, probes>> /\ step = Idle /\ candidates' \in SUBSET {r \in Resolvers : Settled(r)}
    BY <1>7 DEF BeginPass
  <2> QED BY <2>1 DEF Apart, Settled, Rechecked
<1>8. ASSUME TakeOut PROVE Apart'
  <2>1. UNCHANGED <<candidates, probes>> /\ step # Idle /\ step'.of = step.of
    BY <1>h, <1>8, TakeOutDoes
  <2> QED BY <2>1, <1>h DEF Apart
<1>9. ASSUME Record PROVE Apart'
  BY <1>h, <1>9 DEF Record, Apart
<1>r. PICK any \in Resolvers : TRUE
  BY ResolversFinite
<1>10. FullScan => Apart'
  BY <1>r, <1>1
<1> QED BY <1>0, <1>1, <1>2, <1>3, <1>4, <1>5, <1>6, <1>7, <1>8, <1>9, <1>10, <1>11 DEF PoolNext

(* ---- the floor ---- *)
LEMMA NoFinalize == ASSUME released, NEW r \in Resolvers PROVE ~Release(r) /\ ~NotEnough(r) /\ ~FullScan /\ ~Rescan
BY DEF Release, Starts, NotEnough, FullScan, Rescan

(* Nothing but auto-disable takes a resolver out of use while none is crossed. *)
LEMMA ValidGrows ==
    ASSUME PoolInv, PoolNext, released, released', crossed = {}, ~TakeOut
    PROVE  Valid(snapshot) \subseteq Valid(snapshot)'
<1>h. PoolTypeOK /\ Same
  BY DEF PoolInv
<1>0. snapshot' = snapshot => Valid(snapshot) \subseteq Valid(snapshot)'
  BY DEF Valid
<1>s. \A q \in Valid(snapshot) : q \in Resolvers /\ snapshot[q].ok /\ source[q].ok
  BY <1>h DEF Same, Valid
<1>k. snapshot' = source' /\ (\A q \in Resolvers : source'[q].ok = source[q].ok)
         => Valid(snapshot) \subseteq Valid(snapshot)'
  BY <1>s DEF Valid
<1>1. ASSUME NEW r \in Resolvers, Accept(r) \/ Reject(r) \/ NotEnough(r) \/ Rebuild(r) PROVE snapshot' = snapshot
  BY <1>1 DEF Accept, Reject, NotEnough, Rebuild
<1>2. ASSUME NEW r \in Resolvers, Publish(r) PROVE snapshot' = source' /\ \A q \in Resolvers : source'[q].ok = source[q].ok
  BY <1>h, <1>2, PublishDoes
<1>3. ASSUME NEW s \in 1..Slots, ApplyRechecked(s) PROVE Valid(snapshot) \subseteq Valid(snapshot)'
  <2> DEFINE r == probes[s].of
  <2>1. r \in Resolvers /\ synced \in Sizes
    BY <1>h, <1>3, RunsOne DEF PoolTypeOK
  <2>2. SetSize(r, synced)
    BY <1>3 DEF ApplyRechecked
  <2> HIDE DEF r
  <2>3. Differs(r) /\ source'[r].ok = source[r].ok /\ snapshot'[r] = source'[r]
    BY <1>h, <2>1, <2>2, SetSizeDoes
  <2> QED BY <1>s, <2>3 DEF Valid, Differs
<1>4. ASSUME NEW s \in 1..Slots, Reactivate(s) PROVE Valid(snapshot) \subseteq Valid(snapshot)'
  <2> DEFINE r == probes[s].of
  <2>1. r \in Resolvers
    BY <1>h, <1>4, RunsOne
  <2>2. snapshot' = snapshot \/ SetValidity(r, TRUE)
    BY <1>4 DEF Reactivate
  <2> HIDE DEF r
  <2>3. ASSUME SetValidity(r, TRUE) PROVE Valid(snapshot) \subseteq Valid(snapshot)'
    <3>1. Differs(r) /\ source'[r].ok = TRUE /\ snapshot'[r] = source'[r]
      BY <1>h, <2>1, <2>3, SetValidityDoes
    <3> QED BY <1>s, <3>1 DEF Valid, Differs
  <2> QED BY <2>2, <2>3, <1>0
<1>5. ASSUME Recompute PROVE \/ snapshot' = snapshot
                             \/ snapshot' = source' /\ \A q \in Resolvers : source'[q].ok = source[q].ok
  BY <1>h, <1>5, RecomputeWrites
<1>6. ASSUME ApplySize PROVE snapshot' = snapshot
  BY <1>6 DEF ApplySize
<1>r. PICK any \in Resolvers : TRUE
  BY ResolversFinite
<1>7. ~Recover
  BY DEF Recover
<1> QED BY <1>0, <1>k, <1>1, <1>2, <1>3, <1>4, <1>5, <1>6, <1>7, <1>r, NoFinalize, QuietSteps

(* The primaries in use stay primaries, but for one that is demoted. *)
LEMMA PrimaryGrows ==
    ASSUME PoolInv, PoolNext, released, released', crossed = {}, demoted' = {}, ~TakeOut, ~Recompute
    PROVE  /\ Primary(snapshot) \subseteq Primary(snapshot)'
           /\ \A q \in Valid(snapshot) : snapshot[q].reserve => snapshot'[q].reserve \/
                                            \E s \in 1..Slots : probes[s] # Free /\ probes[s].of = q
<1>h. PoolTypeOK /\ Same
  BY DEF PoolInv
<1>v. Valid(snapshot) \subseteq Valid(snapshot)'
  BY ValidGrows
<1>s. \A q \in Valid(snapshot) : q \in Resolvers /\ snapshot[q].ok /\ source[q].ok /\ snapshot[q].reserve = source[q].reserve
  BY <1>h DEF Same, Valid
<1>k. ASSUME \A q \in Valid(snapshot) : snapshot'[q].reserve = snapshot[q].reserve
      PROVE  /\ Primary(snapshot) \subseteq Primary(snapshot)'
             /\ \A q \in Valid(snapshot) : snapshot[q].reserve => snapshot'[q].reserve
  BY <1>k, <1>v DEF Primary
<1>1. ASSUME NEW r \in Resolvers, Accept(r) \/ Reject(r) \/ NotEnough(r) \/ Rebuild(r) PROVE snapshot' = snapshot
  BY <1>1 DEF Accept, Reject, NotEnough, Rebuild
<1>2. ASSUME NEW r \in Resolvers, Publish(r)
      PROVE  /\ Primary(snapshot) \subseteq Primary(snapshot)'
             /\ \A q \in Valid(snapshot) : snapshot[q].reserve => snapshot'[q].reserve
  <2>1. /\ snapshot' = source' /\ \A q \in Resolvers \ {r} : source'[q] = source[q]
        /\ source'[r].reserve <=> source[r].reserve \/ Path[r] < synced
    BY <1>h, <1>2, PublishDoes
  <2>2. r \in Primary(snapshot) => ~(Path[r] < synced)
    BY <1>2 DEF Publish
  <2>3. ASSUME NEW q \in Primary(snapshot) PROVE ~snapshot'[q].reserve
    <3>1. q \in Valid(snapshot) /\ ~snapshot[q].reserve
      BY <2>3 DEF Primary
    <3>2. q \in Resolvers /\ ~source[q].reserve
      BY <3>1, <1>s
    <3>3. CASE q = r
      BY <2>1, <2>2, <2>3, <3>2, <3>3
    <3>4. CASE q # r
      BY <2>1, <3>2, <3>4
    <3> QED BY <3>3, <3>4
  <2>4. ASSUME NEW q \in Valid(snapshot), snapshot[q].reserve PROVE snapshot'[q].reserve
    <3>1. q \in Resolvers /\ source[q].reserve
      BY <2>4, <1>s
    <3>2. CASE q = r
      BY <2>1, <3>1, <3>2
    <3>3. CASE q # r
      BY <2>1, <3>1, <3>3
    <3> QED BY <3>2, <3>3
  <2> QED BY <1>v, <2>3, <2>4 DEF Primary
<1>3. ASSUME NEW s \in 1..Slots, ApplyRechecked(s) \/ Reactivate(s)
      PROVE  \A q \in Valid(snapshot) : snapshot'[q].reserve = snapshot[q].reserve
  <2>1. PICK r : r = probes[s].of
    OBVIOUS
  <2>2. \/ UNCHANGED <<source, snapshot>>
        \/ Differs(r) /\ snapshot'[r] = source'[r] /\ source'[r].reserve = source[r].reserve
    BY <1>h, <1>3, <2>1, RecheckWrites
  <2>3. ASSUME NEW q \in Valid(snapshot) PROVE snapshot'[q].reserve = snapshot[q].reserve
    BY <1>s, <2>2 DEF Differs
  <2> QED BY <2>3
<1>6. ASSUME ApplySize PROVE snapshot' = snapshot
  BY <1>6 DEF ApplySize
<1>r. PICK any \in Resolvers : TRUE
  BY ResolversFinite
<1>z. snapshot' = snapshot => \A q \in Valid(snapshot) : snapshot'[q].reserve = snapshot[q].reserve
  OBVIOUS
<1>7. ~Recover
  BY DEF Recover
<1> QED BY <1>k, <1>1, <1>2, <1>3, <1>6, <1>7, <1>r, <1>z, NoFinalize, QuietSteps

LEMMA MarkedStays ==
    ASSUME PoolInv, PoolNext, step'.at = "marked", step' # step
    PROVE  \E r \in Resolvers : MarkDisabled(r) /\ step' = [at |-> "marked", of |-> r]
<1>h. PoolTypeOK
  BY DEF PoolInv
<1>1. ASSUME NEW r \in Resolvers, MarkDisabled(r) PROVE step' = [at |-> "marked", of |-> r]
  BY <1>1 DEF MarkDisabled
<1>2. ~TakeOut
  BY <1>h, TakeOutDoes
<1>3. ~Record
  BY DEF Record, Idle
<1>4. ASSUME NEW r \in Resolvers PROVE ~Launch(r)
  BY DEF Launch
<1>5. ~FullScan /\ ~Rescan /\ ~Recover /\ ~Recompute /\ ~ApplySize /\ ~Restart /\ ~BeginPass
  BY DEF FullScan, Rescan, Recover, Recompute, ApplySize, Restart, BeginPass
<1> QED BY <1>1, <1>2, <1>3, <1>4, <1>5, ScanLeaves, RecheckLeaves DEF PoolNext

LEMMA HistoryGrows == ASSUME PoolNext PROVE crossed \subseteq crossed' /\ demoted \subseteq demoted'
<1>1. ASSUME NEW r \in Resolvers, Accept(r) \/ Reject(r) \/ Release(r) \/ NotEnough(r) \/ Publish(r) \/ Rebuild(r)
      PROVE  crossed \subseteq crossed' /\ demoted \subseteq demoted'
  BY <1>1 DEF Accept, Reject, Release, NotEnough, Publish, Rebuild
<1>3. ASSUME NEW s \in 1..Slots, ApplyRechecked(s) \/ Reactivate(s) PROVE UNCHANGED <<crossed, demoted>>
  BY <1>3 DEF ApplyRechecked, Reactivate
<1>4. ASSUME FullScan \/ Rescan \/ Recover \/ Recompute \/ ApplySize \/ TakeOut PROVE UNCHANGED <<crossed, demoted>>
  BY <1>4 DEF FullScan, Rescan, Recover, Recompute, ApplySize, TakeOut
<1> QED BY <1>1, <1>3, <1>4, QuietSteps

(* Nothing but a recovery takes the connect back. *)
LEMMA StaysReleased == ASSUME PoolNext, released, ~Recover PROVE released'
<1>1. ASSUME NEW r \in Resolvers, Accept(r) \/ Reject(r) \/ Release(r) \/ NotEnough(r) \/ Publish(r) \/ Rebuild(r)
      PROVE  released'
  BY <1>1 DEF Accept, Reject, Release, NotEnough, Publish, Rebuild, Finalize
<1>2. ASSUME NEW s \in 1..Slots, ApplyRechecked(s) \/ Reactivate(s) PROVE released'
  BY <1>2 DEF ApplyRechecked, Reactivate
<1>3. ASSUME FullScan \/ Rescan \/ Recompute \/ ApplySize \/ TakeOut PROVE released'
  BY <1>3 DEF FullScan, Rescan, Recompute, ApplySize, TakeOut, Finalize
<1> QED BY <1>1, <1>2, <1>3, QuietSteps

(* The connect is let go by the scan alone. *)
LEMMA LetsGo == ASSUME PoolNext, ~released, released' PROVE (\E r \in Resolvers : Release(r)) \/ FullScan
<1>1. ASSUME NEW r \in Resolvers, Accept(r) \/ Reject(r) \/ NotEnough(r) \/ Publish(r) \/ Rebuild(r)
      PROVE  released' = released
  BY <1>1 DEF Accept, Reject, NotEnough, Publish, Rebuild
<1>2. ASSUME NEW s \in 1..Slots, ApplyRechecked(s) \/ Reactivate(s) PROVE released' = released
  BY <1>2, RecheckLeaves
<1>3. Rescan \/ Recompute \/ ApplySize \/ TakeOut => released' = released
  BY DEF Rescan, Recompute, ApplySize, TakeOut
<1>4. Recover => ~released'
  BY DEF Recover
<1> QED BY <1>1, <1>2, <1>3, <1>4, QuietSteps

LEMMA RoomMarked ==
    ASSUME PoolInv, NEW r \in Resolvers, MarkDisabled(r), step' = [at |-> "marked", of |-> r], step = Idle
    PROVE  Room'
<1>h. PoolTypeOK
  BY DEF PoolInv
<1>0. step'.at = "marked" /\ step'.of = r /\ step' # Idle /\ snapshot' = snapshot
  BY DEF MarkDisabled, Idle
<1>1. CanDisable(r) /\ snapshot[r].ok
  BY <1>0 DEF MarkDisabled
<1> DEFINE P == Primary(snapshot)
           V == Valid(snapshot)
           A == Active(snapshot)
<1>2. P \subseteq V /\ V \subseteq Resolvers /\ A = (IF P # {} THEN P ELSE V)
  BY DEF Primary, Valid, Active
<1>3. \/ Cardinality(A) > Floor
      \/ HighPool > 0 /\ \E q \in V \ {r} : TRUE
  BY <1>1 DEF CanDisable, ReserveFor
<1>4. Primary(snapshot)' = P /\ Valid(snapshot)' = V
  BY <1>0 DEF Primary, Valid
<1> HIDE DEF P, V, A
<1>a. A \subseteq V /\ A \subseteq Resolvers
  BY <1>2
<1>5. \E q \in V : q # r
  <2>1. CASE Cardinality(A) > Floor
    <3>1. Cardinality(A) \in Nat /\ Cardinality(A \ {r}) \in Nat /\ Cardinality(A \ {r}) >= Cardinality(A) - 1
      BY <1>a, OneLess
    <3>2. Floor \in Nat \ {0}
      BY PoolAssumption
    <3>3. Cardinality(A \ {r}) # 0
      BY <2>1, <3>1, <3>2
    <3>4. A \ {r} # {}
      BY <3>3, FS_EmptySet
    <3> QED BY <1>a, <3>4
  <2> QED BY <1>3, <2>1
<1>6. ASSUME HighPool = 0 PROVE Cardinality(A) > Floor
  BY <1>3, <1>6
<1> QED BY <1>0, <1>2, <1>4, <1>5, <1>6 DEF Room

LEMMA RoomStep == ASSUME PoolInv, PoolNext, PoolTypeOK' PROVE Room'
<1>h. PoolTypeOK /\ Waiting /\ Running /\ Apart /\ Disabling /\ Room
  BY DEF PoolInv
<1>1. CASE step'.at # "marked"
  BY <1>1 DEF Room
<1>2. CASE step'.at = "marked" /\ step' # step
  <2>1. PICK r \in Resolvers : MarkDisabled(r) /\ step' = [at |-> "marked", of |-> r]
    BY <1>2, MarkedStays
  <2>2. step = Idle
    BY <2>1 DEF MarkDisabled
  <2> QED BY <2>1, <2>2, RoomMarked
<1>3. CASE step.at = "marked" /\ step' = step
  <2>1. step # Idle /\ step.of \in Resolvers
    BY <1>h, <1>3, StepIs DEF Idle
  <2>0. released /\ up
    BY <1>h, <2>1 DEF Waiting, Running
  <2>2. released /\ released' /\ up
    <3>1. ~Recover
      BY <2>1 DEF Recover, Stop
    <3> QED BY <2>0, <3>1, StaysReleased
  <2>3. ~TakeOut
    BY <1>h, <1>3, TakeOutDoes
  <2>4. ~Recompute
    BY <2>2 DEF Recompute
  <2>5. SUFFICES ASSUME crossed' = {} PROVE Room'
    BY DEF Room
  <2>6. crossed = {} /\ demoted \subseteq demoted'
    BY <2>5, HistoryGrows
  <2>7. Valid(snapshot) \subseteq Valid(snapshot)'
    BY <2>2, <2>3, <2>6, ValidGrows
  <2>8. snapshot[step.of].ok
    BY <1>3, <2>1, <2>6, <1>h DEF Disabling
  <2>9. \A s \in 1..Slots : probes[s] # Free => probes[s].of # step.of
    BY <1>h, <2>1 DEF Apart
  <2>10. (\E q \in Valid(snapshot) : q # step.of)'
    BY <1>3, <1>h, <2>6, <2>7 DEF Room
  <2>11. ASSUME HighPool = 0, demoted' = {}
         PROVE  /\ step.of \in Primary(snapshot)' => Cardinality(Primary(snapshot)') > Floor
                /\ Primary(snapshot)' = {} => Cardinality(Valid(snapshot)') > Floor
    <3>0. demoted = {}
      BY <2>6, <2>11
    <3>1. /\ Primary(snapshot) \subseteq Primary(snapshot)'
          /\ \A q \in Valid(snapshot) : snapshot[q].reserve => snapshot'[q].reserve \/
                                            \E s \in 1..Slots : probes[s] # Free /\ probes[s].of = q
      BY <2>2, <2>3, <2>4, <2>6, <2>11, PrimaryGrows
    <3>2. step.of \in Primary(snapshot)' => step.of \in Primary(snapshot)
      BY <2>1, <2>8, <2>9, <3>1 DEF Primary, Valid
    <3>3. /\ step.of \in Primary(snapshot) => Cardinality(Primary(snapshot)) > Floor
          /\ Primary(snapshot) = {} => Cardinality(Valid(snapshot)) > Floor
      BY <1>3, <1>h, <2>6, <2>11, <3>0 DEF Room
    <3>4. Primary(snapshot)' \subseteq Resolvers /\ Valid(snapshot)' \subseteq Resolvers
      BY DEF Primary, Valid
    <3>5. /\ Cardinality(Primary(snapshot)) \in Nat /\ Cardinality(Primary(snapshot)') \in Nat
          /\ Cardinality(Primary(snapshot)) <= Cardinality(Primary(snapshot)')
      BY <3>1, <3>4, MoreCount
    <3>6. /\ Cardinality(Valid(snapshot)) \in Nat /\ Cardinality(Valid(snapshot)') \in Nat
          /\ Cardinality(Valid(snapshot)) <= Cardinality(Valid(snapshot)')
      BY <2>7, <3>4, MoreCount
    <3>7. Floor \in Nat
      BY PoolAssumption
    <3>8. step.of \in Primary(snapshot)' => Cardinality(Primary(snapshot)') > Floor
      BY <3>2, <3>3, <3>5, <3>7
    <3>9. Primary(snapshot)' = {} => Cardinality(Valid(snapshot)') > Floor
      BY <3>1, <3>3, <3>6, <3>7
    <3> QED BY <3>8, <3>9
  <2> QED BY <1>3, <2>10, <2>11 DEF Room
<1> QED BY <1>1, <1>2, <1>3

LEMMA FloorStep == ASSUME PoolInv, PoolNext, PoolTypeOK' PROVE FloorKept'
<1>h. PoolTypeOK /\ Waiting /\ Disabling /\ Room /\ FloorKept
  BY DEF PoolInv
<1>g. crossed \subseteq crossed' /\ demoted \subseteq demoted'
  BY HistoryGrows
<1>1. CASE TakeOut
  <2> DEFINE o == step.of
             P == Primary(snapshot)
             V == Valid(snapshot)
  <2>1. step # Idle /\ o \in Resolvers /\ step.at = "marked" /\ UNCHANGED <<released, crossed, demoted>>
    BY <1>h, <1>1, TakeOutDoes
  <2>2. SUFFICES ASSUME crossed = {} PROVE FloorKept'
    BY <2>1 DEF FloorKept
  <2>3. snapshot[o].ok
    BY <2>1, <2>2, <1>h DEF Disabling
  <2>4. Differs(o) /\ snapshot'[o] = source'[o] /\ ~source'[o].ok
    BY <1>h, <1>1, <2>3, TakeOutDoes
  <2>5. Valid(snapshot)' = V \ {o} /\ Primary(snapshot)' = P \ {o} /\ P \subseteq V /\ V \subseteq Resolvers
    BY <2>1, <2>4 DEF Valid, Primary, Differs
  <2>6. Valid(snapshot)' # {}
    BY <2>1, <2>2, <2>5, <1>h DEF Room
  <2>7. ASSUME demoted = {} PROVE ~sunk'
    <3> DEFINE A == Active(snapshot)
               B == Active(snapshot')
    <3>1. A = (IF P # {} THEN P ELSE V) /\ B = (IF P \ {o} # {} THEN P \ {o} ELSE V \ {o})
      BY <2>5 DEF Active, Valid, Primary
    <3>2. ~sunk /\ (sunk' <=> sunk \/ (HighPool = 0 /\ Cardinality(B) < Floor /\ o \in A))
      BY <1>1, <1>h, <2>2, <2>7 DEF TakeOut, FloorKept, PoolTypeOK
    <3> HIDE DEF A, B
    <3>3. SUFFICES ASSUME HighPool = 0, o \in A PROVE ~(Cardinality(B) < Floor)
      BY <3>2
    <3>4. /\ o \in P => Cardinality(P) > Floor
          /\ P = {} => Cardinality(V) > Floor
      BY <2>1, <2>2, <2>7, <3>3, <1>h DEF Room
    <3>5. /\ Cardinality(P) \in Nat /\ Cardinality(P \ {o}) \in Nat /\ Cardinality(P \ {o}) >= Cardinality(P) - 1
          /\ Cardinality(V) \in Nat /\ Cardinality(V \ {o}) \in Nat /\ Cardinality(V \ {o}) >= Cardinality(V) - 1
      <4>1. P \subseteq Resolvers /\ V \subseteq Resolvers
        BY <2>5
      <4> HIDE DEF P, V, o
      <4> QED BY <4>1, OneLess
    <3>6. Floor \in Nat /\ Floor > 0
      BY PoolAssumption
    <3> HIDE DEF P, V, o
    <3>7. CASE P # {}
      <4>1. o \in P /\ A = P
        BY <3>1, <3>3, <3>7
      <4>2. Cardinality(P \ {o}) >= Floor /\ Cardinality(P \ {o}) # 0
        BY <3>4, <3>5, <3>6, <4>1
      <4>3. P \ {o} # {}
        BY <4>2, FS_EmptySet
      <4>4. B = P \ {o}
        BY <3>1, <4>3
      <4> QED BY <3>5, <3>6, <4>2, <4>4
    <3>8. CASE P = {}
      <4>1. B = V \ {o}
        BY <3>1, <3>8
      <4>2. Cardinality(V \ {o}) >= Floor
        BY <3>4, <3>5, <3>6, <3>8
      <4> QED BY <3>5, <3>6, <4>1, <4>2
    <3> QED BY <3>7, <3>8
  <2> QED BY <2>1, <2>6, <2>7 DEF FloorKept
<1>2. CASE ~TakeOut
  <2>1. sunk' = sunk
    <3>1. ASSUME NEW s \in 1..Slots, ApplyRechecked(s) \/ Reactivate(s) PROVE sunk' = sunk
      BY <3>1, RecheckLeaves
    <3>2. FullScan \/ Rescan \/ Recover \/ Recompute \/ ApplySize => sunk' = sunk
      BY DEF FullScan, Rescan, Recover, Recompute, ApplySize
    <3> QED BY <1>2, <3>1, <3>2, ScanLeaves, QuietSteps
  <2>2. CASE released /\ released'
    <3>1. ASSUME crossed' = {} PROVE Valid(snapshot)' # {}
      <4>1. crossed = {}
        BY <1>g, <3>1
      <4> QED BY <1>2, <1>h, <2>2, <4>1, ValidGrows DEF FloorKept
    <3> QED BY <1>g, <1>h, <2>1, <3>1 DEF FloorKept
  <2>3. CASE ~released /\ released'
    <3>1. (\E r \in Resolvers : Release(r)) \/ FullScan
      BY <2>3, LetsGo
    <3>2. Measured(source) # {} /\ Finalize
      BY <1>h, <3>1, TypeOfStart
    <3>3. snapshot' = source' /\ \A q \in Resolvers : source'[q].ok = source[q].ok
      BY <1>h, <2>3, <3>2, FinalizeDoes
    <3>4. Valid(snapshot)' # {}
      BY <3>2, <3>3 DEF Valid, Measured
    <3> QED BY <1>g, <1>h, <2>1, <3>4 DEF FloorKept
  <2>4. CASE ~released'
    BY <1>g, <1>h, <2>1, <2>4 DEF FloorKept
  <2> QED BY <2>2, <2>3, <2>4
<1> QED BY <1>1, <1>2

(* ---- out is out ---- *)
Excused(r) ==
    \/ step # Idle /\ step.of = r
    \/ \E s \in 1..Slots : probes[s].at = "active" /\ probes[s].of = r
    \/ r \in crossed
    \/ scan[r] \in {"accepted", "published"}

LEMMA OutIs == OutIsOut <=> (released => \A r \in Resolvers : disabled[r] # Absent /\ snapshot[r].ok => Excused(r))
BY DEF OutIsOut, Excused

LEMMA OutIsNow == OutIsOut' <=> (released' => \A r \in Resolvers : disabled'[r] # Absent /\ snapshot'[r].ok => Excused(r)')
BY DEF OutIsOut, Excused

(* What was decided stays an excuse. *)
LEMMA ExcuseOfSource ==
    ASSUME PoolTypeOK, released, OutIsOut, PublishedIsTrue, NEW r \in Resolvers, disabled[r] # Absent, source[r].ok
    PROVE  Excused(r)
<1>2. snapshot[r] = source[r] \/ Excused(r)
  BY DEF PublishedIsTrue, Excused
<1> QED BY <1>2, OutIs

LEMMA OutOfScan ==
    ASSUME PoolInv, released, NEW r \in Resolvers, Accept(r) \/ Reject(r) \/ NotEnough(r) \/ Publish(r)
    PROVE  OutIsOut'
<1>h. PoolTypeOK /\ Waiting /\ OutIsOut /\ PublishedIsTrue
  BY DEF PoolInv
<1>1. UNCHANGED <<disabled, step, probes>> /\ crossed \subseteq crossed'
  BY DEF Accept, Reject, NotEnough, Publish
<1>2. \A q \in Resolvers \ {r} : scan'[q] = scan[q]
  BY <1>h DEF Accept, Reject, NotEnough, Publish, PoolTypeOK
<1>3. ASSUME NEW q \in Resolvers, q # r, Excused(q) PROVE Excused(q)'
  BY <1>1, <1>2, <1>3 DEF Excused
<1>4. CASE Accept(r)
  <2>1. snapshot' = snapshot /\ scan'[r] = "accepted"
    BY <1>h, <1>4 DEF Accept, PoolTypeOK
  <2>2. Excused(r)'
    BY <2>1 DEF Excused
  <2> QED BY <1>h, <1>1, <1>3, <2>1, <2>2, OutIs, OutIsNow
<1>5. CASE Reject(r)
  <2>1. snapshot' = snapshot /\ scan[r] = "due"
    BY <1>5 DEF Reject, Tests
  <2>2. Excused(r) => Excused(r)'
    BY <1>1, <2>1 DEF Excused
  <2> QED BY <1>h, <1>1, <1>3, <2>1, <2>2, OutIs, OutIsNow
<1>6. ~NotEnough(r)
  BY DEF NotEnough
<1>7. CASE Publish(r)
  <2>1. snapshot' = source' /\ \A q \in Resolvers : source'[q].ok = source[q].ok
    BY <1>h, <1>7, PublishDoes
  <2>2. scan'[r] = "published"
    BY <1>h, <1>7 DEF Publish, PoolTypeOK
  <2>3. Excused(r)'
    BY <2>2 DEF Excused
  <2>4. ASSUME NEW q \in Resolvers, disabled'[q] # Absent, snapshot'[q].ok PROVE Excused(q)'
    <3>1. disabled[q] # Absent /\ source[q].ok
      BY <1>1, <2>1, <2>4
    <3>2. Excused(q)
      BY <1>h, <3>1, ExcuseOfSource
    <3> QED BY <1>3, <2>3, <3>2
  <2> QED BY <2>4, OutIsNow
<1> QED BY <1>4, <1>5, <1>6, <1>7

LEMMA OutForgotten == ASSUME ForgetRechecks PROVE OutIsOut'
<1>1. \A q \in Resolvers : disabled'[q] = Absent
  BY DEF ForgetRechecks
<1> QED BY <1>1, OutIsNow

LEMMA OutOfSession ==
    ASSUME PoolInv, released, Recompute \/ ApplySize \/ Restart \/ BeginPass
    PROVE  OutIsOut'
<1>h. PoolTypeOK /\ Waiting /\ OutIsOut /\ PublishedIsTrue
  BY DEF PoolInv
<1>2. CASE Recompute
  <2>1. UNCHANGED <<disabled, step, probes, crossed, scan>>
    BY <1>h, <1>2, RecomputeDoes
  <2>2. \A q \in Resolvers : Excused(q) => Excused(q)'
    BY <2>1 DEF Excused
  <2>3. \/ snapshot' = snapshot
        \/ snapshot' = source' /\ \A q \in Resolvers : source'[q].ok = source[q].ok
    BY <1>h, <1>2, RecomputeWrites
  <2>4. ASSUME NEW q \in Resolvers, disabled'[q] # Absent, snapshot'[q].ok PROVE Excused(q)'
    <3>1. disabled[q] # Absent /\ (snapshot[q].ok \/ source[q].ok)
      BY <2>1, <2>3, <2>4
    <3>2. Excused(q)
      BY <1>h, <3>1, ExcuseOfSource, OutIs
    <3> QED BY <2>2, <3>2
  <2> QED BY <2>4, OutIsNow
<1>3. CASE ApplySize \/ Restart \/ BeginPass
  <2>1. UNCHANGED <<disabled, step, probes, crossed, scan, snapshot, released>>
    BY <1>3 DEF ApplySize, Restart, BeginPass
  <2> QED BY <2>1, <1>h DEF OutIsOut
<1> QED BY <1>2, <1>3

LEMMA OutOfDisable ==
    ASSUME PoolInv, released, (\E r \in Resolvers : MarkDisabled(r)) \/ TakeOut \/ Record
    PROVE  OutIsOut'
<1>h. PoolTypeOK /\ Disabling /\ OutIsOut
  BY DEF PoolInv
<1>t. disabled \in [Resolvers -> Absent..1]
  BY <1>h DEF PoolTypeOK
<1>1. ASSUME NEW r \in Resolvers, MarkDisabled(r) PROVE OutIsOut'
  <2>1. UNCHANGED <<probes, crossed, scan, snapshot, released>> /\ step = Idle
    BY <1>1 DEF MarkDisabled
  <2>2. CASE disabled' = [disabled EXCEPT ![r] = 0] /\ step' = [at |-> "marked", of |-> r]
    <3>1. step' # Idle /\ step'.of = r
      BY <2>2 DEF Idle
    <3>2. \A q \in Resolvers \ {r} : disabled'[q] = disabled[q] /\ (Excused(q) => Excused(q)')
      BY <1>t, <2>1, <2>2 DEF Excused
    <3>3. Excused(r)'
      BY <3>1 DEF Excused
    <3> QED BY <1>h, <2>1, <3>2, <3>3, OutIs, OutIsNow
  <2>3. CASE UNCHANGED <<disabled, step>>
    BY <1>h, <2>1, <2>3 DEF OutIsOut
  <2> QED BY <1>1, <2>2, <2>3 DEF MarkDisabled
<1>2. CASE TakeOut
  <2>1. /\ step # Idle /\ step' # Idle /\ step'.of = step.of /\ UNCHANGED <<disabled, probes, crossed, scan>>
        /\ step.of \in Resolvers
    BY <1>h, <1>2, TakeOutDoes
  <2>2. \A q \in Resolvers \ {step.of} : snapshot'[q] = snapshot[q]
    BY <1>h, <1>2, TakeOutDoes DEF Differs
  <2>3. \A q \in Resolvers : Excused(q) => Excused(q)'
    BY <2>1 DEF Excused
  <2>4. Excused(step.of)'
    BY <2>1 DEF Excused
  <2> QED BY <1>h, <2>1, <2>2, <2>3, <2>4, OutIs, OutIsNow
<1>3. CASE Record
  <2>0. PICK o : o = step.of
    OBVIOUS
  <2>1. step.at = "out" /\ step # Idle /\ o \in Resolvers
    BY <1>h, <1>3, <2>0, StepIs DEF Record
  <2>2. disabled' = [disabled EXCEPT ![o] = 0] /\ UNCHANGED <<probes, crossed, scan, snapshot>>
    BY <1>3, <2>0 DEF Record
  <2>3. snapshot[o].ok => o \in crossed
    BY <2>0, <2>1, <1>h DEF Disabling
  <2>4. \A q \in Resolvers \ {o} : disabled'[q] = disabled[q] /\ (Excused(q) => Excused(q)')
    BY <1>t, <2>0, <2>2 DEF Excused
  <2>5. snapshot'[o].ok => Excused(o)'
    BY <2>2, <2>3 DEF Excused
  <2> QED BY <1>h, <2>2, <2>4, <2>5, OutIs, OutIsNow
<1> QED BY <1>1, <1>2, <1>3

(* A recheck that is not the one that moved excuses what it did. *)
LEMMA ExcuseStays ==
    ASSUME PoolTypeOK, NEW s \in 1..Slots, UNCHANGED <<step, crossed, scan>>, NEW q \in Resolvers, Excused(q),
           probes[s].at # "active" \/ probes[s].of # q,
           \A t \in 1..Slots \ {s} : /\ probes'[t].at = probes[t].at
                                     /\ probes[t] # Free => probes'[t].of = probes[t].of
    PROVE  Excused(q)'
<1>1. ASSUME NEW t \in 1..Slots, probes[t].at = "active", probes[t].of = q PROVE probes'[t].at = "active" /\ probes'[t].of = q
  <2>1. t # s /\ probes[t] # Free
    BY <1>1 DEF Free
  <2> QED BY <1>1, <2>1
<1> QED BY <1>1 DEF Excused

LEMMA OutOfRecheck ==
    ASSUME PoolInv, released, NEW s \in 1..Slots,
           Fail(s) \/ Pass(s) \/ ApplyRechecked(s) \/ Reactivate(s) \/ Clear(s)
    PROVE  OutIsOut'
<1>h. PoolTypeOK /\ Waiting /\ OutIsOut /\ PublishedIsTrue
  BY DEF PoolInv
<1>0. probes[s] # Free /\ probes[s].of \in Resolvers
  BY <1>h, RunsOne
<1>r. PICK r \in Resolvers : r = probes[s].of
  BY <1>0
<1>a. UNCHANGED <<step, crossed, scan>>
  BY RecheckLeaves
<1>t. disabled \in [Resolvers -> Absent..1]
  BY <1>h DEF PoolTypeOK
<1>b. \A t \in 1..Slots \ {s} : /\ probes'[t].at = probes[t].at
                                /\ probes[t] # Free => probes'[t].of = probes[t].of
  <2>1. CASE Ends(s)
    BY <1>h, <1>0, <2>1, EndsDoes DEF Alike
  <2>2. CASE \E a : Moves(s, a)
    BY <2>2 DEF Moves
  <2> QED BY <1>h, <2>1, <2>2, RecheckGoes
<1>c. ASSUME NEW q \in Resolvers, Excused(q), probes[s].at # "active" \/ r # q PROVE Excused(q)'
  BY <1>h, <1>r, <1>a, <1>b, <1>c, ExcuseStays
<1>d. ASSUME NEW q \in Resolvers, disabled[q] # Absent, snapshot[q].ok \/ source[q].ok PROVE Excused(q)
  BY <1>h, <1>d, ExcuseOfSource, OutIs
<1>1. CASE Fail(s)
  <2>1. probes[s].at = "probing" /\ snapshot' = snapshot /\ disabled' = [disabled EXCEPT ![r] = IF @ = Absent THEN Absent ELSE 0]
    BY <1>1, <1>r DEF Fail
  <2>2. \A q \in Resolvers : disabled'[q] # Absent => disabled[q] # Absent
    BY <1>0, <1>t, <2>1
  <2> QED BY <1>c, <1>d, <2>1, <2>2, OutIsNow
<1>2. CASE Pass(s)
  <2>1. probes[s].at = "probing" /\ snapshot' = snapshot
    BY <1>2, <1>r DEF Pass
  <2>2. \A q \in Resolvers : disabled'[q] # Absent => disabled[q] # Absent
    <3>1. disabled' = disabled \/ (disabled[r] # Absent /\ disabled' = [disabled EXCEPT ![r] = @ + 1])
      BY <1>2, <1>r DEF Pass
    <3> QED BY <1>0, <1>t, <3>1
  <2> QED BY <1>c, <1>d, <2>1, <2>2, OutIsNow
<1>3. CASE ApplyRechecked(s)
  <2>1. probes[s].at = "passed" /\ disabled' = disabled /\ SetSize(r, synced)
    BY <1>3, <1>r DEF ApplyRechecked
  <2>2. synced \in Sizes
    BY <1>h DEF PoolTypeOK
  <2>3. Differs(r) /\ snapshot'[r] = source'[r] /\ source'[r].ok = source[r].ok
    BY <1>h, <1>0, <2>1, <2>2, SetSizeDoes
  <2>4. \A q \in Resolvers : snapshot'[q].ok => snapshot[q].ok \/ source[q].ok
    BY <2>3 DEF Differs
  <2> QED BY <1>c, <1>d, <2>1, <2>4, OutIsNow
<1>4. CASE Reactivate(s)
  <2>1. probes[s].at = "applied" /\ disabled' = disabled
    BY <1>4 DEF Reactivate
  <2>2. CASE snapshot' = snapshot
    BY <1>c, <1>d, <2>1, <2>2, OutIsNow
  <2>3. CASE SetValidity(r, TRUE) /\ probes' = [probes EXCEPT ![s].at = "active"]
    <3>1. Differs(r)
      BY <1>h, <1>0, <2>3, SetValidityDoes
    <3>2. Excused(r)'
      <4>1. PICK b \in {"probing", "passed", "applied", "active"} : b = "active"
        OBVIOUS
      <4>2. probes'[s].at = "active" /\ probes'[s].of = r
        BY <1>h, <1>0, <1>r, <2>3, <4>1, MovesDoes DEF Moves
      <4> QED BY <4>2 DEF Excused
    <3>3. \A q \in Resolvers \ {r} : snapshot'[q] = snapshot[q]
      BY <3>1 DEF Differs
    <3> QED BY <1>c, <1>d, <2>1, <3>2, <3>3, OutIsNow
  <2> QED BY <1>4, <1>r, <2>2, <2>3 DEF Reactivate
<1>5. CASE Clear(s)
  <2>1. snapshot' = snapshot /\ disabled' = [disabled EXCEPT ![r] = Absent]
    BY <1>5, <1>r DEF Clear
  <2>2. disabled'[r] = Absent /\ \A q \in Resolvers \ {r} : disabled'[q] = disabled[q]
    BY <1>0, <1>t, <2>1
  <2> QED BY <1>c, <1>d, <2>1, <2>2, OutIsNow
<1> QED BY <1>1, <1>2, <1>3, <1>4, <1>5

LEMMA OutOfLaunch == ASSUME PoolInv, released, NEW r \in Resolvers, Launch(r) PROVE OutIsOut'
<1>h. PoolTypeOK /\ OutIsOut
  BY DEF PoolInv
<1>1. UNCHANGED <<step, crossed, scan, snapshot, disabled>>
  BY DEF Launch
<1>2. PICK t \in 1..Slots : probes[t] = Free /\ \A u \in 1..Slots \ {t} : probes'[u] = probes[u]
  BY <1>h, LaunchDoes
<1>3. probes[t].at # "active"
  BY <1>2 DEF Free
<1>4. \A q \in Resolvers : Excused(q) => Excused(q)'
  BY <1>h, <1>1, <1>2, <1>3, ExcuseStays
<1> QED BY <1>h, <1>1, <1>4, OutIs, OutIsNow

LEMMA OutIsOutStep == ASSUME PoolInv, PoolNext PROVE OutIsOut'
<1> SUFFICES ASSUME released' PROVE OutIsOut'
  BY DEF OutIsOut
<1>1. ASSUME NEW r \in Resolvers, Release(r) \/ Rebuild(r) PROVE OutIsOut'
  BY <1>1, OutForgotten DEF Release, Rebuild, Finalize
<1>2. FullScan => OutIsOut'
  BY OutForgotten DEF FullScan, Finalize
<1>3. CASE ~released
  BY <1>1, <1>2, <1>3, LetsGo
<1>4. CASE released
  <2>1. ~Rescan /\ ~Recover
    BY <1>4 DEF Rescan, Recover
  <2> QED BY <1>1, <1>2, <1>4, <2>1, OutOfScan, OutOfSession, OutOfDisable, OutOfRecheck, OutOfLaunch DEF PoolNext
<1> QED BY <1>3, <1>4

(* ---- what is published was decided ---- *)
LEMMA ConnEqual ==
    ASSUME NEW v \in Conn, NEW w \in Conn, v.ok = w.ok, v.reserve = w.reserve, v.size = w.size
    PROVE  v = w
BY DEF Conn

LEMMA PublishedStep == ASSUME PoolInv, PoolNext, PoolTypeOK' PROVE PublishedIsTrue'
<1>h. PoolTypeOK /\ PublishedIsTrue /\ PoolTypeOK'
  BY DEF PoolInv
<1> SUFFICES ASSUME released', NEW q \in Resolvers
             PROVE  snapshot'[q] = source'[q] \/ scan'[q] = "accepted" \/ q \in crossed'
  BY DEF PublishedIsTrue
<1>s. released => snapshot[q] = source[q] \/ scan[q] = "accepted" \/ q \in crossed
  BY <1>h DEF PublishedIsTrue
<1>0. CASE UNCHANGED <<source, snapshot, released, scan, crossed>>
  BY <1>0, <1>s
<1>1. ASSUME NEW r \in Resolvers, Accept(r)
      PROVE  snapshot'[q] = source'[q] \/ scan'[q] = "accepted" \/ q \in crossed'
  <2>1. \A p \in Resolvers \ {r} : source'[p] = source[p]
    BY <1>h, <1>1, AcceptDoes DEF Differs
  <2>2. UNCHANGED <<snapshot, released>> /\ crossed \subseteq crossed' /\ scan' = [scan EXCEPT ![r] = "accepted"]
    BY <1>1 DEF Accept
  <2> QED BY <2>1, <2>2, <1>s, <1>h DEF PoolTypeOK
<1>2. ASSUME NEW r \in Resolvers, Reject(r)
      PROVE  snapshot'[q] = source'[q] \/ scan'[q] = "accepted" \/ q \in crossed'
  <2>1. /\ source'[r].ok = FALSE /\ source'[r].reserve = source[r].reserve /\ source'[r].size = source[r].size
        /\ \A p \in Resolvers \ {r} : source'[p] = source[p]
    <3>1. source' \in Connections
      BY <1>h DEF PoolTypeOK
    <3>2. source'[r].ok \in BOOLEAN
      BY <3>1, ConnOf
    <3> QED BY <1>h, <1>2, <3>2, RejectDoes DEF Differs
  <2>2. /\ UNCHANGED <<snapshot, released>> /\ crossed \subseteq crossed' /\ scan' = [scan EXCEPT ![r] = "failed"]
        /\ scan[r] = "due" /\ (snapshot[r].ok => r \in crossed')
    BY <1>2 DEF Reject, Tests
  <2>3. scan'[r] = "failed" /\ \A p \in Resolvers \ {r} : scan'[p] = scan[p]
    BY <2>2, <1>h DEF PoolTypeOK
  <2>4. CASE q # r
    BY <2>1, <2>2, <2>3, <2>4, <1>s
  <2>5. CASE q = r /\ ~snapshot[r].ok
    <3>1. r \in crossed \/ snapshot[r] = source[r]
      BY <1>s, <2>2, <2>5
    <3>2. ASSUME snapshot[r] = source[r] PROVE source'[r] = source[r]
      <4>1. source[r] \in Conn /\ source'[r] \in Conn /\ source[r].ok \in BOOLEAN
        BY <1>h, ConnOf DEF PoolTypeOK
      <4>2. source[r].ok = FALSE
        BY <2>5, <3>2, <4>1
      <4> QED BY <2>1, <4>1, <4>2, ConnEqual
    <3> QED BY <2>2, <2>5, <3>1, <3>2
  <2> QED BY <2>2, <2>4, <2>5
<1>3. ASSUME NEW r \in Resolvers, Release(r) \/ FullScan PROVE snapshot' = source'
  BY <1>3 DEF Release, FullScan, Finalize
<1>4. ASSUME NEW r \in Resolvers, Publish(r) PROVE snapshot' = source'
  BY <1>4 DEF Publish
<1>5. ASSUME NEW r \in Resolvers, Rebuild(r) PROVE snapshot'[q] = source'[q] \/ scan'[q] = "accepted" \/ q \in crossed'
  <2>1. UNCHANGED <<source, snapshot, released, crossed>> /\ scan[r] = "published" /\ scan' = [scan EXCEPT ![r] = "done"]
    BY <1>5 DEF Rebuild
  <2> QED BY <2>1, <1>s, <1>h DEF PoolTypeOK
<1>b. ASSUME NEW r \in Resolvers PROVE ~NotEnough(r) /\ ~Rescan /\ ~Recover
  BY DEF NotEnough, Rescan, Recover
<1>6. ASSUME NEW s \in 1..Slots, ApplyRechecked(s) \/ Reactivate(s)
      PROVE  snapshot'[q] = source'[q] \/ scan'[q] = "accepted" \/ q \in crossed'
  <2>1. UNCHANGED <<released, crossed, scan>>
    BY <1>h, <1>6, RecheckWrites
  <2>2. CASE UNCHANGED <<source, snapshot>>
    BY <2>1, <2>2, <1>s
  <2>3. CASE Differs(probes[s].of) /\ snapshot'[probes[s].of] = source'[probes[s].of]
    BY <2>1, <2>3, <1>s DEF Differs
  <2> QED BY <1>h, <1>6, <2>2, <2>3, RecheckWrites
<1>8. ASSUME Recompute PROVE snapshot' = source' \/ UNCHANGED <<source, snapshot, released, scan, crossed>>
  BY <1>h, <1>8, RecomputeWrites, RecomputeDoes
<1>9. ASSUME ApplySize PROVE UNCHANGED <<source, snapshot, released, scan, crossed>>
  BY <1>9 DEF ApplySize
<1>10. ASSUME TakeOut PROVE snapshot'[q] = source'[q] \/ scan'[q] = "accepted" \/ q \in crossed'
  BY <1>h, <1>10, <1>s, TakeOutDoes DEF Differs
<1>11. snapshot' = source' => snapshot'[q] = source'[q]
  OBVIOUS
<1> QED BY <1>0, <1>1, <1>2, <1>3, <1>4, <1>5, <1>b, <1>6, <1>8, <1>9, <1>10, <1>11, QuietSteps

(* ---- sizes ---- *)
(* What a resolver in use is held to. *)
Holds(c, r) ==
    /\ 0 < c[r].size /\ c[r].size <= Path[r]
    /\ released => c[r].reserve \/ c[r].size >= Now \/ (scan[r] = "accepted" /\ c[r].size = Path[r])

LEMMA SizedIs ==
    /\ Sized(source)' <=> \A r \in Resolvers : source'[r].ok /\ r \notin outrun' => Holds(source, r)'
    /\ Sized(snapshot)' <=> \A r \in Resolvers : snapshot'[r].ok /\ r \notin outrun' => Holds(snapshot, r)'
    /\ Sized(source) <=> \A r \in Resolvers : source[r].ok /\ r \notin outrun => Holds(source, r)
    /\ Sized(snapshot) <=> \A r \in Resolvers : snapshot[r].ok /\ r \notin outrun => Holds(snapshot, r)
BY DEF Sized, Holds, Valid

LEMMA NowNat == ASSUME PoolTypeOK PROVE Now \in Nat /\ synced \in Nat /\ target \in Nat
BY SizesNat DEF Now, PoolTypeOK

LEMMA HoldsStays ==
    ASSUME NEW r \in Resolvers, released' => released, released' => Now' = Now,
           released' => scan'[r] = scan[r] \/ scan[r] # "accepted"
    PROVE  /\ source'[r] = source[r] /\ Holds(source, r) => Holds(source, r)'
           /\ snapshot'[r] = snapshot[r] /\ Holds(snapshot, r) => Holds(snapshot, r)'
BY DEF Holds

LEMMA SizedOfAccept ==
    ASSUME PoolInv, NEW r \in Resolvers, Accept(r)
    PROVE  Sized(source)' /\ Sized(snapshot)'
<1>h. PoolTypeOK /\ Sized(source) /\ Sized(snapshot)
  BY DEF PoolInv
<1>1. /\ UNCHANGED <<snapshot, released, synced, target, outrun>> /\ scan[r] = "due" /\ Path[r] > 0
      /\ scan' = [scan EXCEPT ![r] = "accepted"]
  BY DEF Accept, Tests
<1>2. scan'[r] = "accepted" /\ \A q \in Resolvers \ {r} : scan'[q] = scan[q]
  BY <1>h, <1>1 DEF PoolTypeOK
<1>3. Now' = Now
  BY <1>1 DEF Now
<1>4. source'[r].size = Path[r] /\ \A q \in Resolvers \ {r} : source'[q] = source[q]
  BY <1>h, AcceptDoes DEF Differs
<1>5. Holds(source, r)'
  BY <1>1, <1>2, <1>4, ResolversFinite DEF Holds
<1>6. \A q \in Resolvers : source'[q].ok /\ q \notin outrun' => Holds(source, q)'
  BY <1>h, <1>1, <1>2, <1>3, <1>4, <1>5, HoldsStays, SizedIs
<1>7. \A q \in Resolvers : snapshot'[q].ok /\ q \notin outrun' => Holds(snapshot, q)'
  BY <1>h, <1>1, <1>2, <1>3, HoldsStays, SizedIs
<1> QED BY <1>6, <1>7, SizedIs

LEMMA SizedOfReject ==
    ASSUME PoolInv, NEW r \in Resolvers, Reject(r)
    PROVE  Sized(source)' /\ Sized(snapshot)'
<1>h. PoolTypeOK /\ Sized(source) /\ Sized(snapshot)
  BY DEF PoolInv
<1>1. /\ UNCHANGED <<snapshot, released, synced, target, outrun>> /\ scan[r] = "due"
      /\ scan' = [scan EXCEPT ![r] = "failed"]
  BY DEF Reject, Tests
<1>2. \A q \in Resolvers \ {r} : scan'[q] = scan[q]
  BY <1>h, <1>1 DEF PoolTypeOK
<1>3. Now' = Now
  BY <1>1 DEF Now
<1>4. ~source'[r].ok /\ \A q \in Resolvers \ {r} : source'[q] = source[q]
  BY <1>h, RejectDoes DEF Differs
<1>6. \A q \in Resolvers : source'[q].ok /\ q \notin outrun' => Holds(source, q)'
  BY <1>h, <1>1, <1>2, <1>3, <1>4, HoldsStays, SizedIs
<1>7. \A q \in Resolvers : snapshot'[q].ok /\ q \notin outrun' => Holds(snapshot, q)'
  BY <1>h, <1>1, <1>2, <1>3, HoldsStays, SizedIs
<1> QED BY <1>6, <1>7, SizedIs

LEMMA SizedOfNotEnough ==
    ASSUME PoolInv, NEW r \in Resolvers, NotEnough(r)
    PROVE  Sized(source)' /\ Sized(snapshot)'
<1>h. Sized(source) /\ Sized(snapshot)
  BY DEF PoolInv
<1>1. ~released /\ UNCHANGED <<source, snapshot, released, outrun>>
  BY DEF NotEnough
<1> QED BY <1>h, <1>1, HoldsStays, SizedIs

LEMMA SizedOfStart ==
    ASSUME PoolInv, (\E r \in Resolvers : Release(r)) \/ FullScan
    PROVE  Sized(source)' /\ Sized(snapshot)'
<1>h. PoolTypeOK /\ Waiting /\ Sized(source)
  BY DEF PoolInv
<1>1. PoolTypeOK' /\ ~released /\ Measured(source) # {} /\ Finalize
  BY <1>h, TypeOfStart
<1>2. /\ snapshot' = source'
      /\ \A q \in Resolvers :
           /\ source'[q].ok = source[q].ok /\ source'[q].size = source[q].size
           /\ source[q].ok /\ source[q].size # 0 => source'[q].reserve \/ source'[q].size >= synced'
  BY <1>h, <1>1, FinalizeDoes
<1>3. target' = 0
  BY <1>h, <1>1 DEF Release, FullScan, Waiting
<1>4. Now' = synced'
  BY <1>3 DEF Now
<1>5. outrun \subseteq outrun'
  BY <1>1 DEF Finalize
<1>6. ASSUME NEW q \in Resolvers, source'[q].ok, q \notin outrun' PROVE Holds(source, q)'
  <2>1. Holds(source, q)
    BY <1>h, <1>2, <1>5, <1>6, SizedIs
  <2>2. 0 < source[q].size /\ source[q].size <= Path[q] /\ source[q].size # 0
    BY <2>1 DEF Holds
  <2> QED BY <1>2, <1>4, <1>6, <2>2 DEF Holds
<1>7. \A q \in Resolvers : Holds(source, q)' <=> Holds(snapshot, q)'
  BY <1>2 DEF Holds
<1> QED BY <1>2, <1>6, <1>7, SizedIs

LEMMA SizedOfPublish ==
    ASSUME PoolInv, NEW r \in Resolvers, Publish(r)
    PROVE  Sized(source)' /\ Sized(snapshot)'
<1>h. PoolTypeOK /\ Sized(source)
  BY DEF PoolInv
<1>1. /\ UNCHANGED <<released, synced, target>> /\ released /\ scan[r] = "accepted" /\ outrun \subseteq outrun'
      /\ scan' = [scan EXCEPT ![r] = "published"]
      /\ target > Path[r] => r \in outrun'
  BY DEF Publish
<1>2. \A q \in Resolvers \ {r} : scan'[q] = scan[q]
  BY <1>h, <1>1 DEF PoolTypeOK
<1>3. Now' = Now
  BY <1>1 DEF Now
<1>4. /\ snapshot' = source' /\ \A q \in Resolvers \ {r} : source'[q] = source[q]
      /\ source'[r].ok = source[r].ok /\ source'[r].size = source[r].size
      /\ source'[r].reserve <=> source[r].reserve \/ Path[r] < synced
  BY <1>h, PublishDoes
<1>5. ASSUME source'[r].ok, r \notin outrun' PROVE Holds(source, r)'
  <2>1. Holds(source, r) /\ ~(target > Path[r])
    BY <1>h, <1>1, <1>4, <1>5, SizedIs
  <2>2. Path[r] \in Nat /\ synced \in Nat /\ target \in Nat /\ source[r].size \in Nat
    BY <1>h, ResolversFinite, NowNat, ConnOf DEF PoolTypeOK
  <2>3. 0 < source[r].size /\ source[r].size <= Path[r]
    BY <2>1 DEF Holds
  <2>4. CASE source[r].reserve \/ source[r].size >= Now
    BY <1>3, <1>4, <2>3, <2>4 DEF Holds
  <2>5. CASE source[r].size = Path[r] /\ Path[r] < synced
    BY <1>4, <2>3, <2>5 DEF Holds
  <2>6. CASE source[r].size = Path[r] /\ ~(Path[r] < synced)
    <3>1. Path[r] >= Now
      BY <2>1, <2>2, <2>6 DEF Now
    <3> QED BY <1>3, <1>4, <2>3, <2>6, <3>1 DEF Holds
  <2> QED BY <1>1, <2>1, <2>4, <2>5, <2>6 DEF Holds
<1>6. \A q \in Resolvers : source'[q].ok /\ q \notin outrun' => Holds(source, q)'
  BY <1>h, <1>1, <1>2, <1>3, <1>4, <1>5, HoldsStays, SizedIs
<1>7. \A q \in Resolvers : Holds(source, q)' <=> Holds(snapshot, q)'
  BY <1>4 DEF Holds
<1> QED BY <1>4, <1>6, <1>7, SizedIs

LEMMA SizedOfSession ==
    ASSUME PoolInv, Rescan \/ Recover \/ Recompute \/ ApplySize
    PROVE  Sized(source)' /\ Sized(snapshot)'
<1>h. PoolTypeOK /\ Waiting /\ Sized(source) /\ Sized(snapshot)
  BY DEF PoolInv
<1>1. CASE Rescan \/ Recover
  <2>1. (\A q \in Resolvers : ~source'[q].ok) /\ ~released' /\ outrun \subseteq outrun'
    BY <1>h, <1>1, AnewDoes
  <2>2. ASSUME NEW q \in Resolvers, snapshot'[q].ok, q \notin outrun' PROVE Holds(snapshot, q)'
    <3>1. CASE Rescan
      <4>1. snapshot' \in {source, Blank} /\ Measured(source) = {}
        BY <3>1 DEF Rescan, ScanAnew
      <4>2. snapshot' = source
        BY <2>2, <4>1 DEF Blank
      <4>3. Holds(source, q)
        BY <1>h, <2>1, <2>2, <4>2, SizedIs
      <4>4. source[q].size \in Measured(source)
        BY <2>2, <4>2, <4>3 DEF Holds, Measured, Valid
      <4> QED BY <4>1, <4>4
    <3>2. CASE Recover
      <4>1. snapshot' \in {snapshot, Blank}
        BY <3>2 DEF Recover, ScanAnew
      <4>2. snapshot' = snapshot
        BY <2>2, <4>1 DEF Blank
      <4> QED BY <1>h, <2>1, <2>2, <4>2, HoldsStays, SizedIs
    <3> QED BY <1>1, <3>1, <3>2
  <2> QED BY <2>1, <2>2, SizedIs
<1>2. CASE Recompute
  <2>1. target = 0 /\ UNCHANGED <<scan, released, synced, outrun>>
    BY <1>h, <1>2, RecomputeDoes
  <2>2. CASE UNCHANGED <<source, snapshot, target>>
    BY <1>h, <2>1, <2>2 DEF Sized, Valid, Now
  <2>3. ASSUME NEW size \in Sizes, Reclassify(size), Now' = size PROVE Sized(source)' /\ Sized(snapshot)'
    <3>1. /\ snapshot' = source'
          /\ \A q \in Resolvers :
                /\ source'[q].ok = source[q].ok /\ source'[q].size = source[q].size
                /\ source'[q].reserve <=> source[q].ok /\ source[q].size < size
      BY <1>h, <2>3, ReclassifyDoes
    <3>2. ASSUME NEW q \in Resolvers, source'[q].ok, q \notin outrun' PROVE Holds(source, q)'
      <4>1. 0 < source[q].size /\ source[q].size <= Path[q]
        BY <1>h, <2>1, <3>1, <3>2, SizedIs DEF Holds
      <4>2. source[q].size \in Nat /\ size \in Nat
        BY <1>h, ConnOf, SizesNat DEF PoolTypeOK
      <4> QED BY <2>3, <3>1, <3>2, <4>1, <4>2 DEF Holds
    <3>3. \A q \in Resolvers : Holds(source, q)' <=> Holds(snapshot, q)'
      BY <3>1 DEF Holds
    <3> QED BY <3>1, <3>2, <3>3, SizedIs
  <2>4. ASSUME NEW size \in Sizes, Reclassify(size), size # 0, target' = size PROVE Now' = size
    <3>1. size > 0
      BY <2>4, SizesNat
    <3> QED BY <2>4, <3>1 DEF Now
  <2>5. target' = target => Now' = synced
    BY <2>1 DEF Now
  <2>6. synced \in Sizes
    BY <1>h DEF PoolTypeOK
  <2> QED BY <1>h, <1>2, <2>2, <2>3, <2>4, <2>5, <2>6, RecomputeDoes
<1>3. CASE ApplySize
  <2>1. /\ target > 0 /\ synced' = target /\ target' = 0 /\ outrun \subseteq outrun'
        /\ UNCHANGED <<source, snapshot, scan, released>>
    BY <1>3 DEF ApplySize
  <2>2. Now' = Now
    BY <2>1 DEF Now
  <2>3. \A q \in Resolvers : /\ Holds(source, q) => Holds(source, q)'
                             /\ Holds(snapshot, q) => Holds(snapshot, q)'
    BY <2>1, <2>2, HoldsStays
  <2> QED BY <1>h, <2>1, <2>3, SizedIs
<1> QED BY <1>1, <1>2, <1>3

LEMMA SizedOfTakeOut ==
    ASSUME PoolInv, TakeOut
    PROVE  Sized(source)' /\ Sized(snapshot)'
<1>h. PoolTypeOK /\ Sized(source) /\ Sized(snapshot)
  BY DEF PoolInv
<1>0. PICK o : o = step.of
  OBVIOUS
<1>1. o \in Resolvers /\ UNCHANGED <<scan, released, synced, target, outrun>>
  BY <1>0, <1>h, TakeOutDoes
<1>2. Now' = Now
  BY <1>1 DEF Now
<1>3. CASE UNCHANGED <<source, snapshot>>
  BY <1>h, <1>1, <1>2, <1>3, HoldsStays, SizedIs
<1>4. CASE Differs(o) /\ snapshot'[o] = source'[o] /\ ~source'[o].ok
  BY <1>h, <1>1, <1>2, <1>4, HoldsStays, SizedIs DEF Differs
<1> QED BY <1>0, <1>h, <1>3, <1>4, TakeOutDoes

LEMMA SizedOfRecheck ==
    ASSUME PoolInv, NEW s \in 1..Slots, ApplyRechecked(s) \/ Reactivate(s)
    PROVE  Sized(source)' /\ Sized(snapshot)'
<1>h. PoolTypeOK /\ Sized(source) /\ Sized(snapshot) /\ Probed
  BY DEF PoolInv
<1>0. PICK r \in Resolvers : r = probes[s].of
  BY <1>h, RunsOne
<1>1. UNCHANGED <<scan, released, synced, target>>
  BY <1>h, RecheckWrites
<1>2. Now' = Now
  BY <1>1 DEF Now
<1>3. outrun \subseteq outrun'
  BY DEF ApplyRechecked, Reactivate
<1>4. CASE UNCHANGED <<source, snapshot>>
  BY <1>h, <1>1, <1>2, <1>3, <1>4, HoldsStays, SizedIs
<1>5. ASSUME Differs(r), snapshot'[r] = source'[r], r \notin outrun' => Holds(source, r)'
      PROVE  Sized(source)' /\ Sized(snapshot)'
  <2>1. r \notin outrun' => Holds(snapshot, r)'
    BY <1>5 DEF Holds
  <2>2. \A q \in Resolvers \ {r} : source'[q] = source[q] /\ snapshot'[q] = snapshot[q]
    BY <1>5 DEF Differs
  <2>3. \A q \in Resolvers : source'[q].ok /\ q \notin outrun' => Holds(source, q)'
    BY <1>h, <1>1, <1>2, <1>3, <1>5, <2>2, HoldsStays, SizedIs
  <2>4. \A q \in Resolvers : snapshot'[q].ok /\ q \notin outrun' => Holds(snapshot, q)'
    BY <1>h, <1>1, <1>2, <1>3, <2>1, <2>2, HoldsStays, SizedIs
  <2> QED BY <2>3, <2>4, SizedIs
<1>n. synced \in Nat /\ target \in Nat /\ synced \in Sizes
  BY <1>h, NowNat DEF PoolTypeOK
<1>6. CASE ApplyRechecked(s)
  <2>1. /\ probes[s].at = "passed" /\ SetSize(r, synced)
        /\ outrun' = IF target > 0 THEN outrun \cup {r} ELSE outrun
    BY <1>0, <1>6 DEF ApplyRechecked
  <2>2. Differs(r) /\ snapshot'[r] = source'[r] /\ source'[r].size = synced
    BY <1>h, <1>n, <2>1, SetSizeDoes
  <2>3. ASSUME r \notin outrun' PROVE Holds(source, r)'
    <3>1. r \notin outrun /\ ~(target > 0)
      BY <2>1, <2>3
    <3>2. Now' = synced
      BY <1>2, <3>1 DEF Now
    <3>3. 0 < synced /\ synced <= Path[r]
      BY <1>0, <1>h, <2>1, <3>1 DEF Probed
    <3> QED BY <1>n, <2>2, <3>2, <3>3 DEF Holds
  <2> QED BY <1>5, <2>2, <2>3
<1>7. CASE Reactivate(s)
  <2>1. probes[s].at = "applied"
    BY <1>7 DEF Reactivate
  <2>2. \/ UNCHANGED <<source, snapshot>>
        \/ SetValidity(r, TRUE) /\ outrun' = IF target > 0 THEN outrun \cup {r} ELSE outrun
    BY <1>0, <1>7 DEF Reactivate
  <2>3. ASSUME SetValidity(r, TRUE), outrun' = IF target > 0 THEN outrun \cup {r} ELSE outrun
        PROVE  Sized(source)' /\ Sized(snapshot)'
    <3>1. Differs(r) /\ snapshot'[r] = source'[r] /\ source'[r].size = source[r].size
      BY <1>h, <2>3, SetValidityDoes
    <3>2. ASSUME r \notin outrun' PROVE Holds(source, r)'
      <4>1. r \notin outrun /\ ~(target > 0)
        BY <2>3, <3>2
      <4>2. Now' = synced
        BY <1>2, <4>1 DEF Now
      <4>3. 0 < synced /\ synced <= source[r].size /\ source[r].size <= Path[r]
        BY <1>0, <1>h, <2>1, <4>1 DEF Probed
      <4>4. source[r].size \in Nat
        BY <1>h, ConnOf DEF PoolTypeOK
      <4> QED BY <1>n, <3>1, <4>2, <4>3, <4>4 DEF Holds
    <3> QED BY <1>5, <3>1, <3>2
  <2> QED BY <1>4, <2>2, <2>3
<1> QED BY <1>6, <1>7

LEMMA SizedOfOthers ==
    ASSUME PoolInv, UNCHANGED <<source, snapshot, released, synced, target>>, outrun \subseteq outrun',
           \A r \in Resolvers : scan'[r] = scan[r] \/ scan[r] # "accepted"
    PROVE  Sized(source)' /\ Sized(snapshot)'
<1>h. Sized(source) /\ Sized(snapshot)
  BY DEF PoolInv
<1>1. Now' = Now
  BY DEF Now
<1> QED BY <1>h, <1>1, HoldsStays, SizedIs

LEMMA SizedStep == ASSUME PoolInv, PoolNext PROVE Sized(source)' /\ Sized(snapshot)'
<1>h. PoolTypeOK
  BY DEF PoolInv
<1>1. ASSUME NEW r \in Resolvers, Rebuild(r) PROVE Sized(source)' /\ Sized(snapshot)'
  <2>1. UNCHANGED <<source, snapshot, released, synced, target, outrun>> /\ scan[r] = "published" /\ scan' = [scan EXCEPT ![r] = "done"]
    BY <1>1 DEF Rebuild
  <2>2. \A q \in Resolvers : scan'[q] = scan[q] \/ scan[q] # "accepted"
    BY <1>h, <2>1 DEF PoolTypeOK
  <2> QED BY <2>1, <2>2, SizedOfOthers
<1>2. ASSUME NEW r \in Resolvers, MarkDisabled(r) \/ Launch(r) PROVE UNCHANGED <<source, snapshot, released, synced, target, outrun, scan>>
  BY <1>2 DEF MarkDisabled, Launch
<1>3. ASSUME NEW s \in 1..Slots, Fail(s) \/ Pass(s) \/ Clear(s) PROVE UNCHANGED <<source, snapshot, released, synced, target, outrun, scan>>
  BY <1>3 DEF Fail, Pass, Clear
<1>4. ASSUME Restart \/ BeginPass \/ Record PROVE UNCHANGED <<source, snapshot, released, synced, target, outrun, scan>>
  BY <1>4 DEF Restart, BeginPass, Record
<1>5. UNCHANGED <<source, snapshot, released, synced, target, outrun, scan>> => Sized(source)' /\ Sized(snapshot)'
  BY SizedOfOthers
<1> QED BY <1>1, <1>2, <1>3, <1>4, <1>5, SizedOfAccept, SizedOfReject, SizedOfNotEnough, SizedOfStart,
           SizedOfPublish, SizedOfSession, SizedOfTakeOut, SizedOfRecheck DEF PoolNext

(* ---- what was probed ---- *)
Good(s) ==
    probes[s].at \in {"passed", "applied"} /\ probes[s].of \notin outrun =>
      /\ probes[s].size = synced /\ 0 < synced /\ synced <= Path[probes[s].of]
      /\ probes[s].at = "applied" =>
           synced <= source[probes[s].of].size /\ source[probes[s].of].size <= Path[probes[s].of]

LEMMA ProbedIs == Probed <=> \A s \in 1..Slots : Good(s)
BY DEF Probed, Good

LEMMA ProbedIsNow == Probed' <=> \A s \in 1..Slots : Good(s)'
BY DEF Probed, Good

(* The sizes written stay, and so does what was probed. *)
LEMMA GoodStays ==
    ASSUME PoolTypeOK, PoolTypeOK', NEW t \in 1..Slots, Good(t), synced' = synced, outrun \subseteq outrun',
           probes'[t].at = probes[t].at, probes[t] # Free => probes'[t].of = probes[t].of /\ probes'[t].size = probes[t].size,
           \A r \in Resolvers : \/ source'[r].size = source[r].size
                                \/ source'[r].size = Path[r]
                                \/ source'[r].size = synced
    PROVE  Good(t)'
<1>1. CASE probes[t] = Free
  BY <1>1 DEF Good, Free
<1>2. CASE probes[t] # Free
  <2>1. PICK r \in Resolvers : r = probes[t].of
    BY <1>2, ProbeIs
  <2>2. synced \in Nat /\ Path[r] \in Nat
    BY NowNat, ResolversFinite
  <2>3. probes'[t].of = r /\ probes'[t].size = probes[t].size /\ probes'[t].at = probes[t].at
    BY <1>2, <2>1
  <2>4. SUFFICES ASSUME probes[t].at \in {"passed", "applied"}, r \notin outrun'
                 PROVE  /\ probes[t].size = synced /\ 0 < synced /\ synced <= Path[r]
                        /\ probes[t].at = "applied" => synced <= source'[r].size /\ source'[r].size <= Path[r]
    BY <2>3 DEF Good
  <2>5. /\ probes[t].size = synced /\ 0 < synced /\ synced <= Path[r]
        /\ probes[t].at = "applied" => synced <= source[r].size /\ source[r].size <= Path[r]
    BY <2>1, <2>4 DEF Good
  <2> QED BY <2>2, <2>5
<1> QED BY <1>1, <1>2

LEMMA ProbedOfProbes ==
    ASSUME PoolInv, PoolTypeOK', UNCHANGED <<source, synced, outrun>>, NEW s \in 1..Slots, probes[s] # Free,
           Fail(s) \/ Pass(s) \/ Clear(s) \/ (Reactivate(s) /\ Ends(s))
    PROVE  Probed'
<1>h. PoolTypeOK /\ Probed
  BY DEF PoolInv
<1>1. CASE Ends(s)
  <2>1. Good(s)'
    BY <1>h, <1>1, EndsDoes DEF Good, Free
  <2>2. ASSUME NEW t \in 1..Slots, t # s PROVE Good(t)'
    <3>1. Alike(t)
      BY <1>h, <1>1, <2>2, EndsDoes
    <3> QED BY <1>h, <3>1, GoodStays, ProbedIs DEF Alike
  <2> QED BY <2>1, <2>2, ProbedIsNow
<1>2. CASE Pass(s) /\ ~Ends(s)
  <2>1. probes' = [probes EXCEPT ![s] = [@ EXCEPT !.at = "passed", !.size = synced]]
    BY <1>2 DEF Pass
  <2>2. Moves(s, "passed") /\ probes'[s].size = synced
    BY <1>h, <2>1, PassDoes
  <2>3. PICK r \in Resolvers : r = probes[s].of
    BY <1>h, ProbeIs
  <2>4. Path[r] >= synced /\ 0 < synced /\ Path[r] \in Nat /\ synced \in Nat
    BY <1>2, <1>h, <2>3, NowNat, ResolversFinite DEF Pass
  <2>5. Good(s)'
    BY <2>2, <2>3, <2>4 DEF Good, Moves
  <2>6. ASSUME NEW t \in 1..Slots, t # s PROVE Good(t)'
    <3>1. probes'[t] = probes[t]
      BY <2>2, <2>6 DEF Moves
    <3> QED BY <1>h, <3>1, GoodStays, ProbedIs
  <2> QED BY <2>5, <2>6, ProbedIsNow
<1>3. Fail(s) \/ Clear(s) => Ends(s)
  BY DEF Fail, Clear
<1> QED BY <1>1, <1>2, <1>3

LEMMA ProbedOfApply ==
    ASSUME PoolInv, PoolTypeOK', NEW s \in 1..Slots, ApplyRechecked(s)
    PROVE  Probed'
<1>h. PoolTypeOK /\ Probed
  BY DEF PoolInv
<1>0. probes[s] # Free
  BY <1>h, RunsOne
<1>r. PICK r \in Resolvers : r = probes[s].of
  BY <1>h, RunsOne
<1>1. probes[s].at = "passed" /\ SetSize(r, synced) /\ outrun \subseteq outrun' /\ synced' = synced
  BY <1>r DEF ApplyRechecked
<1>n. synced \in Sizes /\ synced \in Nat /\ Path[r] \in Nat
  BY <1>h, NowNat, ResolversFinite DEF PoolTypeOK
<1>2. Differs(r) /\ source'[r].size = synced
  BY <1>h, <1>1, <1>n, SetSizeDoes
<1>3. PICK a \in {"probing", "passed", "applied", "active"} : a = "applied"
  OBVIOUS
<1>4. Moves(s, "applied") /\ probes'[s].size = probes[s].size
  BY <1>h, <1>0, <1>3, MovesDoes DEF ApplyRechecked
<1>5. Good(s)'
  <2>1. probes'[s].of = r
    BY <1>r, <1>4 DEF Moves
  <2>2. SUFFICES ASSUME r \notin outrun'
                 PROVE  /\ probes'[s].size = synced /\ 0 < synced /\ synced <= Path[r]
                        /\ synced <= source'[r].size /\ source'[r].size <= Path[r]
    BY <2>1, <1>1 DEF Good
  <2>3. probes[s].size = synced /\ 0 < synced /\ synced <= Path[r]
    BY <1>h, <1>r, <1>1, <2>2 DEF Probed
  <2> QED BY <1>n, <1>2, <1>4, <2>3
<1>6. ASSUME NEW t \in 1..Slots, t # s PROVE Good(t)'
  <2>1. probes'[t] = probes[t]
    BY <1>4, <1>6 DEF Moves
  <2>2. \A q \in Resolvers : source'[q].size = source[q].size \/ source'[q].size = synced
    BY <1>2 DEF Differs
  <2> QED BY <1>h, <1>1, <2>1, <2>2, GoodStays, ProbedIs
<1> QED BY <1>5, <1>6, ProbedIsNow

LEMMA ProbedOfReactivate ==
    ASSUME PoolInv, PoolTypeOK', NEW s \in 1..Slots, Reactivate(s)
    PROVE  Probed'
<1>h. PoolTypeOK /\ Probed
  BY DEF PoolInv
<1>0. probes[s] # Free
  BY <1>h, RunsOne
<1>r. PICK r \in Resolvers : r = probes[s].of
  BY <1>h, RunsOne
<1>1. synced' = synced /\ outrun \subseteq outrun'
  BY DEF Reactivate
<1>2. CASE Ends(s) /\ UNCHANGED <<source, outrun>>
  BY <1>0, <1>1, <1>2, ProbedOfProbes
<1>3. CASE SetValidity(r, TRUE) /\ probes' = [probes EXCEPT ![s].at = "active"]
  <2>1. Differs(r) /\ source'[r].size = source[r].size
    BY <1>h, <1>3, SetValidityDoes
  <2>2. PICK a \in {"probing", "passed", "applied", "active"} : a = "active"
    OBVIOUS
  <2>3. Moves(s, "active")
    BY <1>h, <1>0, <1>3, <2>2, MovesDoes
  <2>4. Good(s)'
    BY <2>3 DEF Good, Moves
  <2>5. \A q \in Resolvers : source'[q].size = source[q].size
    BY <2>1 DEF Differs
  <2>6. ASSUME NEW t \in 1..Slots, t # s PROVE Good(t)'
    <3>1. probes'[t] = probes[t]
      BY <2>3, <2>6 DEF Moves
    <3> QED BY <1>h, <1>1, <2>5, <3>1, GoodStays, ProbedIs
  <2> QED BY <2>4, <2>6, ProbedIsNow
<1> QED BY <1>r, <1>2, <1>3 DEF Reactivate

LEMMA ProbedStep == ASSUME PoolInv, PoolNext, PoolTypeOK' PROVE Probed'
<1>h. PoolTypeOK /\ Waiting /\ Probed
  BY DEF PoolInv
<1>k. ASSUME synced' = synced, outrun \subseteq outrun',
             \A t \in 1..Slots : Alike(t),
             \A r \in Resolvers : source'[r].size = source[r].size \/ source'[r].size = Path[r]
      PROVE  Probed'
  BY <1>h, <1>k, GoodStays, ProbedIs, ProbedIsNow DEF Alike
<1>a. probes' = probes => \A t \in 1..Slots : Alike(t)
  BY DEF Alike
<1>1. ASSUME NEW r \in Resolvers, Accept(r) PROVE Probed'
  <2>1. UNCHANGED <<synced, outrun, probes>>
    BY <1>1 DEF Accept
  <2>2. \A q \in Resolvers : source'[q].size = source[q].size \/ source'[q].size = Path[q]
    BY <1>h, <1>1, AcceptDoes DEF Differs
  <2> QED BY <2>1, <2>2, <1>a, <1>k
<1>2. ASSUME NEW r \in Resolvers, Reject(r) PROVE Probed'
  <2>1. UNCHANGED <<synced, outrun, probes>>
    BY <1>2 DEF Reject
  <2>2. \A q \in Resolvers : source'[q].size = source[q].size
    BY <1>h, <1>2, RejectDoes DEF Differs
  <2> QED BY <2>1, <2>2, <1>a, <1>k
<1>3. ASSUME NEW r \in Resolvers, Publish(r) PROVE Probed'
  <2>1. UNCHANGED <<synced, probes>> /\ outrun \subseteq outrun'
    BY <1>3 DEF Publish
  <2>2. \A q \in Resolvers : source'[q].size = source[q].size
    BY <1>h, <1>3, PublishDoes
  <2> QED BY <2>1, <2>2, <1>a, <1>k
(* Those on their way back are excused. *)
<1>f. ASSUME \A t \in 1..Slots : Alike(t), Returning({"passed", "applied"}) \subseteq outrun' PROVE Probed'
  <2>1. ASSUME NEW t \in 1..Slots PROVE Good(t)'
    <3>1. CASE probes[t].at \in {"passed", "applied"}
      <4>1. probes[t] # Free /\ probes[t].of \in Returning({"passed", "applied"})
        BY <1>h, <3>1, ProbeIs DEF Returning, Free
      <4> QED BY <1>f, <4>1 DEF Good, Alike
    <3>2. CASE probes[t].at \notin {"passed", "applied"}
      BY <1>f, <3>2 DEF Good, Alike
    <3> QED BY <3>1, <3>2
  <2> QED BY <2>1, ProbedIsNow
<1>g. ForgetRechecks => \A t \in 1..Slots : Alike(t)
  BY <1>h, ForgetDoes
<1>4. ASSUME (\E r \in Resolvers : Release(r)) \/ FullScan PROVE Probed'
  <2>1. ForgetRechecks /\ Returning({"passed", "applied"}) \subseteq outrun'
    BY <1>h, <1>4, TypeOfStart DEF Finalize
  <2> QED BY <2>1, <1>f, <1>g
(* Only those whose size is written are, while the size of the session stays. *)
<1>5. ASSUME Rescan \/ Recover PROVE Probed'
  <2>1. CASE /\ UNCHANGED <<synced, probes>> /\ outrun \subseteq outrun'
             /\ Returning({"applied"}) \subseteq outrun'
    <3>1. ASSUME NEW t \in 1..Slots PROVE Good(t)'
      <4>1. CASE probes[t].at = "applied"
        <5>1. probes[t].of \in Returning({"applied"})
          BY <1>h, <4>1, ProbeIs DEF Returning, Free
        <5> QED BY <2>1, <5>1 DEF Good
      <4>2. CASE probes[t].at # "applied"
        <5>1. Good(t)
          BY <1>h, ProbedIs
        <5> QED BY <2>1, <4>2, <5>1 DEF Good
      <4> QED BY <4>1, <4>2
    <3> QED BY <3>1, ProbedIsNow
  <2>2. CASE ForgetRechecks /\ Returning({"passed", "applied"}) \subseteq outrun'
    BY <2>2, <1>f, <1>g
  <2> QED BY <1>5, <2>1, <2>2 DEF Rescan, Recover
<1>6. ASSUME NEW r \in Resolvers, Rebuild(r) PROVE Probed'
  <2>1. ForgetRechecks /\ UNCHANGED <<source, synced, outrun>>
    BY <1>6 DEF Rebuild
  <2>2. \A t \in 1..Slots : Alike(t)
    BY <1>h, <2>1, ForgetDoes
  <2> QED BY <2>1, <2>2, <1>k
<1>7. ASSUME UNCHANGED <<source, synced, outrun, probes>> PROVE Probed'
  BY <1>7, <1>a, <1>k
<1>8. ASSUME NEW r \in Resolvers, NotEnough(r) \/ MarkDisabled(r) PROVE UNCHANGED <<source, synced, outrun, probes>>
  BY <1>8 DEF NotEnough, MarkDisabled
<1>9. ASSUME Restart \/ BeginPass \/ Record PROVE UNCHANGED <<source, synced, outrun, probes>>
  BY <1>9 DEF Restart, BeginPass, Record
<1>10. ASSUME Recompute PROVE Probed'
  <2>1. UNCHANGED <<synced, outrun, probes>>
    BY <1>h, <1>10, RecomputeDoes
  <2>2. \A q \in Resolvers : source'[q].size = source[q].size
    BY <1>h, <1>10, RecomputeWrites
  <2> QED BY <2>1, <2>2, <1>a, <1>k
<1>11. ASSUME ApplySize PROVE Probed'
  <2>1. probes' = probes /\ Returning({"passed", "applied"}) \subseteq outrun'
    BY <1>11 DEF ApplySize
  <2> QED BY <2>1, <1>a, <1>f
<1>12. ASSUME TakeOut PROVE Probed'
  <2>1. UNCHANGED <<synced, outrun, probes>>
    BY <1>h, <1>12, TakeOutDoes
  <2>2. \A q \in Resolvers : source'[q].size = source[q].size
    BY <1>h, <1>12, TakeOutDoes DEF Differs
  <2> QED BY <2>1, <2>2, <1>a, <1>k
<1>13. ASSUME NEW r \in Resolvers, Launch(r) PROVE Probed'
  <2>1. UNCHANGED <<source, synced, outrun>>
    BY <1>13 DEF Launch
  <2>2. PICK t \in 1..Slots : probes'[t].at = "probing" /\ \A u \in 1..Slots \ {t} : probes'[u] = probes[u]
    BY <1>h, <1>13, LaunchDoes
  <2>3. Good(t)'
    BY <2>2 DEF Good
  <2>4. ASSUME NEW u \in 1..Slots, u # t PROVE Good(u)'
    BY <1>h, <2>1, <2>2, <2>4, GoodStays, ProbedIs
  <2> QED BY <2>3, <2>4, ProbedIsNow
<1>14. ASSUME NEW s \in 1..Slots, Fail(s) \/ Pass(s) \/ Clear(s) PROVE Probed'
  <2>1. UNCHANGED <<source, synced, outrun>>
    BY <1>14 DEF Fail, Pass, Clear
  <2>2. probes[s] # Free
    BY <1>h, <1>14, RunsOne
  <2> QED BY <1>14, <2>1, <2>2, ProbedOfProbes
<1> QED BY <1>1, <1>2, <1>3, <1>4, <1>5, <1>6, <1>7, <1>8, <1>9, <1>10, <1>11, <1>12, <1>13, <1>14,
           ProbedOfApply, ProbedOfReactivate DEF PoolNext

(* ---- the theorem ---- *)
LEMMA PoolStarts == ASSUME PoolInit PROVE PoolInv
<1>1. step = Idle /\ Idle.at = "idle" /\ Free.at = "free" /\ 0 \in Sizes
  BY SizesNat DEF Idle, Free, PoolInit
<1>2. \A r \in Resolvers : /\ ~source[r].ok /\ ~source[r].reserve /\ ~snapshot[r].ok
                           /\ disabled[r] = Absent /\ scan[r] = "due"
  BY DEF PoolInit, Blank
<1>3. \A s \in 1..Slots : probes[s] = Free
  BY DEF PoolInit
<1>4. PoolTypeOK
  <2>1. source \in Connections /\ snapshot \in Connections
    BY <1>1 DEF PoolInit, Connections, Blank
  <2>2. disabled \in [Resolvers -> Absent..1] /\ probes \in [1..Slots -> {Free} \cup Rechecks]
    BY DEF PoolInit, Absent
  <2>3. scan \in [Resolvers -> {"due", "accepted", "published"} \cup Over]
    BY DEF PoolInit
  <2>4. synced \in Sizes /\ target \in Sizes
    BY <1>1 DEF PoolInit
  <2> QED BY <2>1, <2>2, <2>3, <2>4 DEF PoolInit, PoolTypeOK
<1>5. Waiting /\ Running
  BY <1>2 DEF PoolInit, Waiting, Running
<1>6. Same /\ PublishedIsTrue /\ FloorKept
  BY DEF PoolInit, Same, PublishedIsTrue, FloorKept
<1>7. Marks /\ Apart
  BY <1>3 DEF PoolInit, Marks, Apart, Live
<1>8. Disabling /\ Room
  BY <1>1 DEF Disabling, Room
<1>9. Sized(source) /\ Sized(snapshot)
  BY <1>1, <1>2, SizedIs
<1>10. Probed
  BY <1>1, <1>3 DEF Probed
<1>11. OutIsOut
  BY <1>2 DEF OutIsOut
<1> QED BY <1>4, <1>5, <1>6, <1>7, <1>8, <1>9, <1>10, <1>11 DEF PoolInv

LEMMA PoolKeeps == ASSUME PoolInv, [PoolNext]_poolVars PROVE PoolInv'
<1>1. CASE PoolNext
  <2>1. PoolTypeOK'
    BY <1>1, PoolTypeStep DEF PoolInv
  <2>2. Waiting' /\ Running' /\ Same' /\ Marks' /\ Apart' /\ Disabling' /\ Room'
    BY <1>1, <2>1, WaitingStep, RunningStep, SameStep, MarksStep, ApartStep, DisablingStep, RoomStep
  <2>3. Sized(source)' /\ Sized(snapshot)' /\ Probed' /\ FloorKept' /\ OutIsOut' /\ PublishedIsTrue'
    BY <1>1, <2>1, SizedStep, ProbedStep, FloorStep, OutIsOutStep, PublishedStep
  <2> QED BY <2>1, <2>2, <2>3 DEF PoolInv
<1>2. CASE UNCHANGED poolVars
  <2>1. PoolTypeOK' /\ Waiting' /\ Running' /\ Same'
    BY <1>2 DEF PoolInv, poolVars, PoolTypeOK, Waiting, Running, Same
  <2>2. Marks' /\ Apart' /\ Disabling' /\ Room'
    BY <1>2 DEF PoolInv, poolVars, Marks, Live, Apart, Disabling, Room, Valid, Primary
  <2>3. Sized(source)' /\ Sized(snapshot)' /\ Probed'
    BY <1>2 DEF PoolInv, poolVars, Sized, Valid, Now, Probed
  <2>4. FloorKept' /\ OutIsOut' /\ PublishedIsTrue'
    BY <1>2 DEF PoolInv, poolVars, FloorKept, Valid, OutIsOut, PublishedIsTrue
  <2> QED BY <2>1, <2>2, <2>3, <2>4 DEF PoolInv
<1> QED BY <1>1, <1>2

LEMMA MarkedIsLive == ASSUME Marks PROVE RechecksLive
<1> SUFFICES ASSUME NEW r \in Resolvers
             PROVE  Cardinality({s \in 1..Slots : Live(s, r)}) = IF r \in marked THEN 1 ELSE 0
  BY DEF RechecksLive, Live
<1>1. CASE r \in marked
  <2>1. PICK s \in 1..Slots : Live(s, r)
    BY <1>1 DEF Marks
  <2>2. {t \in 1..Slots : Live(t, r)} = {s}
    BY <2>1 DEF Marks
  <2> QED BY <1>1, <2>2, FS_Singleton
<1>2. CASE r \notin marked
  <2>1. {t \in 1..Slots : Live(t, r)} = {}
    BY <1>2 DEF Marks
  <2> QED BY <1>2, <2>1, FS_EmptySet
<1> QED BY <1>1, <1>2

LEMMA SizedIsCarried == ASSUME PoolTypeOK, Sized(snapshot) PROVE Carried
<1> SUFFICES ASSUME NEW r \in Valid(snapshot) \ outrun
             PROVE  /\ snapshot[r].size <= Path[r]
                    /\ released /\ target = 0 /\ ~snapshot[r].reserve /\ scan[r] # "accepted" =>
                          snapshot[r].size >= synced
  BY DEF Carried
<1>1. target = 0 => Now = synced
  BY DEF Now
<1> QED BY <1>1 DEF Sized

(* The pool of resolvers is sound in every reachable state, whatever the      *)
(* paths, the number of probes that run side by side, the floor and the       *)
(* strategy: a mark has one recheck behind it, auto-disable keeps its floor   *)
(* and never takes the last resolver, none is both in use and out, and a      *)
(* primary carries the size the session runs at.                              *)
THEOREM PoolIsSound == PoolSpec => []PoolSound
<1>1. PoolInv => PoolSound
  BY MarkedIsLive, SizedIsCarried DEF PoolInv, PoolSound
<1>2. PoolInit => PoolInv
  BY PoolStarts
<1>3. PoolInv /\ [PoolNext]_poolVars => PoolInv'
  BY PoolKeeps
<1> QED BY <1>1, <1>2, <1>3, PTL DEF PoolSpec
=============================================================================
