---------------------------- MODULE UpstreamDial ----------------------------
(***************************************************************************)
(* The server's way to a target: a dial of its own, a dial function that   *)
(* knows no context, or an upstream SOCKS5 proxy, for a connection or for  *)
(* a UDP association, each step of whose handshake may fail; the attempt's *)
(* context, which ends at its deadline, with its stream, or when the       *)
(* caller is done. (socks5_upstream.go, udp_association_socks5.go,         *)
(* processDeferredSOCKS5Syn)                                               *)
(*                                                                         *)
(* A goroutine that waits in a select takes the first of its cases that    *)
(* comes; one that has not run yet finds several and takes any.            *)
(***************************************************************************)
EXTENDS Integers

VARIABLES
    way,        \* "own", "function", "proxy", "associate"
    ctx,        \* whether the attempt's context lives
    at,         \* what the attempt is at
    conn,       \* "none", "open", "closed": the connection, to a proxy the control connection
    relay,      \* the association's UDP socket
    watch,      \* the watchdog: "none", "spawned", "parked", "told" to stop, "woken" by the context, "gone";
                \* "late" if it ran only when both had come
    stopped,    \* stopWatchdog
    result,     \* "", "ok", "blocked", "refused" by the target, "unavailable", "auth", "cancelled"
    caller,     \* "waits", "attaches", "uses", "done"
    behind,     \* the dial function is still at it when the attempt has gone
    active,     \* genericUDPActive, of this association
    intime,     \* the context lived when the connection was handed over
    robbed      \* a watchdog that had waited closed it then

dialVars == <<way, ctx, at, conn, relay, watch, stopped, result, caller, behind, active, intime, robbed>>

Handshake == {"greets", "auth", "asks"}

Init ==
    /\ way \in {"own", "function", "proxy", "associate"}
    /\ ctx = TRUE /\ at = "checks" /\ conn = "none" /\ relay = "none" /\ watch = "none" /\ stopped = FALSE
    /\ result = "" /\ caller = "waits" /\ behind = FALSE /\ active = 0 /\ intime = FALSE /\ robbed = FALSE

Ends(r) == /\ at' = "ended" /\ result' = r
           /\ caller' = (IF r = "ok" THEN "attaches" ELSE "done")
           /\ intime' = (r = "ok" /\ ctx)

(* The deadline, the job's cancellation, or the caller's own defer *)
Cancel ==
    /\ ctx /\ ctx' = FALSE /\ watch' = IF watch = "parked" THEN "woken" ELSE watch
    /\ UNCHANGED <<way, at, conn, relay, stopped, result, caller, behind, active, intime, robbed>>

(* validateSOCKSTargetHost; an association has no host *)
Check ==
    /\ at = "checks"
    /\ \/ way # "associate" /\ Ends("blocked")
       \/ at' = "dials" /\ UNCHANGED <<result, caller, intime>>
    /\ UNCHANGED <<way, ctx, conn, relay, watch, stopped, behind, active, robbed>>

(* dialTCPTargetContext: a connection, after which a proxy is spoken to    *)
(* under the watchdog (an association has none), or an error.              *)
Dial ==
    /\ at = "dials"
    /\ \/ Ends(IF ctx THEN "refused" ELSE "cancelled") /\ UNCHANGED <<conn, watch>>
       \/ /\ (ctx \/ way = "function") /\ conn' = "open"
          /\ IF way \in {"proxy", "associate"}
             THEN /\ at' = "greets" /\ watch' = IF way = "proxy" THEN "spawned" ELSE watch
                  /\ UNCHANGED <<result, caller, intime>>
             ELSE Ends("ok") /\ UNCHANGED watch
    /\ UNCHANGED <<way, ctx, relay, stopped, behind, active, robbed>>

(* The function's result is waited for no longer; who comes with it closes *)
(* it.                                                                     *)
Abandon ==
    /\ at = "dials" /\ way = "function" /\ ~ctx /\ Ends("cancelled") /\ behind' = TRUE
    /\ UNCHANGED <<way, ctx, conn, relay, watch, stopped, active, robbed>>

LateResult ==
    /\ behind /\ conn \in {"none", "open"}
    /\ IF conn = "none" THEN conn' \in {"open", "closed"} /\ UNCHANGED behind
                        ELSE conn' = "closed" /\ behind' = FALSE
    /\ UNCHANGED <<way, ctx, at, relay, watch, stopped, result, caller, active, intime, robbed>>

StopWatch == stopped' = TRUE /\ watch' = (IF watch = "parked" THEN "told" ELSE watch)

(* A step of the handshake; the proxy's deadline, its rejection, the end   *)
(* of the connection: whatever fails closes it.                            *)
Step(next) ==
    /\ at \in Handshake \ {"asks"} /\ conn = "open" /\ at' = next
    /\ <<at, next>> \in {<<"greets", "auth">>, <<"auth", "asks">>}
    /\ UNCHANGED <<way, ctx, conn, relay, watch, stopped, result, caller, behind, active, intime, robbed>>

Fail ==
    /\ at \in Handshake /\ StopWatch /\ conn' = "closed"
    /\ Ends(CASE at = "greets" -> "unavailable" [] at = "auth" -> "auth" [] OTHER -> "refused")
    /\ UNCHANGED <<way, ctx, relay, behind, active, robbed>>

Granted ==
    /\ at = "asks" /\ conn = "open" /\ Ends("ok") /\ StopWatch
    /\ IF way = "associate" THEN relay' = "open" /\ active' = 1 ELSE UNCHANGED <<relay, active>>
    /\ UNCHANGED <<way, ctx, conn, behind, robbed>>

----------------------------------------------------------------------------
(* The watchdog                                                            *)

Park ==
    /\ watch = "spawned"
    /\ \/ ~stopped /\ ctx /\ watch' = "parked"
       \/ stopped /\ watch' = "told"
       \/ ~ctx /\ watch' = IF stopped THEN "late" ELSE "woken"
    /\ UNCHANGED <<way, ctx, at, conn, relay, stopped, result, caller, behind, active, intime, robbed>>

Watch ==
    /\ watch \in {"told", "woken", "late"} /\ watch' = "gone"
    /\ conn' = IF watch = "told" THEN conn ELSE "closed"
    /\ robbed' = (robbed \/ (watch = "woken" /\ intime))
    /\ UNCHANGED <<way, ctx, at, relay, stopped, result, caller, behind, active, intime>>

----------------------------------------------------------------------------
(* The caller: the stream takes the connection, or has been closed         *)
(* meanwhile; then the attempt's context is cancelled. The stream closes   *)
(* what it took in its time; an association closes with its control        *)
(* connection too, once.                                                   *)
CloseBoth ==
    /\ conn' = "closed" /\ relay' = IF relay = "none" THEN relay ELSE "closed"
    /\ active' = (IF relay = "open" THEN active - 1 ELSE active)

Attach ==
    /\ caller = "attaches"
    /\ \/ caller' = "uses" /\ UNCHANGED <<conn, relay, active>>
       \/ caller' = "done" /\ CloseBoth
    /\ UNCHANGED <<way, ctx, at, watch, stopped, result, behind, intime, robbed>>

Close ==
    /\ caller = "uses" /\ caller' = "done" /\ CloseBoth
    /\ UNCHANGED <<way, ctx, at, watch, stopped, result, behind, intime, robbed>>

ControlEnds ==
    /\ relay = "open" /\ CloseBoth
    /\ UNCHANGED <<way, ctx, at, watch, stopped, result, caller, behind, intime, robbed>>

Next ==
    \/ Cancel \/ Check \/ Dial \/ Abandon \/ LateResult \/ Fail \/ Granted
    \/ \E next \in Handshake : Step(next)
    \/ Park \/ Watch \/ Attach \/ Close \/ ControlEnds

Spec == Init /\ [][Next]_dialVars

----------------------------------------------------------------------------
TypeOK ==
    /\ conn \in {"none", "open", "closed"} /\ relay \in {"none", "open", "closed"} /\ active \in 0..1
    /\ at \in Handshake \union {"checks", "dials", "ended"}

(* A connection is open only while the attempt is at it, while its caller  *)
(* has it, or until the late result of the dial function is closed: no     *)
(* failure, cancellation or late answer leaves one behind.                 *)
NoneLeft ==
    /\ conn = "open" => at \in Handshake \/ caller \in {"attaches", "uses"} \/ behind
    /\ relay = "open" => conn = "open" /\ active = 1
    /\ relay # "open" => active = 0

(* The handshake with a proxy does not outlive its context: the watchdog   *)
(* is there to close it.                                                   *)
Watched == way = "proxy" /\ at \in Handshake /\ ~ctx => watch \in {"spawned", "woken"} \/ conn = "closed"

(* A connection that was handed over in time is not closed by a watchdog   *)
(* that has waited, though the caller cancels the context when it is done. *)
(* (One that has not run by then finds both cases and may.)                *)
HandedOver == ~robbed

DialSound == TypeOK /\ NoneLeft /\ Watched /\ HandedOver
=============================================================================
