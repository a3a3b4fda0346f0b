---------------------------- MODULE DoqSessions -----------------------------
(***************************************************************************)
(* The QUIC connections of DNS over QUIC: one session per resolver, dialed *)
(* by the first exchange that needs it while the others wait, replaced     *)
(* when it has ended, closed with the client.                              *)
(* (resolvertransport/transport.go doqConnection, exchangeDoQ, Close)      *)
(*                                                                         *)
(* One resolver. An exchange's context ends by its own deadline or with    *)
(* the client's.                                                           *)
(***************************************************************************)
EXTENDS Integers

CONSTANTS Exchanges, MaxSessions

VARIABLES
    closed,
    entry,      \* sessions[target], or 0
    sessions,   \* the sessions made so far
    session,    \* state: "dials", "ready", "failed"; and of the connection: "none", "open", "closed"
    exchange,   \* what each exchange is doing, and with which session
    cancelled,  \* the contexts that have ended
    closing     \* connections that Close has yet to close

doqVars == <<closed, entry, sessions, session, exchange, cancelled, closing>>

None == 0
Idle == [at |-> "idle", s |-> None]

Init ==
    /\ closed = FALSE /\ entry = None /\ sessions = 0 /\ cancelled = {} /\ closing = {}
    /\ session = [s \in 1..MaxSessions |-> [is |-> "none", conn |-> "none"]]
    /\ exchange = [e \in Exchanges |-> Idle]

Goes(e, at, s) == exchange' = [exchange EXCEPT ![e] = [at |-> at, s |-> s]]

Cancel(e) ==
    /\ e \notin cancelled /\ cancelled' = cancelled \union {e}
    /\ UNCHANGED <<closed, entry, sessions, session, exchange, closing>>

(* Waits for the session there is, or makes one and dials. *)
Begin(e) ==
    /\ exchange[e].at = "idle"
    /\ IF closed THEN Goes(e, "error", None) /\ UNCHANGED <<entry, sessions, session>>
       ELSE IF entry # None THEN Goes(e, "waits", entry) /\ UNCHANGED <<entry, sessions, session>>
       ELSE /\ sessions < MaxSessions /\ sessions' = sessions + 1 /\ entry' = sessions + 1
            /\ session' = [session EXCEPT ![sessions + 1].is = "dials"] /\ Goes(e, "dials", sessions + 1)
    /\ UNCHANGED <<closed, cancelled, closing>>

(* The dial, by the context of the one that dials *)
Dialed(e) ==
    LET s == exchange[e].s IN
    /\ exchange[e].at = "dials"
    /\ \/ /\ session' = [session EXCEPT ![s] = [is |-> "ready", conn |-> "open"]] /\ UNCHANGED entry
          /\ Goes(e, IF closed THEN "closes" ELSE "has", s)
       \/ /\ session' = [session EXCEPT ![s].is = "failed"] /\ entry' = IF entry = s THEN None ELSE entry
          /\ Goes(e, "error", s)
    /\ UNCHANGED <<closed, sessions, cancelled, closing>>

CloseLate(e) ==
    /\ exchange[e].at = "closes" /\ Goes(e, "error", exchange[e].s)
    /\ session' = [session EXCEPT ![exchange[e].s].conn = "closed"]
    /\ UNCHANGED <<closed, entry, sessions, cancelled, closing>>

(* ready, or the waiter's own deadline; a session whose connection ended   *)
(* is removed if it is still the one, and the waiter starts again.         *)
Wait(e) ==
    LET s == exchange[e].s IN
    /\ exchange[e].at = "waits"
    /\ \/ e \in cancelled /\ Goes(e, "error", s) /\ UNCHANGED entry
       \/ session[s].is = "failed" /\ Goes(e, "error", s) /\ UNCHANGED entry
       \/ session[s].is = "ready" /\ session[s].conn = "open" /\ Goes(e, "has", s) /\ UNCHANGED entry
       \/ /\ session[s].is = "ready" /\ session[s].conn = "closed" /\ Goes(e, "idle", None)
          /\ entry' = IF entry = s THEN None ELSE entry
    /\ UNCHANGED <<closed, sessions, session, cancelled, closing>>

(* A query on a stream of its own: an answer; an answer that breaks the    *)
(* rules, for which the connection is closed; or no answer.                *)
Exchange(e) ==
    LET s == exchange[e].s IN
    /\ exchange[e].at = "has"
    /\ \/ session[s].conn = "open" /\ Goes(e, "answered", s) /\ UNCHANGED session
       \/ Goes(e, "error", s) /\ session' = [session EXCEPT ![s].conn = "closed"]
       \/ Goes(e, "error", s) /\ UNCHANGED session
    /\ UNCHANGED <<closed, entry, sessions, cancelled, closing>>

Again(e) ==
    /\ exchange[e].at \in {"error", "answered"} /\ Goes(e, "idle", None)
    /\ UNCHANGED <<closed, entry, sessions, session, cancelled, closing>>

(* The resolver's close, or QUIC's idle timeout *)
Drop(s) ==
    /\ session[s].conn = "open" /\ session' = [session EXCEPT ![s].conn = "closed"]
    /\ UNCHANGED <<closed, entry, sessions, exchange, cancelled, closing>>

Close ==
    /\ ~closed /\ closed' = TRUE /\ cancelled' = Exchanges
    /\ closing' = {s \in {entry} \ {None} : session[s].conn # "none"}
    /\ UNCHANGED <<entry, sessions, session, exchange>>

CloseOne(s) ==
    /\ s \in closing /\ closing' = closing \ {s} /\ session' = [session EXCEPT ![s].conn = "closed"]
    /\ UNCHANGED <<closed, entry, sessions, exchange, cancelled>>

Next ==
    \/ Close
    \/ \E e \in Exchanges : Cancel(e) \/ Begin(e) \/ Dialed(e) \/ CloseLate(e) \/ Wait(e) \/ Exchange(e) \/ Again(e)
    \/ \E s \in 1..MaxSessions : Drop(s) \/ CloseOne(s)

Spec == Init /\ [][Next]_doqVars

----------------------------------------------------------------------------
TypeOK ==
    /\ entry \in 0..sessions /\ sessions \in 0..MaxSessions /\ cancelled \subseteq Exchanges
    /\ \A s \in 1..sessions : session[s].is \in {"dials", "ready", "failed"}

Dialer(s) == {e \in Exchanges : exchange[e].at = "dials" /\ exchange[e].s = s}

(* A session that has no result has one dialer, and a session that failed  *)
(* is no longer the resolver's: no exchange waits for nobody, and none     *)
(* starts with a failure of the past.                                      *)
OneDialer ==
    \A s \in 1..sessions :
        /\ session[s].is = "dials" => \E e \in Exchanges : Dialer(s) = {e}
        /\ session[s].is = "failed" => entry # s

(* A connection that is open can be found by the next exchange or is about *)
(* to be closed: none is left behind by a session that was replaced, nor   *)
(* by a close that comes while another exchange dials.                     *)
NoneLeft ==
    \A s \in 1..sessions : session[s].conn = "open" =>
        /\ entry = s
        /\ closed => s \in closing \/ \E e \in Exchanges : exchange[e] = [at |-> "closes", s |-> s]

DoqSound == TypeOK /\ OneDialer /\ NoneLeft
=============================================================================
