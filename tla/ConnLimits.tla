----------------------------- MODULE ConnLimits -----------------------------
(***************************************************************************)
(* The server's stream connections: the budgets that the plain and the     *)
(* encrypted listeners share, each listener's own ceilings, the accept     *)
(* loop's, and the pipelined queries of a connection until the last of     *)
(* these gives everything back. (server_conn_limit.go, server_tcp.go)      *)
(*                                                                         *)
(* Each counter is changed under its own lock: a connection is admitted,   *)
(* refused and released in steps, between those of others. A listener      *)
(* admits one connection at a time.                                        *)
(***************************************************************************)
EXTENDS Integers, FiniteSets

CONSTANTS
    Conns,          \* connections, 1..n
    IPs,            \* client addresses
    TotalMax,       \* TCP_MAX_CONNS: streamConnBudget
    EncryptedMax,   \* encryptedConnCeiling
    ListenerMax, PerIP,     \* of each listener
    MaxInFlight, MaxQueries \* of each connection

ASSUME LimitsAssumption ==
    /\ Conns \subseteq Nat /\ IsFiniteSet(Conns)
    /\ IPs \subseteq Nat /\ IPs # {}
    /\ TotalMax \in Nat /\ EncryptedMax \in Nat /\ ListenerMax \in Nat /\ PerIP \in Nat

VARIABLES
    conn,       \* what each connection is at
    budget, encrypted,  \* the budgets taken
    active, byIP,       \* each limitedListener's counters
    serving, servingIP, \* each accept loop's counters
    wronged     \* a plain connection was refused although its share was free

limitVars == <<conn, budget, encrypted, active, byIP, serving, servingIP, wronged>>

Plain     == "tcp"
Dot       == "dot"
Listeners == {Plain, Dot}
Fresh     == [at |-> "none", by |-> Plain, ip |-> CHOOSE i \in IPs : TRUE, reading |-> FALSE, flying |-> 0, asked |-> 0, served |-> FALSE]

LimitsInit ==
    /\ conn = [c \in Conns |-> Fresh]
    /\ budget = 0 /\ encrypted = 0
    /\ active = [l \in Listeners |-> 0] /\ byIP = [l \in Listeners |-> [i \in IPs |-> 0]]
    /\ serving = [l \in Listeners |-> 0] /\ servingIP = [l \in Listeners |-> [i \in IPs |-> 0]]
    /\ wronged = FALSE

At(places)   == {c \in Conns : conn[c].at \in places}
Of(l)        == {c \in Conns : conn[c].by = l}
Becomes(c, place) == conn' = [conn EXCEPT ![c].at = place]
Refused(c)   == conn' = [conn EXCEPT ![c] = Fresh]

----------------------------------------------------------------------------
(* Accept: connectionBudget.reserve, the parent first, then the listener   *)

Accepting == {"asks", "child", "undo", "listener", "back", "backParent", "loop"}

(* Connections come in order: which of them it is makes no difference. *)
Arrive(c, l, i) ==
    /\ conn[c].at = "none" /\ \A d \in Conns : d < c => conn[d].at # "none"
    /\ At(Accepting) \cap Of(l) = {}
    /\ conn' = [conn EXCEPT ![c] = [Fresh EXCEPT !.at = "asks", !.by = l, !.ip = i]]
    /\ UNCHANGED <<budget, encrypted, active, byIP, serving, servingIP, wronged>>

(* The plain connections that hold a slot, and the encrypted ones that are  *)
(* between their two budgets                                               *)
Holding == {"listener", "back", "loop", "open", "shut", "parent"}
PlainHeld == Cardinality(At(Holding \ {"shut"}) \cap Of(Plain))
Between   == Cardinality(At({"child", "undo", "backParent", "parent"}) \cap Of(Dot))

ReserveTotal(c) ==
    /\ conn[c].at = "asks"
    /\ IF budget < TotalMax
       THEN /\ budget' = budget + 1 /\ Becomes(c, IF conn[c].by = Plain THEN "listener" ELSE "child")
            /\ UNCHANGED wronged
       ELSE /\ Refused(c) /\ UNCHANGED budget
            /\ wronged' = (wronged \/ (conn[c].by = Plain /\ PlainHeld + Between < TotalMax - EncryptedMax))
    /\ UNCHANGED <<encrypted, active, byIP, serving, servingIP>>

ReserveEncrypted(c) ==
    /\ conn[c].at = "child"
    /\ IF encrypted < EncryptedMax THEN encrypted' = encrypted + 1 /\ Becomes(c, "listener")
                                   ELSE Becomes(c, "undo") /\ UNCHANGED encrypted
    /\ UNCHANGED <<budget, active, byIP, serving, servingIP, wronged>>

Undo(c) ==
    /\ conn[c].at = "undo" /\ budget' = budget - 1 /\ Refused(c)
    /\ UNCHANGED <<encrypted, active, byIP, serving, servingIP, wronged>>

\* MUTANT a connection that the listener refuses keeps its budget
ReserveListener_Keeps(c) ==
    LET l == conn[c].by  i == conn[c].ip IN
    /\ conn[c].at = "listener"
    /\ IF active[l] < ListenerMax /\ byIP[l][i] < PerIP
       THEN /\ active' = [active EXCEPT ![l] = @ + 1] /\ byIP' = [byIP EXCEPT ![l][i] = @ + 1]
            /\ Becomes(c, "loop")
       ELSE Refused(c) /\ UNCHANGED <<active, byIP>>
    /\ UNCHANGED <<budget, encrypted, serving, servingIP, wronged>>

(* limitedListener.reserve under the listener's lock *)
ReserveListener(c) ==
    LET l == conn[c].by  i == conn[c].ip IN
    /\ conn[c].at = "listener"
    /\ IF active[l] < ListenerMax /\ byIP[l][i] < PerIP
       THEN /\ active' = [active EXCEPT ![l] = @ + 1] /\ byIP' = [byIP EXCEPT ![l][i] = @ + 1]
            /\ Becomes(c, "loop")
       ELSE /\ Becomes(c, IF l = Plain THEN "backParent" ELSE "back") /\ UNCHANGED <<active, byIP>>
    /\ UNCHANGED <<budget, encrypted, serving, servingIP, wronged>>

GiveBack(c) ==
    /\ \/ /\ conn[c].at = "back" /\ encrypted' = encrypted - 1 /\ Becomes(c, "backParent") /\ UNCHANGED budget
       \/ /\ conn[c].at = "backParent" /\ budget' = budget - 1 /\ Refused(c) /\ UNCHANGED encrypted
    /\ UNCHANGED <<active, byIP, serving, servingIP, wronged>>

(* serveDNSOverStream: its own ceilings; what it refuses it closes.        *)
Serve(c) ==
    LET l == conn[c].by  i == conn[c].ip IN
    /\ conn[c].at = "loop"
    /\ IF serving[l] < ListenerMax /\ servingIP[l][i] < PerIP
       THEN /\ serving' = [serving EXCEPT ![l] = @ + 1] /\ servingIP' = [servingIP EXCEPT ![l][i] = @ + 1]
            /\ conn' = [conn EXCEPT ![c].at = "open", ![c].reading = TRUE, ![c].served = TRUE]
       ELSE /\ Becomes(c, IF l = Plain THEN "parent" ELSE "shut") /\ UNCHANGED <<serving, servingIP>>
    /\ UNCHANGED <<budget, encrypted, active, byIP, wronged>>

----------------------------------------------------------------------------
(* serveTCPDNSMessages: served while the loop's slots are held.      *)

Query(c) ==
    /\ conn[c].reading /\ conn[c].asked < MaxQueries /\ conn[c].flying < MaxInFlight
    /\ conn' = [conn EXCEPT ![c].asked = @ + 1, ![c].flying = @ + 1]
    /\ UNCHANGED <<budget, encrypted, active, byIP, serving, servingIP, wronged>>

(* limitedConn.Close: its slot is given back once, whoever closes it.      *)
Closes(c) == IF conn[c].at = "open" THEN IF conn[c].by = Plain THEN "parent" ELSE "shut" ELSE conn[c].at

(* A handler answers, or cannot write and closes the connection.           *)
Answer(c) ==
    /\ conn[c].flying > 0
    /\ \/ conn' = [conn EXCEPT ![c].flying = @ - 1]
       \/ conn' = [conn EXCEPT ![c].flying = @ - 1, ![c].at = Closes(c)]
    /\ UNCHANGED <<budget, encrypted, active, byIP, serving, servingIP, wronged>>

(* The peer closes or is idle, or its queries are spent; the handlers are  *)
(* waited for, and the connection is closed after them.                    *)
StopReading(c) ==
    /\ conn[c].reading /\ conn' = [conn EXCEPT ![c].reading = FALSE]
    /\ UNCHANGED <<budget, encrypted, active, byIP, serving, servingIP, wronged>>

HangUp(c) ==
    /\ conn[c].at = "open" /\ ~conn[c].reading /\ conn[c].flying = 0
    /\ Becomes(c, Closes(c))
    /\ UNCHANGED <<budget, encrypted, active, byIP, serving, servingIP, wronged>>

(* limitedListener.release: the budgets, then the listener's counters *)
ReleaseEncrypted(c) ==
    /\ conn[c].at = "shut" /\ encrypted' = encrypted - 1 /\ Becomes(c, "parent")
    /\ UNCHANGED <<budget, active, byIP, serving, servingIP, wronged>>

ReleaseTotal(c) ==
    /\ conn[c].at = "parent" /\ budget' = budget - 1 /\ Becomes(c, "counted")
    /\ UNCHANGED <<encrypted, active, byIP, serving, servingIP, wronged>>

ReleaseListener(c) ==
    LET l == conn[c].by  i == conn[c].ip IN
    /\ conn[c].at = "counted"
    /\ active' = [active EXCEPT ![l] = @ - 1] /\ byIP' = [byIP EXCEPT ![l][i] = @ - 1]
    /\ IF conn[c].served THEN Becomes(c, "closed") ELSE Refused(c)
    /\ UNCHANGED <<budget, encrypted, serving, servingIP, wronged>>

(* The handler of the connection returns: the loop's slots are free again. *)
Leave(c) ==
    LET l == conn[c].by  i == conn[c].ip IN
    /\ conn[c].at = "closed" /\ ~conn[c].reading /\ conn[c].flying = 0 /\ Refused(c)
    /\ serving' = [serving EXCEPT ![l] = @ - 1] /\ servingIP' = [servingIP EXCEPT ![l][i] = @ - 1]
    /\ UNCHANGED <<budget, encrypted, active, byIP, wronged>>

LimitsNext ==
    \E c \in Conns :
        \/ \E l \in Listeners, i \in IPs : Arrive(c, l, i)
        \/ ReserveTotal(c) \/ ReserveEncrypted(c) \/ Undo(c) \/ ReserveListener(c) \/ GiveBack(c) \/ Serve(c)
        \/ Query(c) \/ Answer(c) \/ StopReading(c) \/ HangUp(c)
        \/ ReleaseEncrypted(c) \/ ReleaseTotal(c) \/ ReleaseListener(c) \/ Leave(c)

LimitsSpec == LimitsInit /\ [][LimitsNext]_limitVars

----------------------------------------------------------------------------
LimitsTypeOK ==
    /\ budget \in 0..TotalMax /\ encrypted \in 0..EncryptedMax /\ wronged \in BOOLEAN
    /\ \A l \in Listeners : active[l] \in 0..ListenerMax /\ \A i \in IPs : byIP[l][i] \in 0..PerIP

(* Every counter is exactly what the connections hold at the moment        *)
(* (connectionBudget, limitedListener): none leaks a slot or returns one   *)
(* twice, whichever of reader and handlers closes.                         *)
Budgeted   == {"child", "undo", "listener", "back", "backParent", "loop", "open", "shut", "parent"}
Encrypting == {"listener", "back", "loop", "open", "shut"}
Exact ==
    /\ budget = Cardinality(At(Budgeted))
    /\ encrypted = Cardinality(At(Encrypting) \cap Of(Dot))
    /\ \A l \in Listeners :
        /\ active[l] = Cardinality(At({"loop", "open", "shut", "parent", "counted"}) \cap Of(l))
        /\ serving[l] = Cardinality({c \in Of(l) : conn[c].served})

(* The encrypted listeners leave the plain one its share                   *)
(* (newChildConnectionBudget): a plain connection is refused only when     *)
(* plain ones hold it, but for the slots that encrypted ones under way to  *)
(* being refused or closed hold for a moment.                              *)
Headroom == ~wronged

ConnsSound == LimitsTypeOK /\ Exact /\ Headroom
=============================================================================
