---------------------------- MODULE QueryStream -----------------------------
(***************************************************************************)
(* A synchronous DNS query over one TCP or TLS connection that is used     *)
(* again for the next: probes, session setup and rechecks (transport.go    *)
(* tcpQueryTransport).                                                     *)
(*                                                                         *)
(* A query is its number; its DNS ID is one of a few. The resolver answers *)
(* what it has read whole, in order, perhaps in two parts, perhaps after   *)
(* the exchange has given up, and may send a message that nobody asked     *)
(* for. A pipe's item is a part of the message of a query.                 *)
(***************************************************************************)
EXTENDS Integers, Sequences

CONSTANTS
    Callers, MaxQueries,
    Id,             \* the DNS ID of each query
    MaxConns, MaxStray,
    Attempts        \* messages that an exchange reads

VARIABLES
    closed, current,    \* t.closed, t.conn
    holder,             \* who has exchangeMu
    caller,             \* what each exchange is doing
    asked,              \* queries so far
    conn,               \* the connections dialed
    dialed, strays,
    result              \* of each query

queryVars == <<closed, current, holder, caller, asked, conn, dialed, strays, result>>

None == 0
Idle == [at |-> "idle", q |-> 0, conn |-> None, tries |-> 0]
Free == [open |-> FALSE, up |-> {}, pipe |-> <<>>]
Msg(q, part) == [q |-> q, part |-> part]
Stray == 0

(* Results that are no answer *)
Pending == 0
Failed  == -1

Init ==
    /\ closed = FALSE /\ holder = None /\ asked = 0 /\ dialed = 1 /\ strays = 0
    /\ current = 1 /\ conn = [c \in 1..MaxConns |-> IF c = 1 THEN [Free EXCEPT !.open = TRUE] ELSE Free]
    /\ caller = [k \in Callers |-> Idle] /\ result = [q \in 1..MaxQueries |-> Pending]

Moves(k, place) == caller' = [caller EXCEPT ![k] = place]
Network == <<conn, dialed, strays>>

(* exchangeMu, then t.closed and t.conn under mu *)
Enter(k) ==
    /\ caller[k] = Idle /\ holder = None /\ asked < MaxQueries /\ asked' = asked + 1
    /\ IF closed THEN UNCHANGED <<caller, holder>> /\ result' = [result EXCEPT ![asked + 1] = Failed]
       ELSE /\ holder' = k /\ UNCHANGED result
            /\ Moves(k, [at |-> IF current = None THEN "dials" ELSE "writes", q |-> asked + 1, conn |-> current,
                         tries |-> 0])
    /\ UNCHANGED <<closed, current, Network>>

Ends(k, r) == Moves(k, Idle) /\ holder' = None /\ result' = [result EXCEPT ![caller[k].q] = r]

Dial(k) ==
    /\ caller[k].at = "dials"
    /\ \/ Ends(k, Failed) /\ UNCHANGED <<conn, dialed>>
       \/ /\ dialed < MaxConns /\ dialed' = dialed + 1 /\ conn' = [conn EXCEPT ![dialed + 1].open = TRUE]
          /\ Moves(k, [caller[k] EXCEPT !.at = "dialed", !.conn = dialed + 1]) /\ UNCHANGED <<holder, result>>
    /\ UNCHANGED <<closed, current, asked, strays>>

(* Close may have come while it dialed. *)
Adopt(k) ==
    LET c == caller[k].conn IN
    /\ caller[k].at = "dialed"
    /\ IF closed THEN Ends(k, Failed) /\ conn' = [conn EXCEPT ![c].open = FALSE] /\ UNCHANGED current
                 ELSE /\ current' = c /\ Moves(k, [caller[k] EXCEPT !.at = "writes"])
                      /\ UNCHANGED <<holder, result, conn>>
    /\ UNCHANGED <<closed, asked, dialed, strays>>

(* discardConnection: only while it is still the one *)
Discard(c) ==
    IF current = c THEN current' = None /\ conn' = [conn EXCEPT ![c].open = FALSE] ELSE UNCHANGED <<current, conn>>

Write(k) ==
    LET c == caller[k].conn IN
    /\ caller[k].at = "writes"
    /\ \/ /\ conn[c].open /\ conn' = [conn EXCEPT ![c].up = @ \union {caller[k].q}]
          /\ Moves(k, [caller[k] EXCEPT !.at = "reads"]) /\ UNCHANGED <<current, holder, result>>
       \/ Discard(c) /\ Ends(k, Failed)
    /\ UNCHANGED <<closed, asked, dialed, strays>>

(* readTCPDNSFramed: a whole message, of which the first part may be here  *)
(* before the second.                                                      *)
ReadMessage(k) ==
    LET c == caller[k].conn
        pipe == conn[c].pipe
        q == Head(pipe).q
        tries == caller[k].tries + 1
    IN
    /\ caller[k].at = "reads" /\ conn[c].open
    /\ Len(pipe) >= 2 /\ conn' = [conn EXCEPT ![c].pipe = SubSeq(@, 3, Len(@))]
    /\ IF pipe[1] = Msg(q, 1) /\ pipe[2] = Msg(q, 2) /\ q # Stray /\ Id[q] = Id[caller[k].q]
       THEN Ends(k, q)
       ELSE /\ Moves(k, [caller[k] EXCEPT !.tries = tries, !.at = IF tries = Attempts THEN "gives up" ELSE "reads"])
            /\ UNCHANGED <<holder, result>>
    /\ UNCHANGED <<closed, current, asked, dialed, strays>>

(* The deadline, which may come after the first part, or the end of the    *)
(* stream, or too many messages of others.                                 *)
GiveUp(k) ==
    /\ caller[k].at \in {"reads", "gives up"} /\ Discard(caller[k].conn) /\ Ends(k, Failed)
    /\ UNCHANGED <<closed, asked, dialed, strays>>

Close ==
    /\ ~closed /\ closed' = TRUE /\ current' = None
    /\ conn' = IF current = None THEN conn ELSE [conn EXCEPT ![current].open = FALSE]
    /\ UNCHANGED <<holder, caller, asked, dialed, strays, result>>

(* The resolver *)
Answer(c, q) ==
    /\ q \in conn[c].up
    /\ conn' = [conn EXCEPT ![c] = [@ EXCEPT !.up = @ \ {q}, !.pipe = @ \o <<Msg(q, 1), Msg(q, 2)>>]]
    /\ UNCHANGED <<closed, current, holder, caller, asked, dialed, strays, result>>

SendStray(c) ==
    /\ conn[c].open /\ strays < MaxStray /\ strays' = strays + 1
    /\ conn' = [conn EXCEPT ![c].pipe = @ \o <<Msg(Stray, 1), Msg(Stray, 2)>>]
    /\ UNCHANGED <<closed, current, holder, caller, asked, dialed, result>>

Next ==
    \/ Close
    \/ \E k \in Callers : Enter(k) \/ Dial(k) \/ Adopt(k) \/ Write(k) \/ ReadMessage(k) \/ GiveUp(k)
    \/ \E c \in 1..dialed : SendStray(c) \/ \E q \in 1..asked : Answer(c, q)

Spec == Init /\ [][Next]_queryVars

----------------------------------------------------------------------------
TypeOK ==
    /\ current \in 0..dialed /\ dialed \in 1..MaxConns /\ holder \in Callers \union {None}
    /\ \A k \in Callers : caller[k] # Idle <=> holder = k

(* An exchange returns the answer to its own query or an error, though IDs *)
(* repeat and an answer may come after its query was given up, whole or in *)
(* part: that connection is never read again (tcpQueryTransport.exchange). *)
OwnAnswer == \A q \in 1..MaxQueries : result[q] \in {Pending, Failed, q}

(* A connection is open only while it is the transport's, or the dialer's  *)
(* who has not adopted it: Close, which waits for no exchange, leaves none *)
(* behind, and an exchange never closes its successor's.                   *)
NoneLeft ==
    /\ \A c \in 1..dialed : conn[c].open =>
        current = c \/ \E k \in Callers : caller[k].at = "dialed" /\ caller[k].conn = c
    /\ closed => current = None

QueryStreamSound == TypeOK /\ OwnAnswer /\ NoneLeft
=============================================================================
