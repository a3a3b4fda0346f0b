----------------------------- MODULE LocalConns -----------------------------
(***************************************************************************)
(* The client's local connections, from the accept to the end of their     *)
(* streams: the handshake, the admission, the stream and its SYN; the      *)
(* server's result, which may come late, twice or to several processors at *)
(* once; what the application hears; the session's restart.                *)
(* (tcp_listener.go, socks_manager.go, http_proxy.go, tcp_stream.go,       *)
(* stream_client.go, client.go, client_utils.go)                           *)
(*                                                                         *)
(* An ID is used once in a session (there are 65535). The stream's ARQ is  *)
(* its state: paused until its I/O is ready, running, leaving (a close is  *)
(* being agreed), reset (an RST is on its way), closed.                    *)
(***************************************************************************)
EXTENDS Integers, FiniteSets, Sequences

CONSTANTS
    Conns, Workers,     \* local connections; the packet processors
    Ids,                \* stream IDs, 1..n
    MaxActive,          \* MAX_ACTIVE_STREAMS
    MaxResets

VARIABLES
    mode,       \* PROTOCOL_TYPE, HTTP by its method
    conn,       \* the connections, and what the handler of each is at
    strm,       \* their streams
    table,      \* active_streams
    lastId,
    remembered, \* recentlyClosedStreams
    job,        \* what each processor is at
    net,        \* packets of the server, by ID, that may still come
    server,     \* what the server answered, by ID
    rst,        \* IDs whose end the client has told the server
    resets

localVars == <<mode, conn, strm, table, lastId, remembered, job, net, server, rst, resets>>

Modes  == {"SOCKS5", "TCP", "CONNECT", "PLAIN"}
Http   == {"CONNECT", "PLAIN"}
Idle   == [at |-> "idle", id |-> 0, p |-> "", c |-> 0]
NoConn == 0

Init ==
    /\ mode \in Modes
    /\ conn = [c \in Conns |-> [at |-> "none", id |-> 0, open |-> FALSE, app |-> FALSE, heard |-> <<>>]]
    /\ strm = [c \in Conns |-> [status |-> "", terminal |-> FALSE, arq |-> "none", syn |-> FALSE, got |-> FALSE]]
    /\ table = [i \in Ids |-> NoConn] /\ lastId = 0 /\ remembered = {} /\ rst = {} /\ resets = 0
    /\ job = [w \in Workers |-> Idle]
    /\ net = [i \in Ids |-> {}] /\ server = [i \in Ids |-> "none"]

----------------------------------------------------------------------------
(* The connection's handler                                                *)

Heard(c) == {conn[c].heard[n] : n \in DOMAIN conn[c].heard}

Accept(c) ==
    /\ conn[c].at = "none" /\ \A d \in Conns : d < c => conn[d].at # "none"
    /\ conn' = [conn EXCEPT ![c] = [@ EXCEPT !.at = "asks", !.open = TRUE, !.app = TRUE]]
    /\ UNCHANGED <<mode, strm, table, lastId, remembered, job, net, server, rst, resets>>

(* The handler answers, if its protocol has an answer, and closes.         *)
Rejected(c) ==
    [conn[c] EXCEPT !.at = "done", !.open = FALSE,
        !.heard = IF mode \in {"SOCKS5", "CONNECT"} THEN Append(@, "rejected") ELSE @]

(* A bad handshake (answered or not), or an admission refused; HTTP asks   *)
(* for no admission.                                                       *)
Refuse(c) ==
    /\ conn[c].at = "asks"
    /\ conn' = [conn EXCEPT ![c] = [@ EXCEPT !.at = "done", !.open = FALSE]]
    /\ UNCHANGED <<mode, strm, table, lastId, remembered, job, net, server, rst, resets>>

Listed == {i \in Ids : table[i] # NoConn}

Admit(c) ==
    /\ conn[c].at = "asks"
    /\ conn' = [conn EXCEPT ![c] = IF mode \in Http \/ Cardinality(Listed) < MaxActive
                                   THEN [@ EXCEPT !.at = "admitted"] ELSE Rejected(c)]
    /\ UNCHANGED <<mode, strm, table, lastId, remembered, job, net, server, rst, resets>>

(* get_new_stream_id; the SOCKS handler leaves the connection open when    *)
(* there is none.                                                          *)
TakeId(c) ==
    /\ conn[c].at = "admitted"
    /\ LET free == {i \in Ids : i > lastId /\ table[i] = NoConn} IN
       IF free # {}
       THEN LET i == CHOOSE j \in free : \A k \in free : j <= k IN
            lastId' = i /\ conn' = [conn EXCEPT ![c] = [@ EXCEPT !.at = "id", !.id = i]]
       ELSE /\ conn' = [conn EXCEPT ![c] = [Rejected(c) EXCEPT !.open = mode = "SOCKS5"]] /\ UNCHANGED lastId
    /\ UNCHANGED <<mode, strm, table, remembered, job, net, server, rst, resets>>

(* new_stream *)
NewStream(c) ==
    /\ conn[c].at = "id"
    /\ conn' = [conn EXCEPT ![c].at = "stream"]
    /\ strm' = [strm EXCEPT ![c] = [@ EXCEPT
            !.status = CASE mode = "SOCKS5" -> "SOCKS_CONNECTING" [] mode = "TCP" -> "CONNECTING" [] OTHER -> "PENDING",
            !.arq = IF mode \in Http THEN "running" ELSE "paused"]]
    /\ table' = [table EXCEPT ![conn[c].id] = c]
    /\ UNCHANGED <<mode, lastId, remembered, job, net, server, rst, resets>>

(* SendControlPacketWithTTL, which a closed or reset ARQ ignores *)
SendSyn(c) ==
    /\ conn[c].at = "stream" /\ conn' = [conn EXCEPT ![c].at = "opened"]
    /\ strm' = [strm EXCEPT ![c].syn = @ \/ strm[c].arq \in {"paused", "running"}]
    /\ UNCHANGED <<mode, table, lastId, remembered, job, net, server, rst, resets>>

Leave(c) ==
    /\ conn[c].app /\ conn' = [conn EXCEPT ![c].app = FALSE]
    /\ UNCHANGED <<mode, strm, table, lastId, remembered, job, net, server, rst, resets>>

----------------------------------------------------------------------------
(* The server                                                              *)

Serve(i) ==
    /\ \/ /\ server[i] = "none" /\ i \notin rst /\ table[i] # NoConn /\ strm[table[i]].syn
          /\ \/ server' = [server EXCEPT ![i] = "connected"] /\ net' = [net EXCEPT ![i] = @ \union {"connected"}]
             \/ server' = [server EXCEPT ![i] = "fail"] /\ net' = [net EXCEPT ![i] = @ \union {"fail"}]
       \/ server[i] = "connected" /\ net' = [net EXCEPT ![i] = @ \union {"data"}] /\ UNCHANGED server
       \/ server[i] = "connected" /\ net' = [net EXCEPT ![i] = @ \union {"rst"}] /\ server' = [server EXCEPT ![i] = "gone"]
       \/ i \in rst /\ server' = [server EXCEPT ![i] = "gone"] /\ UNCHANGED net
    /\ UNCHANGED <<mode, conn, strm, table, lastId, remembered, job, rst, resets>>

----------------------------------------------------------------------------
(* The end of a stream                                                     *)

(* finalizeAfterARQClose, once, with what a caller does to its state: an   *)
(* entry of another stream under the same ID is left.                      *)
Finalized(c, status, terminal) ==
    /\ strm' = [strm EXCEPT ![c] = [@ EXCEPT !.arq = "closed", !.status = status, !.terminal = terminal]]
    /\ conn' = [conn EXCEPT ![c].open = FALSE]
    /\ table' = [i \in Ids |-> IF table[i] = c THEN NoConn ELSE table[i]]

Finalize(c) == Finalized(c, "CLOSED", strm[c].terminal)

(* ARQ.Close with an RST, unless it is on its way *)
Resets(c) == strm[c].arq \in {"paused", "running", "leaving"}
RstOf(c)  == IF Resets(c) THEN rst \union {conn[c].id} ELSE rst
ResetArq(c, status, terminal) ==
    /\ strm' = [strm EXCEPT ![c] = [@ EXCEPT !.arq = IF Resets(c) THEN "reset" ELSE @,
                                             !.status = status, !.terminal = terminal]]
    /\ rst' = RstOf(c)
ResetOnly(c) == ResetArq(c, strm[c].status, strm[c].terminal)

(* The ARQ by itself: the SYN expires, the local read ends or fails, the   *)
(* close is agreed or waited for in vain, the RST is acknowledged or not.  *)
ArqMoves(c) ==
    \/ /\ strm[c].arq = "paused" /\ strm[c].syn /\ ResetOnly(c) /\ UNCHANGED <<conn, table, remembered>>
    \/ /\ strm[c].arq = "running" /\ ~conn[c].app
       /\ \/ strm' = [strm EXCEPT ![c].arq = "leaving"] /\ UNCHANGED rst
          \/ ResetOnly(c)
       /\ UNCHANGED <<conn, table, remembered>>
    \/ /\ strm[c].arq \in {"leaving", "reset"} /\ Finalize(c) /\ rst' = rst \union {conn[c].id}
       /\ remembered' \in {remembered, remembered \union {conn[c].id}}

Arq(c) == ArqMoves(c) /\ UNCHANGED <<mode, lastId, job, net, server, resets>>

(* writeLoop *)
Deliver(c) ==
    /\ strm[c].arq = "running" /\ strm[c].got /\ conn[c].open
    /\ conn' = [conn EXCEPT ![c].heard = Append(@, "data")] /\ strm' = [strm EXCEPT ![c].got = FALSE]
    /\ UNCHANGED <<mode, table, lastId, remembered, job, net, server, rst, resets>>

(* asyncStreamCleanupWorker *)
Sweep(c) ==
    /\ c \in {table[i] : i \in Ids}
    /\ \/ /\ strm[c].arq = "leaving" /\ strm[c].status # "CANCELLED"
          /\ strm' = [strm EXCEPT ![c].status = "CLOSING"] /\ UNCHANGED <<conn, table>>
       \/ /\ strm[c].status = "CANCELLED" /\ strm[c].terminal /\ Finalize(c)
    /\ UNCHANGED <<mode, lastId, remembered, job, net, server, rst, resets>>

(* resetRuntimeBindings, with the processors stopped. A handler between    *)
(* get_new_stream_id and new_stream is taken to be done first.             *)
Restart ==
    /\ resets < MaxResets /\ resets' = resets + 1
    /\ \A w \in Workers : job[w] = Idle
    /\ \A c \in Conns : conn[c].at # "id"
    /\ LET held == {table[i] : i \in Listed} IN
       /\ strm' = [c \in Conns |-> IF c \in held THEN [strm[c] EXCEPT !.arq = "closed", !.status = "CLOSED"] ELSE strm[c]]
       /\ conn' = [c \in Conns |-> IF c \in held THEN [conn[c] EXCEPT !.open = FALSE] ELSE conn[c]]
    /\ table' = [i \in Ids |-> NoConn] /\ lastId' = 0 /\ remembered' = {} /\ rst' = {}
    /\ net' = [i \in Ids |-> {}] /\ server' = [i \in Ids |-> "none"]
    /\ UNCHANGED <<mode, job>>

----------------------------------------------------------------------------
(* The processors                                                          *)

(* preprocessInboundPacket: a stream that is not there is answered with a  *)
(* reset, unless its end was agreed and the packet has no data.            *)
Receive(w, i, p) ==
    /\ job[w] = Idle /\ p \in net[i]
    /\ IF table[i] # NoConn
       THEN job' = [job EXCEPT ![w] = [Idle EXCEPT !.at = "handle", !.id = i, !.p = p]] /\ UNCHANGED rst
       ELSE /\ rst' = IF i \notin remembered \/ p = "data" THEN rst \union {i} ELSE rst
            /\ UNCHANGED job
    /\ UNCHANGED <<mode, conn, strm, table, lastId, remembered, net, server, resets>>

Done(w) == job' = [job EXCEPT ![w] = Idle]
Goes(w, c, place) == job' = [job EXCEPT ![w] = [@ EXCEPT !.at = place, !.c = c]]
Late    == {"DRAINING", "CLOSING", "TIME_WAIT", "CLOSED"}
(* socksResultMu *)
Free(c) == \A w \in Workers : job[w].at = "wrote" => job[w].c # c

HandleGone(w) ==
    /\ job[w].at = "handle" /\ table[job[w].id] = NoConn /\ Done(w)
    /\ UNCHANGED <<mode, conn, strm, table, lastId, remembered, net, server, rst, resets>>

(* One chunk, received once (ReceiveData) *)
HandleData(w) ==
    LET c == table[job[w].id] IN
    /\ job[w].at = "handle" /\ job[w].p = "data" /\ c # NoConn /\ Done(w)
    /\ IF strm[c].terminal \/ strm[c].arq = "closed"
       THEN rst' = rst \union {job[w].id} /\ UNCHANGED strm
       ELSE /\ strm' = [strm EXCEPT ![c].got = (@ \/ (/\ strm[c].arq \in {"paused", "running"}
                                                    /\ "data" \notin Heard(c)))]
            /\ UNCHANGED rst
    /\ UNCHANGED <<mode, conn, table, lastId, remembered, net, server, resets>>

HandleRst(w) ==
    LET c == table[job[w].id] IN
    /\ job[w].at = "handle" /\ job[w].p = "rst" /\ c # NoConn /\ Done(w)
    /\ Finalized(c, IF strm[c].status = "CANCELLED" THEN "CANCELLED" ELSE "TIME_WAIT", TRUE)
    /\ UNCHANGED <<mode, lastId, remembered, net, server, rst, resets>>

(* handleStreamConnected and handleStreamConnectFail *)
HandleTcp(w) ==
    LET c == table[job[w].id] IN
    /\ mode = "TCP" /\ job[w].at = "handle" /\ job[w].p \in {"connected", "fail"} /\ c # NoConn /\ Done(w)
    /\ IF strm[c].status \in Late \union (IF job[w].p = "connected" THEN {"ACTIVE"} ELSE {})
       THEN UNCHANGED <<strm, conn, table, rst>>
       ELSE IF strm[c].status = "CANCELLED" \/ strm[c].terminal
       THEN ResetOnly(c) /\ UNCHANGED <<conn, table>>
       ELSE IF job[w].p = "connected"
       THEN /\ strm' = [strm EXCEPT ![c] = [@ EXCEPT !.status = "ACTIVE", !.arq = IF @ = "paused" THEN "running" ELSE @]]
            /\ UNCHANGED <<conn, table, rst>>
       ELSE Finalized(c, "CLOSED", TRUE) /\ UNCHANGED rst
    /\ UNCHANGED <<mode, lastId, remembered, net, server, resets>>

\* MUTANT a success that is repeated is not told from the first
Settled_Not(p) == Late \union {"SOCKS_FAILED"}

Settled(p) == Late \union {"SOCKS_FAILED"} \union (IF p = "connected" THEN {"ACTIVE"} ELSE {})

(* HandleSocksConnected and HandleSocksFailure, with socksResultMu: the    *)
(* late result ends in an RST; else the result is written, and its status  *)
(* set after.                                                              *)
HandleSocks(w) ==
    LET c == table[job[w].id]
        p == job[w].p
    IN
    /\ mode # "TCP" /\ job[w].at = "handle" /\ p \in {"connected", "fail"} /\ c # NoConn /\ Free(c)
    /\ \/ /\ strm[c].status \in Settled(p) /\ Done(w) /\ UNCHANGED <<conn, strm, rst>>
       \/ /\ strm[c].status \notin Settled(p)
          /\ strm[c].status = "CANCELLED" \/ strm[c].terminal \/ ~(conn[c].open /\ conn[c].app)
          /\ Done(w) /\ ResetOnly(c) /\ UNCHANGED conn
       \/ /\ strm[c].status \notin Settled(p) \union {"CANCELLED"} /\ ~strm[c].terminal /\ conn[c].open
          /\ \/ /\ Goes(w, c, "wrote")
                /\ conn' = [conn EXCEPT ![c].heard = IF mode = "PLAIN" /\ p = "connected" THEN @
                                          ELSE Append(@, IF p = "connected" THEN "granted" ELSE "rejected")]
             \/ mode = "SOCKS5" /\ Goes(w, c, "broken") /\ UNCHANGED conn
          /\ UNCHANGED <<strm, rst>>
    /\ UNCHANGED <<mode, table, lastId, remembered, net, server, resets>>

Wrote(w) ==
    /\ job[w].at = "wrote" /\ Goes(w, job[w].c, "told")
    /\ strm' = [strm EXCEPT ![job[w].c].status = IF job[w].p = "connected" THEN "ACTIVE" ELSE "SOCKS_FAILED"]
    /\ UNCHANGED <<mode, conn, table, lastId, remembered, net, server, rst, resets>>

(* getStreamARQ: its I/O is ready, or it is closed *)
Told(w) ==
    LET c == table[job[w].id] IN
    /\ job[w].at = "told" /\ Done(w)
    /\ IF c = NoConn THEN UNCHANGED <<conn, strm, table>>
       ELSE IF job[w].p = "connected"
       THEN strm' = [strm EXCEPT ![c].arq = IF @ = "paused" THEN "running" ELSE @] /\ UNCHANGED <<conn, table>>
       ELSE Finalize(c)
    /\ UNCHANGED <<mode, lastId, remembered, net, server, rst, resets>>

(* handlePendingSOCKSLocalClose *)
Broken(w) ==
    LET c == table[job[w].id] IN
    /\ job[w].at = "broken" /\ Done(w)
    /\ IF c = NoConn \/ strm[c].status # "SOCKS_CONNECTING" THEN UNCHANGED <<conn, strm, rst>>
       ELSE Free(c) /\ ResetArq(c, "CANCELLED", TRUE) /\ conn' = [conn EXCEPT ![c].open = FALSE]
    /\ UNCHANGED <<mode, table, lastId, remembered, net, server, resets>>

Next ==
    \/ \E c \in Conns : \/ Accept(c) \/ Refuse(c) \/ Admit(c) \/ TakeId(c) \/ NewStream(c) \/ SendSyn(c)
                        \/ Leave(c) \/ Arq(c) \/ Deliver(c) \/ Sweep(c)
    \/ \E i \in Ids : Serve(i) \/ \E w \in Workers, p \in net[i] : Receive(w, i, p)
    \/ \E w \in Workers : \/ HandleGone(w) \/ HandleData(w) \/ HandleRst(w) \/ HandleTcp(w) \/ HandleSocks(w)
                          \/ Wrote(w) \/ Told(w) \/ Broken(w)
    \/ Restart

Spec == Init /\ [][Next]_localVars

----------------------------------------------------------------------------
TypeOK ==
    /\ mode \in Modes /\ lastId \in 0..Cardinality(Ids) /\ resets \in 0..MaxResets
    /\ \A i \in Ids : table[i] \in Conns \union {NoConn} /\ net[i] \subseteq {"connected", "fail", "data", "rst"}
    /\ \A c \in Conns : strm[c].arq \in {"none", "paused", "running", "leaving", "reset", "closed"}

Replies(c) == SelectSeq(conn[c].heard, LAMBDA h : h # "data")

(* An application hears one result of its request, whatever is repeated,   *)
(* reordered or handled by several processors (socksResultMu); and, but    *)
(* for HTTP, nothing of the target before its success: a CONNECT's stream  *)
(* is not paused, and its data may overtake the answer.                    *)
OneResult ==
    \A c \in Conns :
        /\ Len(Replies(c)) <= 1
        /\ \A n \in 1..Len(conn[c].heard) :
            conn[c].heard[n] = "data" =>
                /\ mode = "SOCKS5" => conn[c].heard[1] = "granted"
                /\ "rejected" \notin {conn[c].heard[m] : m \in 1..n}

(* A connection is closed or has a stream that is in the table or ends, so *)
(* that something will close it; no stream lives outside the table, where  *)
(* no packet reaches it. A SOCKS connection refused for want of an ID is   *)
(* left open (handleSOCKSConnect).                                         *)
Owned ==
    \A c \in Conns :
        /\ conn[c].at = "done" => (~conn[c].open \/ mode = "SOCKS5")
        /\ conn[c].at \in {"stream", "opened"} =>
            IF strm[c].arq = "closed" THEN ~conn[c].open /\ \A i \in Ids : table[i] # c
                                      ELSE table[conn[c].id] = c

(* A result that comes too late is not wasted on the server: a stream that *)
(* was cancelled here, or whose connection is closed, is reset or about to *)
(* be, and what was granted can be used.                                   *)
NoneHalfOpen ==
    \A c \in Conns : conn[c].at = "opened" /\ strm[c].arq # "closed" /\ (\A w \in Workers : job[w].id # conn[c].id) =>
        /\ strm[c].status = "CANCELLED" => strm[c].arq = "reset"
        /\ strm[c].status = "ACTIVE" => strm[c].arq # "paused"
        /\ ~conn[c].open => strm[c].arq = "reset" \/ ~conn[c].app

LocalConnsSound == TypeOK /\ OneResult /\ Owned /\ NoneHalfOpen
=============================================================================
