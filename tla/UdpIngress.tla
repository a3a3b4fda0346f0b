----------------------------- MODULE UdpIngress -----------------------------
(***************************************************************************)
(* The server's UDP side (internal/udpserver): Run opens the sockets,      *)
(* starts their readers and the workers and takes everything down again;   *)
(* a reader decrypts a datagram, by trial of the configured codecs, and    *)
(* queues it for the workers in one of two bounded lanes.                  *)
(*                                                                         *)
(* The channels, the preferred codec and the context are what goroutines   *)
(* share, so each access to them is a step.  The gauges are left out.      *)
(***************************************************************************)
EXTENDS Integers, Sequences, FiniteSets

CONSTANTS
    UDPReaders, Cpus,   \* UDP_READERS and the CPU count
    Workers,            \* DNSRequestWorkers goroutines
    Totals,             \* what ingressQueueCapacity may come to
    Burst,              \* control requests a worker takes before it looks for data
    Codecs, Preferred,  \* the codecs as configured, and the index of the configured method
    Authenticated,      \* those that are AEAD
    Datagrams,          \* 1..n, in the order of their arrival
    Bulk,               \* those that are stream data
    Reading             \* what a codec makes of a datagram

VARIABLES
    run,            \* where Run is
    asked,          \* who has cancelled its context: the caller, the embedded server
    total,          \* the slots of the two lanes together
    sockets, open,  \* how many sockets there are, and whether they are open
    preferred,      \* preferredCodec
    reader,         \* at: its place in readLoop, req: the request it holds
    worker,         \* at, req as well, shut: the lanes it has found closed, burst: controlBurst
    errors,         \* errors in readErrCh
    queue,          \* the lanes
    fate,           \* what has become of a datagram
    result          \* what Run has returned

vars == <<run, asked, total, sockets, open, preferred, reader, worker, errors, queue, fate,
          result>>

Least(a, b)    == IF a < b THEN a ELSE b
Greatest(a, b) == IF a < b THEN b ELSE a
Lanes == {"control", "data"}
NoOne == 0

----------------------------------------------------------------------------
(* The sizes                                                               *)

(* ingressQueueCapacity, from MaxConcurrentRequests, MaxIngressQueueBytes  *)
(* and MaxPacketSize                                                       *)
QueueCapacity(requests, bytes, packet) ==
    LET size == Greatest(packet, 1) IN
    IF bytes < size THEN 1 ELSE Least(bytes \div size, Greatest(requests, 1))

ControlShare(n) ==
    LET share == IF n >= 128 THEN Greatest(n \div 8, 64) ELSE n \div 8
    IN  IF share >= n /\ n > 1 THEN n - 1 ELSE share

Capacity(n) == [control |-> ControlShare(n), data |-> n - ControlShare(n)]
Room(lane)  == Len(queue[lane]) < Capacity(total)[lane]

(* udpSocketCount, startReaders *)
SocketCount == IF UDPReaders < 3 THEN 1 ELSE Least(UDPReaders \div 2, Cpus)
ReaderCount(n) == Greatest(UDPReaders, n)
SocketOf(i, n) == ((i - 1) % n) + 1

----------------------------------------------------------------------------
(* The codecs.  Indices count from 0, as in the source.                    *)

(* SetCodecSet: the configured method first in its own class. *)
Of(class(_)) == SelectSeq(SubSeq(Codecs, 1, Preferred) \o SubSeq(Codecs, Preferred + 2, Len(Codecs)), class)
IsAEAD(c)  == c \in Authenticated
IsOther(c) == c \notin Authenticated
First  == Codecs[Preferred + 1]
InOrder ==
    IF IsAEAD(First) THEN <<First>> \o Of(IsAEAD) \o Of(IsOther)
                     ELSE Of(IsAEAD) \o <<First>> \o Of(IsOther)

(* codecTrialIndex: from the preferred one round, the AEAD ones before all *)
(* others.                                                                 *)
TrialOrder(start) ==
    LET n == Len(InOrder)
        round == [k \in 1..n |-> (start + k - 1) % n]
        aead(i) == IsAEAD(InOrder[i + 1])
        other(i) == IsOther(InOrder[i + 1])
    IN  SelectSeq(round, aead) \o SelectSeq(round, other)

(* parseFromLabelsAnyMatching: a codec fails, or reads a frame in one      *)
(* layout or in either, for which no session vouches, or one for which a   *)
(* session does.  An AEAD codec vouches for a frame of one layout itself.  *)
(* -1: no codec.                                                           *)
Trial(d, start) ==
    LET order == TrialOrder(start)
        sure == {k \in DOMAIN order :
                    LET c == InOrder[order[k] + 1] IN
                    Reading[d][c] = "known" \/ (Reading[d][c] = "frame" /\ IsAEAD(c))}
        likely == {k \in DOMAIN order : Reading[d][InOrder[order[k] + 1]] # "fails"}
        FirstOf(K) == order[CHOOSE k \in K : \A j \in K : k <= j]
    IN  IF sure # {} THEN FirstOf(sure) ELSE IF likely # {} THEN FirstOf(likely) ELSE -1

----------------------------------------------------------------------------
Init ==
    /\ run = "opening" /\ asked = "no" /\ result = "none"
    /\ total \in Totals
    /\ sockets = 0 /\ open = FALSE
    /\ preferred = 0
    /\ reader = <<>> /\ errors = 0
    /\ worker = [w \in Workers |-> [at |-> "off", req |-> NoOne, shut |-> {}, burst |-> 0]]
    /\ queue = [l \in Lanes |-> <<>>]
    /\ fate = [d \in Datagrams |-> "out"]

(* runCtx: cancelled from outside, or by Run once the workers have ended *)
Cancelled == asked # "no" \/ run \in {"stopping", "returned"}

(* close(queues): after the last reader *)
Closed == run \in {"draining", "stopping", "returned"}

Cancel(who) ==
    /\ run # "returned" /\ asked = "no" /\ (who = "host" => run # "opening")
    /\ asked' = who
    /\ UNCHANGED <<run, total, sockets, open, preferred, reader, worker, errors, queue, fate, result>>

(* listenUDP for both families: the full set of sockets or a single one;   *)
(* without IPv6 the server runs on.  Without IPv4 it does not.             *)
Open ==
    /\ run = "opening"
    /\ \E v4 \in {1, SocketCount}, v6 \in {0, 1, SocketCount} :
        /\ sockets' = v4 + v6
        /\ reader' = [i \in 1..ReaderCount(v4 + v6) |-> [at |-> "reading", req |-> NoOne]]
    /\ open' = TRUE /\ run' = "serving"
    /\ worker' = [w \in Workers |-> [worker[w] EXCEPT !.at = "look"]]
    /\ UNCHANGED <<asked, total, preferred, errors, queue, fate, result>>

OpenFails ==
    /\ run = "opening" /\ run' = "returned" /\ result' = "listen"
    /\ UNCHANGED <<asked, total, sockets, open, preferred, reader, worker, errors, queue, fate>>

(* The goroutine that waits for the context *)
CloseSockets ==
    /\ open /\ Cancelled /\ open' = FALSE
    /\ UNCHANGED <<run, asked, total, sockets, preferred, reader, worker, errors, queue, fate, result>>

----------------------------------------------------------------------------
(* A reader: readLoop                                                      *)

ReaderAt(i, place) == reader' = [reader EXCEPT ![i].at = place]
ReaderDone(i) == reader' = [reader EXCEPT ![i] = [at |-> "reading", req |-> NoOne]]

(* The preferred codec is read here and written in the next step. *)
Receive(i, d) ==
    /\ reader[i].at = "reading" /\ open
    /\ fate[d] = "out" /\ \A e \in Datagrams : e < d => fate[e] # "out"
    /\ LET found == Trial(d, preferred) IN
       IF found = -1
       THEN fate' = [fate EXCEPT ![d] = "rejected"] /\ UNCHANGED reader
       ELSE /\ fate' = [fate EXCEPT ![d] = InOrder[found + 1]]
            /\ reader' = [reader EXCEPT ![i] = [at |-> IF found # preferred THEN "learned" ELSE "has", req |-> d]]
    /\ UNCHANGED <<run, asked, total, sockets, open, preferred, worker, errors, queue, result>>

Learn(i) ==
    /\ reader[i].at = "learned"
    /\ preferred' = (CHOOSE k \in 0..Len(InOrder) - 1 : InOrder[k + 1] = fate[reader[i].req])
    /\ ReaderAt(i, "has")
    /\ UNCHANGED <<run, asked, total, sockets, open, worker, errors, queue, fate, result>>

(* Any error ends this reader; readErrCh holds UDP_READERS of them. *)
ReadFails(i) ==
    /\ reader[i].at = "reading"
    /\ ReaderAt(i, "ended")
    /\ errors' = IF Cancelled \/ ~open THEN errors ELSE Least(errors + 1, UDPReaders)
    /\ UNCHANGED <<run, asked, total, sockets, open, preferred, worker, queue, fate, result>>

(* enqueueIngressRequest *)
Send(i, lane) ==
    /\ queue' = [queue EXCEPT ![lane] = Append(@, reader[i].req)]
    /\ ReaderDone(i)

Offer(i) ==
    LET lane == IF reader[i].req \in Bulk THEN "data" ELSE "control" IN
    /\ reader[i].at = "has"
    /\ IF Room(lane) THEN Send(i, lane)
       ELSE ReaderAt(i, IF lane = "data" THEN "drop" ELSE "look") /\ UNCHANGED queue
    /\ UNCHANGED <<run, asked, total, sockets, open, preferred, worker, errors, fate, result>>

(* A control lane without slots passes a request to a worker that waits. *)
HandOver(i, w) ==
    /\ reader[i].at = "has" /\ reader[i].req \notin Bulk /\ Capacity(total).control = 0
    /\ worker[w].at = "wait" /\ "control" \notin worker[w].shut
    /\ worker' = [worker EXCEPT ![w].at = "handle", ![w].req = reader[i].req, ![w].burst = Least(@ + 1, Burst)]
    /\ ReaderDone(i)
    /\ UNCHANGED <<run, asked, total, sockets, open, preferred, errors, queue, fate, result>>

LookAtData(i) ==
    /\ reader[i].at = "look"
    /\ ReaderAt(i, IF queue["data"] # <<>> THEN "drop" ELSE "spill")
    /\ UNCHANGED <<run, asked, total, sockets, open, preferred, worker, errors, queue, fate, result>>

Spill(i) ==
    /\ reader[i].at = "spill"
    /\ IF Room("data") THEN Send(i, "data") ELSE ReaderAt(i, "drop") /\ UNCHANGED queue
    /\ UNCHANGED <<run, asked, total, sockets, open, preferred, worker, errors, fate, result>>

Drop(i) ==
    /\ reader[i].at = "drop"
    /\ fate' = [fate EXCEPT ![reader[i].req] = "dropped"]
    /\ IF Cancelled THEN reader' = [reader EXCEPT ![i] = [at |-> "ended", req |-> NoOne]] ELSE ReaderDone(i)
    /\ UNCHANGED <<run, asked, total, sockets, open, preferred, worker, errors, queue, result>>

Reader(i) ==
    \/ \E d \in Datagrams : Receive(i, d)
    \/ \E w \in Workers : HandOver(i, w)
    \/ Learn(i) \/ ReadFails(i) \/ Offer(i) \/ LookAtData(i) \/ Spill(i) \/ Drop(i)

----------------------------------------------------------------------------
(* A worker: dnsWorker                                                     *)

Took(w, lane) ==
    /\ queue[lane] # <<>>
    /\ queue' = [queue EXCEPT ![lane] = Tail(@)]
    /\ worker' = [worker EXCEPT ![w].at = "handle", ![w].req = Head(queue[lane]),  ![w].burst = IF lane = "data" THEN 0 ELSE Least(@ + 1, Burst)]

(* A receive from a lane that is closed and empty *)
Ends(w, lane) ==
    /\ queue[lane] = <<>> /\ Closed
    /\ worker' = [worker EXCEPT ![w].at = "look", ![w].shut = @ \cup {lane}]
    /\ UNCHANGED queue

Look(w) ==
    LET me == worker[w]
        lane == IF me.burst = Burst THEN "data" ELSE "control"
    IN  /\ me.at = "look"
        /\ IF me.shut = Lanes
           THEN worker' = [worker EXCEPT ![w].at = "ended"] /\ UNCHANGED queue
           ELSE IF lane \in me.shut \/ (queue[lane] = <<>> /\ ~Closed)
           THEN worker' = [worker EXCEPT ![w].at = "wait"] /\ UNCHANGED queue
           ELSE Took(w, lane) \/ Ends(w, lane)
        /\ UNCHANGED <<run, asked, total, sockets, open, preferred, reader, errors, fate, result>>

Wait(w) ==
    /\ worker[w].at = "wait"
    /\ \/ Cancelled /\ worker' = [worker EXCEPT ![w].at = "left"] /\ UNCHANGED queue
       \/ \E lane \in Lanes \ worker[w].shut : Took(w, lane) \/ Ends(w, lane)
    /\ UNCHANGED <<run, asked, total, sockets, open, preferred, reader, errors, fate, result>>

(* processIngressRequest; a panic of the handler is recovered from. *)
Handle(w) ==
    /\ worker[w].at = "handle"
    /\ fate' = [fate EXCEPT ![worker[w].req] = "handled"]
    /\ worker' = [worker EXCEPT ![w].at = "look", ![w].req = NoOne]
    /\ UNCHANGED <<run, asked, total, sockets, open, preferred, reader, errors, queue, result>>

Worker(w) == Look(w) \/ Wait(w) \/ Handle(w)

----------------------------------------------------------------------------
(* The end of Run: readers, lanes, workers, context, and the listeners and *)
(* the cleanup, which end with the context.                                *)

CloseLanes ==
    /\ run = "serving" /\ \A i \in DOMAIN reader : reader[i].at = "ended"
    /\ run' = "draining"
    /\ UNCHANGED <<asked, total, sockets, open, preferred, reader, worker, errors, queue, fate, result>>

Stop ==
    /\ run = "draining" /\ \A w \in Workers : worker[w].at \in {"ended", "left"}
    /\ run' = "stopping"
    /\ UNCHANGED <<asked, total, sockets, open, preferred, reader, worker, errors, queue, fate, result>>

Return ==
    /\ run = "stopping" /\ run' = "returned" /\ open' = FALSE
    /\ result' \in (IF asked # "no" THEN {"host", "cancelled"} ELSE {}) \cup
                   (IF asked = "caller" THEN {} ELSE {IF errors > 0 THEN "error" ELSE "nil"})
    /\ UNCHANGED <<asked, total, sockets, preferred, reader, worker, errors, queue, fate>>

Next ==
    \/ Open \/ OpenFails \/ CloseSockets \/ CloseLanes \/ Stop \/ Return
    \/ \E who \in {"caller", "host"} : Cancel(who)
    \/ \E i \in DOMAIN reader : Reader(i)
    \/ \E w \in Workers : Worker(w)

Spec == Init /\ [][Next]_vars
----------------------------------------------------------------------------
(* Correctness                                                             *)

Admitted(d) == fate[d] \notin {"out", "rejected", "dropped", "handled"}

(* Where a request is: with a reader, with a worker, at a place in a lane. *)
Held(d) ==
    {<<"reader", i>> : i \in {j \in DOMAIN reader : reader[j].req = d}}
        \cup {<<"worker", w>> : w \in {v \in Workers : worker[v].req = d}}
        \cup {<<l, k>> \in Lanes \X (1..Cardinality(Datagrams)) :
                    k <= Len(queue[l]) /\ queue[l][k] = d}

(* A receive buffer has one holder from its datagram's arrival until it is *)
(* given back to the pool, and then none: it is never given back twice.    *)
HeldOnce == \A d \in Datagrams : Cardinality(Held(d)) = (IF Admitted(d) THEN 1 ELSE 0)

(* Stream data never takes the slots reserved for control requests, and    *)
(* what control requests take of its own is bounded by the readers that    *)
(* raced for an idle lane (server_runtime.go:311).                         *)
Spilled   == {d \in Datagrams \ Bulk : \E k \in DOMAIN queue["data"] : queue["data"][k] = d}
LanesKept ==
    /\ \A k \in DOMAIN queue["control"] : queue["control"][k] \notin Bulk
    /\ Cardinality(Spilled) <= Cardinality(DOMAIN reader)
    /\ \A l \in Lanes : Len(queue[l]) <= Capacity(total)[l]

(* A lane is closed after the last send, and unless the context was        *)
(* cancelled every request in it has been handled when Run goes on.        *)
Drained ==
    /\ Closed /\ reader # <<>> => \A i \in DOMAIN reader : reader[i].at = "ended"
    /\ run \in {"stopping", "returned"} /\ asked = "no" => \A d \in Datagrams : ~Admitted(d)

(* Run ends without an error only if the embedded server stopped it, and   *)
(* no reader's error is lost then: a server that stops by itself says why. *)
ResultTrue ==
    /\ result = "nil" => asked = "host" /\ errors = 0
    /\ result = "error" => errors > 0

(* Every socket is some reader's, on servers of few readers too.           *)
SocketsRead == \A k \in 1..sockets : \E i \in DOMAIN reader : SocketOf(i, sockets) = k

(* Whichever codec the trial begins with, each is tried once, the AEAD     *)
(* ones first, and what an AEAD codec reads is left to another codec only  *)
(* if a session vouches for that; what a session vouches for in one codec  *)
(* is not taken for the guess of another (payload.go:228).                 *)
CodecTrue ==
    /\ LET order == TrialOrder(preferred) IN
       /\ {order[k] : k \in DOMAIN order} = 0..Len(InOrder) - 1 /\ Len(order) = Len(InOrder)
       /\ \A j, k \in DOMAIN order : j < k /\ IsAEAD(InOrder[order[k] + 1]) => IsAEAD(InOrder[order[j] + 1])
    /\ \A d \in Datagrams : Admitted(d) =>
            LET c == fate[d]
                read == {b \in {Codecs[k] : k \in DOMAIN Codecs} : Reading[d][b] # "fails"}
            IN  /\ c \in read
                /\ read \cap Authenticated # {} =>
                        c \in Authenticated \/ Reading[d][c] = "known"
                /\ (\E b \in read : Reading[d][b] = "known") =>
                        Reading[d][c] = "known" \/ (c \in Authenticated /\ Reading[d][c] = "frame")

IngressSound == HeldOnce /\ LanesKept /\ Drained /\ ResultTrue /\ SocketsRead /\ CodecTrue
=============================================================================
