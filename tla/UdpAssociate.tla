---------------------------- MODULE UdpAssociate ----------------------------
(***************************************************************************)
(* A SOCKS5 UDP association at the client: the loop that receives the      *)
(* application's datagrams, the worker that carries those that are not DNS *)
(* in a tunnel stream of its own and starts it again when it fails, and    *)
(* the end of both. (socks_manager.go handleSocksUDPAssociate,             *)
(* generic_udp_fallback.go)                                                *)
(*                                                                         *)
(* A frame is its number. The retries' delays and the responses' relay are *)
(* left out, the delay's cancellation is not.                              *)
(***************************************************************************)
EXTENDS Integers, FiniteSets, Sequences

CONSTANTS
    MaxFrames, Capacity,    \* genericUDPFrameQueueCapacity
    MaxStreams

VARIABLES
    loop,       \* "receives", "drops", "inserts", "closes", "waits", "returned"
    received,   \* frames so far
    queue,      \* genericFrames
    cancelled,  \* genericCtx
    worker,     \* "takes", "holds", "started", "writes", "failed", "delays", "closes", "done"
    frame,      \* the one that the worker holds, or 0
    active,     \* the worker's stream, or 0
    shared,     \* genericActive, or 0
    pipes,      \* streams with their pipe open
    listed,     \* streams in active_streams
    started,    \* streams so far
    onStream    \* what was written to each: <<frame, whole>>

udpVars == <<loop, received, queue, cancelled, worker, frame, active, shared, pipes, listed, started, onStream>>

Init ==
    /\ loop = "receives" /\ received = 0 /\ queue = <<>> /\ cancelled = FALSE
    /\ worker = "takes" /\ frame = 0 /\ active = 0 /\ shared = 0
    /\ pipes = {} /\ listed = {} /\ started = 0 /\ onStream = [k \in 1..MaxStreams |-> <<>>]

----------------------------------------------------------------------------
(* The receive loop: enqueueLatestGenericUDPFrame never waits.             *)

Receive ==
    /\ loop = "receives" /\ received < MaxFrames /\ received' = received + 1
    /\ IF Len(queue) < Capacity THEN queue' = Append(queue, received + 1) /\ UNCHANGED loop
                                ELSE loop' = "drops" /\ UNCHANGED queue
    /\ UNCHANGED <<cancelled, worker, frame, active, shared, pipes, listed, started, onStream>>

DropOldest ==
    /\ loop = "drops" /\ loop' = "inserts" /\ queue' = IF queue = <<>> THEN queue ELSE Tail(queue)
    /\ UNCHANGED <<received, cancelled, worker, frame, active, shared, pipes, listed, started, onStream>>

Insert ==
    /\ loop = "inserts" /\ loop' = "receives"
    /\ queue' = IF Len(queue) < Capacity THEN Append(queue, received) ELSE queue
    /\ UNCHANGED <<received, cancelled, worker, frame, active, shared, pipes, listed, started, onStream>>

(* The control connection ends, the association is idle, or the runtime    *)
(* stops; the deferred functions close what the worker may be writing to   *)
(* and wait for it.                                                        *)
Stop ==
    /\ loop = "receives" /\ loop' = "closes" /\ cancelled' = TRUE
    /\ UNCHANGED <<received, queue, worker, frame, active, shared, pipes, listed, started, onStream>>

CloseShared ==
    /\ loop = "closes" /\ loop' = "waits" /\ pipes' = pipes \ {shared}
    /\ UNCHANGED <<received, queue, cancelled, worker, frame, active, shared, listed, started, onStream>>

Return ==
    /\ loop = "waits" /\ worker = "done" /\ loop' = "returned"
    /\ UNCHANGED <<received, queue, cancelled, worker, frame, active, shared, pipes, listed, started, onStream>>

----------------------------------------------------------------------------
(* The worker                                                              *)

Take ==
    /\ worker = "takes"
    /\ \/ queue # <<>> /\ frame' = Head(queue) /\ queue' = Tail(queue) /\ worker' = "holds"
       \/ cancelled /\ worker' = "closes" /\ UNCHANGED <<frame, queue>>
    /\ UNCHANGED <<loop, received, cancelled, active, shared, pipes, listed, started, onStream>>

Has == worker = "holds" /\ active # 0 /\ worker' = "writes"
       /\ UNCHANGED <<loop, received, queue, cancelled, frame, active, shared, pipes, listed, started, onStream>>

(* startGenericAssociation: a stream, its pipe and its SYN; or no ID *)
Start ==
    /\ worker = "holds" /\ active = 0
    /\ \/ /\ started < MaxStreams /\ started' = started + 1 /\ active' = started + 1
          /\ pipes' = pipes \union {started + 1} /\ listed' = listed \union {started + 1} /\ worker' = "started"
       \/ worker' = "delays" /\ UNCHANGED <<started, active, pipes, listed>>
    /\ UNCHANGED <<loop, received, queue, cancelled, frame, shared, onStream>>

(* setGenericActive *)
Share ==
    /\ worker = "started"
    /\ IF cancelled
       THEN /\ pipes' = pipes \ {active} /\ listed' = listed \ {active} /\ active' = 0 /\ worker' = "closes"
            /\ UNCHANGED shared
       ELSE shared' = active /\ worker' = "writes" /\ UNCHANGED <<active, pipes, listed>>
    /\ UNCHANGED <<loop, received, queue, cancelled, frame, started, onStream>>

(* The stream takes the frame; or it is closed or stalls, and may have     *)
(* taken a part. A write to an open pipe may stay for a minute.            *)
Write ==
    /\ worker = "writes"
    /\ \/ /\ active \in pipes /\ onStream' = [onStream EXCEPT ![active] = Append(@, <<frame, TRUE>>)]
          /\ frame' = 0 /\ worker' = "takes"
       \/ /\ onStream' \in {onStream, [onStream EXCEPT ![active] = Append(@, <<frame, FALSE>>)]}
          /\ worker' = "failed" /\ UNCHANGED frame
    /\ UNCHANGED <<loop, received, queue, cancelled, active, shared, pipes, listed, started>>

(* closeGeneric *)
Closed ==
    /\ shared' = IF shared = active THEN 0 ELSE shared
    /\ pipes' = pipes \ {active} /\ listed' = listed \ {active} /\ active' = 0

Fail ==
    /\ worker = "failed" /\ Closed /\ worker' = "delays"
    /\ UNCHANGED <<loop, received, queue, cancelled, frame, started, onStream>>

(* waitGenericUDPRetry, then latestGenericUDPFrame *)
Retry ==
    /\ worker = "delays"
    /\ \/ cancelled /\ worker' = "closes" /\ UNCHANGED <<frame, queue>>
       \/ /\ worker' = "holds" /\ queue' = <<>>
          /\ frame' = IF queue = <<>> THEN frame ELSE queue[Len(queue)]
    /\ UNCHANGED <<loop, received, cancelled, active, shared, pipes, listed, started, onStream>>

Exit ==
    /\ worker = "closes" /\ Closed /\ worker' = "done"
    /\ UNCHANGED <<loop, received, queue, cancelled, frame, started, onStream>>

(* The server refuses the association, or its stream ends *)
StreamEnds(k) ==
    /\ k \in listed /\ listed' = listed \ {k} /\ pipes' = pipes \ {k}
    /\ UNCHANGED <<loop, received, queue, cancelled, worker, frame, active, shared, started, onStream>>

Next ==
    \/ Receive \/ DropOldest \/ Insert \/ Stop \/ CloseShared \/ Return
    \/ Take \/ Has \/ Start \/ Share \/ Write \/ Fail \/ Retry \/ Exit
    \/ \E k \in 1..MaxStreams : StreamEnds(k)

Spec == Init /\ [][Next]_udpVars

----------------------------------------------------------------------------
TypeOK ==
    /\ received \in 0..MaxFrames /\ Len(queue) <= Capacity /\ frame \in 0..received
    /\ active \in 0..started /\ shared \in {0, active} /\ pipes \subseteq 1..started /\ listed \subseteq 1..started

(* The newest datagram is never the one that is lost: it waits, is held,   *)
(* or was written, whatever fails and whoever is slow                      *)
(* (enqueueLatestGenericUDPFrame, latestGenericUDPFrame).                  *)
Whole == {onStream[k][n][1] : <<k, n>> \in {x \in (1..MaxStreams) \X (1..MaxFrames) :
            x[2] <= Len(onStream[x[1]]) /\ onStream[x[1]][x[2]][2]}}
NewestKept ==
    /\ received > 0 /\ worker \notin {"closes", "done"} =>
        \/ received \in Whole \union {frame} \union {queue[n] : n \in DOMAIN queue}
        \/ loop \in {"drops", "inserts"}
    /\ frame = 0 \/ \A n \in DOMAIN queue : queue[n] > frame

(* A stream's frames are in order, and one of which a part was written is  *)
(* its last: the server never reads a frame from the middle of another.    *)
Framed ==
    \A k \in 1..started : \A n \in 1..Len(onStream[k]) - 1 :
        onStream[k][n][2] /\ onStream[k][n][1] < onStream[k][n + 1][1]

(* The association has one stream at a time, none once it has returned;    *)
(* and when it waits for its worker, that does not write to a pipe that    *)
(* nobody will close (setGenericActive).                                   *)
NoneLeft ==
    /\ listed \subseteq {active} /\ pipes \subseteq {active}
    /\ loop = "returned" => listed = {} /\ pipes = {}
    /\ loop = "waits" /\ worker = "writes" => active \notin pipes

AssociateSound == TypeOK /\ NewestKept /\ Framed /\ NoneLeft
=============================================================================
