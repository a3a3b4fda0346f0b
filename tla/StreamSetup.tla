---------------------------- MODULE StreamSetup ----------------------------
(***************************************************************************)
(* How the server opens the upstream connection of one tunnelled stream    *)
(* (internal/udpserver: server_postsession.go, server_deferred.go,         *)
(* stream_server.go, session.go).                                          *)
(*                                                                         *)
(* The SYN comes in fragments, each repeated any number of times and       *)
(* handled by any of several ingress goroutines.  A handler claims the     *)
(* packet's key, queues a task and acknowledges the SYN.  The task, run by *)
(* the stream's lane (one task at a time, see DeferredLanes), assembles    *)
(* the target, dials, attaches the connection and reports the verdict.     *)
(* Meanwhile the stream may close, its session may close, the dial may     *)
(* outlast its budget.                                                     *)
(*                                                                         *)
(* A step is what one lock covers; reads that follow each other with no    *)
(* effect in between are one step.  A stream is an incarnation of its ID:  *)
(* the server makes a new one when it finds no stream of that ID.          *)
(***************************************************************************)
EXTENDS Integers, Sequences, FiniteSets

CONSTANTS
    Packets,       \* the fragments a SYN may have
    Handlers,      \* ingress goroutines
    MaxStreams,    \* bound: incarnations
    MaxDials,      \* bound: dials
    Scenes         \* the environments a behaviour may have:
                   \*   fragments  the packets of its SYN
                   \*   ingress    how many goroutines handle them at a time
                   \*   arrivals   bound: SYN packets that arrive, repeats included
                   \*   overload   whether the lane's queue may refuse a task
                   \*   association  whether its target is the marker of a UDP association
                   \*   closings   what may close

ASSUME SetupAssumption ==
    /\ IsFiniteSet(Packets) /\ IsFiniteSet(Handlers)
    /\ MaxStreams \in Nat /\ MaxDials \in Nat
    /\ Scenes \subseteq [fragments : (SUBSET Packets) \ {{}}, ingress : Nat, arrivals : Nat,
                         overload : BOOLEAN, association : BOOLEAN,
                         closings : SUBSET {"stream", "rst", "session"}]

Streams == 1 .. MaxStreams
Conns   == 1 .. MaxDials

VARIABLES
    scene,      \* the environment of this behaviour
    arrived,    \* how many SYN packets arrived
    handler,    \* the ingress goroutines
    tracked,    \* s.deferredInflight
    queue,      \* the lane's queued tasks, by packet
    task,       \* the lane's running task
    parts,      \* the fragments socks5Fragments holds
    assembled,  \* it remembers this SYN as completed
    current,    \* r.Streams[id], 0 when absent
    tomb,       \* r.RecentlyClosed has the ID
    stream,     \* the incarnations
    closer,     \* where the goroutine that closes an incarnation is (0: the one
                \* that handles a reset for an ID that has no stream)
    session,    \* "up", then where cleanupClosedSession is
    dialled,    \* dials that returned a connection
    open,       \* upstream connections not closed
    acked,      \* history: fragments whose SYN_ACK was sent
    told        \* history: the verdicts sent for each incarnation

laneVars  == <<tracked, queue>>
fragVars  == <<parts, assembled>>
connVars  == <<dialled, open>>
history   == <<acked, told>>
vars == <<scene, arrived, handler, tracked, queue, task, parts, assembled, current, tomb,
          stream, closer, session, dialled, open, acked, told>>

Fragments == scene.fragments

AtRest == [at |-> "none", frag |-> 0, stream |-> 0, conn |-> 0, live |-> FALSE, late |-> FALSE]
Idle   == [at |-> "idle", frag |-> 0]

Init ==
    /\ scene \in Scenes
    /\ arrived = 0
    /\ handler = [h \in Handlers |-> Idle]
    /\ tracked = {} /\ queue = <<>> /\ task = AtRest
    /\ parts = {} /\ assembled = FALSE
    /\ current = 0 /\ tomb = FALSE
    /\ stream = [s \in Streams |-> [made |-> FALSE, arqClosed |-> FALSE, closed |-> FALSE,
                                    connected |-> FALSE, upstream |-> 0, local |-> 0]]
    /\ closer = [s \in 0 .. MaxStreams |-> "none"]
    /\ session = "up"
    /\ dialled = 0 /\ open = {}
    /\ acked = {} /\ told = [s \in Streams |-> {}]

----------------------------------------------------------------------------
(* What the handlers and the task share. *)

Fresh == {s \in Streams : ~stream[s].made}

(* getOrCreateStream: the session is open and has the stream, or there is  *)
(* room for a new one.                                                     *)
CanGet_Closed == current # 0 \/ Fresh # {}
CanGet == session = "up" /\ (current # 0 \/ Fresh # {})
Got    == IF current # 0 THEN current ELSE CHOOSE s \in Fresh : \A t \in Fresh : s <= t
GetOrCreate ==
    IF current # 0 THEN UNCHANGED <<current, tomb, stream>>
    ELSE /\ current' = Got
         /\ tomb' = FALSE
         /\ stream' = [stream EXCEPT ![Got].made = TRUE]

(* shouldExecuteDeferredPacket *)
ShouldExecute ==
    /\ session = "up" /\ ~tomb
    /\ current # 0 => ~stream[current].arqClosed /\ ~stream[current].closed

(* RemoveLane, RemoveSession: queued tasks go, the running one's context   *)
(* is cancelled.  FinalizeLane lets the running one finish.                *)
RemoveLane   == queue' = <<>> /\ task' = [task EXCEPT !.live = FALSE]
FinalizeLane == queue' = <<>>

----------------------------------------------------------------------------
(* Ingress. *)

At(h, place) == handler' = [handler EXCEPT ![h].at = place]
Done(h)      == handler' = [handler EXCEPT ![h] = Idle]

(* preprocessInboundPacket: a SYN for a stream closed a short while ago is *)
(* answered with a reset.                                                  *)
Arrive(h, f) ==
    /\ handler[h].at = "idle"
    /\ Cardinality({g \in Handlers : handler[g].at # "idle"}) < scene.ingress
    /\ arrived < scene.arrivals /\ session = "up"
    /\ arrived' = arrived + 1
    /\ handler' = [handler EXCEPT ![h] = [at |-> IF current = 0 /\ tomb THEN "idle" ELSE "syn",
                                          frag |-> f]]
    /\ UNCHANGED <<laneVars, task, fragVars, current, tomb, stream, closer, session, connVars, history>>

(* tryHandleImmediateConnected...: only for a SYN of one packet *)
Immediate(h) ==
    /\ handler[h].at = "syn"
    /\ Cardinality(Fragments) = 1 /\ session = "up"
    /\ current # 0 /\ stream[current].connected
    /\ told' = [told EXCEPT ![current] = @ \cup {"connected"}]
    /\ At(h, "clear")
    /\ UNCHANGED <<arrived, laneVars, task, fragVars, current, tomb, stream, closer, session,
                   connVars, acked>>

ClearKeys(h) ==
    /\ handler[h].at = "clear"
    /\ tracked' = {}
    /\ At(h, "lane")
    /\ UNCHANGED <<arrived, queue, task, fragVars, current, tomb, stream, closer, session,
                   connVars, history>>

ClearLane(h) ==
    /\ handler[h].at = "lane"
    /\ RemoveLane
    /\ At(h, "frags")
    /\ UNCHANGED <<arrived, tracked, fragVars, current, tomb, stream, closer, session, connVars, history>>

ClearFragments(h) ==
    /\ handler[h].at = "frags"
    /\ parts' = {} /\ assembled' = FALSE
    /\ At(h, "ack")
    /\ UNCHANGED <<arrived, laneVars, task, current, tomb, stream, closer, session, connVars, history>>

(* tryBeginDeferredPacket *)
Track(h) ==
    /\ handler[h].at = "syn"
    /\ ~(Cardinality(Fragments) = 1 /\ session = "up" /\ current # 0 /\ stream[current].connected)
    /\ At(h, IF handler[h].frag \in tracked THEN "ack" ELSE "enqueue")
    /\ tracked' = tracked \cup {handler[h].frag}
    /\ UNCHANGED <<arrived, queue, task, fragVars, current, tomb, stream, closer, session,
                   connVars, history>>

Enqueue(h) ==
    /\ handler[h].at = "enqueue"
    /\ queue' = Append(queue, handler[h].frag)
    /\ At(h, "ack")
    /\ UNCHANGED <<arrived, tracked, task, fragVars, current, tomb, stream, closer, session,
                   connVars, history>>

(* The queue is full: the packet is dropped, to be sent again. *)
Refuse(h) ==
    /\ handler[h].at = "enqueue" /\ scene.overload
    /\ tracked' = tracked \ {handler[h].frag}
    /\ Done(h)
    /\ UNCHANGED <<arrived, queue, task, fragVars, current, tomb, stream, closer, session,
                   connVars, history>>

(* queueImmediateControlAck *)
Acknowledge(h) ==
    /\ handler[h].at = "ack"
    /\ IF CanGet THEN /\ GetOrCreate
                      /\ acked' = acked \cup {handler[h].frag}
       ELSE UNCHANGED <<current, tomb, stream, acked>>
    /\ Done(h)
    /\ UNCHANGED <<arrived, laneVars, task, fragVars, closer, session, connVars, told>>

----------------------------------------------------------------------------
(* The task. *)

Goes(place) == task' = [task EXCEPT !.at = place]

Start ==
    /\ task.at = "none" /\ queue # <<>>
    /\ queue' = Tail(queue)
    /\ \E late \in BOOLEAN :
          task' = [AtRest EXCEPT !.at = "admit", !.frag = Head(queue), !.live = TRUE, !.late = late]
    /\ UNCHANGED <<arrived, handler, tracked, fragVars, current, tomb, stream, closer, session,
                   connVars, history>>

(* The budget runs from the moment of the dispatch; a context that was     *)
(* cancelled first no longer expires.                                      *)
Expire ==
    /\ task.at # "none" /\ task.live /\ ~task.late
    /\ task' = [task EXCEPT !.late = TRUE]
    /\ UNCHANGED <<arrived, handler, laneVars, fragVars, current, tomb, stream, closer, session,
                   connVars, history>>

(* wrappedRun and the head of deferredConnectRun *)
Admit ==
    /\ task.at = "admit"
    /\ Goes(IF ~task.live \/ task.frag \notin tracked \/ ~ShouldExecute THEN "finish"
            ELSE IF task.late THEN "reject" ELSE "check")
    /\ UNCHANGED <<arrived, handler, laneVars, fragVars, current, tomb, stream, closer, session,
                   connVars, history>>

(* processDeferredSOCKS5Syn looks again before the fragments, and again    *)
(* before the stream.                                                      *)
Check ==
    /\ task.at \in {"check", "target"}
    /\ Goes(IF ~ShouldExecute \/ (task.at = "check" /\ (~task.live \/ task.late)) THEN "tail"
            ELSE IF task.at = "check" THEN "collect" ELSE "get")
    /\ UNCHANGED <<arrived, handler, laneVars, fragVars, current, tomb, stream, closer, session,
                   connVars, history>>

(* collectSOCKS5SynFragments *)
Collect ==
    /\ task.at = "collect"
    /\ LET all == parts \cup {task.frag}
       IN  IF assembled \/ all # Fragments
           THEN /\ Goes("tail")
                /\ parts' = IF assembled THEN parts ELSE all
                /\ UNCHANGED assembled
           ELSE Goes("target") /\ parts' = {} /\ assembled' = TRUE
    /\ UNCHANGED <<arrived, handler, laneVars, current, tomb, stream, closer, session,
                   connVars, history>>

AlreadyConnected(s) == stream[s].connected

GetStream ==
    /\ task.at = "get"
    /\ \/ ~CanGet /\ Goes("keys") /\ UNCHANGED <<current, tomb, stream, told>>
       \/ /\ CanGet /\ GetOrCreate
          /\ IF current # 0 /\ AlreadyConnected(Got)
             THEN Goes("keys") /\ told' = [told EXCEPT ![Got] = @ \cup {"connected"}]
             ELSE task' = [task EXCEPT !.at = "dial", !.stream = Got] /\ UNCHANGED told
    /\ UNCHANGED <<arrived, handler, laneVars, fragVars, closer, session, connVars, acked>>

(* The dial fails, is cancelled or outlasts the budget.  A UDP association *)
(* looks at none of that: it is made or fails.                             *)
DialFails ==
    /\ task.at = "dial"
    /\ IF ~scene.association /\ ((~task.live /\ ~task.late) \/ ~ShouldExecute)
       THEN Goes("tail") /\ UNCHANGED told
       ELSE Goes("keys") /\ told' = [told EXCEPT ![task.stream] = @ \cup {"failed"}]
    /\ UNCHANGED <<arrived, handler, laneVars, fragVars, current, tomb, stream, closer, session,
                   connVars, acked>>

DialSucceeds ==
    /\ task.at = "dial" /\ dialled < MaxDials
    /\ dialled' = dialled + 1
    /\ IF ~scene.association /\ (~task.live \/ task.late)
       THEN Goes("tail") /\ UNCHANGED open
       ELSE /\ task' = [task EXCEPT !.at = "attach", !.conn = dialled']
            /\ open' = open \cup {dialled'}
    /\ UNCHANGED <<arrived, handler, laneVars, fragVars, current, tomb, stream, closer, session, history>>

(* attachUpstreamConn *)
CanAttach_EvenClosed(s) == stream[s].upstream = 0 /\ ~stream[s].connected
CanAttach(s) ==
    /\ ~stream[s].closed /\ ~stream[s].arqClosed
    /\ stream[s].upstream = 0 /\ ~stream[s].connected

(* The task is done with its connection. *)
Released == [task EXCEPT !.at = "keys", !.conn = 0]

(* An association is reported as soon as it is attached. *)
Onward == IF scene.association THEN "report" ELSE "publish"

(* The session may be found open just before it closes. *)
Attach ==
    LET s == task.stream
    IN  /\ task.at = "attach"
        /\ \/ /\ CanAttach(s)
              /\ stream' = [stream EXCEPT ![s].upstream = task.conn, ![s].connected = TRUE]
              /\ Goes(Onward)
              /\ UNCHANGED open
           \/ /\ session # "up" \/ ~CanAttach(s)
              /\ open' = open \ {task.conn}
              /\ task' = Released
              /\ UNCHANGED stream
        /\ UNCHANGED <<arrived, handler, laneVars, fragVars, current, tomb, closer, session,
                       dialled, history>>

Publish ==
    /\ task.at = "publish"
    /\ IF ShouldExecute THEN Goes("report") /\ UNCHANGED open
       ELSE /\ open' = open \ {task.conn}
            /\ task' = Released
    /\ UNCHANGED <<arrived, handler, laneVars, fragVars, current, tomb, stream, closer, session,
                   dialled, history>>

(* SetLocalConn, SetIOReady and the CONNECTED packet *)
Report ==
    LET s == task.stream
    IN  /\ task.at = "report"
        /\ stream' = [stream EXCEPT ![s].local = IF @ = 0 THEN task.conn ELSE @]
        /\ told' = [told EXCEPT ![s] = @ \cup {"connected"}]
        /\ task' = Released
        /\ UNCHANGED <<arrived, handler, laneVars, fragVars, current, tomb, closer, session,
                       connVars, acked>>

(* finalizeStreamArtifacts: the keys, the lane, the fragments *)
FinalizeKeys ==
    /\ task.at \in {"keys", "rejected"}
    /\ tracked' = {}
    /\ Goes(IF task.at = "keys" THEN "lane" ELSE "rejectedLane")
    /\ UNCHANGED <<arrived, handler, queue, fragVars, current, tomb, stream, closer, session,
                   connVars, history>>

FinalizeQueue ==
    /\ task.at \in {"lane", "rejectedLane"}
    /\ FinalizeLane
    /\ Goes(IF task.at = "lane" THEN "frags" ELSE "rejectedFrags")
    /\ UNCHANGED <<arrived, handler, tracked, fragVars, current, tomb, stream, closer, session,
                   connVars, history>>

FinalizeFragments ==
    /\ task.at \in {"frags", "rejectedFrags"}
    /\ parts' = {} /\ assembled' = FALSE
    /\ Goes(IF task.at = "frags" THEN "tail" ELSE "finish")
    /\ UNCHANGED <<arrived, handler, laneVars, current, tomb, stream, closer, session,
                   connVars, history>>

(* The tail of deferredConnectRun: no verdict in time is reported as such. *)
Overdue_Silent == FALSE
Overdue        == task.live /\ task.late /\ task.frag \in tracked

Conclude ==
    /\ task.at = "tail"
    /\ Goes(IF Overdue THEN "reject" ELSE "finish")
    /\ UNCHANGED <<arrived, handler, laneVars, fragVars, current, tomb, stream, closer, session,
                   connVars, history>>

(* rejectExpiredDeferredConnect *)
Reject ==
    /\ task.at = "reject"
    /\ Goes(IF ShouldExecute THEN "expired" ELSE "finish")
    /\ UNCHANGED <<arrived, handler, laneVars, fragVars, current, tomb, stream, closer, session,
                   connVars, history>>

ReportExpired ==
    /\ task.at = "expired"
    /\ \/ ~CanGet /\ UNCHANGED <<current, tomb, stream, told>>
       \/ /\ CanGet /\ GetOrCreate
          /\ told' = [told EXCEPT ![Got] = @ \cup {"failed"}]
    /\ Goes("rejected")
    /\ UNCHANGED <<arrived, handler, laneVars, fragVars, closer, session, connVars, acked>>

(* finishDeferredPacket *)
Finish ==
    /\ task.at = "finish"
    /\ tracked' = tracked \ {task.frag}
    /\ task' = AtRest
    /\ UNCHANGED <<arrived, handler, queue, fragVars, current, tomb, stream, closer, session,
                   connVars, history>>

----------------------------------------------------------------------------
(* Closing a stream, in the order                                          *)
(*   "resetKeys" "resetLane"  a peer's reset first drops pending SYNs      *)
(*   "arq"                    the ARQ is marked closed, local conn shut    *)
(*   "cleanup"                cleanupResources                             *)
(*   "remove" "note"          removeStream and noteStreamClosed            *)
(*   "keys" "lane" "frags"    cleanupStreamArtifacts                       *)

Moves(s, place) == closer' = [closer EXCEPT ![s] = place]

(* The ARQ of a stream closes by itself (a timeout, an error, the end). *)
CloseStream(s) ==
    /\ "stream" \in scene.closings
    /\ stream[s].made /\ closer[s] = "none"
    /\ Moves(s, "arq")
    /\ UNCHANGED <<arrived, handler, laneVars, task, fragVars, current, tomb, stream, session,
                   connVars, history>>

(* handleStreamRSTRequest *)
Reset ==
    /\ "rst" \in scene.closings /\ session = "up"
    /\ closer[current] = "none"
    /\ Moves(current, IF current = 0 THEN "note" ELSE "resetKeys")
    /\ UNCHANGED <<arrived, handler, laneVars, task, fragVars, current, tomb, stream, session,
                   connVars, history>>

CloserKeys(s) ==
    /\ closer[s] \in {"resetKeys", "keys"}
    /\ tracked' = {}
    /\ Moves(s, IF closer[s] = "keys" THEN "lane" ELSE "resetLane")
    /\ UNCHANGED <<arrived, handler, queue, task, fragVars, current, tomb, stream, session,
                   connVars, history>>

CloserLane(s) ==
    /\ closer[s] \in {"resetLane", "lane"}
    /\ RemoveLane
    /\ Moves(s, IF closer[s] = "lane" THEN "frags" ELSE "arq")
    /\ UNCHANGED <<arrived, handler, tracked, fragVars, current, tomb, stream, session,
                   connVars, history>>

CloseARQ(s) ==
    /\ closer[s] = "arq"
    /\ stream' = [stream EXCEPT ![s].arqClosed = TRUE]
    /\ open' = open \ {stream[s].local}
    /\ Moves(s, "cleanup")
    /\ UNCHANGED <<arrived, handler, laneVars, task, fragVars, current, tomb, session, dialled, history>>

(* cleanupResources *)
CleanupResources(s) ==
    /\ stream' = [stream EXCEPT ![s].closed = TRUE, ![s].connected = FALSE, ![s].upstream = 0]
    /\ open' = open \ {stream[s].upstream}

Cleanup(s) ==
    /\ closer[s] = "cleanup"
    /\ CleanupResources(s)
    /\ Moves(s, "remove")
    /\ UNCHANGED <<arrived, handler, laneVars, task, fragVars, current, tomb, session, dialled, history>>

(* removeStream deletes whatever stream has the ID. *)
Remove(s) ==
    /\ closer[s] = "remove"
    /\ current' = IF session = "up" THEN 0 ELSE current
    /\ Moves(s, "note")
    /\ UNCHANGED <<arrived, handler, laneVars, task, fragVars, tomb, stream, session, connVars, history>>

(* noteStreamClosed *)
Note(s) ==
    /\ closer[s] = "note"
    /\ tomb' = (tomb \/ session = "up")
    /\ Moves(s, "keys")
    /\ UNCHANGED <<arrived, handler, laneVars, task, fragVars, current, stream, session, connVars, history>>

CloserFragments(s) ==
    /\ closer[s] = "frags"
    /\ parts' = {} /\ assembled' = FALSE
    /\ Moves(s, "done")
    /\ UNCHANGED <<arrived, handler, laneVars, task, current, tomb, stream, session, connVars, history>>

Closer(s) ==
    \/ CloserKeys(s) \/ CloserLane(s) \/ CloseARQ(s) \/ Cleanup(s)
    \/ Remove(s) \/ Note(s) \/ CloserFragments(s)

----------------------------------------------------------------------------
(* Closing the session: sessions.Close, then cleanupClosedSession.         *)

CloseSession ==
    /\ "session" \in scene.closings /\ session = "up"
    /\ session' = "keys"
    /\ UNCHANGED <<arrived, handler, laneVars, task, fragVars, current, tomb, stream, closer,
                   connVars, history>>

SessionKeys ==
    /\ session = "keys"
    /\ tracked' = {}
    /\ session' = "frags"
    /\ UNCHANGED <<arrived, handler, queue, task, fragVars, current, tomb, stream, closer,
                   connVars, history>>

SessionFragments ==
    /\ session = "frags"
    /\ parts' = {} /\ assembled' = FALSE
    /\ session' = "streams"
    /\ UNCHANGED <<arrived, handler, laneVars, task, current, tomb, stream, closer, connVars, history>>

(* closeAllStreams closes the stream in the map and waits for its cleanup, *)
(* whoever started it.                                                     *)
SessionStreams ==
    /\ session = "streams"
    /\ IF current # 0 /\ closer[current] # "done"
       THEN /\ closer[current] = "none" /\ Moves(current, "arq")
            /\ UNCHANGED <<current, session>>
       ELSE /\ current' = 0 /\ session' = "lane"
            /\ UNCHANGED closer
    /\ UNCHANGED <<arrived, handler, laneVars, task, fragVars, tomb, stream, connVars, history>>

SessionLane ==
    /\ session = "lane"
    /\ RemoveLane
    /\ session' = "closed"
    /\ UNCHANGED <<arrived, handler, tracked, fragVars, current, tomb, stream, closer, connVars, history>>

----------------------------------------------------------------------------
Handling(h) ==
    \/ Immediate(h) \/ ClearKeys(h) \/ ClearLane(h) \/ ClearFragments(h)
    \/ Track(h) \/ Enqueue(h) \/ Refuse(h) \/ Acknowledge(h)

Running ==
    \/ Start \/ Admit \/ Check \/ Collect \/ GetStream \/ DialFails \/ DialSucceeds
    \/ Attach \/ Publish \/ Report \/ FinalizeKeys \/ FinalizeQueue \/ FinalizeFragments
    \/ Conclude \/ Reject \/ ReportExpired \/ Finish

SessionCloser == SessionKeys \/ SessionFragments \/ SessionStreams \/ SessionLane

Next ==
    /\ \/ \E h \in Handlers : Handling(h) \/ \E f \in Fragments : Arrive(h, f)
       \/ Running \/ Expire
       \/ \E s \in Streams : CloseStream(s)
       \/ Reset \/ CloseSession
       \/ \E s \in 0 .. MaxStreams : Closer(s)
       \/ SessionCloser
    /\ UNCHANGED scene

Spec == Init /\ [][Next]_vars

(* Goroutines that can go on do; a dial ends, by its own deadline.  That a *)
(* packet arrives, a budget runs out or something closes is not promised.  *)
Fairness ==
    /\ \A h \in Handlers : WF_vars(Handling(h) /\ UNCHANGED scene)
    /\ WF_vars(Running /\ UNCHANGED scene)
    /\ \A s \in 0 .. MaxStreams : WF_vars(Closer(s) /\ UNCHANGED scene)
    /\ WF_vars(SessionCloser /\ UNCHANGED scene)

FairSpec == Spec /\ Fairness

----------------------------------------------------------------------------
(* Every variable stays in its type. *)
TypeOK ==
    /\ scene \in Scenes /\ arrived \in 0 .. scene.arrivals
    /\ \A h \in Handlers :
          /\ handler[h].at \in {"idle", "syn", "clear", "lane", "frags", "enqueue", "ack"}
          /\ handler[h].at # "idle" => handler[h].frag \in Fragments
    /\ tracked \subseteq Fragments /\ queue \in Seq(Fragments)
    /\ task.stream \in 0 .. MaxStreams /\ task.conn \in 0 .. MaxDials
    /\ task.conn # 0 <=> task.at \in {"attach", "publish", "report"}
    /\ parts \subseteq Fragments /\ assembled \in BOOLEAN
    /\ current \in 0 .. MaxStreams /\ tomb \in BOOLEAN
    /\ stream \in [Streams -> [made : BOOLEAN, arqClosed : BOOLEAN, closed : BOOLEAN,
                               connected : BOOLEAN, upstream : 0 .. MaxDials, local : 0 .. MaxDials]]
    /\ closer \in [0 .. MaxStreams -> {"none", "resetKeys", "resetLane", "arq", "cleanup", "remove",
                                       "note", "keys", "lane", "frags", "done"}]
    /\ session \in {"up", "keys", "frags", "streams", "lane", "closed"}
    /\ dialled \in 0 .. MaxDials /\ open \subseteq Conns
    /\ acked \subseteq Fragments /\ told \in [Streams -> SUBSET {"connected", "failed"}]

(* No upstream connection is ever orphaned: one that is open is in the     *)
(* hands of the task that dialled it, or attached to a stream whose        *)
(* cleanup is still to come and will close it.  Streams and sessions close *)
(* at any point of the dial (attachUpstreamConn, cleanupResources).        *)
ConnsOwned ==
    \A c \in open : task.conn = c \/ \E s \in Streams : stream[s].upstream = c /\ ~stream[s].closed

(* What SOCKS5_CONNECTED reports is true: when nothing is closing, a       *)
(* stream the client was told is connected has its upstream connection     *)
(* open, and it is the one the ARQ reads and writes.                       *)
ConnectedIsReal ==
    \A s \in Streams :
        (/\ "connected" \in told[s] /\ session = "up" /\ task.at \notin {"publish", "report"}
         /\ closer[s] = "none" /\ ~tomb)
        => stream[s].upstream \in open /\ stream[s].local = stream[s].upstream

(* A stream the server has is not also recorded as recently closed.        *)
TombsAreDead == current # 0 => ~tomb

(* A client whose whole SYN was acknowledged gets a verdict, unless the    *)
(* stream or the session closes.  The client has stopped repeating the SYN *)
(* (deferredConnectRun and rejectExpiredDeferredConnect exist for this).   *)
(* It holds as long as the lane's queue takes every task.                  *)
Answered ==
    \/ \E s \in Streams : told[s] # {} \/ closer[s] # "none"
    \/ closer[0] # "none" \/ session # "up"
NotStranded == (acked = Fragments) ~> Answered
StrandedOnlyByOverload == (acked = Fragments /\ ~scene.overload) ~> Answered

(* When all goroutines are done, nothing is left of a closed session: no   *)
(* stream and no connection, although SYNs were being handled and dials    *)
(* were under way when it closed.                                          *)
Settled ==
    /\ session = "closed"
    /\ task.at = "none" /\ queue = <<>> /\ \A h \in Handlers : handler[h].at = "idle"
    /\ \A s \in 0 .. MaxStreams : closer[s] \in {"none", "done"}
SessionLeavesNothing == Settled => current = 0 /\ open = {}

(* Nor does a key, which the next session of the same ID would find taken. *)
KeysCleared == Settled => tracked = {}

(* No connection is without an owner, and what a client was told is true.  *)
SetupSound == TypeOK /\ ConnsOwned /\ ConnectedIsReal
=============================================================================
