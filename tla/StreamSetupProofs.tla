-------------------------- MODULE StreamSetupProofs --------------------------
(***************************************************************************)
(* Why the set-up of a stream loses no upstream connection and reports     *)
(* nothing that is not so, for any number of packets, goroutines, dials    *)
(* and incarnations of the stream, and whatever closes meanwhile.          *)
(*                                                                         *)
(* A connection has one holder at a time: the task, until it is attached,  *)
(* then the stream, until its closer has run (Holding, Apart, Linked).     *)
(* The map keeps the incarnation that is not yet removed (Mapped), and so  *)
(* the close of the session finds every stream it must close; once all     *)
(* closers are done no stream has a connection left.                       *)
(***************************************************************************)
EXTENDS StreamSetup, FiniteSetTheorems, TLAPS

----------------------------------------------------------------------------
(* The inductive invariant                                                 *)

Places == {"none", "admit", "check", "collect", "target", "get", "dial", "attach", "publish", "report",
           "keys", "lane", "frags", "tail", "reject", "expired", "rejected", "rejectedLane",
           "rejectedFrags", "finish"}
TaskSet == [at : Places, frag : Packets \cup {0}, stream : 0 .. MaxStreams, conn : 0 .. MaxDials,
            live : BOOLEAN, late : BOOLEAN]
HandlerSet == [at : {"idle", "syn", "clear", "lane", "frags", "enqueue", "ack"}, frag : Packets \cup {0}]

(* The types, by who uses the variables.                                   *)
StreamRec == [made : BOOLEAN, arqClosed : BOOLEAN, closed : BOOLEAN, connected : BOOLEAN,
              upstream : 0 .. MaxDials, local : 0 .. MaxDials]
CloserPlaces == {"none", "resetKeys", "resetLane", "arq", "cleanup", "remove", "note", "keys", "lane",
                 "frags", "done"}
TypedIngress ==
    /\ scene \in Scenes /\ arrived \in 0 .. scene.arrivals
    /\ handler \in [Handlers -> HandlerSet]
    /\ \A h \in Handlers : handler[h].at # "idle" => handler[h].frag \in Fragments
    /\ tracked \subseteq Fragments /\ queue \in Seq(Fragments)
    /\ parts \subseteq Fragments /\ assembled \in BOOLEAN /\ acked \subseteq Fragments
TypedTask ==
    /\ task \in TaskSet
    /\ task.at # "none" => task.frag \in Fragments
    /\ task.conn # 0 <=> task.at \in {"attach", "publish", "report"}
TypedStream ==
    /\ current \in 0 .. MaxStreams /\ tomb \in BOOLEAN
    /\ stream \in [Streams -> StreamRec]
    /\ closer \in [0 .. MaxStreams -> CloserPlaces]
    /\ session \in {"up", "keys", "frags", "streams", "lane", "closed"}
    /\ dialled \in 0 .. MaxDials /\ open \subseteq Conns
    /\ told \in [Streams -> SUBSET {"connected", "failed"}]
Typed == TypedIngress /\ TypedTask /\ TypedStream

(* The incarnations are made one after the other.                          *)
MadeInOrder == \E n \in 0 .. MaxStreams : \A s \in Streams : stream[s].made <=> s <= n

(* A closer goes through its places in order, and for the ID alone through *)
(* the last ones only.                                                     *)
Opening  == {"none", "resetKeys", "resetLane", "arq"}
Pending  == Opening \cup {"cleanup", "remove"}
InOrder ==
    /\ closer[0] \notin Pending \ {"none"}
    /\ \A s \in Streams :
          /\ ~stream[s].made => /\ closer[s] = "none" /\ told[s] = {}
                                /\ stream[s].upstream = 0 /\ stream[s].local = 0
          /\ stream[s].arqClosed <=> closer[s] \notin Opening
          /\ stream[s].closed <=> closer[s] \notin Opening \cup {"cleanup"}

(* The map has the one incarnation that is not yet removed; once the       *)
(* session closed its streams, all are being closed.                       *)
Mapped ==
    /\ current # 0 => stream[current].made
    /\ \A s \in Streams : stream[s].made =>
          /\ session = "up" /\ closer[s] \in Pending => current = s
          /\ session \in {"keys", "frags", "streams"} /\ closer[s] = "none" => current = s
          /\ session \in {"lane", "closed"} => closer[s] # "none"
    /\ session \in {"lane", "closed"} => current = 0

(* A stream is connected as long as it has a connection; the ARQ's is the  *)
(* same one.                                                               *)
Linked ==
    \A s \in Streams :
        /\ stream[s].connected <=> stream[s].upstream # 0
        /\ stream[s].closed => stream[s].upstream = 0
        /\ stream[s].local # 0 /\ ~stream[s].closed => stream[s].local = stream[s].upstream
        /\ stream[s].upstream <= dialled /\ stream[s].local <= dialled

Has(s) == {stream[s].upstream, stream[s].local} \ {0}

(* No connection belongs to two streams, and the one that the task holds   *)
(* belongs to the task's stream or to none yet.                            *)
Apart ==
    /\ \A s, t \in Streams : s # t => Has(s) \cap Has(t) = {}
    /\ task.conn <= dialled
    /\ task.conn # 0 => \A s \in Streams : task.conn \in Has(s) => s = task.stream /\ task.at # "attach"

Attached == task.at \in {"publish", "report"}

(* The task's stream exists, and has its connection once that is attached. *)
Holding ==
    /\ task.at \in {"dial", "attach"} \/ Attached => task.stream # 0 /\ stream[task.stream].made
    /\ task.at = "attach" => task.conn \in open
    /\ Attached =>
          /\ ~stream[task.stream].closed => stream[task.stream].upstream = task.conn
          /\ closer[task.stream] = "none" => task.conn \in open
          /\ stream[task.stream].closed => task.conn \notin open

(* Between the steps of the report, a connected stream that nothing closes *)
(* has its connection open.                                                *)
Real ==
    \A s \in Streams :
        /\ "connected" \in told[s] /\ closer[s] = "none" => stream[s].connected
        /\ (/\ stream[s].connected /\ closer[s] = "none" /\ session = "up" /\ ~tomb
            /\ ~(Attached /\ task.stream = s))
           => stream[s].upstream \in open /\ stream[s].local = stream[s].upstream

Core == MadeInOrder /\ InOrder /\ Mapped /\ Linked /\ Apart /\ Holding /\ ConnsOwned /\ Real

IInv == Typed /\ Core

----------------------------------------------------------------------------
(* Types                                                                   *)

ingressVars == <<scene, arrived, handler, tracked, queue, parts, assembled, acked>>
streamVars  == <<current, tomb, stream, closer, session, dialled, open, told>>

LEMMA Bounds == /\ MaxStreams \in Nat /\ MaxDials \in Nat
                /\ 0 \in 0 .. MaxStreams /\ 0 \in 0 .. MaxDials /\ Streams \subseteq 0 .. MaxStreams
BY SetupAssumption DEF Streams

LEMMA FragmentsArePackets == ASSUME scene \in Scenes PROVE Fragments \subseteq Packets
BY SetupAssumption DEF Fragments

LEMMA TypesImplied == Typed => TypeOK
<1>1. SUFFICES ASSUME Typed PROVE TypeOK
  OBVIOUS
<1>2. scene \in Scenes /\ arrived \in 0 .. scene.arrivals
  BY <1>1 DEF Typed, TypedIngress
<1>3. \A h \in Handlers :
          /\ handler[h].at \in {"idle", "syn", "clear", "lane", "frags", "enqueue", "ack"}
          /\ handler[h].at # "idle" => handler[h].frag \in Fragments
  BY <1>1 DEF Typed, TypedIngress, HandlerSet
<1>4. tracked \subseteq Fragments /\ queue \in Seq(Fragments) /\ parts \subseteq Fragments
      /\ assembled \in BOOLEAN /\ acked \subseteq Fragments
  BY <1>1 DEF Typed, TypedIngress
<1>5. /\ task.stream \in 0 .. MaxStreams /\ task.conn \in 0 .. MaxDials
      /\ task.conn # 0 <=> task.at \in {"attach", "publish", "report"}
  BY <1>1 DEF Typed, TypedTask, TaskSet
<1>6. QED
  BY <1>1, <1>2, <1>3, <1>4, <1>5 DEF Typed, TypedStream, TypeOK, StreamRec, CloserPlaces

(* A new incarnation is the next one.                                      *)
LEMMA NextIncarnation ==
    ASSUME Typed, Core, CanGet, GetOrCreate
    PROVE  /\ Got \in Streams
           /\ current # 0 => Got = current /\ UNCHANGED <<current, tomb, stream>>
           /\ current = 0 => /\ ~stream[Got].made /\ MadeInOrder' /\ current' = Got /\ ~tomb'
                             /\ stream' \in [Streams -> StreamRec]
                             /\ \A s \in Streams \ {Got} : stream'[s] = stream[s]
                             /\ stream'[Got] = [stream[Got] EXCEPT !.made = TRUE]
<1>1. current \in 0 .. MaxStreams /\ stream \in [Streams -> StreamRec] /\ MaxStreams \in Nat
  BY SetupAssumption DEF Typed, TypedStream
<1>2. CASE current # 0
  BY <1>1, <1>2 DEF Got, GetOrCreate, Streams
<1>3. CASE current = 0
  <2>1. PICK n \in 0 .. MaxStreams : \A s \in Streams : stream[s].made <=> s <= n
    BY DEF Core, MadeInOrder
  <2>2. n + 1 \in Fresh /\ \A t \in Fresh : n + 1 <= t
    BY <1>1, <1>3, <2>1 DEF Fresh, CanGet, Streams
  <2>3. \A t \in Fresh : (\A u \in Fresh : t <= u) => t = n + 1
    BY <1>1, <2>1, <2>2 DEF Fresh, Streams
  <2>4. Got = n + 1
    <3>1. Got = CHOOSE s \in Fresh : \A t \in Fresh : s <= t
      BY <1>3 DEF Got
    <3>2. (CHOOSE s \in Fresh : \A t \in Fresh : s <= t) \in Fresh
          /\ \A t \in Fresh : (CHOOSE s \in Fresh : \A u \in Fresh : s <= u) <= t
      BY <2>2
    <3>3. QED
      BY <2>3, <3>1, <3>2
  <2>5. Got \in Streams /\ ~stream[Got].made
    BY <2>2, <2>4 DEF Fresh
  <2>6. current' = Got /\ ~tomb' /\ stream' = [stream EXCEPT ![Got].made = TRUE]
    BY <1>3 DEF GetOrCreate
  <2>7. stream' \in [Streams -> StreamRec]
    BY <1>1, <2>5, <2>6 DEF StreamRec
  <2>8. (\A s \in Streams \ {Got} : stream'[s] = stream[s]) /\ stream'[Got] = [stream[Got] EXCEPT !.made = TRUE]
    BY <1>1, <2>5, <2>6
  <2>9. MadeInOrder'
    <3>1. n + 1 \in 0 .. MaxStreams
      BY <2>5, <2>4, <1>1 DEF Streams
    <3>2. \A s \in Streams : stream'[s].made <=> s <= n + 1
      <4>1. TAKE s \in Streams
      <4>2. CASE s = Got
        BY <4>2, <2>4, <2>8, <1>1 DEF StreamRec, Streams
      <4>3. CASE s # Got
        BY <4>3, <4>1, <2>1, <2>4, <2>8, <1>1 DEF Streams
      <4>4. QED
        BY <4>2, <4>3
    <3>3. QED
      BY <3>1, <3>2 DEF MadeInOrder
  <2>10. QED
    BY <1>3, <2>5, <2>6, <2>7, <2>8, <2>9
<1>4. QED
  BY <1>2, <1>3

(* What the steps that connect, report and close do to an incarnation.     *)
LEMMA AttachedFields ==
    ASSUME NEW s \in Streams, NEW c \in 0 .. MaxDials, stream \in [Streams -> StreamRec],
           stream' = [stream EXCEPT ![s].upstream = c, ![s].connected = TRUE]
    PROVE  /\ stream' \in [Streams -> StreamRec]
           /\ \A t \in Streams \ {s} : stream'[t] = stream[t]
           /\ stream'[s].upstream = c /\ stream'[s].connected = TRUE
           /\ stream'[s].made = stream[s].made /\ stream'[s].arqClosed = stream[s].arqClosed
           /\ stream'[s].closed = stream[s].closed /\ stream'[s].local = stream[s].local
<1>1. PICK r : r = [stream[s] EXCEPT !.upstream = c, !.connected = TRUE]
  OBVIOUS
<1>2. r \in StreamRec
  BY <1>1, stream[s] \in StreamRec DEF StreamRec
<1>3. /\ r.upstream = c /\ r.connected = TRUE /\ r.made = stream[s].made /\ r.arqClosed = stream[s].arqClosed
      /\ r.closed = stream[s].closed /\ r.local = stream[s].local
  BY <1>1, stream[s] \in StreamRec DEF StreamRec
<1>4. stream' = [stream EXCEPT ![s] = r]
  BY <1>1
<1>5. QED
  BY <1>2, <1>3, <1>4

LEMMA ReportedFields ==
    ASSUME NEW s \in Streams, NEW c \in 0 .. MaxDials, stream \in [Streams -> StreamRec],
           stream' = [stream EXCEPT ![s].local = IF @ = 0 THEN c ELSE @]
    PROVE  /\ stream' \in [Streams -> StreamRec]
           /\ \A t \in Streams \ {s} : stream'[t] = stream[t]
           /\ stream'[s].local = IF stream[s].local = 0 THEN c ELSE stream[s].local
           /\ stream'[s].upstream = stream[s].upstream /\ stream'[s].connected = stream[s].connected
           /\ stream'[s].made = stream[s].made /\ stream'[s].arqClosed = stream[s].arqClosed
           /\ stream'[s].closed = stream[s].closed
<1>1. PICK r : r = [stream[s] EXCEPT !.local = IF @ = 0 THEN c ELSE @]
  OBVIOUS
<1>2. r \in StreamRec
  BY <1>1, stream[s] \in StreamRec DEF StreamRec
<1>3. /\ r.local = IF stream[s].local = 0 THEN c ELSE stream[s].local
      /\ r.upstream = stream[s].upstream /\ r.connected = stream[s].connected
      /\ r.made = stream[s].made /\ r.arqClosed = stream[s].arqClosed /\ r.closed = stream[s].closed
  BY <1>1, stream[s] \in StreamRec DEF StreamRec
<1>4. stream' = [stream EXCEPT ![s] = r]
  BY <1>1
<1>5. QED
  BY <1>2, <1>3, <1>4

LEMMA ClosedFields ==
    ASSUME NEW s \in Streams, stream \in [Streams -> StreamRec], CleanupResources(s)
    PROVE  /\ stream' \in [Streams -> StreamRec]
           /\ \A t \in Streams \ {s} : stream'[t] = stream[t]
           /\ stream'[s].closed = TRUE /\ stream'[s].connected = FALSE /\ stream'[s].upstream = 0
           /\ stream'[s].made = stream[s].made /\ stream'[s].arqClosed = stream[s].arqClosed
           /\ stream'[s].local = stream[s].local
<1>1. PICK r : r = [stream[s] EXCEPT !.closed = TRUE, !.connected = FALSE, !.upstream = 0]
  OBVIOUS
<1>2. r \in StreamRec
  BY <1>1, Bounds, stream[s] \in StreamRec DEF StreamRec
<1>3. /\ r.closed = TRUE /\ r.connected = FALSE /\ r.upstream = 0 /\ r.made = stream[s].made
      /\ r.arqClosed = stream[s].arqClosed /\ r.local = stream[s].local
  BY <1>1, stream[s] \in StreamRec DEF StreamRec
<1>4. stream' = [stream EXCEPT ![s] = r]
  BY <1>1 DEF CleanupResources
<1>5. QED
  BY <1>2, <1>3, <1>4

LEMMA ShutFields ==
    ASSUME NEW s \in Streams, stream \in [Streams -> StreamRec],
           stream' = [stream EXCEPT ![s].arqClosed = TRUE]
    PROVE  /\ stream' \in [Streams -> StreamRec]
           /\ \A t \in Streams \ {s} : stream'[t] = stream[t]
           /\ stream'[s].arqClosed = TRUE
           /\ stream'[s].upstream = stream[s].upstream /\ stream'[s].connected = stream[s].connected
           /\ stream'[s].made = stream[s].made /\ stream'[s].local = stream[s].local
           /\ stream'[s].closed = stream[s].closed
<1>1. PICK r : r = [stream[s] EXCEPT !.arqClosed = TRUE]
  OBVIOUS
<1>2. r \in StreamRec
  BY <1>1, stream[s] \in StreamRec DEF StreamRec
<1>3. /\ r.arqClosed = TRUE /\ r.upstream = stream[s].upstream /\ r.connected = stream[s].connected
      /\ r.made = stream[s].made /\ r.local = stream[s].local /\ r.closed = stream[s].closed
  BY <1>1, stream[s] \in StreamRec DEF StreamRec
<1>4. stream' = [stream EXCEPT ![s] = r]
  BY <1>1
<1>5. QED
  BY <1>2, <1>3, <1>4

LEMMA IngressKept ==
    ASSUME IInv, Next
    PROVE  TypedIngress'
<1>1. /\ scene \in Scenes /\ arrived \in 0 .. scene.arrivals /\ scene.arrivals \in Nat
      /\ handler \in [Handlers -> HandlerSet]
      /\ \A h \in Handlers : handler[h].at # "idle" => handler[h].frag \in Fragments
      /\ tracked \subseteq Fragments /\ queue \in Seq(Fragments)
      /\ parts \subseteq Fragments /\ assembled \in BOOLEAN /\ acked \subseteq Fragments
  BY SetupAssumption DEF IInv, Typed, TypedIngress
<1>2. task.at # "none" => task.frag \in Fragments
  BY DEF IInv, Typed, TypedTask
<1>3. Fragments' = Fragments /\ scene' = scene /\ Fragments \subseteq Packets
  BY <1>1, FragmentsArePackets DEF Next, Fragments
<1>4a. /\ << >> \in Seq(Fragments)
       /\ \A q \in Seq(Fragments), f \in Fragments : Append(q, f) \in Seq(Fragments)
       /\ \A q \in Seq(Fragments) : q # << >> => Tail(q) \in Seq(Fragments)
  OBVIOUS
<1>4. CASE UNCHANGED ingressVars
  BY <1>1, <1>3, <1>4 DEF TypedIngress, ingressVars
<1>5. ASSUME NEW h \in Handlers, NEW f \in Fragments, Arrive(h, f) PROVE TypedIngress'
  <2>1. arrived' = arrived + 1 /\ arrived < scene.arrivals
    BY <1>5 DEF Arrive
  <2>2. handler' \in [Handlers -> HandlerSet]
        /\ \A g \in Handlers : handler'[g].at # "idle" => handler'[g].frag \in Fragments
    BY <1>1, <1>3, <1>5 DEF Arrive, HandlerSet
  <2>3. QED
    BY <1>1, <1>3, <1>5, <2>1, <2>2 DEF Arrive, TypedIngress, laneVars, fragVars, history
<1>6. ASSUME NEW h \in Handlers, Handling(h) PROVE TypedIngress'
  <2>1. /\ handler' \in [Handlers -> HandlerSet]
        /\ \A g \in Handlers : handler'[g].at # "idle" => handler'[g].frag \in Fragments
    <3>1. CASE handler' = [handler EXCEPT ![h] = Idle]
      BY <1>1, <3>1 DEF Idle, HandlerSet
    <3>2. ASSUME NEW p \in {"clear", "lane", "frags", "enqueue", "ack"}, handler[h].at # "idle",
                 handler' = [handler EXCEPT ![h].at = p]
          PROVE  /\ handler' \in [Handlers -> HandlerSet]
                 /\ \A g \in Handlers : handler'[g].at # "idle" => handler'[g].frag \in Fragments
      BY <1>1, <3>2 DEF HandlerSet
    <3>3. QED
      BY <1>6, <3>1, <3>2 DEF Handling, Immediate, ClearKeys, ClearLane, ClearFragments, Track, Enqueue, Refuse, Acknowledge,
         At, Done
  <2>2. handler[h].at # "idle" => handler[h].frag \in Fragments
    BY <1>1
  <2>6. handler[h].at # "idle"
    BY <1>6 DEF Handling, Immediate, ClearKeys, ClearLane, ClearFragments, Track, Enqueue, Refuse, Acknowledge
  <2>7. queue' \in Seq(Fragments)
    BY <1>1, <1>6, <1>4a, <2>2, <2>6 DEF Handling, Immediate, ClearKeys, ClearLane, ClearFragments, Track, Enqueue, Refuse,
       Acknowledge, RemoveLane, laneVars
  <2>3. tracked' \subseteq Fragments /\ queue' \in Seq(Fragments) /\ acked' \subseteq Fragments
    BY <1>1, <1>6, <2>2, <2>6, <2>7 DEF Handling, Immediate, ClearKeys, ClearLane, ClearFragments, Track, Enqueue, Refuse,
       Acknowledge, laneVars, history
  <2>4. UNCHANGED arrived /\ parts' \subseteq Fragments /\ assembled' \in BOOLEAN
    BY <1>1, <1>6 DEF Handling, Immediate, ClearKeys, ClearLane, ClearFragments, Track, Enqueue, Refuse, Acknowledge, fragVars
  <2>5. QED
    BY <1>1, <1>3, <2>1, <2>3, <2>4 DEF TypedIngress
<1>7. ASSUME UNCHANGED <<arrived, handler, acked>>, tracked' \subseteq Fragments, queue' \in Seq(Fragments),
             parts' \subseteq Fragments, assembled' \in BOOLEAN
      PROVE  TypedIngress'
  BY <1>1, <1>3, <1>7 DEF TypedIngress
<1>8. CASE Running \/ Expire
  <2>1. UNCHANGED <<arrived, handler, acked>>
    BY <1>8 DEF Running, Expire, Start, Admit, Check, Collect, GetStream, DialFails, DialSucceeds, Attach, Publish,
       Report, FinalizeKeys, FinalizeQueue, FinalizeFragments, Conclude, Reject, ReportExpired, Finish, history
  <2>2. tracked' \subseteq Fragments
    BY <1>1, <1>8 DEF Running, Expire, Start, Admit, Check, Collect, GetStream, DialFails, DialSucceeds, Attach,
       Publish, Report, FinalizeKeys, FinalizeQueue, FinalizeFragments, Conclude, Reject, ReportExpired, Finish, laneVars
  <2>3. queue' \in Seq(Fragments)
    BY <1>1, <1>8, <1>4a DEF Running, Expire, Start, Admit, Check, Collect, GetStream, DialFails, DialSucceeds, Attach,
       Publish, Report, FinalizeKeys, FinalizeQueue, FinalizeFragments, Conclude, Reject, ReportExpired, Finish,
       laneVars, FinalizeLane
  <2>4. parts' \subseteq Fragments /\ assembled' \in BOOLEAN
    BY <1>1, <1>2, <1>8, TRUE \in BOOLEAN, FALSE \in BOOLEAN DEF Running, Expire, Start, Admit, Check, Collect, GetStream, DialFails, DialSucceeds, Attach,
       Publish, Report, FinalizeKeys, FinalizeQueue, FinalizeFragments, Conclude, Reject, ReportExpired, Finish, fragVars
  <2>5. QED
    BY <1>7, <2>1, <2>2, <2>3, <2>4
<1>9. ASSUME NEW s \in 0 .. MaxStreams, Closer(s) PROVE TypedIngress'
  BY <1>1, <1>7, <1>9, <1>4a DEF Closer, CloserKeys, CloserLane, CloseARQ, Cleanup, Remove, Note, CloserFragments,
     laneVars, fragVars, history, RemoveLane
<1>10. CASE SessionCloser
  BY <1>1, <1>7, <1>10, <1>4a DEF SessionCloser, SessionKeys, SessionFragments, SessionStreams, SessionLane,
     laneVars, fragVars, history, RemoveLane
<1>11. CASE (\E s \in Streams : CloseStream(s)) \/ Reset \/ CloseSession
  BY <1>3, <1>4, <1>11 DEF CloseStream, Reset, CloseSession, ingressVars, laneVars, fragVars, history
<1>12. QED
  BY <1>5, <1>6, <1>8, <1>9, <1>10, <1>11 DEF Next

LEMMA TaskKept ==
    ASSUME IInv, Next
    PROVE  TypedTask'
<1>1. /\ task \in TaskSet
      /\ task.at # "none" => task.frag \in Fragments
      /\ task.conn # 0 <=> task.at \in {"attach", "publish", "report"}
      /\ dialled \in 0 .. MaxDials /\ MaxDials \in Nat /\ MaxStreams \in Nat
  BY SetupAssumption DEF IInv, Typed, TypedTask, TypedStream
<1>2. scene \in Scenes /\ Fragments' = Fragments /\ Fragments \subseteq Packets /\ queue \in Seq(Fragments)
  BY FragmentsArePackets DEF IInv, Typed, TypedIngress, Next, Fragments
<1>3. CASE UNCHANGED task
  BY <1>1, <1>2, <1>3 DEF TypedTask
<1>4. CASE task' = [task EXCEPT !.live = FALSE] \/ task' = [task EXCEPT !.late = TRUE]
  BY <1>1, <1>2, <1>4 DEF TypedTask, TaskSet
<1>5. ASSUME NEW p \in Places \ {"none", "attach", "publish", "report"}, task.at # "none", task.conn = 0,
             task' = [task EXCEPT !.at = p]
      PROVE  TypedTask'
  BY <1>1, <1>2, <1>5 DEF TypedTask, TaskSet
<1>6. CASE task.at # "none" /\ task' = Released
  <2>1. task' \in TaskSet
    <3>1. "keys" \in Places /\ 0 \in 0 .. MaxDials
      BY Bounds DEF Places
    <3>2. QED
      BY <1>1, <1>6, <3>1 DEF TaskSet, Released
  <2>2. task'.at = "keys" /\ task'.conn = 0 /\ task'.frag = task.frag
    BY <1>1, <1>6 DEF TaskSet, Released
  <2>3. QED
    BY <1>1, <1>2, <1>6, <2>1, <2>2 DEF TypedTask
<1>7. ASSUME Running PROVE TypedTask'
  <2>1. CASE Start
    <3>1. Head(queue) \in Fragments
      BY <1>2, <2>1 DEF Start
    <3>2. PICK late \in BOOLEAN :
             task' = [AtRest EXCEPT !.at = "admit", !.frag = Head(queue), !.live = TRUE, !.late = late]
      BY <2>1 DEF Start
    <3>3. task' = [at |-> "admit", frag |-> Head(queue), stream |-> 0, conn |-> 0, live |-> TRUE, late |-> late]
      BY <3>2 DEF AtRest
    <3>4. QED
      BY <1>1, <1>2, <3>1, <3>3 DEF TypedTask, TaskSet, Places
  <2>2. CASE Admit \/ Check \/ Collect \/ Conclude \/ Reject \/ ReportExpired \/ FinalizeKeys \/ FinalizeQueue
             \/ FinalizeFragments
    <3>1. PICK p \in Places \ {"none", "attach", "publish", "report"} : task' = [task EXCEPT !.at = p]
      BY <2>2 DEF Admit, Check, Collect, Conclude, Reject, ReportExpired, FinalizeKeys, FinalizeQueue,
         FinalizeFragments, Goes, Places
    <3>2. task.at \notin {"none", "attach", "publish", "report"}
      BY <2>2 DEF Admit, Check, Collect, Conclude, Reject, ReportExpired, FinalizeKeys, FinalizeQueue,
         FinalizeFragments
    <3>3. QED
      BY <1>1, <1>5, <3>1, <3>2 DEF TaskSet
  <2>3. CASE GetStream
    <3>1. CASE Goes("keys")
      BY <1>1, <1>5, <2>3, <3>1 DEF GetStream, Goes, Places, TaskSet
    <3>2. CASE CanGet /\ GetOrCreate /\ task' = [task EXCEPT !.at = "dial", !.stream = Got]
      <4>1. Got \in 0 .. MaxStreams
        BY <1>1, <3>2, NextIncarnation DEF IInv, Streams
      <4>2. QED
        BY <1>1, <1>2, <2>3, <3>2, <4>1 DEF GetStream, TypedTask, TaskSet, Places
    <3>3. QED
      BY <2>3, <3>1, <3>2 DEF GetStream
  <2>4. CASE DialFails
    BY <1>1, <1>5, <2>4 DEF DialFails, Goes, Places, TaskSet
  <2>5. CASE DialSucceeds
    <3>1. CASE Goes("tail")
      BY <1>1, <1>5, <2>5, <3>1 DEF DialSucceeds, Goes, Places, TaskSet
    <3>2. CASE task' = [task EXCEPT !.at = "attach", !.conn = dialled']
      <4>1. dialled' \in 0 .. MaxDials /\ dialled' # 0 /\ task.at = "dial"
        BY <1>1, <2>5 DEF DialSucceeds
      <4>2. task' \in TaskSet
        BY <1>1, <3>2, <4>1 DEF TaskSet, Places
      <4>3. task'.at = "attach" /\ task'.conn = dialled' /\ task'.frag = task.frag
        BY <1>1, <3>2 DEF TaskSet
      <4>4. QED
        BY <1>1, <1>2, <4>1, <4>2, <4>3 DEF TypedTask
    <3>3. QED
      BY <2>5, <3>1, <3>2 DEF DialSucceeds
  <2>6. CASE Attach
    <3>1. CASE Goes(Onward)
      BY <1>1, <1>2, <2>6, <3>1 DEF Attach, Goes, Onward, TypedTask, TaskSet, Places
    <3>2. QED
      BY <1>6, <2>6, <3>1 DEF Attach
  <2>7. CASE Publish
    <3>1. CASE Goes("report")
      BY <1>1, <1>2, <2>7, <3>1 DEF Publish, Goes, TypedTask, TaskSet, Places
    <3>2. QED
      BY <1>6, <2>7, <3>1 DEF Publish
  <2>8. CASE Report
    BY <1>6, <2>8 DEF Report
  <2>9. CASE Finish
    BY <1>1, <1>2, <2>9 DEF Finish, AtRest, TypedTask, TaskSet, Places
  <2>10. QED
    BY <1>7, <2>1, <2>2, <2>3, <2>4, <2>5, <2>6, <2>7, <2>8, <2>9 DEF Running
<1>8. ASSUME NEW h \in Handlers, Handling(h) \/ \E f \in Fragments : Arrive(h, f) PROVE TypedTask'
  BY <1>3, <1>4, <1>8 DEF Handling, Arrive, Immediate, ClearKeys, ClearLane, ClearFragments, Track, Enqueue, Refuse, Acknowledge,
     RemoveLane
<1>9. ASSUME NEW s \in 0 .. MaxStreams, Closer(s) PROVE TypedTask'
  BY <1>3, <1>4, <1>9 DEF Closer, CloserKeys, CloserLane, CloseARQ, Cleanup, Remove, Note, CloserFragments, RemoveLane
<1>10. CASE SessionCloser
  BY <1>3, <1>4, <1>10 DEF SessionCloser, SessionKeys, SessionFragments, SessionStreams, SessionLane, RemoveLane
<1>11. CASE Expire
  BY <1>4, <1>11 DEF Expire
<1>12. CASE (\E s \in Streams : CloseStream(s)) \/ Reset \/ CloseSession
  BY <1>3, <1>12 DEF CloseStream, Reset, CloseSession
<1>13. QED
  BY <1>7, <1>8, <1>9, <1>10, <1>11, <1>12 DEF Next

LEMMA StreamKept ==
    ASSUME IInv, Next
    PROVE  TypedStream'
<1>1. TypedStream /\ MaxDials \in Nat /\ MaxStreams \in Nat
  BY SetupAssumption DEF IInv, Typed
<1>2. /\ task.stream \in 0 .. MaxStreams /\ task.conn \in 0 .. MaxDials
      /\ task.at \in {"dial", "attach", "publish", "report"} => task.stream \in Streams
  BY <1>1 DEF IInv, Typed, TypedTask, TaskSet, Core, Holding, Attached, Streams
<1>3. CASE UNCHANGED streamVars
  BY <1>1, <1>3 DEF TypedStream, streamVars
<1>4. ASSUME NEW c \in CloserPlaces, NEW s \in 0 .. MaxStreams, Moves(s, c),
             UNCHANGED <<current, tomb, stream, session, dialled, open, told>>
      PROVE  TypedStream'
  BY <1>1, <1>4 DEF TypedStream, Moves
<1>5. ASSUME CanGet, GetOrCreate, UNCHANGED <<closer, session, dialled, open>>,
             told' \in [Streams -> SUBSET {"connected", "failed"}]
      PROVE  TypedStream'
  <2>1. current' \in 0 .. MaxStreams /\ tomb' \in BOOLEAN /\ stream' \in [Streams -> StreamRec]
    <3>1. CASE current # 0
      BY <1>1, <1>5, <3>1, NextIncarnation DEF IInv, TypedStream
    <3>2. CASE current = 0
      <4>1. current' = Got /\ Got \in Streams /\ stream' \in [Streams -> StreamRec]
        BY <1>5, <3>2, NextIncarnation DEF IInv
      <4>2. tomb' = FALSE
        BY <1>5, <3>2 DEF GetOrCreate
      <4>3. QED
        BY <4>1, <4>2, Bounds
    <3>3. QED
      BY <3>1, <3>2
  <2>2. QED
    BY <1>1, <1>5, <2>1 DEF TypedStream
<1>6. ASSUME NEW s \in Streams, NEW v \in {"connected", "failed"}, told' = [told EXCEPT ![s] = @ \cup {v}]
      PROVE  told' \in [Streams -> SUBSET {"connected", "failed"}]
  BY <1>1, <1>6 DEF TypedStream
<1>7. ASSUME UNCHANGED <<current, tomb, closer, session, dialled>>,
             told' \in [Streams -> SUBSET {"connected", "failed"}],
             stream' \in [Streams -> StreamRec], open' \subseteq Conns
      PROVE  TypedStream'
  BY <1>1, <1>7 DEF TypedStream
<1>8. ASSUME NEW h \in Handlers, Handling(h) \/ \E f \in Fragments : Arrive(h, f) PROVE TypedStream'
  <2>1. CASE Immediate(h)
    BY <1>1, <1>6, <1>7, <2>1 DEF Immediate, connVars, TypedStream, Streams
  <2>2. CASE Acknowledge(h) /\ CanGet
    BY <1>1, <1>5, <2>2 DEF Acknowledge, connVars, TypedStream
  <2>3. CASE ClearKeys(h) \/ ClearLane(h) \/ ClearFragments(h) \/ Track(h) \/ Enqueue(h) \/ Refuse(h) \/ (\E f \in Fragments : Arrive(h, f))
             \/ (Acknowledge(h) /\ ~CanGet)
    BY <1>3, <2>3 DEF ClearKeys, ClearLane, ClearFragments, Track, Enqueue, Refuse, Arrive, Acknowledge, connVars, history, streamVars
  <2>4. QED
    BY <1>8, <2>1, <2>2, <2>3 DEF Handling
<1>9. ASSUME Running \/ Expire PROVE TypedStream'
  <2>1. CASE \/ Start \/ Admit \/ Check \/ Collect \/ Conclude \/ Reject \/ FinalizeKeys \/ FinalizeQueue
             \/ FinalizeFragments \/ Finish \/ Expire
    BY <1>3, <2>1 DEF Start, Admit, Check, Collect, Conclude, Reject, FinalizeKeys, FinalizeQueue,
       FinalizeFragments, Finish, Expire, connVars, history, streamVars
  <2>2. CASE GetStream
    <3>1. CASE UNCHANGED <<current, tomb, stream, told>>
      BY <1>3, <2>2, <3>1 DEF GetStream, connVars, streamVars
    <3>2. CASE CanGet /\ GetOrCreate
      <4>1. Got \in Streams
        BY <3>2, NextIncarnation DEF IInv
      <4>2. told' \in [Streams -> SUBSET {"connected", "failed"}]
        BY <1>1, <1>6, <2>2, <4>1 DEF GetStream, TypedStream
      <4>3. QED
        BY <1>5, <2>2, <3>2, <4>2 DEF GetStream, connVars
    <3>3. QED
      BY <2>2, <3>1, <3>2 DEF GetStream
  <2>3. CASE ReportExpired
    <3>1. CASE UNCHANGED <<current, tomb, stream, told>>
      BY <1>3, <2>3, <3>1 DEF ReportExpired, connVars, streamVars
    <3>2. CASE CanGet /\ GetOrCreate
      <4>1. Got \in Streams
        BY <3>2, NextIncarnation DEF IInv
      <4>2. told' \in [Streams -> SUBSET {"connected", "failed"}]
        BY <1>1, <1>6, <2>3, <4>1 DEF ReportExpired, TypedStream
      <4>3. QED
        BY <1>5, <2>3, <3>2, <4>2 DEF ReportExpired, connVars
    <3>3. QED
      BY <2>3, <3>1, <3>2 DEF ReportExpired
  <2>4. CASE DialFails
    <3>1. told' \in [Streams -> SUBSET {"connected", "failed"}]
      BY <1>1, <1>2, <1>6, <2>4 DEF DialFails, TypedStream
    <3>2. QED
      BY <1>1, <1>7, <2>4, <3>1 DEF DialFails, TypedStream, connVars
  <2>5. CASE DialSucceeds
    <3>1. dialled' \in 0 .. MaxDials /\ dialled' \in Conns
      BY <1>1, <2>5 DEF DialSucceeds, TypedStream, Conns
    <3>2. QED
      BY <1>1, <2>5, <3>1 DEF DialSucceeds, TypedStream, history
  <2>6. CASE Attach
    <3>1. stream' \in [Streams -> StreamRec]
      BY <1>1, <1>2, <2>6, AttachedFields DEF Attach, TypedStream
    <3>2. QED
      BY <1>1, <1>7, <2>6, <3>1 DEF Attach, TypedStream, history
  <2>7. CASE Publish
    BY <1>1, <1>7, <2>7 DEF Publish, TypedStream, history
  <2>8. CASE Report
    <3>1. told' \in [Streams -> SUBSET {"connected", "failed"}]
      BY <1>1, <1>2, <1>6, <2>8 DEF Report
    <3>2. stream' \in [Streams -> StreamRec]
      BY <1>1, <1>2, <2>8, ReportedFields DEF Report, TypedStream
    <3>3. QED
      BY <1>1, <1>7, <2>8, <3>1, <3>2 DEF Report, TypedStream, connVars
  <2>9. QED
    BY <1>9, <2>1, <2>2, <2>3, <2>4, <2>5, <2>6, <2>7, <2>8 DEF Running
<1>10. ASSUME NEW s \in 0 .. MaxStreams, Closer(s) PROVE TypedStream'
  <2>7. closer[s] \in {"arq", "cleanup"} => s \in Streams
    BY <1>1 DEF IInv, Core, InOrder, Pending, Opening, Streams
  <2>1. CASE CloserKeys(s) \/ CloserLane(s) \/ CloserFragments(s)
    BY <1>4, <2>1 DEF CloserKeys, CloserLane, CloserFragments, connVars, history, CloserPlaces
  <2>2. CASE CloseARQ(s)
    <3>1. stream' \in [Streams -> StreamRec]
      BY <1>1, <2>2, <2>7, ShutFields DEF CloseARQ, TypedStream
    <3>2. closer' \in [0 .. MaxStreams -> CloserPlaces]
      BY <1>1, <2>2 DEF CloseARQ, Moves, TypedStream, CloserPlaces
    <3>3. QED
      BY <1>1, <2>2, <3>1, <3>2 DEF CloseARQ, TypedStream, history
  <2>3. CASE Cleanup(s)
    <3>1. stream' \in [Streams -> StreamRec]
      BY <1>1, <2>3, <2>7, ClosedFields DEF Cleanup, TypedStream
    <3>2. closer' \in [0 .. MaxStreams -> CloserPlaces]
      BY <1>1, <2>3 DEF Cleanup, Moves, TypedStream, CloserPlaces
    <3>3. QED
      BY <1>1, <2>3, <3>1, <3>2 DEF Cleanup, CleanupResources, TypedStream, history
  <2>4. CASE Remove(s)
    BY <1>1, <2>4 DEF Remove, Moves, TypedStream, CloserPlaces, connVars, history
  <2>5. CASE Note(s)
    <3>1. tomb' \in BOOLEAN
      BY <2>5 DEF Note
    <3>2. closer' \in [0 .. MaxStreams -> CloserPlaces]
      BY <1>1, <2>5 DEF Note, Moves, TypedStream, CloserPlaces
    <3>3. QED
      BY <1>1, <2>5, <3>1, <3>2 DEF Note, TypedStream, connVars, history
  <2>6. QED
    BY <1>10, <2>1, <2>2, <2>3, <2>4, <2>5 DEF Closer
<1>11. CASE SessionCloser
  <2>1. CASE UNCHANGED closer
    BY <1>1, <1>11, <2>1 DEF SessionCloser, SessionKeys, SessionFragments, SessionStreams, SessionLane, TypedStream,
       connVars, history
  <2>2. CASE SessionStreams /\ Moves(current, "arq") /\ UNCHANGED <<current, session>>
    BY <1>1, <1>4, <2>2 DEF SessionStreams, CloserPlaces, connVars, history, TypedStream
  <2>3. QED
    BY <1>11, <2>1, <2>2 DEF SessionCloser, SessionKeys, SessionFragments, SessionStreams, SessionLane
<1>12. CASE \E s \in Streams : CloseStream(s)
  BY <1>1, <1>4, <1>12 DEF CloseStream, CloserPlaces, connVars, history, Streams
<1>13. CASE Reset
  BY <1>1, <1>4, <1>13 DEF Reset, CloserPlaces, connVars, history, TypedStream
<1>14. CASE CloseSession
  BY <1>1, <1>14 DEF CloseSession, TypedStream, connVars, history
<1>15. QED
  BY <1>8, <1>9, <1>10, <1>11, <1>12, <1>13, <1>14 DEF Next

----------------------------------------------------------------------------
(* How the incarnations and the connections hang together                  *)

TaskAlike ==
    /\ task'.conn = task.conn /\ task'.stream = task.stream
    /\ task'.at = task.at \/ (Attached /\ Attached')
TaskFree == task.conn = 0 /\ task'.conn = 0 /\ task'.at \notin {"dial", "attach", "publish", "report"}
TaskDials == task.conn = 0 /\ task'.conn = 0 /\ task'.at = "dial" /\ task'.stream \in Streams

(* A closer stays where it is, as far as the invariant tells places apart. *)
SameStage(c, d) ==
    /\ c = "none" <=> d = "none"
    /\ c \in Opening <=> d \in Opening
    /\ c = "cleanup" <=> d = "cleanup"
    /\ c = "remove" <=> d = "remove"

LEMMA Facts ==
    ASSUME IInv
    PROVE  /\ current \in 0 .. MaxStreams
           /\ tomb \in BOOLEAN
           /\ stream \in [Streams -> StreamRec]
           /\ \A s \in Streams : /\ stream[s].upstream \in Nat /\ stream[s].local \in Nat
                                 /\ stream[s].made \in BOOLEAN /\ stream[s].connected \in BOOLEAN
                                 /\ stream[s].closed \in BOOLEAN /\ stream[s].arqClosed \in BOOLEAN
                                 /\ closer[s] \in CloserPlaces
           /\ closer \in [0 .. MaxStreams -> CloserPlaces]
           /\ told \in [Streams -> SUBSET {"connected", "failed"}]
           /\ open \subseteq Conns /\ 0 \notin open
           /\ task.conn \in Nat /\ task.stream \in 0 .. MaxStreams
           /\ task.conn # 0 <=> task.at \in {"attach", "publish", "report"}
           /\ dialled \in Nat
           /\ session \in {"up", "keys", "frags", "streams", "lane", "closed"}
<1>1. TypedStream /\ TypedTask
  BY DEF IInv, Typed
<1>2. stream \in [Streams -> StreamRec] /\ MaxDials \in Nat /\ MaxStreams \in Nat
  BY <1>1, Bounds DEF TypedStream
<1>3. \A s \in Streams : /\ stream[s].upstream \in Nat /\ stream[s].local \in Nat
                         /\ stream[s].made \in BOOLEAN /\ stream[s].connected \in BOOLEAN
                         /\ stream[s].closed \in BOOLEAN /\ stream[s].arqClosed \in BOOLEAN
  BY <1>2 DEF StreamRec
<1>4. closer \in [0 .. MaxStreams -> CloserPlaces] /\ \A s \in Streams : closer[s] \in CloserPlaces
  BY <1>1, Bounds DEF TypedStream
<1>5. 0 \notin open
  BY <1>1, <1>2 DEF TypedStream, Conns
<1>6. task.conn \in 0 .. MaxDials /\ task.stream \in 0 .. MaxStreams
  BY <1>1 DEF TypedTask, TaskSet
<1>7. QED
  BY <1>1, <1>2, <1>3, <1>4, <1>5, <1>6 DEF TypedStream, TypedTask

(* What touches neither the streams nor the connections keeps it all.      *)
LEMMA CoreQuiet ==
    ASSUME IInv, UNCHANGED <<current, tomb, stream, session, dialled, open>>,
           \A s \in Streams : SameStage(closer'[s], closer[s]),
           closer'[0] \notin Pending \ {"none"},
           \A s \in Streams : /\ told'[s] # {} => stream[s].made
                              /\ "connected" \in told'[s] => "connected" \in told[s] \/ stream[s].connected,
           TaskAlike \/ TaskFree \/ (TaskDials /\ stream[task'.stream].made)
    PROVE  Core'
<1>1. /\ current \in 0 .. MaxStreams
      /\ \A s \in Streams : closer[s] \in CloserPlaces
      /\ task.conn # 0 <=> task.at \in {"attach", "publish", "report"}
  BY Facts
<1>2. \A s \in Streams :
         /\ closer'[s] = "none" <=> closer[s] = "none"
         /\ closer'[s] \in Opening <=> closer[s] \in Opening
         /\ closer'[s] \in Opening \cup {"cleanup"} <=> closer[s] \in Opening \cup {"cleanup"}
         /\ closer'[s] \in Pending <=> closer[s] \in Pending
  BY DEF SameStage, Pending
<1>3. MadeInOrder'
  BY DEF IInv, Core, MadeInOrder
<1>4. InOrder'
  BY <1>2 DEF IInv, Core, InOrder
<1>5. Mapped'
  BY <1>2 DEF IInv, Core, Mapped
<1>6. Linked'
  BY DEF IInv, Core, Linked
<1>7. (\A s \in Streams : Has(s)' = Has(s))
  BY DEF Has
<1>8. Apart'
  <2>1. task'.conn # 0 => task'.conn = task.conn /\ task'.stream = task.stream /\ (task'.at = "attach" => task.at = "attach")
    BY <1>1 DEF TaskAlike, TaskFree, TaskDials, Attached
  <2>2. task'.conn = task.conn
    BY DEF TaskAlike, TaskFree, TaskDials
  <2>3. QED
    BY <1>7, <2>1, <2>2 DEF IInv, Core, Apart
<1>9. Holding'
  <2>1. CASE TaskAlike
    <3>1. task.at \in {"dial", "attach"} \/ Attached => task.stream \in Streams
      BY Facts DEF IInv, Core, Holding, Streams
    <3>2. QED
      BY <1>2, <2>1, <3>1 DEF IInv, Core, Holding, TaskAlike, Attached
  <2>2. CASE TaskFree
    BY <2>2 DEF Holding, TaskFree, Attached
  <2>3. CASE TaskDials /\ stream[task'.stream].made
    BY <2>3, Bounds DEF Holding, TaskDials, Attached, Streams
  <2>4. QED
    BY <2>1, <2>2, <2>3
<1>10. ConnsOwned'
  BY DEF IInv, Core, ConnsOwned, TaskAlike, TaskFree, TaskDials
<1>11. Real'
  <2>1. \A s \in Streams : Attached /\ task.stream = s <=> Attached' /\ task'.stream = s
    BY <1>1 DEF TaskAlike, TaskFree, TaskDials, Attached
  <2>2. QED
    BY <1>2, <2>1 DEF IInv, Core, Real
<1>12. QED
  BY <1>3, <1>4, <1>5, <1>6, <1>8, <1>9, <1>10, <1>11 DEF Core

(* A new incarnation has nothing yet, and no stream before it is alive.    *)
LEMMA CoreMade ==
    ASSUME IInv, CanGet, GetOrCreate, current = 0,
           UNCHANGED <<closer, session, dialled, open>>,
           \A s \in Streams : "connected" \in told'[s] => "connected" \in told[s],
           \A s \in Streams : told'[s] # {} => told[s] # {} \/ s = Got,
           TaskAlike \/ TaskFree \/ (TaskDials /\ task'.stream = Got)
    PROVE  Core'
<1>1. /\ Got \in Streams /\ ~stream[Got].made /\ MadeInOrder' /\ current' = Got /\ ~tomb'
      /\ \A s \in Streams \ {Got} : stream'[s] = stream[s]
      /\ stream'[Got] = [stream[Got] EXCEPT !.made = TRUE]
  BY NextIncarnation DEF IInv
<1>2. /\ \A s \in Streams : closer[s] \in CloserPlaces /\ stream[s] \in StreamRec
      /\ stream \in [Streams -> StreamRec] /\ closer[Got] \in CloserPlaces
      /\ task.conn # 0 <=> task.at \in {"attach", "publish", "report"}
  BY <1>1, Facts
<1>3. \A s \in Streams :
         /\ stream'[s].upstream = stream[s].upstream /\ stream'[s].local = stream[s].local
         /\ stream'[s].connected = stream[s].connected /\ stream'[s].closed = stream[s].closed
         /\ stream'[s].arqClosed = stream[s].arqClosed
         /\ stream'[s].made <=> (stream[s].made \/ s = Got)
  BY <1>1, <1>2 DEF StreamRec
<1>4. closer[Got] = "none" /\ stream[Got].upstream = 0 /\ stream[Got].local = 0 /\ told[Got] = {}
  BY <1>1 DEF IInv, Core, InOrder
<1>5. Core /\ session = "up"
  BY DEF IInv, CanGet
<1>6. InOrder'
  BY <1>1, <1>3, <1>5 DEF Core, InOrder
<1>7. Mapped'
  BY <1>1, <1>3, <1>5 DEF Core, Mapped, Pending, Opening, Streams
<1>8. Linked'
  BY <1>3, <1>5 DEF Core, Linked
<1>9. \A s \in Streams : Has(s)' = Has(s)
  BY <1>3 DEF Has
<1>10. Apart'
  <2>1. task'.conn # 0 => task'.conn = task.conn /\ task'.stream = task.stream /\ (task'.at = "attach" => task.at = "attach")
    BY <1>2 DEF TaskAlike, TaskFree, TaskDials, Attached
  <2>2. task'.conn = task.conn
    BY DEF TaskAlike, TaskFree, TaskDials
  <2>3. QED
    BY <1>5, <1>9, <2>1, <2>2 DEF Core, Apart
<1>11. Holding'
  <2>1. CASE TaskAlike
    <3>1. task.at \in {"dial", "attach"} \/ Attached => task.stream \in Streams /\ stream[task.stream].made
      BY <1>5, Facts DEF Core, Holding, Streams
    <3>2. QED
      BY <1>3, <1>5, <2>1, <3>1, Bounds DEF Core, Holding, TaskAlike, Attached, Streams
  <2>2. CASE TaskFree
    BY <2>2 DEF Holding, TaskFree, Attached
  <2>3. CASE TaskDials /\ task'.stream = Got
    BY <1>1, <1>3, <2>3, Bounds DEF Holding, TaskDials, Attached, Streams
  <2>4. QED
    BY <2>1, <2>2, <2>3
<1>12. ConnsOwned'
  BY <1>3, <1>5 DEF Core, ConnsOwned, TaskAlike, TaskFree, TaskDials
<1>13. Real'
  <2>1. ASSUME NEW s \in Streams, stream[s].connected, closer[s] = "none" PROVE FALSE
    <3>1. stream[s].upstream # 0
      BY <1>5, <2>1 DEF Core, Linked
    <3>2. stream[s].made
      BY <1>2, <1>5, <3>1 DEF Core, InOrder, StreamRec
    <3>3. current = s
      BY <1>5, <2>1, <3>2 DEF Core, Mapped, Pending, Opening
    <3>4. QED
      BY <2>1, <3>3, Bounds DEF Streams
  <2>2. QED
    BY <1>3, <1>5, <2>1 DEF Core, Real
<1>14. QED
  BY <1>1, <1>6, <1>7, <1>8, <1>10, <1>11, <1>12, <1>13 DEF Core

(* A closer begins: the stream is on its way out.                          *)
LEMMA CoreBegun ==
    ASSUME IInv, NEW s \in Streams, NEW c \in {"resetKeys", "arq"}, closer[s] = "none", stream[s].made, Moves(s, c),
           UNCHANGED <<task, current, tomb, stream, session, dialled, open, told>>
    PROVE  Core'
<1>1. /\ closer'[s] = c /\ \A t \in 0 .. MaxStreams : t # s => closer'[t] = closer[t]
      /\ s # 0 /\ 0 \in 0 .. MaxStreams
      /\ task.stream \in 0 .. MaxStreams
  BY Facts, Bounds DEF Moves, Streams
<1>2. Core
  BY DEF IInv
<1>3. /\ \A t \in Streams : /\ closer'[t] \in Opening <=> closer[t] \in Opening
                            /\ closer'[t] \in Opening \cup {"cleanup"} <=> closer[t] \in Opening \cup {"cleanup"}
                            /\ closer'[t] \in Pending <=> closer[t] \in Pending
                            /\ closer'[t] = "none" => closer[t] = "none"
      /\ closer'[0] = closer[0]
  BY <1>1, Bounds DEF Pending, Opening
<1>4. MadeInOrder' /\ Linked' /\ ConnsOwned'
  BY <1>2 DEF Core, MadeInOrder, Linked, ConnsOwned
<1>5. InOrder'
  <2>1. \A t \in Streams : ~stream[t].made => closer'[t] = "none"
    BY <1>1, <1>2, Bounds DEF Core, InOrder
  <2>2. QED
    BY <1>2, <1>3, <2>1 DEF Core, InOrder
<1>6. Mapped'
  BY <1>2, <1>3 DEF Core, Mapped
<1>7. \A t \in Streams : Has(t)' = Has(t)
  BY DEF Has
<1>8. Apart'
  BY <1>2, <1>7 DEF Core, Apart
<1>9. Holding'
  <2>1. Attached => task.stream \in Streams
    BY <1>1, <1>2 DEF Core, Holding, Streams
  <2>2. QED
    BY <1>2, <1>3, <2>1 DEF Core, Holding, Attached
<1>10. Real'
  BY <1>2, <1>3 DEF Core, Real, Attached
<1>11. QED
  BY <1>4, <1>5, <1>6, <1>8, <1>9, <1>10 DEF Core

(* A dial gives a connection that nobody has.                              *)
LEMMA CoreDialled ==
    ASSUME IInv, DialSucceeds
    PROVE  Core'
<1>1. /\ dialled' = dialled + 1 /\ dialled \in Nat
      /\ task.at = "dial" /\ task.conn = 0 /\ task.stream \in 0 .. MaxStreams
      /\ task \in TaskSet
      /\ UNCHANGED <<current, tomb, stream, closer, session, told>>
  BY Facts DEF DialSucceeds, IInv, Typed, TypedTask, history
<1>2. Core /\ task.stream \in Streams
  BY <1>1 DEF IInv, Core, Holding, Streams
<1>3. MadeInOrder' /\ InOrder' /\ Mapped'
  BY <1>1, <1>2 DEF Core, MadeInOrder, InOrder, Mapped
<1>4. Linked'
  <2>1. \A s \in Streams : stream[s].upstream <= dialled + 1 /\ stream[s].local <= dialled + 1
    <3>1. TAKE s \in Streams
    <3>2. stream[s].upstream <= dialled /\ stream[s].local <= dialled
      BY <1>2 DEF Core, Linked
    <3>3. stream[s].upstream \in Nat /\ stream[s].local \in Nat
      BY Facts
    <3>4. QED
      BY <1>1, <3>2, <3>3
  <2>2. QED
    BY <1>1, <1>2, <2>1 DEF Core, Linked
<1>5. \A t \in Streams : Has(t)' = Has(t) /\ dialled + 1 \notin Has(t)
  BY <1>1, <1>2, Facts DEF Core, Linked, Has
<1>6. CASE Goes("tail") /\ UNCHANGED open
  <2>1. task'.at = "tail" /\ task'.conn = 0
    BY <1>1, <1>6 DEF Goes, TaskSet
  <2>2. Apart'
    BY <1>1, <1>2, <1>5, <2>1 DEF Core, Apart
  <2>3. Holding'
    BY <2>1 DEF Holding, Attached
  <2>4. ConnsOwned'
    BY <1>1, <1>2, <1>6, <2>1 DEF Core, ConnsOwned
  <2>5. Real'
    BY <1>1, <1>2, <1>6, <2>1 DEF Core, Real, Attached
  <2>6. QED
    BY <1>3, <1>4, <2>2, <2>3, <2>4, <2>5 DEF Core
<1>7. CASE task' = [task EXCEPT !.at = "attach", !.conn = dialled'] /\ open' = open \cup {dialled'}
  <2>1. task'.at = "attach" /\ task'.conn = dialled + 1 /\ task'.stream = task.stream
    BY <1>1, <1>7 DEF TaskSet
  <2>2. Apart'
    BY <1>1, <1>2, <1>5, <2>1 DEF Core, Apart
  <2>3. Holding'
    BY <1>1, <1>2, <1>7, <2>1 DEF Core, Holding, Attached
  <2>4. ConnsOwned'
    BY <1>1, <1>2, <1>7, <2>1, Facts DEF Core, ConnsOwned
  <2>5. Real'
    BY <1>1, <1>2, <1>7, <2>1 DEF Core, Real, Attached
  <2>6. QED
    BY <1>3, <1>4, <2>2, <2>3, <2>4, <2>5 DEF Core
<1>8. QED
  BY <1>6, <1>7 DEF DialSucceeds

(* The task closes a connection that it may not attach or publish: no      *)
(* stream that counts as connected has it.                                 *)
LEMMA CoreDropped ==
    ASSUME IInv, task.at \in {"attach", "publish"}, open' = open \ {task.conn}, task' = Released,
           task.at = "publish" => ~ShouldExecute,
           UNCHANGED <<current, tomb, stream, closer, session, dialled, told>>
    PROVE  Core'
<1>1. task \in TaskSet /\ task.conn # 0
  BY Facts DEF IInv, Typed, TypedTask
<1>2. task'.at = "keys" /\ task'.conn = 0
  BY <1>1 DEF Released, TaskSet
<1>3. Core /\ task.stream \in Streams
  BY Facts DEF IInv, Core, Holding, Attached, Streams
<1>4. MadeInOrder' /\ InOrder' /\ Mapped' /\ Linked'
  BY <1>3 DEF Core, MadeInOrder, InOrder, Mapped, Linked
<1>5. \A t \in Streams : Has(t)' = Has(t)
  BY DEF Has
<1>6. Apart'
  BY <1>2, <1>3, <1>5, Facts DEF Core, Apart
<1>7. Holding'
  BY <1>2 DEF Holding, Attached
<1>8. ConnsOwned'
  BY <1>2, <1>3 DEF Core, ConnsOwned
<1>9. Real'
  <2>1. ASSUME NEW s \in Streams, stream[s].connected, closer[s] = "none", session = "up", ~tomb
        PROVE  stream[s].upstream \in open \ {task.conn} /\ stream[s].local = stream[s].upstream
    <3>1. stream[s].upstream # 0
      BY <1>3, <2>1 DEF Core, Linked
    <3>2. stream[s].made
      BY <1>3, <3>1, Facts DEF Core, InOrder
    <3>3. current = s
      BY <1>3, <2>1, <3>2 DEF Core, Mapped, Pending, Opening
    <3>4. ~stream[s].arqClosed /\ ~stream[s].closed
      BY <1>3, <2>1 DEF Core, InOrder, Opening
    <3>5. task.at = "attach"
      BY <2>1, <3>3, <3>4 DEF ShouldExecute
    <3>6. task.conn \notin Has(s)
      BY <1>1, <1>3, <3>5 DEF Core, Apart
    <3>7. stream[s].upstream \in open /\ stream[s].local = stream[s].upstream
      BY <1>3, <2>1, <3>5 DEF Core, Real, Attached
    <3>8. QED
      BY <3>1, <3>6, <3>7 DEF Has
  <2>2. \A s \in Streams : "connected" \in told[s] /\ closer[s] = "none" => stream[s].connected
    BY <1>3 DEF Core, Real
  <2>3. QED
    BY <2>1, <2>2 DEF Real
<1>10. QED
  BY <1>4, <1>6, <1>7, <1>8, <1>9 DEF Core

(* The connection becomes the stream's, and nobody else's.                 *)
LEMMA CoreAttached ==
    ASSUME IInv, Attach, CanAttach(task.stream), Goes(Onward),
           NEW s \in Streams, s = task.stream,
           \A t \in Streams \ {s} : stream'[t] = stream[t],
           stream'[s].upstream = task.conn, stream'[s].connected = TRUE,
           stream'[s].made = stream[s].made, stream'[s].arqClosed = stream[s].arqClosed,
           stream'[s].closed = stream[s].closed, stream'[s].local = stream[s].local,
           UNCHANGED <<current, tomb, closer, session, dialled, open, told>>
    PROVE  Core'
<1>0. s = task.stream /\ task.at = "attach"
  BY DEF Attach
<1>1. task \in TaskSet /\ task.conn # 0 /\ task.conn \in 0 .. MaxDials
  BY <1>0, Facts DEF IInv, Typed, TypedTask, TaskSet
<1>2. task'.at \in {"publish", "report"} /\ task'.conn = task.conn /\ task'.stream = s
  BY <1>0, <1>1 DEF Goes, Onward, TaskSet
<1>3. Core /\ s \in Streams /\ stream[s].made /\ task.conn \in open /\ task.conn <= dialled
  BY <1>0, Facts DEF IInv, Core, Holding, Apart, Streams
<1>4. ~stream[s].closed /\ ~stream[s].arqClosed /\ stream[s].upstream = 0
  BY <1>0 DEF CanAttach
<1>5. /\ \A t \in Streams \ {s} : stream'[t] = stream[t]
      /\ stream'[s].upstream = task.conn /\ stream'[s].connected = TRUE
      /\ stream'[s].made = stream[s].made /\ stream'[s].arqClosed = stream[s].arqClosed
      /\ stream'[s].closed = stream[s].closed /\ stream'[s].local = stream[s].local
  OBVIOUS
<1>6. \A t \in Streams : /\ stream'[t].made = stream[t].made /\ stream'[t].arqClosed = stream[t].arqClosed
                         /\ stream'[t].closed = stream[t].closed /\ stream'[t].local = stream[t].local
  BY <1>0, <1>5
<1>7. \A t \in Streams : task.conn \notin Has(t)
  BY <1>0, <1>1, <1>3 DEF Core, Apart
<1>8. stream[s].local = 0
  BY <1>0, <1>3, <1>4 DEF Core, Linked
<1>9. Has(s)' = {task.conn} /\ \A t \in Streams \ {s} : Has(t)' = Has(t)
  BY <1>0, <1>1, <1>5, <1>8 DEF Has
<1>10. MadeInOrder'
  BY <1>0, <1>3, <1>6 DEF Core, MadeInOrder
<1>11. InOrder'
  BY <1>0, <1>3, <1>5, <1>6 DEF Core, InOrder
<1>12. Mapped'
  <2>1. current # 0 => current \in Streams
    BY Facts DEF Streams
  <2>2. QED
    BY <1>0, <1>3, <1>6, <2>1 DEF Core, Mapped
<1>13. Linked'
  BY <1>0, <1>1, <1>3, <1>4, <1>5, <1>8 DEF Core, Linked
<1>14. Apart'
  <2>1. \A t, u \in Streams : t # u => (Has(t) \cap Has(u))' = {}
    BY <1>0, <1>3, <1>7, <1>9 DEF Core, Apart
  <2>2. \A t \in Streams : task.conn \in Has(t)' => t = s
    BY <1>0, <1>7, <1>9
  <2>3. QED
    BY <1>0, <1>2, <1>3, <2>1, <2>2 DEF Apart
<1>15. Holding'
  BY <1>0, <1>2, <1>3, <1>4, <1>5, Bounds DEF Holding, Attached, Streams
<1>16. ConnsOwned'
  <2>1. \A t \in Streams : stream[t].upstream \in open => stream'[t].upstream = stream[t].upstream
    BY <1>4, <1>5, Facts
  <2>2. ASSUME NEW c \in open
        PROVE  task'.conn = c \/ \E t \in Streams : stream'[t].upstream = c /\ ~stream'[t].closed
    <3>1. CASE task.conn = c
      BY <1>2, <3>1
    <3>2. CASE \E t \in Streams : stream[t].upstream = c /\ ~stream[t].closed
      BY <1>6, <2>1, <2>2, <3>2
    <3>3. QED
      BY <1>3, <3>1, <3>2 DEF Core, ConnsOwned
  <2>3. QED
    BY <2>2 DEF ConnsOwned
<1>17. Real'
  BY <1>0, <1>2, <1>3, <1>5 DEF Core, Real, Attached
<1>18. QED
  BY <1>0, <1>10, <1>11, <1>12, <1>13, <1>14, <1>15, <1>16, <1>17 DEF Core

(* What is reported as connected is.                                       *)
LEMMA CoreReported ==
    ASSUME IInv, Report
    PROVE  Core'
<1>0. PICK s \in Streams : s = task.stream
  BY Facts DEF IInv, Core, Holding, Report, Attached, Streams
<1>1. /\ task \in TaskSet /\ task.conn # 0 /\ task.at = "report" /\ task.conn \in 0 .. MaxDials
      /\ UNCHANGED <<current, tomb, closer, session, dialled, open>>
  BY Facts DEF IInv, Typed, TypedTask, Report, TaskSet, connVars
<1>2. task'.at = "keys" /\ task'.conn = 0
  BY <1>0, <1>1 DEF Report, Released, TaskSet
<1>3. /\ Core /\ s \in Streams /\ stream[s].made /\ task.conn <= dialled
      /\ ~stream[s].closed => stream[s].upstream = task.conn
      /\ closer[s] = "none" => task.conn \in open
      /\ stream[s].closed => task.conn \notin open
  BY <1>0, <1>1, Facts DEF IInv, Core, Holding, Attached, Apart, Streams
<1>4. /\ \A t \in Streams \ {s} : stream'[t] = stream[t]
      /\ stream'[s].local = IF stream[s].local = 0 THEN task.conn ELSE stream[s].local
      /\ stream'[s].upstream = stream[s].upstream /\ stream'[s].connected = stream[s].connected
      /\ stream'[s].made = stream[s].made /\ stream'[s].arqClosed = stream[s].arqClosed
      /\ stream'[s].closed = stream[s].closed
  <2>1. stream' = [stream EXCEPT ![s].local = IF @ = 0 THEN task.conn ELSE @]
    BY <1>0 DEF Report
  <2>2. stream \in [Streams -> StreamRec]
    BY Facts
  <2>3. QED
    BY <1>1, <1>3, <2>1, <2>2, ReportedFields
<1>5. told' = [told EXCEPT ![s] = @ \cup {"connected"}]
  BY <1>0 DEF Report
<1>6. \A t \in Streams : /\ stream'[t].made = stream[t].made /\ stream'[t].arqClosed = stream[t].arqClosed
                         /\ stream'[t].closed = stream[t].closed /\ stream'[t].upstream = stream[t].upstream
                         /\ stream'[t].connected = stream[t].connected
  BY <1>0, <1>4
<1>7. Has(s)' \subseteq Has(s) \cup {task.conn} /\ \A t \in Streams \ {s} : Has(t)' = Has(t)
  BY <1>0, <1>4 DEF Has
<1>8. told' \in [Streams -> SUBSET {"connected", "failed"}] /\ \A t \in Streams \ {s} : told'[t] = told[t]
  BY <1>0, <1>3, <1>5, Facts
<1>9. MadeInOrder'
  BY <1>0, <1>3, <1>6 DEF Core, MadeInOrder
<1>10. InOrder'
  <2>1. \A t \in Streams : ~stream[t].made => told'[t] = {} /\ stream'[t].local = 0
    BY <1>0, <1>3, <1>4, <1>8 DEF Core, InOrder
  <2>2. QED
    BY <1>0, <1>1, <1>3, <1>6, <2>1 DEF Core, InOrder
<1>11. Mapped'
  <2>1. current # 0 => current \in Streams
    BY Facts DEF Streams
  <2>2. QED
    BY <1>0, <1>1, <1>3, <1>6, <2>1 DEF Core, Mapped
<1>12. Linked'
  BY <1>0, <1>1, <1>3, <1>4, <1>6 DEF Core, Linked
<1>13. Apart'
  <2>1. \A t \in Streams \ {s} : task.conn \notin Has(t)
    BY <1>0, <1>1, <1>3 DEF Core, Apart
  <2>2. \A t, u \in Streams : t # u => (Has(t) \cap Has(u))' = {}
    <3>1. TAKE t, u \in Streams
    <3>2. HAVE t # u
    <3>3. Has(t) \cap Has(u) = {}
      BY <1>0, <1>3, <3>2 DEF Core, Apart
    <3>4. CASE t = s
      BY <1>0, <1>7, <2>1, <3>2, <3>3, <3>4
    <3>5. CASE u = s
      BY <1>0, <1>7, <2>1, <3>2, <3>3, <3>5
    <3>6. CASE t # s /\ u # s
      BY <1>0, <1>7, <3>3, <3>6
    <3>7. QED
      BY <3>4, <3>5, <3>6
  <2>3. QED
    BY <1>0, <1>1, <1>2, <2>2, Facts DEF Apart
<1>14. Holding'
  BY <1>0, <1>2 DEF Holding, Attached
<1>15. ConnsOwned'
  BY <1>0, <1>1, <1>2, <1>3, <1>6 DEF Core, ConnsOwned
<1>16. Real'
  <2>1. ASSUME NEW t \in Streams PROVE "connected" \in told'[t] /\ closer[t] = "none" => stream[t].connected
    <3>1. CASE t = s
      <4>1. closer[s] = "none" => ~stream[s].closed
        BY <1>0, <1>3 DEF Core, InOrder, Opening
      <4>2. QED
        BY <1>0, <1>1, <1>3, <3>1, <4>1 DEF Core, Linked
    <3>2. CASE t # s
      BY <1>0, <1>3, <1>8, <3>2 DEF Core, Real
    <3>3. QED
      BY <3>1, <3>2
  <2>2. ASSUME NEW t \in Streams, stream[t].connected, closer[t] = "none", session = "up", ~tomb
        PROVE  stream'[t].upstream \in open /\ stream'[t].local = stream'[t].upstream
    <3>1. CASE t = s
      <4>1. ~stream[s].closed
        BY <1>0, <1>3, <2>2, <3>1 DEF Core, InOrder, Opening
      <4>2. stream[s].local # 0 => stream[s].local = stream[s].upstream
        BY <1>0, <1>3, <4>1 DEF Core, Linked
      <4>3. QED
        BY <1>0, <1>3, <1>4, <2>2, <3>1, <4>1, <4>2
    <3>2. CASE t # s
      BY <1>0, <1>3, <1>4, <2>2, <3>2 DEF Core, Real, Attached
    <3>3. QED
      BY <3>1, <3>2
  <2>3. QED
    BY <1>0, <1>1, <1>6, <2>1, <2>2 DEF Real
<1>17. QED
  BY <1>0, <1>9, <1>10, <1>11, <1>12, <1>13, <1>14, <1>15, <1>16 DEF Core

(* The ARQ closes and shuts the connection it has.                         *)
LEMMA CoreShut ==
    ASSUME IInv, NEW s \in 0 .. MaxStreams, CloseARQ(s)
    PROVE  Core'
<1>1. /\ closer[s] = "arq" /\ Moves(s, "cleanup") /\ open' = open \ {stream[s].local}
      /\ stream' = [stream EXCEPT ![s].arqClosed = TRUE]
      /\ UNCHANGED <<task, current, tomb, session, dialled, told>>
  BY DEF CloseARQ, history
<1>2. Core /\ s \in Streams /\ stream \in [Streams -> StreamRec]
  BY <1>1, Facts DEF IInv, Core, InOrder, Pending, Opening, Streams
<1>3. /\ \A t \in Streams \ {s} : stream'[t] = stream[t]
      /\ stream'[s].arqClosed = TRUE
      /\ stream'[s].upstream = stream[s].upstream /\ stream'[s].connected = stream[s].connected
      /\ stream'[s].made = stream[s].made /\ stream'[s].local = stream[s].local
      /\ stream'[s].closed = stream[s].closed
  BY <1>1, <1>2, ShutFields
<1>4. \A t \in Streams : /\ stream'[t].made = stream[t].made /\ stream'[t].local = stream[t].local
                         /\ stream'[t].closed = stream[t].closed /\ stream'[t].upstream = stream[t].upstream
                         /\ stream'[t].connected = stream[t].connected
  BY <1>3
<1>5. closer'[s] = "cleanup" /\ \A t \in 0 .. MaxStreams : t # s => closer'[t] = closer[t]
  BY <1>1, <1>2, Facts DEF Moves
<1>6. s # 0 /\ 0 \in 0 .. MaxStreams /\ Streams \subseteq 0 .. MaxStreams
  BY <1>2, Bounds DEF Streams
<1>7. MadeInOrder'
  BY <1>2, <1>4 DEF Core, MadeInOrder
<1>8. stream[s].made /\ ~stream[s].closed
  BY <1>1, <1>2, Facts DEF Core, InOrder, Opening
<1>9. InOrder'
  <2>1. closer'[0] \notin Pending \ {"none"}
    BY <1>2, <1>5, <1>6 DEF Core, InOrder
  <2>2. ASSUME NEW t \in Streams
        PROVE  /\ ~stream'[t].made => /\ closer'[t] = "none" /\ told[t] = {}
                                      /\ stream'[t].upstream = 0 /\ stream'[t].local = 0
               /\ stream'[t].arqClosed <=> closer'[t] \notin Opening
               /\ stream'[t].closed <=> closer'[t] \notin Opening \cup {"cleanup"}
    <3>1. CASE t = s
      BY <1>3, <1>5, <1>8, <3>1 DEF Opening
    <3>2. CASE t # s
      BY <1>2, <1>3, <1>5, <1>6, <3>2 DEF Core, InOrder
    <3>3. QED
      BY <3>1, <3>2
  <2>3. QED
    BY <1>1, <2>1, <2>2 DEF InOrder
<1>10. \A t \in Streams : (closer'[t] \in Pending => closer[t] \in Pending) /\ (closer'[t] = "none" => closer[t] = "none")
  BY <1>1, <1>5, <1>6 DEF Pending, Opening
<1>11. Mapped'
  <2>1. current # 0 => current \in Streams
    BY Facts DEF Streams
  <2>2. QED
    BY <1>1, <1>2, <1>4, <1>10, <2>1 DEF Core, Mapped
<1>12. Linked'
  BY <1>1, <1>2, <1>4 DEF Core, Linked
<1>13. \A t \in Streams : Has(t)' = Has(t)
  BY <1>4 DEF Has
<1>14. Apart'
  BY <1>1, <1>2, <1>13 DEF Core, Apart
<1>15. Holding'
  <2>1. task.at \in {"dial", "attach"} \/ Attached => task.stream \in Streams
    BY <1>2, Facts DEF Core, Holding, Streams
  <2>2. task.conn # 0 /\ task.conn \in Has(s) => task.stream = s /\ task.at # "attach"
    BY <1>2 DEF Core, Apart
  <2>3. task.conn # 0 <=> task.at \in {"attach", "publish", "report"}
    BY Facts
  <2>4. task.at = "attach" => task.conn \in open'
    BY <1>1, <1>2, <2>2, <2>3 DEF Core, Holding, Has
  <2>5. Attached /\ closer'[task.stream] = "none" => task.conn \in open'
    <3>1. HAVE Attached /\ closer'[task.stream] = "none"
    <3>2. task.stream # s /\ task.conn \in open /\ task.conn # 0
      BY <1>2, <1>5, <1>10, <2>1, <2>3, <3>1 DEF Core, Holding, Attached
    <3>3. QED
      BY <1>1, <2>2, <3>2 DEF Has
  <2>6. QED
    BY <1>1, <1>2, <1>4, <2>1, <2>4, <2>5 DEF Core, Holding, Attached
<1>16. ConnsOwned'
  BY <1>1, <1>2, <1>4 DEF Core, ConnsOwned
<1>17. Real'
  <2>1. ASSUME NEW t \in Streams, stream[t].connected, closer'[t] = "none", session = "up", ~tomb,
               ~(Attached /\ task.stream = t)
        PROVE  stream[t].upstream \in open' /\ stream[t].local = stream[t].upstream
    <3>1. t # s /\ closer[t] = "none"
      BY <1>5, <1>10, <2>1
    <3>2. stream[t].upstream \in open /\ stream[t].local = stream[t].upstream
      BY <1>2, <2>1, <3>1 DEF Core, Real
    <3>3. stream[t].upstream # 0
      BY <3>2, Facts
    <3>4. stream[t].upstream # stream[s].local
      <4>1. Has(t) \cap Has(s) = {}
        BY <1>2, <3>1 DEF Core, Apart
      <4>2. QED
        BY <3>3, <4>1 DEF Has
    <3>5. QED
      BY <1>1, <3>2, <3>4
  <2>2. QED
    BY <1>1, <1>2, <1>4, <1>10, <2>1 DEF Core, Real, Attached
<1>18. QED
  BY <1>7, <1>9, <1>11, <1>12, <1>14, <1>15, <1>16, <1>17 DEF Core

(* cleanupResources closes the connection and forgets it.                  *)
LEMMA CoreCleaned ==
    ASSUME IInv, NEW s \in 0 .. MaxStreams, Cleanup(s)
    PROVE  Core'
<1>1. /\ closer[s] = "cleanup" /\ Moves(s, "remove") /\ open' = open \ {stream[s].upstream}
      /\ CleanupResources(s)
      /\ UNCHANGED <<task, current, tomb, session, dialled, told>>
  BY DEF Cleanup, CleanupResources, history
<1>2. Core /\ s \in Streams /\ stream \in [Streams -> StreamRec]
  BY <1>1, Facts DEF IInv, Core, InOrder, Pending, Opening, Streams
<1>3. /\ \A t \in Streams \ {s} : stream'[t] = stream[t]
      /\ stream'[s].closed = TRUE /\ stream'[s].connected = FALSE /\ stream'[s].upstream = 0
      /\ stream'[s].made = stream[s].made /\ stream'[s].arqClosed = stream[s].arqClosed
      /\ stream'[s].local = stream[s].local
  BY <1>1, <1>2, ClosedFields
<1>4. \A t \in Streams : /\ stream'[t].made = stream[t].made /\ stream'[t].local = stream[t].local
                         /\ stream'[t].arqClosed = stream[t].arqClosed
  BY <1>3
<1>5. closer'[s] = "remove" /\ \A t \in 0 .. MaxStreams : t # s => closer'[t] = closer[t]
  BY <1>1, <1>2, Facts DEF Moves
<1>6. s # 0 /\ 0 \in 0 .. MaxStreams /\ Streams \subseteq 0 .. MaxStreams
  BY <1>2, Bounds DEF Streams
<1>7. MadeInOrder'
  BY <1>2, <1>4 DEF Core, MadeInOrder
<1>8. stream[s].made /\ ~stream[s].closed /\ stream[s].arqClosed
  BY <1>1, <1>2, Facts DEF Core, InOrder, Opening
<1>9. InOrder'
  <2>1. closer'[0] \notin Pending \ {"none"}
    BY <1>2, <1>5, <1>6 DEF Core, InOrder
  <2>2. ASSUME NEW t \in Streams
        PROVE  /\ ~stream'[t].made => /\ closer'[t] = "none" /\ told[t] = {}
                                      /\ stream'[t].upstream = 0 /\ stream'[t].local = 0
               /\ stream'[t].arqClosed <=> closer'[t] \notin Opening
               /\ stream'[t].closed <=> closer'[t] \notin Opening \cup {"cleanup"}
    <3>1. CASE t = s
      BY <1>3, <1>5, <1>8, <3>1 DEF Opening
    <3>2. CASE t # s
      BY <1>2, <1>3, <1>5, <1>6, <3>2 DEF Core, InOrder
    <3>3. QED
      BY <3>1, <3>2
  <2>3. QED
    BY <1>1, <2>1, <2>2 DEF InOrder
<1>10. \A t \in Streams : (closer'[t] \in Pending => closer[t] \in Pending) /\ (closer'[t] = "none" => closer[t] = "none")
  BY <1>1, <1>5, <1>6 DEF Pending, Opening
<1>11. Mapped'
  <2>1. current # 0 => current \in Streams
    BY Facts DEF Streams
  <2>2. QED
    BY <1>1, <1>2, <1>4, <1>10, <2>1 DEF Core, Mapped
<1>12. Linked'
  <2>1. \A t \in Streams \ {s} : stream'[t] = stream[t]
    BY <1>3
  <2>2. 0 <= dialled
    BY Facts
  <2>3. QED
    BY <1>1, <1>2, <1>3, <2>1, <2>2 DEF Core, Linked
<1>13. Has(s)' \subseteq Has(s) /\ \A t \in Streams \ {s} : Has(t)' = Has(t)
  BY <1>3 DEF Has
<1>14. Apart'
  <2>1. \A t, u \in Streams : t # u => (Has(t) \cap Has(u))' = {}
    BY <1>2, <1>13 DEF Core, Apart
  <2>2. \A t \in Streams : task.conn \in Has(t)' => task.conn \in Has(t)
    BY <1>13
  <2>3. QED
    BY <1>1, <1>2, <2>1, <2>2 DEF Core, Apart
<1>15. Holding'
  <2>1. task.at \in {"dial", "attach"} \/ Attached => task.stream \in Streams
    BY <1>2, Facts DEF Core, Holding, Streams
  <2>2. task.conn # 0 /\ task.conn \in Has(s) => task.stream = s /\ task.at # "attach"
    BY <1>2 DEF Core, Apart
  <2>3. task.conn # 0 <=> task.at \in {"attach", "publish", "report"}
    BY Facts
  <2>4. task.at = "attach" => task.conn \in open'
    BY <1>1, <1>2, <2>2, <2>3 DEF Core, Holding, Has
  <2>5. Attached /\ closer'[task.stream] = "none" => task.conn \in open'
    <3>1. HAVE Attached /\ closer'[task.stream] = "none"
    <3>2. task.stream # s /\ task.conn \in open /\ task.conn # 0
      BY <1>2, <1>5, <1>10, <2>1, <2>3, <3>1 DEF Core, Holding, Attached
    <3>3. QED
      BY <1>1, <2>2, <3>2 DEF Has
  <2>6. Attached => /\ ~stream'[task.stream].closed => stream'[task.stream].upstream = task.conn
                    /\ stream'[task.stream].closed => task.conn \notin open'
    <3>1. CASE task.stream = s
      BY <1>1, <1>2, <1>3, <1>8, <3>1 DEF Core, Holding
    <3>2. CASE task.stream # s
      BY <1>1, <1>2, <1>3, <2>1, <3>2 DEF Core, Holding
    <3>3. QED
      BY <3>1, <3>2
  <2>7. QED
    BY <1>1, <1>2, <1>4, <2>1, <2>4, <2>5, <2>6 DEF Core, Holding, Attached
<1>16. ConnsOwned'
  <2>1. ASSUME NEW c \in open'
        PROVE  task.conn = c \/ \E t \in Streams : stream'[t].upstream = c /\ ~stream'[t].closed
    <3>1. c \in open /\ c # stream[s].upstream
      BY <1>1, <2>1
    <3>2. task.conn = c \/ \E t \in Streams : stream[t].upstream = c /\ ~stream[t].closed
      BY <1>2, <3>1 DEF Core, ConnsOwned
    <3>3. QED
      BY <1>3, <3>1, <3>2
  <2>2. QED
    BY <1>1, <2>1 DEF ConnsOwned
<1>17. Real'
  <2>1. ASSUME NEW t \in Streams, stream'[t].connected, closer'[t] = "none", session = "up", ~tomb,
               ~(Attached /\ task.stream = t)
        PROVE  stream'[t].upstream \in open' /\ stream'[t].local = stream'[t].upstream
    <3>1. t # s /\ closer[t] = "none" /\ stream'[t] = stream[t]
      BY <1>3, <1>5, <1>10, <2>1
    <3>2. stream[t].upstream \in open /\ stream[t].local = stream[t].upstream
      BY <1>2, <2>1, <3>1 DEF Core, Real
    <3>3. stream[t].upstream # 0
      BY <3>2, Facts
    <3>4. stream[t].upstream # stream[s].upstream
      <4>1. Has(t) \cap Has(s) = {}
        BY <1>2, <3>1 DEF Core, Apart
      <4>2. QED
        BY <3>3, <4>1 DEF Has
    <3>5. QED
      BY <1>1, <3>1, <3>2, <3>4
  <2>2. ASSUME NEW t \in Streams, "connected" \in told[t], closer'[t] = "none" PROVE stream'[t].connected
    <3>1. t # s /\ closer[t] = "none" /\ stream'[t] = stream[t]
      BY <1>3, <1>5, <1>10, <2>2
    <3>2. QED
      BY <1>2, <2>2, <3>1 DEF Core, Real
  <2>3. QED
    BY <1>1, <2>1, <2>2 DEF Real, Attached
<1>18. QED
  BY <1>7, <1>9, <1>11, <1>12, <1>14, <1>15, <1>16, <1>17 DEF Core

(* removeStream takes the stream out of the map, whichever it is: only the *)
(* one that is being removed can be there.                                 *)
LEMMA CoreRemoved ==
    ASSUME IInv, NEW s \in 0 .. MaxStreams, Remove(s)
    PROVE  Core'
<1>1. /\ closer[s] = "remove" /\ Moves(s, "note") /\ current' = IF session = "up" THEN 0 ELSE current
      /\ UNCHANGED <<task, tomb, stream, session, dialled, open, told>>
  BY DEF Remove, connVars, history
<1>2. Core /\ s \in Streams
  BY <1>1, Facts DEF IInv, Core, InOrder, Pending, Opening, Streams
<1>3. closer'[s] = "note" /\ \A t \in 0 .. MaxStreams : t # s => closer'[t] = closer[t]
  BY <1>1, <1>2, Facts DEF Moves
<1>4. s # 0 /\ 0 \in 0 .. MaxStreams /\ Streams \subseteq 0 .. MaxStreams
  BY <1>2, Bounds DEF Streams
<1>5. \A t \in Streams :
         /\ closer'[t] \in Opening <=> closer[t] \in Opening
         /\ closer'[t] \in Opening \cup {"cleanup"} <=> closer[t] \in Opening \cup {"cleanup"}
         /\ closer'[t] \in Pending => closer[t] \in Pending /\ t # s
         /\ closer'[t] = "none" <=> closer[t] = "none"
  BY <1>1, <1>3, <1>4 DEF Pending, Opening
<1>6. MadeInOrder' /\ Linked' /\ ConnsOwned'
  BY <1>1, <1>2 DEF Core, MadeInOrder, Linked, ConnsOwned
<1>7. InOrder'
  <2>1. closer'[0] \notin Pending \ {"none"}
    BY <1>2, <1>3, <1>4 DEF Core, InOrder
  <2>2. QED
    BY <1>1, <1>2, <1>5, <2>1 DEF Core, InOrder
<1>8. Mapped'
  <2>1. stream[s].made
    BY <1>1, <1>2, Facts DEF Core, InOrder
  <2>2. session = "up" => current = s
    BY <1>1, <1>2, <2>1 DEF Core, Mapped, Pending
  <2>3. QED
    BY <1>1, <1>2, <1>5, <2>2 DEF Core, Mapped
<1>9. \A t \in Streams : Has(t)' = Has(t)
  BY <1>1 DEF Has
<1>10. Apart'
  BY <1>1, <1>2, <1>9 DEF Core, Apart
<1>11. Holding'
  <2>1. task.at \in {"dial", "attach"} \/ Attached => task.stream \in Streams
    BY <1>2, Facts DEF Core, Holding, Streams
  <2>2. QED
    BY <1>1, <1>2, <1>5, <2>1 DEF Core, Holding, Attached
<1>12. Real'
  BY <1>1, <1>2, <1>5 DEF Core, Real, Attached
<1>13. QED
  BY <1>6, <1>7, <1>8, <1>10, <1>11, <1>12 DEF Core

LEMMA CoreNoted ==
    ASSUME IInv, NEW s \in 0 .. MaxStreams, Note(s)
    PROVE  Core'
<1>1. /\ closer[s] = "note" /\ Moves(s, "keys") /\ (~tomb' => ~tomb)
      /\ UNCHANGED <<task, current, stream, session, dialled, open, told>>
  BY Facts DEF Note, connVars, history
<1>2. Core
  BY DEF IInv
<1>3. closer'[s] = "keys" /\ \A t \in 0 .. MaxStreams : t # s => closer'[t] = closer[t]
  BY <1>1, Facts DEF Moves
<1>4. \A t \in Streams :
         /\ closer'[t] \in Opening <=> closer[t] \in Opening
         /\ closer'[t] \in Opening \cup {"cleanup"} <=> closer[t] \in Opening \cup {"cleanup"}
         /\ closer'[t] \in Pending <=> closer[t] \in Pending
         /\ closer'[t] = "none" <=> closer[t] = "none"
  BY <1>1, <1>3, Bounds DEF Pending, Opening
<1>5. MadeInOrder' /\ Linked' /\ ConnsOwned'
  BY <1>1, <1>2 DEF Core, MadeInOrder, Linked, ConnsOwned
<1>6. InOrder'
  <2>1. closer'[0] \notin Pending \ {"none"}
    BY <1>2, <1>3, Bounds DEF Core, InOrder, Pending, Opening
  <2>2. QED
    BY <1>1, <1>2, <1>4, <2>1 DEF Core, InOrder
<1>7. Mapped'
  BY <1>1, <1>2, <1>4 DEF Core, Mapped
<1>8. \A t \in Streams : Has(t)' = Has(t)
  BY <1>1 DEF Has
<1>9. Apart'
  BY <1>1, <1>2, <1>8 DEF Core, Apart
<1>10. Holding'
  <2>1. task.at \in {"dial", "attach"} \/ Attached => task.stream \in Streams
    BY <1>2, Facts DEF Core, Holding, Streams
  <2>2. QED
    BY <1>1, <1>2, <1>4, <2>1 DEF Core, Holding, Attached
<1>11. Real'
  BY <1>1, <1>2, <1>4 DEF Core, Real, Attached
<1>12. QED
  BY <1>5, <1>6, <1>7, <1>9, <1>10, <1>11 DEF Core

(* The session closes and closes its streams.                              *)
LEMMA CoreSession ==
    ASSUME IInv, Mapped',
           UNCHANGED <<tomb, stream, closer, dialled, open, told>>, TaskAlike,
           session' = "up" => session = "up"
    PROVE  Core'
<1>1. Core
  BY DEF IInv
<1>2. MadeInOrder' /\ InOrder' /\ Linked'
  BY <1>1 DEF Core, MadeInOrder, InOrder, Linked
<1>3. \A t \in Streams : Has(t)' = Has(t)
  BY DEF Has
<1>4. Apart'
  <2>1. task'.conn # 0 => (task'.at = "attach" => task.at = "attach")
    BY DEF TaskAlike, Attached
  <2>2. QED
    BY <1>1, <1>3, <2>1 DEF Core, Apart, TaskAlike
<1>5. Holding'
  BY <1>1 DEF Core, Holding, TaskAlike, Attached
<1>6. ConnsOwned'
  BY <1>1 DEF Core, ConnsOwned, TaskAlike
<1>7. Real'
  <2>1. \A t \in Streams : (Attached /\ task.stream = t) => (Attached /\ task.stream = t)'
    BY DEF TaskAlike, Attached
  <2>2. QED
    BY <1>1, <2>1 DEF Core, Real, TaskAlike, Attached
<1>8. QED
  BY <1>2, <1>4, <1>5, <1>6, <1>7 DEF Core

----------------------------------------------------------------------------
(* Every step keeps it                                                     *)

LEMMA SameStages ==
    ASSUME IInv, NEW s \in 0 .. MaxStreams, NEW c \in CloserPlaces, Moves(s, c), SameStage(c, closer[s])
    PROVE  /\ \A t \in Streams : SameStage(closer'[t], closer[t])
           /\ closer'[0] \notin Pending \ {"none"}
<1>1. \A t \in 0 .. MaxStreams : closer'[t] = IF t = s THEN c ELSE closer[t]
  BY Facts DEF Moves
<1>2. closer[0] \notin Pending \ {"none"}
  BY DEF IInv, Core, InOrder
<1>3. QED
  BY <1>1, <1>2, Bounds DEF SameStage, Pending

(* What the client was told before holds for a verdict of failure, too.    *)
LEMMA ToldAgain ==
    ASSUME IInv, NEW s \in Streams, NEW v \in {"connected", "failed"},
           told' = [told EXCEPT ![s] = @ \cup {v}],
           stream[s].made, v = "connected" => stream[s].connected
    PROVE  \A t \in Streams : /\ told'[t] # {} => stream[t].made
                              /\ "connected" \in told'[t] => "connected" \in told[t] \/ stream[t].connected
<1>1. \A t \in Streams : told'[t] = IF t = s THEN told[s] \cup {v} ELSE told[t]
  BY Facts
<1>2. \A t \in Streams : told[t] # {} => stream[t].made
  BY Facts DEF IInv, Core, InOrder
<1>3. QED
  BY <1>1, <1>2

LEMMA ToldBefore ==
    ASSUME IInv, UNCHANGED <<told, closer>>
    PROVE  /\ \A t \in Streams : /\ told'[t] # {} => stream[t].made
                                 /\ "connected" \in told'[t] => "connected" \in told[t] \/ stream[t].connected
           /\ \A t \in Streams : SameStage(closer'[t], closer[t])
           /\ closer'[0] \notin Pending \ {"none"}
BY Facts DEF IInv, Core, InOrder, SameStage

LEMMA CoreKept ==
    ASSUME IInv, Next
    PROVE  Core'
<1>1. /\ task \in TaskSet /\ current \in 0 .. MaxStreams /\ closer \in [0 .. MaxStreams -> CloserPlaces]
      /\ task.conn # 0 <=> task.at \in {"attach", "publish", "report"}
      /\ task.at \in {"dial", "attach", "publish", "report"} =>
            task.stream \in Streams /\ stream[task.stream].made
      /\ current # 0 => current \in Streams /\ stream[current].made
  BY Facts DEF IInv, Typed, TypedTask, Core, Holding, Attached, Mapped, Streams
<1>2. \A t \in Streams : told[t] # {} => stream[t].made
  BY Facts DEF IInv, Core, InOrder
<1>3. ASSUME UNCHANGED <<current, tomb, stream, closer, session, dialled, open, told>>, TaskAlike \/ TaskFree
      PROVE  Core'
  BY <1>3, CoreQuiet, ToldBefore
<1>4. ASSUME task' = [task EXCEPT !.live = FALSE] \/ task' = [task EXCEPT !.late = TRUE] \/ UNCHANGED task
      PROVE  TaskAlike
  BY <1>1, <1>4 DEF TaskAlike, TaskSet
<1>5. ASSUME NEW p \in Places \ {"dial", "attach", "publish", "report"}, Goes(p), task.conn = 0
      PROVE  TaskFree
  BY <1>1, <1>5 DEF TaskFree, TaskSet, Goes
<1>6. ASSUME NEW h \in Handlers, Handling(h) \/ \E f \in Fragments : Arrive(h, f) PROVE Core'
  <2>1. CASE Immediate(h)
    <3>1. UNCHANGED <<task, current, tomb, stream, closer, session, dialled, open>>
      BY <2>1 DEF Immediate, connVars
    <3>2. \A t \in Streams : /\ told'[t] # {} => stream[t].made
                             /\ "connected" \in told'[t] => "connected" \in told[t] \/ stream[t].connected
      BY <1>1, <2>1, ToldAgain DEF Immediate
    <3>3. QED
      BY <1>4, <3>1, <3>2, CoreQuiet DEF IInv, Core, InOrder, SameStage
  <2>2. CASE Acknowledge(h)
    <3>1. UNCHANGED <<task, closer, session, dialled, open, told>>
      BY <2>2 DEF Acknowledge, connVars
    <3>2. CASE CanGet /\ GetOrCreate /\ current = 0
      BY <1>4, <3>1, <3>2, CoreMade
    <3>3. CASE UNCHANGED <<current, tomb, stream>>
      BY <1>3, <1>4, <3>1, <3>3
    <3>4. QED
      BY <2>2, <3>2, <3>3 DEF Acknowledge, GetOrCreate
  <2>3. CASE ClearKeys(h) \/ ClearLane(h) \/ ClearFragments(h) \/ Track(h) \/ Enqueue(h) \/ Refuse(h) \/ (\E f \in Fragments : Arrive(h, f))
    BY <1>3, <1>4, <2>3 DEF ClearKeys, ClearLane, ClearFragments, Track, Enqueue, Refuse, Arrive, RemoveLane, connVars, history
  <2>4. QED
    BY <1>6, <2>1, <2>2, <2>3 DEF Handling
<1>7. ASSUME Running PROVE Core'
  <2>1. CASE Start
    <3>1. TaskFree
      BY <1>1, <2>1 DEF Start, TaskFree, AtRest
    <3>2. QED
      BY <1>3, <2>1, <3>1 DEF Start, connVars, history
  <2>2. CASE Admit \/ Check \/ Collect \/ Conclude \/ Reject \/ FinalizeKeys \/ FinalizeQueue \/ FinalizeFragments
    <3>1. PICK p \in Places \ {"dial", "attach", "publish", "report"} : Goes(p)
      BY <2>2 DEF Admit, Check, Collect, Conclude, Reject, FinalizeKeys, FinalizeQueue, FinalizeFragments, Places
    <3>2. task.conn = 0
      BY <1>1, <2>2 DEF Admit, Check, Collect, Conclude, Reject, FinalizeKeys, FinalizeQueue, FinalizeFragments
    <3>3. UNCHANGED <<current, tomb, stream, closer, session, dialled, open, told>>
      BY <2>2 DEF Admit, Check, Collect, Conclude, Reject, FinalizeKeys, FinalizeQueue, FinalizeFragments,
         connVars, history
    <3>4. QED
      BY <1>3, <1>5, <3>1, <3>2, <3>3
  <2>3. CASE Finish
    <3>1. TaskFree
      BY <1>1, <2>3 DEF Finish, TaskFree, AtRest
    <3>2. QED
      BY <1>3, <2>3, <3>1 DEF Finish, connVars, history
  <2>4. CASE GetStream
    <3>1. task.conn = 0 /\ UNCHANGED <<closer, session, dialled, open>>
      BY <1>1, <2>4 DEF GetStream, connVars
    <3>2. CASE Goes("keys") /\ UNCHANGED <<current, tomb, stream, told>>
      BY <1>3, <1>5, <3>1, <3>2 DEF Places
    <3>3. CASE CanGet /\ GetOrCreate /\ current # 0 /\ AlreadyConnected(Got)
      <4>1. Got = current /\ UNCHANGED <<current, tomb, stream>>
        BY <3>3, NextIncarnation DEF IInv
      <4>2. Goes("keys") /\ told' = [told EXCEPT ![current] = @ \cup {"connected"}]
        BY <2>4, <3>3, <4>1 DEF GetStream
      <4>3. TaskFree
        BY <1>5, <3>1, <4>2 DEF Places
      <4>4. \A t \in Streams : /\ told'[t] # {} => stream[t].made
                               /\ "connected" \in told'[t] => "connected" \in told[t] \/ stream[t].connected
        BY <1>1, <3>3, <4>1, <4>2, ToldAgain DEF AlreadyConnected
      <4>5. QED
        BY <3>1, <4>1, <4>3, <4>4, CoreQuiet DEF IInv, Core, InOrder, SameStage
    <3>4. CASE CanGet /\ GetOrCreate /\ task' = [task EXCEPT !.at = "dial", !.stream = Got] /\ UNCHANGED told
      <4>1. Got \in Streams
        BY <3>4, NextIncarnation DEF IInv
      <4>2. TaskDials /\ task'.stream = Got
        BY <1>1, <3>1, <3>4, <4>1 DEF TaskDials, TaskSet
      <4>3. CASE current = 0
        BY <3>1, <3>4, <4>2, <4>3, CoreMade
      <4>4. CASE current # 0
        <5>1. Got = current /\ UNCHANGED <<current, tomb, stream>>
          BY <3>4, <4>4, NextIncarnation DEF IInv
        <5>2. TaskDials /\ stream[task'.stream].made
          BY <1>1, <4>2, <4>4, <5>1
        <5>3. QED
          BY <3>1, <3>4, <5>1, <5>2, CoreQuiet, ToldBefore
      <4>5. QED
        BY <4>3, <4>4
    <3>5. QED
      BY <2>4, <3>2, <3>3, <3>4 DEF GetStream
  <2>5. CASE ReportExpired
    <3>1. task.conn = 0 /\ UNCHANGED <<closer, session, dialled, open>> /\ Goes("rejected")
      BY <1>1, <2>5 DEF ReportExpired, connVars
    <3>2. TaskFree
      BY <1>5, <3>1 DEF Places
    <3>3. CASE UNCHANGED <<current, tomb, stream, told>>
      BY <1>3, <3>1, <3>2, <3>3
    <3>4. CASE CanGet /\ GetOrCreate /\ told' = [told EXCEPT ![Got] = @ \cup {"failed"}]
      <4>1. Got \in Streams
        BY <3>4, NextIncarnation DEF IInv
      <4>2. CASE current = 0
        <5>1. \A t \in Streams : told'[t] = IF t = Got THEN told[Got] \cup {"failed"} ELSE told[t]
          BY <3>4, <4>1, Facts
        <5>2. QED
          BY <3>1, <3>2, <3>4, <4>2, <5>1, CoreMade
      <4>3. CASE current # 0
        <5>1. Got = current /\ UNCHANGED <<current, tomb, stream>>
          BY <3>4, <4>3, NextIncarnation DEF IInv
        <5>2. \A t \in Streams : /\ told'[t] # {} => stream[t].made
                                 /\ "connected" \in told'[t] => "connected" \in told[t] \/ stream[t].connected
          BY <1>1, <3>4, <4>3, <5>1, ToldAgain
        <5>3. QED
          BY <3>1, <3>2, <5>1, <5>2, CoreQuiet DEF IInv, Core, InOrder, SameStage
      <4>4. QED
        BY <4>2, <4>3
    <3>5. QED
      BY <2>5, <3>3, <3>4 DEF ReportExpired
  <2>6. CASE DialFails
    <3>1. task.conn = 0 /\ UNCHANGED <<current, tomb, stream, closer, session, dialled, open>>
      BY <1>1, <2>6 DEF DialFails, connVars
    <3>2. TaskFree
      BY <1>5, <2>6, <3>1 DEF DialFails, Places
    <3>3. CASE UNCHANGED told
      BY <1>3, <3>1, <3>2, <3>3
    <3>4. CASE told' = [told EXCEPT ![task.stream] = @ \cup {"failed"}]
      <4>1. \A t \in Streams : /\ told'[t] # {} => stream[t].made
                               /\ "connected" \in told'[t] => "connected" \in told[t] \/ stream[t].connected
        BY <1>1, <2>6, <3>4, ToldAgain DEF DialFails
      <4>2. QED
        BY <3>1, <3>2, <4>1, CoreQuiet DEF IInv, Core, InOrder, SameStage
    <3>5. QED
      BY <2>6, <3>3, <3>4 DEF DialFails
  <2>7. CASE DialSucceeds
    BY <2>7, CoreDialled
  <2>8. CASE Attach
    <3>1. UNCHANGED <<current, tomb, closer, session, dialled, told>> /\ task.at = "attach"
      BY <2>8 DEF Attach, history
    <3>2. CASE CanAttach(task.stream) /\ UNCHANGED open /\ Goes(Onward)
               /\ stream' = [stream EXCEPT ![task.stream].upstream = task.conn, ![task.stream].connected = TRUE]
      <4>1. PICK s \in Streams : s = task.stream
        BY <1>1, <3>1
      <4>2. stream' = [stream EXCEPT ![s].upstream = task.conn, ![s].connected = TRUE]
        BY <3>2, <4>1
      <4>3. task.conn \in 0 .. MaxDials /\ stream \in [Streams -> StreamRec]
        BY <1>1, Facts DEF TaskSet
      <4>4. /\ \A t \in Streams \ {s} : stream'[t] = stream[t]
            /\ stream'[s].upstream = task.conn /\ stream'[s].connected = TRUE
            /\ stream'[s].made = stream[s].made /\ stream'[s].arqClosed = stream[s].arqClosed
            /\ stream'[s].closed = stream[s].closed /\ stream'[s].local = stream[s].local
        BY <4>2, <4>3, AttachedFields
      <4>5. QED
        BY <2>8, <3>1, <3>2, <4>1, <4>4, CoreAttached
    <3>3. CASE open' = open \ {task.conn} /\ task' = Released /\ UNCHANGED stream
      BY <3>1, <3>3, CoreDropped
    <3>4. QED
      BY <2>8, <3>2, <3>3 DEF Attach
  <2>9. CASE Publish
    <3>1. UNCHANGED <<current, tomb, stream, closer, session, dialled, told>> /\ task.at = "publish"
      BY <2>9 DEF Publish, history
    <3>2. CASE ShouldExecute
      <4>1. Goes("report") /\ UNCHANGED open
        BY <2>9, <3>2 DEF Publish
      <4>2. TaskAlike
        BY <1>1, <3>1, <4>1 DEF Goes, TaskAlike, Attached, TaskSet
      <4>3. QED
        BY <1>3, <3>1, <4>1, <4>2
    <3>3. CASE ~ShouldExecute
      BY <2>9, <3>1, <3>3, CoreDropped DEF Publish
    <3>4. QED
      BY <3>2, <3>3
  <2>10. CASE Report
    BY <2>10, CoreReported
  <2>11. QED
    BY <1>7, <2>1, <2>2, <2>3, <2>4, <2>5, <2>6, <2>7, <2>8, <2>9, <2>10 DEF Running
<1>8. CASE Expire
  BY <1>3, <1>4, <1>8 DEF Expire, connVars, history
<1>9. ASSUME NEW s \in Streams, CloseStream(s) PROVE Core'
  <2>1. UNCHANGED <<task, current, tomb, stream, session, dialled, open, told>>
    BY <1>9 DEF CloseStream, connVars, history
  <2>2. QED
    BY <1>9, <2>1, CoreBegun DEF CloseStream
<1>10. CASE Reset
  <2>1. UNCHANGED <<task, current, tomb, stream, session, dialled, open, told>>
    BY <1>10 DEF Reset, connVars, history
  <2>2. CASE current = 0
    <3>1. closer' = [closer EXCEPT ![0] = "note"]
      BY <1>10, <2>2 DEF Reset, Moves
    <3>2. (\A t \in Streams : closer'[t] = closer[t]) /\ closer'[0] = "note"
      BY <1>1, <3>1, Bounds DEF Streams
    <3>3. /\ \A t \in Streams : SameStage(closer'[t], closer[t])
          /\ closer'[0] \notin Pending \ {"none"}
      BY <3>2 DEF SameStage, Pending, Opening
    <3>4. QED
      BY <1>2, <1>4, <2>1, <3>3, CoreQuiet
  <2>3. CASE current # 0
    BY <1>1, <1>10, <2>1, <2>3, CoreBegun DEF Reset
  <2>4. QED
    BY <2>2, <2>3
<1>11. ASSUME NEW s \in 0 .. MaxStreams, Closer(s) PROVE Core'
  <2>1. CASE CloserKeys(s) \/ CloserLane(s) \/ CloserFragments(s)
    <3>1. UNCHANGED <<current, tomb, stream, session, dialled, open, told>> /\ TaskAlike
      BY <1>4, <2>1 DEF CloserKeys, CloserLane, CloserFragments, RemoveLane, connVars, history
    <3>2. \E c \in CloserPlaces : Moves(s, c) /\ SameStage(c, closer[s])
      <4>1. CASE CloserFragments(s)
        <5>1. Moves(s, "done") /\ SameStage("done", closer[s]) /\ "done" \in CloserPlaces
          BY <4>1 DEF CloserFragments, SameStage, Opening, CloserPlaces
        <5>2. QED
          BY <5>1
      <4>2. CASE CloserKeys(s)
        <5>1. PICK c \in {"lane", "resetLane"} : c = IF closer[s] = "keys" THEN "lane" ELSE "resetLane"
          OBVIOUS
        <5>2. Moves(s, c) /\ SameStage(c, closer[s])
          BY <4>2, <5>1 DEF CloserKeys, SameStage, Opening
        <5>3. QED
          BY <5>2 DEF CloserPlaces
      <4>3. CASE CloserLane(s)
        <5>1. PICK c \in {"frags", "arq"} : c = IF closer[s] = "lane" THEN "frags" ELSE "arq"
          OBVIOUS
        <5>2. Moves(s, c) /\ SameStage(c, closer[s])
          BY <4>3, <5>1 DEF CloserLane, SameStage, Opening
        <5>3. QED
          BY <5>2 DEF CloserPlaces
      <4>4. QED
        BY <2>1, <4>1, <4>2, <4>3
    <3>3. QED
      BY <1>2, <3>1, <3>2, SameStages, CoreQuiet
  <2>2. QED
    BY <1>11, <2>1, CoreShut, CoreCleaned, CoreRemoved, CoreNoted DEF Closer
<1>12. CASE CloseSession \/ SessionKeys \/ SessionFragments \/ SessionLane
  <2>1. UNCHANGED <<current, tomb, stream, closer, dialled, open, told>> /\ TaskAlike
    BY <1>4, <1>12 DEF CloseSession, SessionKeys, SessionFragments, SessionLane, RemoveLane, connVars, history
  <2>2. session' # "up"
    BY <1>12 DEF CloseSession, SessionKeys, SessionFragments, SessionLane
  <2>3. Mapped
    BY DEF IInv, Core
  <2>4. Mapped'
    BY <1>12, <2>1, <2>3 DEF CloseSession, SessionKeys, SessionFragments, SessionLane, Mapped, Pending, Opening
  <2>5. QED
    BY <2>1, <2>2, <2>4, CoreSession
<1>13. CASE SessionStreams
  <2>1. UNCHANGED <<task, tomb, stream, dialled, open, told>> /\ session = "streams"
    BY <1>13 DEF SessionStreams, connVars, history
  <2>2. CASE current # 0 /\ closer[current] # "done"
    BY <1>1, <1>13, <2>1, <2>2, CoreBegun DEF SessionStreams
  <2>3. CASE ~(current # 0 /\ closer[current] # "done")
    <3>1. current' = 0 /\ session' = "lane" /\ UNCHANGED closer
      BY <1>13, <2>3 DEF SessionStreams
    <3>2. \A s \in Streams : stream[s].made => closer[s] # "none"
      <4>1. ASSUME NEW s \in Streams, stream[s].made, closer[s] = "none" PROVE FALSE
        <5>1. current = s
          BY <2>1, <4>1 DEF IInv, Core, Mapped
        <5>2. QED
          BY <2>3, <4>1, <5>1 DEF Streams
      <4>2. QED
        BY <4>1
    <3>3. Mapped'
      BY <2>1, <3>1, <3>2 DEF Mapped
    <3>4. QED
      BY <1>4, <2>1, <3>1, <3>3, CoreSession
  <2>4. QED
    BY <2>2, <2>3
<1>14. QED
  BY <1>6, <1>7, <1>8, <1>9, <1>10, <1>11, <1>12, <1>13 DEF Next, SessionCloser

----------------------------------------------------------------------------
(* Theorems                                                                *)

LEMMA InitiallySound == Init => IInv
<1>1. SUFFICES ASSUME Init PROVE IInv
  OBVIOUS
<1>2. scene \in Scenes /\ arrived = 0 /\ scene.arrivals \in Nat
  BY <1>1, SetupAssumption DEF Init
<1>3. TypedIngress
  <2>1. << >> \in Seq(Fragments)
    OBVIOUS
  <2>2. handler = [h \in Handlers |-> [at |-> "idle", frag |-> 0]]
    BY <1>1 DEF Init, Idle
  <2>3. handler \in [Handlers -> HandlerSet] /\ \A h \in Handlers : handler[h].at = "idle"
    BY <2>2 DEF HandlerSet
  <2>4. arrived \in 0 .. scene.arrivals
    BY <1>2
  <2>5. QED
    BY <1>1, <1>2, <2>1, <2>3, <2>4 DEF Init, TypedIngress
<1>4. TypedTask
  BY <1>1, Bounds DEF Init, TypedTask, TaskSet, AtRest, Places
<1>5. TypedStream
  BY <1>1, Bounds DEF Init, TypedStream, StreamRec, CloserPlaces
<1>6. \A s \in Streams : /\ ~stream[s].made /\ ~stream[s].arqClosed /\ ~stream[s].closed /\ ~stream[s].connected
                         /\ stream[s].upstream = 0 /\ stream[s].local = 0
                         /\ closer[s] = "none" /\ told[s] = {}
  BY <1>1, Bounds DEF Init
<1>7. closer[0] = "none" /\ current = 0 /\ session = "up" /\ dialled = 0 /\ open = {} /\ task = AtRest
  BY <1>1, Bounds DEF Init
<1>8. MadeInOrder
  <2>1. \A s \in Streams : stream[s].made <=> s <= 0
    BY <1>6 DEF Streams
  <2>2. QED
    BY <2>1, Bounds DEF MadeInOrder
<1>9. InOrder /\ Mapped /\ Linked /\ Apart
  BY <1>6, <1>7 DEF InOrder, Mapped, Linked, Apart, Has, Opening, AtRest, Pending
<1>10. Holding /\ ConnsOwned /\ Real
  BY <1>6, <1>7 DEF Holding, ConnsOwned, Real, Attached, AtRest
<1>11. QED
  BY <1>3, <1>4, <1>5, <1>8, <1>9, <1>10 DEF IInv, Typed, Core

(* The inductive invariant holds in every state.                           *)
THEOREM Invariance == Spec => []IInv
<1>1. ASSUME IInv, [Next]_vars PROVE IInv'
  <2>1. CASE Next
    BY <1>1, <2>1, IngressKept, TaskKept, StreamKept, CoreKept DEF IInv, Typed
  <2>2. CASE UNCHANGED vars
    <3>1. Typed'
      BY <1>1, <2>2 DEF IInv, Typed, TypedIngress, TypedTask, TypedStream, vars, Fragments
    <3>2. Core'
      BY <1>1, <2>2, CoreQuiet, ToldBefore DEF vars, TaskAlike
    <3>3. QED
      BY <3>1, <3>2 DEF IInv
  <2>3. QED
    BY <1>1, <2>1, <2>2
<1>2. QED
  BY <1>1, InitiallySound, PTL DEF Spec

(* Every variable stays in its type.                                       *)
THEOREM TypeCorrect == Spec => []TypeOK
BY Invariance, TypesImplied, PTL DEF IInv

(* SetupSound: no upstream connection is without an owner, whatever closes *)
(* during the dial, and a client that was told its stream is connected has *)
(* an open connection that the ARQ uses.                                   *)
THEOREM SetupIsSound == Spec => []SetupSound
<1>1. ASSUME IInv PROVE SetupSound
  <2>1. TypeOK
    BY <1>1, TypesImplied DEF IInv
  <2>2. ConnsOwned
    BY <1>1 DEF IInv, Core
  <2>3. ConnectedIsReal
    BY <1>1 DEF IInv, Core, Real, Attached, ConnectedIsReal
  <2>4. QED
    BY <2>1, <2>2, <2>3 DEF SetupSound
<1>2. QED
  BY <1>1, Invariance, PTL

(* SessionLeavesNothing: when the goroutines of a closed session are done, *)
(* every incarnation was closed and no connection is open.                 *)
THEOREM NothingLeft == Spec => []SessionLeavesNothing
<1>1. ASSUME IInv, Settled PROVE current = 0 /\ open = {}
  <2>1. current = 0
    BY <1>1 DEF IInv, Core, Mapped, Settled
  <2>2. ASSUME NEW c \in open PROVE FALSE
    <3>1. task.conn = 0 /\ c # 0
      BY <1>1, <2>2, Facts DEF Settled
    <3>2. PICK s \in Streams : stream[s].upstream = c /\ ~stream[s].closed
      BY <1>1, <2>2, <3>1 DEF IInv, Core, ConnsOwned
    <3>3. stream[s].made
      BY <1>1, <3>1, <3>2, Facts DEF IInv, Core, InOrder
    <3>4. closer[s] # "none"
      BY <1>1, <3>3 DEF IInv, Core, Mapped, Settled
    <3>5. closer[s] = "done"
      BY <1>1, <3>4, Bounds DEF Settled
    <3>6. QED
      BY <1>1, <3>2, <3>5 DEF IInv, Core, InOrder, Opening
  <2>3. QED
    BY <2>1, <2>2
<1>2. QED
  BY <1>1, Invariance, PTL DEF SessionLeavesNothing

=============================================================================
