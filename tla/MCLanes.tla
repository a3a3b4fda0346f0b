------------------------------ MODULE MCLanes ------------------------------
(* The deferred lanes under several sessions' tasks, and one stream's setup *)
(* through its lane, side by side: they share no state, and a behaviour is  *)
(* one of the part it drew.                                                 *)
EXTENDS DeferredLanes, TLC

CONSTANTS t1, t2, t3, laneA, laneB, s1, f1, f2, h1, h2

(* Two workers and one session with two lanes: two submissions of one lane *)
(* and one of the other.                                                   *)
MCLaneOf    == (t1 :> laneA) @@ (t2 :> laneA) @@ (t3 :> laneB)
MCSessionOf == (laneA :> s1) @@ (laneB :> s1)

VARIABLES
    part,
    scene, arrived, handler, tracked, queue, task, parts, assembled, current, tomb, stream, closer, session,
    dialled, open, acked, told

setupVars == <<scene, arrived, handler, tracked, queue, task, parts, assembled, current, tomb, stream, closer,
               session, dialled, open, acked, told>>

(* A SYN of two packets, each of them repeated. *)
TwoParts == {[fragments |-> {f1, f2}, ingress |-> 2, arrivals |-> 4, overload |-> FALSE,
               association |-> FALSE, closings |-> {}]}

Setup == INSTANCE StreamSetup WITH
    Packets <- {f1, f2}, Handlers <- {h1, h2}, MaxStreams <- 1, MaxDials <- 2, Scenes <- TwoParts

PartsInit == part \in {"lanes", "setup"} /\ Init /\ Setup!Init

PartsNext ==
    /\ \/ part = "lanes" /\ Next
       \/ part = "setup" /\ Setup!Next
    /\ part # "lanes" => UNCHANGED vars
    /\ part # "setup" => UNCHANGED setupVars
    /\ UNCHANGED part

PartsFairness == (part = "lanes" => Fairness) /\ (part = "setup" => Setup!Fairness)

PartsSpec == PartsInit /\ [][PartsNext]_<<part, vars, setupVars>> /\ PartsFairness

StrandedOnlyByOverload == Setup!StrandedOnlyByOverload
=============================================================================
