------------------------------ MODULE MtuSearch ------------------------------
(***************************************************************************)
(* How the operating size of one resolver is found (client/mtu.go): the    *)
(* upload search and then the download search, by each query type in turn, *)
(* each a binary search whose candidates are judged by several probes, any *)
(* of which may be lost. The scan may be cancelled at any point.           *)
(*                                                                         *)
(* A path carries the probes of a leg up to some size of each type; what   *)
(* limits it (the resolver, the record's capacity, the name's length) is   *)
(* the environment's choice.                                               *)
(***************************************************************************)
EXTENDS Integers, FiniteSets

CONSTANTS
    Floor,          \* max(defaultMTUMinFloor, MinUploadMTU), and the download's
    Highest,        \* the largest size of each leg
    Types,          \* how many query types are tried
    Capacity,       \* the largest download frame that each type holds
    Samples, Allowed, Retries,   \* MTU_PROBE_SAMPLES, how many of them may fail, mtuTestRetries
    MaxLosses       \* bound: probes of a size that fits and are lost

VARIABLES
    fits,       \* the largest size that the leg carries by each type
    leg, type,  \* the search under way
    stage,      \* the end of the range that is judged: "high", "low", the middle, or none yet
    left, right, best,
    passed, failed,     \* the candidate's probes
    tried,      \* the candidates of this search
    proven,     \* the sizes whose probes came back in this search
    losses, cancelled,
    result      \* 0 while there is none

mtuVars == <<fits, leg, type, stage, left, right, best, passed, failed, tried, proven, losses, cancelled, result>>

Legs  == {"up", "down"}
Sizes == Floor..Highest
Carried == [1..Types -> {0} \cup Sizes]

Init ==
    /\ fits \in Carried
    /\ leg = "up" /\ type = 1 /\ stage = "high"
    /\ left = Floor + 1 /\ right = Highest - 1 /\ best = 0 /\ passed = 0 /\ failed = 0
    /\ tried = {} /\ proven = {} /\ losses = 0 /\ cancelled = FALSE /\ result = [up |-> 0, down |-> 0]

----------------------------------------------------------------------------
(* evaluateMTUCandidate: the candidate's probes one after the other until  *)
(* the verdict is certain. Without samples one that passes is enough.      *)

Candidate == CASE stage = "high" -> Highest [] stage = "low" -> Floor [] OTHER -> (left + right) \div 2

Needed    == IF Samples > 1 THEN Samples - Allowed ELSE 1
Tolerated == IF Samples > 1 THEN Allowed ELSE Retries - 1

Accepted == passed >= Needed
Rejected == failed > Tolerated

(* A probe of a size that does not fit never comes back; one that fits may *)
(* be lost. An answer counts only when it is the probe's own, by its code, *)
(* and of the size that was asked for.                                     *)
Sampled(fit) ==
    /\ stage \in {"high", "low", "mid"} /\ ~Accepted /\ ~Rejected /\ ~cancelled
    /\ \/ /\ Candidate <= fit
          /\ passed' = passed + 1 /\ proven' = proven \cup {Candidate} /\ UNCHANGED <<failed, losses>>
       \/ /\ Candidate > fit /\ failed' = failed + 1 /\ UNCHANGED <<passed, proven, losses>>
       \/ /\ Candidate <= fit /\ losses < MaxLosses
          /\ failed' = failed + 1 /\ losses' = losses + 1 /\ UNCHANGED <<passed, proven>>
    /\ UNCHANGED <<fits, leg, type, stage, left, right, best, tried, cancelled, result>>

(* sendUploadMTUProbe *)
Upload == leg = "up" /\ Sampled(fits[type])

(* sendDownloadMTUProbe: a frame that the record type cannot hold is not   *)
(* asked for.                                                              *)
Holds(t) == IF fits[t] < Capacity[t] THEN fits[t] ELSE Capacity[t]
Download == leg = "down" /\ Sampled(Holds(type))

Cancel ==
    /\ ~cancelled /\ stage # "over" /\ cancelled' = TRUE
    /\ UNCHANGED <<fits, leg, type, stage, left, right, best, passed, failed, tried, proven, losses, result>>

----------------------------------------------------------------------------
(* binarySearchMTU *)

Judged(next) ==
    /\ stage' = next /\ passed' = 0 /\ failed' = 0 /\ tried' = tried \cup {Candidate}
    /\ UNCHANGED <<fits, leg, type, proven, losses, cancelled, result>>

Above ==
    /\ stage \in {"high", "low", "mid"} /\ Accepted /\ best' = Candidate
    /\ CASE stage = "high" -> Judged("found") /\ UNCHANGED <<left, right>>
         [] stage = "low"  -> Judged("next") /\ UNCHANGED <<left, right>>
         [] OTHER -> Judged("next") /\ left' = Candidate + 1 /\ UNCHANGED right

(* A cancelled candidate counts as one that failed. *)
Below ==
    /\ stage \in {"high", "low", "mid"} /\ ~Accepted /\ (Rejected \/ cancelled)
    /\ UNCHANGED best
    /\ CASE stage = "high" -> Judged(IF Floor = Highest THEN "found" ELSE "low") /\ UNCHANGED <<left, right>>
         [] stage = "low"  -> Judged("found") /\ UNCHANGED <<left, right>>
         [] OTHER -> Judged("next") /\ right' = Candidate - 1 /\ UNCHANGED left

(* The context is looked at between candidates only while any are left. *)
Narrow ==
    /\ stage = "next"
    /\ IF left <= right /\ ~cancelled THEN stage' = "mid" /\ UNCHANGED best
       ELSE stage' = "found" /\ best' = IF left <= right THEN 0 ELSE best
    /\ UNCHANGED <<fits, leg, type, left, right, passed, failed, tried, proven, losses, cancelled, result>>

(* A search of another leg or type begins. *)
Search(l, t) ==
    /\ leg' = l /\ type' = t /\ stage' = "high"
    /\ left' = Floor + 1 /\ right' = Highest - 1 /\ best' = 0 /\ tried' = {} /\ proven' = {}

Over == stage' = "over" /\ UNCHANGED <<leg, type, left, right, best, tried, proven>>

(* testUploadMTU and testDownloadMTU, and probeConnectionMTU that calls    *)
(* them: the first type that serves is taken; the resolver is rejected     *)
(* when none does.                                                         *)
Conclude ==
    /\ stage = "found"
    /\ IF best >= Floor
       THEN /\ result' = [result EXCEPT ![leg] = best]
            /\ IF leg = "up" THEN Search("down", 1) /\ fits' \in Carried ELSE Over /\ UNCHANGED fits
       ELSE /\ UNCHANGED <<fits, result>>
            /\ IF type < Types /\ ~cancelled THEN Search(leg, type + 1) ELSE Over
    /\ UNCHANGED <<passed, failed, losses, cancelled>>

Next == Upload \/ Download \/ Cancel \/ Above \/ Below \/ Narrow \/ Conclude

Spec == Init /\ [][Next]_mtuVars

----------------------------------------------------------------------------
TypeOK ==
    /\ leg \in Legs /\ type \in 1..Types /\ stage \in {"high", "low", "next", "mid", "found", "over"}
    /\ left \in Floor..Highest + 1 /\ right \in Floor - 1..Highest /\ best \in {0} \cup Sizes
    /\ passed \in 0..Needed /\ failed \in 0..Tolerated + 1

(* What is accepted has been seen to pass (binarySearchMTU): its probes    *)
(* came back at that very size, whatever was lost or cancelled.            *)
Proven == stage = "found" => best \in {0} \cup proven

(* Unless it is cancelled a search finds the largest size that fits        *)
(* (binarySearchMTU over evaluateMTUCandidate), losses within the budget   *)
(* notwithstanding, and the resolver is rejected only when no type serves. *)
Fit(t) == IF leg = "up" THEN fits[t] ELSE Holds(t)
NothingMissed ==
    ~cancelled /\ losses <= Tolerated =>
        /\ stage = "found" => best = Fit(type)
        /\ stage = "over" /\ result[leg] = 0 => \A t \in 1..Types : Fit(t) = 0

(* No search judges a size twice: it ends. *)
OnceEach == stage \in {"high", "low", "mid"} => Candidate \notin tried

MtuSound == TypeOK /\ Proven /\ NothingMissed /\ OnceEach
=============================================================================
