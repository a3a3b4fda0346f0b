----------------------------- MODULE MCRuntime -----------------------------
(* The parts of the client's runtime that share no state, checked side by   *)
(* side: a behaviour is one of the part it drew.                            *)
EXTENDS ClientSession, ResolverPool

CONSTANTS p1, p2

TwoProcessors  == {p1, p2}
TwoMtus        == {1, 2}
ThreeResolvers == <<2, 2, 1>>

VARIABLE part

PartsInit ==
    /\ part \in {"session", "pool"}
    /\ Init /\ PoolInit
    /\ part # "pool" => starter = Min(Starters)

PartsNext ==
    /\ \/ part = "session" /\ Next
       \/ part = "pool" /\ PoolNext
    /\ part # "session" => UNCHANGED vars
    /\ part # "pool" => UNCHANGED poolVars
    /\ UNCHANGED part

PartsFairness == part = "session" => Fairness

PartsSpec == PartsInit /\ [][PartsNext]_<<part, vars, poolVars>> /\ PartsFairness
=============================================================================
