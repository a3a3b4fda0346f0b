--------------------------- MODULE MCStreamSetup ---------------------------
(* Instances of StreamSetup for TLC: a SYN of one packet and its repeat    *)
(* while things close, a SYN of two packets, one for a UDP association.    *)
EXTENDS StreamSetup, TLC

CONSTANTS f1, f2, h1, h2

IngressSymmetry == Permutations({h1, h2})

Scene(fragments, ingress, arrivals, overload, closings) ==
    [fragments |-> fragments, ingress |-> ingress, arrivals |-> arrivals,
     overload |-> overload, association |-> FALSE, closings |-> closings]
Association(s) == [s EXCEPT !.association = TRUE]

AllClosings ==
    {Scene({f1}, 2, 2, FALSE, {"stream"}), Scene({f1}, 2, 2, FALSE, {"session"}),
     Scene({f1}, 1, 2, FALSE, {"stream", "session"}),
     Scene({f1}, 1, 2, TRUE, {"rst"}),
     Scene({f1, f2}, 1, 2, FALSE, {"stream"}), Scene({f1, f2}, 1, 3, FALSE, {}),
     Association(Scene({f1}, 1, 1, FALSE, {"stream", "session"}))}
FullQueue  == {Scene({f1}, 2, 2, TRUE, {})}
=============================================================================
