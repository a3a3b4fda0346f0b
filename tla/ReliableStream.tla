--------------------------- MODULE ReliableStream ---------------------------
(***************************************************************************)
(* What one direction of a tunnelled stream promises its two applications: *)
(* the chunks the sending side read from its local connection reach the    *)
(* local connection of the receiving side in that order, each once.        *)
(* Chunks are numbered from 0 as they are read, so a sequence of chunks is *)
(* the sequence of its numbers.                                            *)
(***************************************************************************)
EXTENDS Integers, Sequences

VARIABLES taken,     \* how many chunks were read from the sender's connection
          given      \* the chunks written to the receiver's connection

vars == <<taken, given>>

Init == taken = 0 /\ given = << >>

Take == taken' = taken + 1 /\ UNCHANGED given

(* Consecutive chunks may be merged into one write. *)
Give == \E n \in 1 .. taken - Len(given) :
          /\ given' = given \o [k \in 1 .. n |-> Len(given) + k - 1]
          /\ UNCHANGED taken

Next == Take \/ Give

Spec == Init /\ [][Next]_vars
=============================================================================
