------------------------------ MODULE Selection ------------------------------
(***************************************************************************)
(* The part of a sequence that is at some of its indices, in its order:    *)
(* what a loop that appends some of the elements it sees builds.           *)
(***************************************************************************)
EXTENDS Naturals, FiniteSets

Nth(indices, n) == CHOOSE i \in indices : Cardinality({j \in indices : j < i}) = n - 1

Selected(seq, indices) == [n \in 1 .. Cardinality(indices) |-> seq[Nth(indices, n)]]
==============================================================================
