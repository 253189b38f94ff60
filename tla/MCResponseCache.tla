--------------------------- MODULE MCResponseCache ---------------------------
(***************************************************************************)
(* A small instance of ResponseCache for TLC: two keys, two updates of     *)
(* each, and two tasks, so that a store falls between the scan and the     *)
(* delete of an update.  The proof covers any number of each.              *)
(***************************************************************************)
EXTENDS ResponseCache, TLC

CONSTANTS a1, a2, k1, k2

Symmetry == Permutations({a1, a2}) \cup Permutations({k1, k2})
=============================================================================
