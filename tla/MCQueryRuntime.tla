----------------------------- MODULE MCQueryRuntime -----------------------------
(***************************************************************************)
(* QueryRuntime for TLC: turns are interchangeable in the safety runs.     *)
(***************************************************************************)
EXTENDS QueryRuntime, TLC

Symmetry == Permutations(Requests)

=============================================================================
