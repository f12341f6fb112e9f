----------------------------- MODULE MCPerftop -----------------------------
(* Small instances of Perftop.                                             *)
EXTENDS Perftop, TLC

Symmetric == Permutations(Cpus) \cup Permutations(Users)
=============================================================================
