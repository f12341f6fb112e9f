------------------------------- MODULE MCPerf -------------------------------
(* Small instances of PerfCounters.                                        *)
EXTENDS PerfCounters, TLC

Symmetric == Permutations(Cpus) \cup Permutations(Users)
=============================================================================
