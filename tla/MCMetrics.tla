------------------------------- MODULE MCMetrics -------------------------------
(* Durations on the bound of a bucket and beyond them all.                     *)
EXTENDS Metrics, TLC

Symmetry == Permutations(Scrapes) \cup Permutations(Labels)
==============================================================================
