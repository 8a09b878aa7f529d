----------------------------- MODULE MCRateStore -----------------------------
(* Concurrent saves and a reader of their rows. *)
EXTENDS RateStore, TLC

Symmetry == Permutations(Savers) \cup Permutations(Currencies)
==============================================================================
