----------------------------- MODULE MCAggregator -----------------------------
(* Small sets of requests, bank clients and currencies for Aggregator. *)
EXTENDS Aggregator, TLC

\* Requests of one kind are interchangeable.
Symmetry == Permutations(Fetchers) \cup Permutations(Refreshers)
==============================================================================
