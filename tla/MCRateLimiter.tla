---------------------------- MODULE MCRateLimiter ----------------------------
(* Two requests at a time, from two client addresses. *)
EXTENDS RateLimiter, TLC

Symmetry == Permutations(Handlers) \cup Permutations(Keys)
==============================================================================
