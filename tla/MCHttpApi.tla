------------------------------ MODULE MCHttpApi ------------------------------
(* Two requests with every route, method and kind of parameter. *)
EXTENDS HttpApi, TLC

Symmetry == Permutations(Requests)
==============================================================================
