------------------------------ MODULE MCTTLCache ------------------------------
(* A small TTLCache: two readers race with the writers of two keys. *)
EXTENDS TTLCache
==============================================================================
