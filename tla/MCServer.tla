------------------------------- MODULE MCServer -------------------------------
(* Two requests and a scheduler configured with four entries for three        *)
(* currencies, up to the exit.                                                 *)
EXTENDS Server

MCConfigured == <<"USD", "EUR", "USD", "CNY">>
==============================================================================
