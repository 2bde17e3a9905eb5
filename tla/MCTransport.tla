----------------------------- MODULE MCTransport -----------------------------
(* Small instances of Transport for TLC. *)
EXTENDS Transport

CONSTANTS c1, c2, c3

MCScenarios == [kind : Kind, long : {{c1}}, file : {{c2, c3}}]
=============================================================================
