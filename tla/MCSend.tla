-------------------------------- MODULE MCSend --------------------------------
(* Small instances of Send for TLC. *)
EXTENDS Send, TLC

CONSTANTS s, t, ann, bob
=============================================================================
