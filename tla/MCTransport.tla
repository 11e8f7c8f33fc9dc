---------------------------- MODULE MCTransport ----------------------------
(***************************************************************************)
(* Transport instantiated for TLC: the STARTUP call and three others, on   *)
(* two stream ids, so that the counter wraps and the third of them gets    *)
(* the id of the first, answered or not.                                   *)
(***************************************************************************)
EXTENDS Transport

CONSTANTS s, a, b, c
=============================================================================
