--------------------------- MODULE MCSendEnvelope ---------------------------
(***************************************************************************)
(* SendEnvelope instantiated for TLC: a statement and two nodes.           *)
(***************************************************************************)
EXTENDS SendEnvelope

CONSTANTS n1, n2
=============================================================================
