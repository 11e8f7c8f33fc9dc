------------------------------ MODULE MCKeyspace ------------------------------
(***************************************************************************)
(* Keyspace instantiated for TLC.  The two keyspaces are interchangeable,  *)
(* so that a session built with one of them stands for both.               *)
(***************************************************************************)
EXTENDS Keyspace

CONSTANTS p1, p2, k1, k2, s1

MCInit == Init /\ current # k2

MCFairSpec == MCInit /\ [][Next]_vars /\ Fairness
=============================================================================
