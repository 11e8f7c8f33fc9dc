-------------------------- MODULE MCConnectionPool --------------------------
(***************************************************************************)
(* ConnectionPool instantiated for TLC.                                    *)
(***************************************************************************)
EXTENDS ConnectionPool, TLC

CONSTANTS t1, t2, c1

\* Reconnection tasks are interchangeable.
Symmetry == Permutations({t1, t2})
=============================================================================
