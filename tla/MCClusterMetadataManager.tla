----------------------- MODULE MCClusterMetadataManager -----------------------
(***************************************************************************)
(* ClusterMetadataManager instantiated for TLC: h1 is a contact point, h2  *)
(* a member, h3 can join.                                                  *)
(***************************************************************************)
EXTENDS ClusterMetadataManager

CONSTANTS h1, h2, h3, a1, a2, a3

MCDc == [h \in Hosts |-> IF h = h3 THEN "dc2" ELSE "dc1"]
MCRack == [h \in Hosts |-> h]
MCTokens == [h \in Hosts |-> CASE h = h1 -> {1, 4} [] h = h2 -> {2} [] h = h3 -> {3}]
MCHomeAddress == [h \in Hosts |-> CASE h = h1 -> a1 [] h = h2 -> a2 [] h = h3 -> a3]
=============================================================================
