------------------------- MODULE MCTopologyStaging -------------------------
(* Two documents that share a part, so that a part of one in the other's    *)
(* place is seen.                                                           *)
EXTENDS TopologyStaging

MCPartsOf == [d \in Docs |-> IF d = "north" THEN <<1, 2>> ELSE <<2>>]
=============================================================================
