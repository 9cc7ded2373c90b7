-------------------------- MODULE MCTopologyLinks --------------------------
(* Two snapshots of one slave with two neighbours.                          *)
EXTENDS TopologyLinks

Slot(p, g) == [peer |-> p, group |-> g]

(* Two snapshots; one peer of the first holds slots of two groups.          *)
MCSlots == {Slot("p", 1), Slot("p", 2), Slot("q", 1)}
MCSlotsOf == [old |-> {Slot("p", 1), Slot("p", 2)}, new |-> {Slot("p", 2), Slot("q", 1)}]
MCSeedOf == [old |-> <<1, 2>>, new |-> <<3, 3>>]
=============================================================================
