------------------------------- MODULE MCCache -------------------------------
(* Slaves whose pages fit into a frame, and slaves whose pages are cut.     *)
EXTENDS SettingsCache

MCWide   == [n \in Servants |-> PageSize]
MCNarrow == [n \in Servants |-> 1]
=============================================================================
