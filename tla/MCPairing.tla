----------------------------- MODULE MCPairing -----------------------------
(* Small instances of Pairing for TLC.                                      *)
EXTENDS Pairing, TLC

(* Slaves are interchangeable: no action and no invariant names one.        *)
SlaveSymmetry == Permutations(Slaves)
=============================================================================
