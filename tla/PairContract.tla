---------------------------- MODULE PairContract ----------------------------
(***************************************************************************)
(* What pairing promises about flash, whatever happens on the radio: a key  *)
(* is committed by the slave first and by the master second, keys of a pair *)
(* are committed in the order in which they were drawn, no key is committed *)
(* twice by a slave, and nothing but forgetting happens otherwise.          *)
(***************************************************************************)
EXTENDS Naturals

CONSTANTS Masters, Slaves, None,
          Keys,          \* the keys of all pairs
          KeyOf(_, _),   \* KeyOf(m, s): the keys master m and slave s can derive
          Age(_)         \* Age(k): when the key's nonce was drawn

VARIABLES mrec,       \* mrec[m][s]: the key in m's record for s
          srec,       \* srec[s][m]: the key in s's record for m
          committed   \* the keys slaves have committed so far

cvars == <<mrec, srec, committed>>

Init == /\ mrec = [m \in Masters |-> [s \in Slaves |-> None]]
        /\ srec = [s \in Slaves |-> [m \in Masters |-> None]]
        /\ committed = {}

(* A slave commits a key newer than every key the pair has used.            *)
SlaveCommit(s, m) ==
  \E k \in KeyOf(m, s) :
    /\ \A j \in committed \cap KeyOf(m, s) : Age(j) < Age(k)
    /\ srec' = [srec EXCEPT ![s][m] = k]
    /\ committed' = committed \cup {k}
    /\ UNCHANGED mrec

(* A master commits a key its slave has committed, never an older one than  *)
(* it holds.                                                                *)
MasterCommit(m, s) ==
  \E k \in committed \cap KeyOf(m, s) :
    /\ mrec[m][s] # None => Age(mrec[m][s]) < Age(k)
    /\ mrec' = [mrec EXCEPT ![m][s] = k]
    /\ UNCHANGED <<srec, committed>>

(* A device forgets some of its peers: unpairing, removal, failed restore.  *)
MasterForgets(m) ==
  \E F \in SUBSET Slaves :
    /\ mrec' = [mrec EXCEPT ![m] = [s \in Slaves |-> IF s \in F THEN None ELSE @[s]]]
    /\ UNCHANGED <<srec, committed>>

SlaveForgets(s) ==
  \E F \in SUBSET Masters :
    /\ srec' = [srec EXCEPT ![s] = [m \in Masters |-> IF m \in F THEN None ELSE @[m]]]
    /\ UNCHANGED <<mrec, committed>>

Next == \/ \E m \in Masters, s \in Slaves : SlaveCommit(s, m) \/ MasterCommit(m, s)
        \/ \E m \in Masters : MasterForgets(m)
        \/ \E s \in Slaves : SlaveForgets(s)

Spec == Init /\ [][Next]_cvars

-----------------------------------------------------------------------------
(* What follows from the contract: when both sides hold a record of their   *)
(* link, the slave's key is at least as new as the master's, so a master    *)
(* that failed to learn of the last pairing only has to pair again.         *)
MasterNeverAhead ==
  \A m \in Masters, s \in Slaves :
    mrec[m][s] # None /\ srec[s][m] # None => Age(mrec[m][s]) <= Age(srec[s][m])

=============================================================================
