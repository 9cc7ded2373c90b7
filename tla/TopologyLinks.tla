--------------------------- MODULE TopologyLinks ---------------------------
(***************************************************************************)
(* The topology documents of a slave and the radio keys made from them:     *)
(* EspNowManager stages and commits a snapshot, derives one key for every   *)
(* peer the committed snapshot names, keeps the derived keys in a blob of   *)
(* their own and attaches the peers again after a restart or a new pairing. *)
(*                                                                         *)
(* A peer may hold slots of several groups; the group with the lowest id    *)
(* gives its key.  A commit is a list of steps, between which the device    *)
(* may restart and each of which may fail.                                  *)
(***************************************************************************)
EXTENDS Naturals, Sequences, FiniteSets

CONSTANTS Topologies,   \* snapshots: the names of their versions
          SlotsOf, SeedOf,  \* the slots of a snapshot, and its seed of every group
          Lords,        \* masters the slave may be paired with
          Slots,        \* the pairs (peer, group) that exist
          MaxMoves      \* bound: commands, pairings, faults and restarts

None == "none"
ASSUME LinkSizes == /\ MaxMoves \in Nat /\ None \notin Lords \cup Topologies
                    /\ SlotsOf \in [Topologies -> SUBSET Slots]
                    /\ \A s \in Slots : s.group \in Nat
                    /\ DOMAIN SeedOf = Topologies

Neighbours == {s.peer : s \in Slots}

VARIABLES
  staged, committed,   \* topology_staged_, topology_committed_
  nvs,        \* durable: the staged and the committed blob, the key blob, the pairing
  lord,       \* the paired master of the engine
  keys,       \* keys attached in the peer window
  work,       \* the steps a running commit has left
  moves,
  broken,     \* history: an attach failed since the keys were last made
  repaired    \* history: a pairing was completed since then

linkVars == <<staged, committed, nvs, lord, keys, work, moves, broken, repaired>>

-----------------------------------------------------------------------------
PeersOf(t) == {s.peer : s \in SlotsOf[t]}
GroupsOf(t, p) == {s.group : s \in {x \in SlotsOf[t] : x.peer = p}}
Lowest(gs) == CHOOSE g \in gs : \A h \in gs : g <= h

(* deriveTopologySlotLmk_: the seed of the group, the master and the two    *)
(* ends of the link.                                                        *)
Derive(t, m, p, g) == [seed |-> SeedOf[t][g], master |-> m, peer |-> p, group |-> g]

(* materializeTopologyPeers_ and saveTopologyLmkMeta_.                      *)
KeyOf(t, m, p) == Derive(t, m, p, Lowest(GroupsOf(t, p)))
Made(t, m) == [p \in PeersOf(t) |-> KeyOf(t, m, p)]

NoKey == [seed |-> None]
Attached(ks, made) == [p \in Neighbours |-> IF p \in DOMAIN made THEN made[p] ELSE ks[p]]

(* Keys of peers the new snapshot does not name are evicted.                *)
Applied(old, made) ==
  [p \in Neighbours |->
     CASE p \in DOMAIN made -> made[p]
       [] p \notin DOMAIN made /\ old # None /\ p \in PeersOf(old) -> NoKey
       [] OTHER -> keys[p]]

NoBlob == [topo |-> None]
KeyBlob(t, m) == IF SlotsOf[t] = {} THEN NoBlob ELSE [topo |-> t, master |-> m, keys |-> Made(t, m)]

(* Fault: the version and the checksum are not compared.                    *)
FitsAny(blob, t, m) == blob # NoBlob /\ blob.master = m /\ PeersOf(t) \subseteq DOMAIN blob.keys

(* validateTopologyLmkMeta_.                                                *)
Fits(blob, t, m) == blob # NoBlob /\ blob.topo = t /\ blob.master = m

-----------------------------------------------------------------------------
LinkInit ==
  /\ staged = None /\ committed = None
  /\ nvs = [staged |-> None, committed |-> None, keys |-> NoBlob, pair |-> None]
  /\ lord = None /\ keys = [p \in Neighbours |-> NoKey]
  /\ work = << >> /\ moves = 0 /\ broken = FALSE /\ repaired = FALSE

Quiet == work = << >>
LinkMoves == moves < MaxMoves /\ moves' = moves + 1

(* stageTopology: the key blob is purged first, whether or not the staged   *)
(* snapshot can then be saved.                                              *)
Stage(t, ok) ==
  /\ Quiet /\ LinkMoves
  /\ nvs' = [nvs EXCEPT !.keys = NoBlob, !.staged = IF ok THEN t ELSE @]
  /\ staged' = IF ok THEN t ELSE staged
  /\ UNCHANGED <<committed, lord, keys, work, broken, repaired>>

ClearStaged ==
  /\ Quiet /\ LinkMoves
  /\ staged' = None /\ nvs' = [nvs EXCEPT !.staged = None]
  /\ UNCHANGED <<committed, lord, keys, work, broken, repaired>>

(* commitStagedTopology.                                                    *)
CommitSteps == << "attach", "saveKeys", "saveCommitted", "eraseStaged" >>

(* Keys can only be derived for a paired slave.                             *)
Commit ==
  /\ Quiet /\ LinkMoves
  /\ staged # None /\ (SlotsOf[staged] # {} => lord # None)
  /\ work' = CommitSteps
  /\ UNCHANGED <<staged, committed, nvs, lord, keys, broken, repaired>>

Doing(step) == ~Quiet /\ Head(work) = step
MadeKeys(t) == IF lord = None THEN << >> ELSE Made(t, lord)

CommitAttach ==
  /\ Doing("attach") /\ work' = Tail(work)
  /\ keys' = Applied(committed, MadeKeys(staged)) /\ broken' = FALSE /\ repaired' = FALSE
  /\ UNCHANGED <<staged, committed, nvs, lord, moves>>

(* An attach failed: the peers before it have their new keys, and stay so.  *)
AttachFails(reached) ==
  /\ Doing("attach") /\ LinkMoves /\ work' = << >>
  /\ keys' = Attached(keys, [p \in reached |-> KeyOf(staged, lord, p)])
  /\ broken' = TRUE
  /\ UNCHANGED <<staged, committed, nvs, lord, repaired>>

CommitSaveKeys ==
  /\ Doing("saveKeys") /\ work' = Tail(work)
  /\ nvs' = [nvs EXCEPT !.keys = KeyBlob(staged, lord)]
  /\ UNCHANGED <<staged, committed, lord, keys, moves, broken, repaired>>

CommitSaveCommitted ==
  /\ Doing("saveCommitted") /\ work' = Tail(work)
  /\ committed' = staged /\ nvs' = [nvs EXCEPT !.committed = staged]
  /\ UNCHANGED <<staged, lord, keys, moves, broken, repaired>>

(* A save failed: the keys of the old snapshot are attached again.  Without *)
(* one the new keys stay, and the old key blob comes back.                  *)
SaveFails ==
  /\ Doing("saveKeys") \/ Doing("saveCommitted")
  /\ LinkMoves /\ work' = << >>
  /\ keys' = IF committed # None THEN Attached(keys, MadeKeys(committed)) ELSE keys
  /\ \E b \in {nvs.keys, NoBlob} : nvs' = [nvs EXCEPT !.keys = b]
  /\ UNCHANGED <<staged, committed, lord, broken, repaired>>

CommitEraseStaged ==
  /\ Doing("eraseStaged") /\ work' = Tail(work)
  /\ staged' = None
  /\ \E gone \in BOOLEAN : nvs' = [nvs EXCEPT !.staged = IF gone THEN None ELSE @]
  /\ UNCHANGED <<committed, lord, keys, moves, broken, repaired>>

-----------------------------------------------------------------------------
(* A confirmed pairing.  onPairConfirm of a slave makes no topology keys;   *)
(* onRxPairConfirmAck would, but only a master accepts that frame.          *)
Pairs(m) ==
  /\ Quiet /\ LinkMoves /\ lord = None
  /\ lord' = m /\ nvs' = [nvs EXCEPT !.pair = m]
  /\ repaired' = TRUE
  /\ UNCHANGED <<staged, committed, keys, work, broken>>

(* requestUnpair and removePeer of the slave purge the key blob, an unpair  *)
(* of the master does not.                                                  *)
Unpairs(own) ==
  /\ Quiet /\ LinkMoves /\ lord # None
  /\ lord' = None
  /\ nvs' = [nvs EXCEPT !.pair = None, !.keys = IF own THEN NoBlob ELSE @]
  /\ UNCHANGED <<staged, committed, keys, work, broken, repaired>>

(* restorePairedLink: the keys of the blob when it fits, otherwise derived  *)
(* ones, which are saved again if the store takes them.                     *)
LinkRestored(t, m, base) ==
  IF t = None \/ m = None THEN keys' = base /\ nvs' = [nvs EXCEPT !.pair = m]
  ELSE IF Fits(nvs.keys, t, m)
  THEN /\ keys' = Attached(base, [p \in PeersOf(t) |-> nvs.keys.keys[p]])
       /\ nvs' = [nvs EXCEPT !.pair = m]
  ELSE /\ keys' = Attached(base, Made(t, m))
       /\ \E b \in {nvs.keys, KeyBlob(t, m)} : nvs' = [nvs EXCEPT !.pair = m, !.keys = b]

(* restoreTopologySnapshots_ of begin(), then the link of the stored pair.  *)
Restarts ==
  /\ LinkMoves /\ work' = << >>
  /\ staged' = nvs.staged /\ committed' = nvs.committed /\ lord' = nvs.pair
  /\ broken' = FALSE /\ repaired' = FALSE
  /\ LinkRestored(nvs.committed, nvs.pair, [p \in Neighbours |-> NoKey])

(* activatePairedPeer: another master whose pairing is stored.              *)
Activates(m) ==
  /\ Quiet /\ LinkMoves /\ lord # None /\ m # lord
  /\ lord' = m /\ broken' = FALSE /\ repaired' = FALSE
  /\ LinkRestored(committed, m, keys)
  /\ UNCHANGED <<staged, committed, work>>

(* ensureTopologyPeerReadyForSlot_, before a trigger is sent: the key of the*)
(* blob, or the key of this slot's own group; the blob is then saved anew.  *)
PeerReady(s) ==
  /\ Quiet /\ LinkMoves
  /\ lord # None /\ committed # None /\ s \in SlotsOf[committed]
  /\ IF Fits(nvs.keys, committed, lord)
     THEN keys' = [keys EXCEPT ![s.peer] = nvs.keys.keys[s.peer]] /\ UNCHANGED nvs
     ELSE /\ keys' = [keys EXCEPT ![s.peer] = Derive(committed, lord, s.peer, s.group)]
          /\ nvs' = [nvs EXCEPT !.keys = KeyBlob(committed, lord)]
  /\ UNCHANGED <<staged, committed, lord, work, broken, repaired>>

-----------------------------------------------------------------------------
LinkNext ==
  \/ \E t \in Topologies, ok \in BOOLEAN : Stage(t, ok)
  \/ ClearStaged \/ Commit
  \/ CommitAttach \/ CommitSaveKeys \/ CommitSaveCommitted \/ CommitEraseStaged \/ SaveFails
  \/ \E reached \in SUBSET Neighbours :
        Doing("attach") /\ reached \subseteq PeersOf(staged) /\ AttachFails(reached)
  \/ \E m \in Lords : Pairs(m) \/ Activates(m)
  \/ \E own \in BOOLEAN : Unpairs(own)
  \/ Restarts
  \/ \E s \in Slots : PeerReady(s)

LinkSpec == LinkInit /\ [][LinkNext]_linkVars

-----------------------------------------------------------------------------
LinkTypeOK ==
  /\ {staged, committed, nvs.staged, nvs.committed} \subseteq Topologies \cup {None}
  /\ {lord, nvs.pair} \subseteq Lords \cup {None}
  /\ DOMAIN keys = Neighbours /\ moves \in 0 .. MaxMoves /\ {broken, repaired} \subseteq BOOLEAN

(* The peers of the committed topology are attached with a key of that      *)
(* topology and of the present master.  For a peer with slots of one group  *)
(* that is the one key both ends derive.                                    *)
Followed ==
  Quiet /\ lord # None /\ committed # None =>
    \A p \in PeersOf(committed) :
       \E g \in GroupsOf(committed, p) : keys[p] = Derive(committed, lord, p, g)

(* The links of a paired slave follow its committed topology, whatever      *)
(* restarts, failed saves, commits and switches of master came before; only *)
(* an attach that failed halfway and a pairing leave other keys.            *)
LinksFollowCommit == broken \/ repaired \/ Followed

(* They follow a new pairing too, as the branch of onRxPairConfirmAck for   *)
(* slaves with a committed topology intends.                                *)
LinksFollowPairing == broken \/ Followed
=============================================================================
