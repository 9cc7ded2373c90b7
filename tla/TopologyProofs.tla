--------------------------- MODULE TopologyProofs ---------------------------
(***************************************************************************)
(* The keys of a slave follow its committed topology (TopologyLinks), for   *)
(* any snapshots, masters, peers and groups and any number of moves; and a  *)
(* trigger runs once (TopologyTriggers), for any number of triggers, any    *)
(* range of sequence numbers and any size of the table.                     *)
(***************************************************************************)
EXTENDS TopologyLinks, TopologyTriggers, SequenceTheorems, WellFoundedInduction, TLAPS

(* What is left of a commit at any time.                                    *)
Agendas == { << >>, << "eraseStaged" >>, << "saveCommitted", "eraseStaged" >>,
             << "saveKeys", "saveCommitted", "eraseStaged" >>, CommitSteps }

(* A key blob is one that saveTopologyLmkMeta_ wrote.                       *)
Blobs == {NoBlob} \cup {[topo |-> t, master |-> m, keys |-> Made(t, m)] : t \in Topologies, m \in Lords}

Stores == [staged : Topologies \cup {None}, committed : Topologies \cup {None},
           keys : Blobs, pair : Lords \cup {None}]

LinkTypes ==
  /\ staged \in Topologies \cup {None} /\ committed \in Topologies \cup {None}
  /\ nvs \in Stores
  /\ lord \in Lords \cup {None} /\ DOMAIN keys = Neighbours
  /\ work \in Agendas

(* The links carry keys of snapshot t and master m.                         *)
LinksCarry(ks, t, m) ==
  DOMAIN ks = Neighbours /\ \A p \in PeersOf(t) : \E g \in GroupsOf(t, p) : ks[p] = Derive(t, m, p, g)

(* The new keys are attached, the new snapshot is not yet the committed one.*)
Saving == Doing("saveKeys") \/ Doing("saveCommitted")

(* A commit that is not over has a snapshot it can make keys of.            *)
CommitHasKeys == Doing("attach") \/ Saving => staged # None /\ (SlotsOf[staged] # {} => lord # None)

(* Between two steps of a commit the links carry keys of one snapshot: the  *)
(* staged one while it is saved, otherwise the committed one.               *)
LinksCarryOne ==
  ~broken /\ ~repaired /\ lord # None =>
    IF Saving THEN LinksCarry(keys, staged, lord)
    ELSE committed # None => LinksCarry(keys, committed, lord)

LinkInv == LinkTypes /\ CommitHasKeys /\ LinksCarryOne

-----------------------------------------------------------------------------
(* A peer's key comes from one of its groups.                               *)
LEMMA LowestIsOne ==
  ASSUME NEW S, S \subseteq Nat, S # {}
  PROVE  Lowest(S) \in S
<1>1. PICK g \in S : \A h \in S : ~(<<h, g>> \in OpToRel(<, Nat))
  BY NatLessThanWellFounded, WFMin
<1>2. ASSUME NEW h \in S, h < g  PROVE FALSE
  <2>1. <<h, g>> \in Nat \X Nat /\ <<h, g>>[1] < <<h, g>>[2]
    BY <1>2
  <2>2. <<h, g>> \in OpToRel(<, Nat)
    BY <2>1 DEF OpToRel
  <2>3. QED BY <1>1, <2>2
<1>3. \A h \in S : g <= h
  BY <1>2
<1>4. QED
  BY <1>3 DEF Lowest

LEMMA KeyIsOfGroup ==
  ASSUME NEW t \in Topologies, NEW p \in PeersOf(t)
  PROVE  Lowest(GroupsOf(t, p)) \in GroupsOf(t, p) /\ p \in Neighbours
<1>1. GroupsOf(t, p) \subseteq Nat /\ GroupsOf(t, p) # {}
  BY LinkSizes DEF GroupsOf, PeersOf
<1>2. QED
  BY <1>1, LowestIsOne, LinkSizes DEF PeersOf, Neighbours

(* Keys attached for a snapshot are the ones it gives, whatever was there.  *)
LEMMA AttachedCarry ==
  ASSUME NEW t \in Topologies, NEW m, NEW ks
  PROVE  LinksCarry(Attached(ks, Made(t, m)), t, m)
<1> DEFINE new == Attached(ks, Made(t, m))
<1>1. ASSUME NEW p \in PeersOf(t)
      PROVE  \E g \in GroupsOf(t, p) : new[p] = Derive(t, m, p, g)
  <2>1. new[p] = Made(t, m)[p]
    BY KeyIsOfGroup DEF Attached, Made
  <2>2. Made(t, m)[p] = Derive(t, m, p, Lowest(GroupsOf(t, p)))
    BY DEF Made, KeyOf
  <2>3. QED BY <2>1, <2>2, KeyIsOfGroup
<1>2. QED
  BY <1>1 DEF LinksCarry, Attached

(* So is the key of one link, of whichever group the slot is.               *)
LEMMA OneKeySet ==
  ASSUME NEW ks, NEW t, NEW m, NEW q, NEW g \in GroupsOf(t, q), LinksCarry(ks, t, m)
  PROVE  LinksCarry([ks EXCEPT ![q] = Derive(t, m, q, g)], t, m)
<1> DEFINE new == [ks EXCEPT ![q] = Derive(t, m, q, g)]
<1>1. \A p \in DOMAIN ks : new[p] = IF p = q THEN Derive(t, m, q, g) ELSE ks[p]
  OBVIOUS
<1>2. ASSUME NEW p \in PeersOf(t)
      PROVE  \E h \in GroupsOf(t, p) : new[p] = Derive(t, m, p, h)
  <2>1. CASE p \in DOMAIN ks
    BY <1>1, <2>1 DEF LinksCarry
  <2>2. CASE p \notin DOMAIN ks
    BY <2>2 DEF LinksCarry
  <2>3. QED BY <2>1, <2>2
<1>3. DOMAIN new = DOMAIN ks
  OBVIOUS
<1>4. QED BY <1>2, <1>3 DEF LinksCarry

(* What saveTopologyLmkMeta_ writes, or purges, is a key blob.              *)
LEMMA PurgedBlob == NoBlob \in Blobs
BY DEF Blobs

LEMMA WrittenBlob ==
  ASSUME NEW t \in Topologies, NEW m \in Lords \cup {None}, SlotsOf[t] # {} => m # None
  PROVE  KeyBlob(t, m) \in Blobs
BY DEF Blobs, KeyBlob

LEMMA FittingBlob ==
  ASSUME NEW b \in Blobs, NEW t, NEW m, Fits(b, t, m)
  PROVE  b.keys = Made(t, m)
<1>1. PICK u \in Topologies, n \in Lords : b = [topo |-> u, master |-> n, keys |-> Made(u, n)]
  BY DEF Fits, Blobs
<1>2. b.topo = u /\ b.master = n /\ b.keys = Made(u, n)
  BY <1>1
<1>3. QED BY <1>2 DEF Fits

(* Writing one record of the store leaves it a store.                       *)
LEMMA StoreWritten ==
  ASSUME nvs \in Stores, NEW b \in Blobs, NEW t \in Topologies \cup {None}, NEW m \in Lords \cup {None}
  PROVE  /\ nvs.staged \in Topologies \cup {None} /\ nvs.committed \in Topologies \cup {None}
         /\ nvs.keys \in Blobs /\ nvs.pair \in Lords \cup {None}
         /\ [nvs EXCEPT !.keys = b] \in Stores
         /\ [nvs EXCEPT !.staged = t] \in Stores
         /\ [nvs EXCEPT !.committed = t] \in Stores
         /\ [nvs EXCEPT !.pair = m] \in Stores
         /\ [nvs EXCEPT !.keys = b, !.staged = t] \in Stores
         /\ [nvs EXCEPT !.pair = m, !.keys = b] \in Stores
BY DEF Stores

(* restorePairedLink gives the links keys of the snapshot it is called for. *)
LEMMA RestoredCarry ==
  ASSUME NEW t \in Topologies, NEW m \in Lords, NEW ks, nvs \in Stores, LinkRestored(t, m, ks)
  PROVE  LinksCarry(keys', t, m) /\ nvs' \in Stores
<1>1. t # None /\ m # None
  BY LinkSizes
<1>2. CASE Fits(nvs.keys, t, m)
  <2>1. nvs.keys.keys = Made(t, m)
    BY <1>2, FittingBlob DEF Stores
  <2>2. [p \in PeersOf(t) |-> nvs.keys.keys[p]] = Made(t, m)
    BY <2>1 DEF Made
  <2>3. keys' = Attached(ks, Made(t, m)) /\ nvs' = [nvs EXCEPT !.pair = m]
    BY <1>1, <1>2, <2>2 DEF LinkRestored
  <2>4. QED BY <2>3, AttachedCarry, StoreWritten, PurgedBlob
<1>3. CASE ~Fits(nvs.keys, t, m)
  <2>1. KeyBlob(t, m) \in Blobs /\ nvs.keys \in Blobs
    BY <1>1, WrittenBlob, PurgedBlob, StoreWritten
  <2>2. keys' = Attached(ks, Made(t, m)) /\ \E b \in Blobs : nvs' = [nvs EXCEPT !.pair = m, !.keys = b]
    BY <1>1, <1>3, <2>1 DEF LinkRestored
  <2>3. QED BY <2>2, AttachedCarry, StoreWritten
<1>4. QED BY <1>2, <1>3

-----------------------------------------------------------------------------
(* How a commit goes on: what is to be done before and after a step.        *)
LEMMA CommitGoesOn ==
  ASSUME work \in Agendas
  PROVE  /\ Quiet => ~Doing("attach") /\ ~Saving /\ ~Doing("eraseStaged")
         /\ Doing("attach") => ~Saving
         /\ Doing("eraseStaged") => ~Saving /\ ~Doing("attach")
         /\ Saving => ~Doing("attach")
         /\ work' = << >> => work' \in Agendas /\ ~Doing("attach")' /\ ~Saving'
         /\ work' = CommitSteps => work' \in Agendas /\ Doing("attach")' /\ ~Saving'
         /\ work' = work => work' \in Agendas /\ (Doing("attach")' <=> Doing("attach")) /\ (Saving' <=> Saving)
         /\ work' = Tail(work) =>
              /\ Doing("attach") => work' \in Agendas /\ ~Doing("attach")' /\ Saving'
              /\ Doing("saveKeys") => work' \in Agendas /\ ~Doing("attach")' /\ Saving'
              /\ Doing("saveCommitted") => work' \in Agendas /\ ~Doing("attach")' /\ ~Saving'
              /\ Doing("eraseStaged") => work' \in Agendas /\ ~Doing("attach")' /\ ~Saving'
<1> USE DEF Doing, Saving, Quiet, CommitSteps
<1>1. CASE work = << >>
  BY <1>1 DEF Agendas
<1>2. CASE work = << "eraseStaged" >>
  BY <1>2 DEF Agendas
<1>3. CASE work = << "saveCommitted", "eraseStaged" >>
  BY <1>3 DEF Agendas
<1>4. CASE work = << "saveKeys", "saveCommitted", "eraseStaged" >>
  BY <1>4 DEF Agendas
<1>5. CASE work = CommitSteps
  BY <1>5 DEF Agendas
<1>6. QED
  BY <1>1, <1>2, <1>3, <1>4, <1>5 DEF Agendas

LEMMA LinkInitial == LinkInit => LinkInv
<1> SUFFICES ASSUME LinkInit  PROVE LinkInv
  OBVIOUS
<1>1. ~Doing("attach") /\ ~Saving
  BY DEF LinkInit, Doing, Saving, Quiet
<1>2. LinkTypes
  BY LinkSizes, PurgedBlob DEF LinkInit, LinkTypes, Agendas, Stores
<1>3. QED
  BY <1>1, <1>2 DEF LinkInit, LinkInv, CommitHasKeys, LinksCarryOne

LEMMA LinkStep == LinkInv /\ [LinkNext]_linkVars => LinkInv'
<1> SUFFICES ASSUME LinkInv, [LinkNext]_linkVars  PROVE LinkInv'
  OBVIOUS
<1> USE CommitGoesOn, StoreWritten, PurgedBlob, LinkSizes DEF LinkInv, LinkTypes, CommitHasKeys, LinksCarryOne
<1>1. ASSUME NEW t \in Topologies, NEW ok \in BOOLEAN, Stage(t, ok)  PROVE LinkInv'
  <2>1. LinkTypes' BY <1>1 DEF Stage, LinkMoves
  <2>2. QED BY <1>1, <2>1 DEF Stage
<1>2. CASE ClearStaged
  <2>1. LinkTypes' BY <1>2 DEF ClearStaged, LinkMoves
  <2>2. QED BY <1>2, <2>1 DEF ClearStaged
<1>3. CASE Commit
  <2>1. LinkTypes' BY <1>3 DEF Commit, LinkMoves
  <2>2. QED BY <1>3, <2>1 DEF Commit
<1>4. CASE CommitAttach
  <2>1. staged \in Topologies
    BY <1>4 DEF CommitAttach
  <2>2. ASSUME lord # None  PROVE LinksCarry(keys', staged, lord)
    <3>1. ASSUME NEW p \in PeersOf(staged)
          PROVE  \E g \in GroupsOf(staged, p) : keys'[p] = Derive(staged, lord, p, g)
      <4>1. keys'[p] = Made(staged, lord)[p]
        BY <1>4, <2>1, <2>2, KeyIsOfGroup DEF CommitAttach, Applied, MadeKeys, Made
      <4>2. QED BY <2>1, <4>1, KeyIsOfGroup DEF Made, KeyOf
    <3>2. QED BY <1>4, <3>1 DEF CommitAttach, Applied, LinksCarry
  <2>3. LinkTypes'
    BY <1>4 DEF CommitAttach, Applied
  <2>4. QED BY <1>4, <2>1, <2>2, <2>3 DEF CommitAttach
<1>5. ASSUME NEW reached \in SUBSET Neighbours, AttachFails(reached)  PROVE LinkInv'
  <2>1. LinkTypes' BY <1>5 DEF AttachFails, LinkMoves, Attached
  <2>2. QED BY <1>5, <2>1 DEF AttachFails
<1>6. CASE CommitSaveKeys
  <2>1. staged \in Topologies /\ (SlotsOf[staged] # {} => lord # None)
    BY <1>6 DEF CommitSaveKeys, Saving
  <2>2. KeyBlob(staged, lord) \in Blobs
    BY <2>1, WrittenBlob
  <2>3. LinkTypes' BY <1>6, <2>2 DEF CommitSaveKeys
  <2>4. QED BY <1>6, <2>3 DEF CommitSaveKeys, Saving, CommitHasKeys, LinksCarryOne
<1>7. CASE CommitSaveCommitted
  <2>1. LinkTypes' BY <1>7 DEF CommitSaveCommitted
  <2>2. QED BY <1>7, <2>1 DEF CommitSaveCommitted, Saving
<1>8. CASE SaveFails
  <2>1. LinkTypes' BY <1>8 DEF SaveFails, Attached, LinkMoves
  <2>2. ASSUME committed # None, lord # None  PROVE LinksCarry(keys', committed, lord)
    BY <1>8, <2>2, AttachedCarry DEF SaveFails, MadeKeys
  <2>3. QED BY <1>8, <2>1, <2>2 DEF SaveFails, LinksCarry
<1>9. CASE CommitEraseStaged
  <2>1. LinkTypes' BY <1>9 DEF CommitEraseStaged
  <2>2. QED BY <1>9, <2>1 DEF CommitEraseStaged
<1>10. ASSUME NEW m \in Lords, Pairs(m)  PROVE LinkInv'
  <2>1. LinkTypes' BY <1>10 DEF Pairs, LinkMoves
  <2>2. QED BY <1>10, <2>1 DEF Pairs
<1>11. ASSUME NEW own \in BOOLEAN, Unpairs(own)  PROVE LinkInv'
  <2>1. LinkTypes' BY <1>11 DEF Unpairs, LinkMoves
  <2>2. QED BY <1>11, <2>1 DEF Unpairs
<1>12. CASE Restarts
  <2> DEFINE bare == [p \in Neighbours |-> NoKey]
  <2>1. LinkRestored(nvs.committed, nvs.pair, bare) /\ work' = << >>
    BY <1>12 DEF Restarts
  <2>2. CASE nvs.committed = None \/ nvs.pair = None
    <3>1. keys' = bare /\ nvs' = [nvs EXCEPT !.pair = nvs.pair]
      BY <2>1, <2>2 DEF LinkRestored
    <3>2. LinkTypes' BY <1>12, <3>1 DEF Restarts, LinkMoves
    <3>3. QED BY <1>12, <2>2, <3>2 DEF Restarts
  <2>3. CASE nvs.committed # None /\ nvs.pair # None
    <3>1. nvs.committed \in Topologies /\ nvs.pair \in Lords
      BY <2>3
    <3>2. LinksCarry(keys', nvs.committed, nvs.pair) /\ nvs' \in Stores
      BY <2>1, <3>1, RestoredCarry
    <3>3. DOMAIN keys' = Neighbours
      BY <3>2 DEF LinksCarry
    <3>4. LinkTypes' BY <1>12, <3>2, <3>3 DEF Restarts, LinkMoves
    <3>5. QED BY <1>12, <3>2, <3>4 DEF Restarts
  <2>4. QED BY <2>2, <2>3
<1>13. ASSUME NEW m \in Lords, Activates(m)  PROVE LinkInv'
  <2>1. CASE committed = None
    <3>1. keys' = keys /\ nvs' = [nvs EXCEPT !.pair = m]
      BY <1>13, <2>1 DEF Activates, LinkRestored
    <3>2. LinkTypes' BY <1>13, <3>1 DEF Activates, LinkMoves
    <3>3. QED BY <1>13, <2>1, <3>2 DEF Activates
  <2>2. CASE committed # None
    <3>1. LinksCarry(keys', committed, m) /\ nvs' \in Stores
      BY <1>13, <2>2, RestoredCarry DEF Activates
    <3>2. DOMAIN keys' = Neighbours
      BY <3>1 DEF LinksCarry
    <3>3. LinkTypes' BY <1>13, <3>1, <3>2 DEF Activates, LinkMoves
    <3>4. QED BY <1>13, <3>1, <3>3 DEF Activates
  <2>3. QED BY <2>1, <2>2
<1>14. ASSUME NEW s \in Slots, PeerReady(s)  PROVE LinkInv'
  <2>1. committed \in Topologies /\ lord \in Lords /\ s.peer \in PeersOf(committed)
        /\ s.group \in GroupsOf(committed, s.peer)
    BY <1>14 DEF PeerReady, PeersOf, GroupsOf
  <2>2. PICK g \in GroupsOf(committed, s.peer) :
          keys' = [keys EXCEPT ![s.peer] = Derive(committed, lord, s.peer, g)]
    <3>1. CASE Fits(nvs.keys, committed, lord)
      <4>1. nvs.keys.keys = Made(committed, lord)
        BY <3>1, FittingBlob DEF Stores
      <4>2. nvs.keys.keys[s.peer] = Derive(committed, lord, s.peer, Lowest(GroupsOf(committed, s.peer)))
        BY <2>1, <4>1 DEF Made, KeyOf
      <4>3. QED BY <1>14, <2>1, <3>1, <4>2, KeyIsOfGroup DEF PeerReady
    <3>2. CASE ~Fits(nvs.keys, committed, lord)
      BY <1>14, <2>1, <3>2 DEF PeerReady
    <3>3. QED BY <3>1, <3>2
  <2>3. nvs' \in Stores
    BY <1>14, <2>1, WrittenBlob DEF PeerReady
  <2>4. LinkTypes' BY <1>14, <2>2, <2>3 DEF PeerReady, LinkMoves
  <2>5. LinksCarry(keys, committed, lord) => LinksCarry(keys', committed, lord)
    BY <2>2, OneKeySet
  <2>6. QED BY <1>14, <2>4, <2>5 DEF PeerReady
<1>15. CASE UNCHANGED linkVars
  BY <1>15 DEF linkVars
<1>16. QED
  BY <1>1, <1>2, <1>3, <1>4, <1>5, <1>6, <1>7, <1>8, <1>9, <1>10, <1>11, <1>12, <1>13, <1>14, <1>15
     DEF LinkNext

(* The bound on the moves, and the history.                                 *)
LinkCounts == moves \in 0 .. MaxMoves /\ broken \in BOOLEAN /\ repaired \in BOOLEAN

LEMMA LinksCounted ==
  /\ LinkInit => LinkCounts
  /\ LinkCounts /\ [LinkNext]_linkVars => LinkCounts'
<1> USE DEF LinkCounts
<1>1. LinkInit => LinkCounts
  <2>1. LinkInit => moves \in 0 .. MaxMoves
    BY LinkSizes DEF LinkInit
  <2>2. QED BY <2>1 DEF LinkInit
<1>2. ASSUME LinkCounts, [LinkNext]_linkVars  PROVE LinkCounts'
  <2>1. moves' = moves \/ LinkMoves
    BY <1>2 DEF LinkNext, Stage, ClearStaged, Commit, CommitAttach, AttachFails, CommitSaveKeys, CommitSaveCommitted,
                CommitEraseStaged, SaveFails, Pairs, Unpairs, Restarts, Activates, PeerReady, linkVars
  <2>2. moves' \in 0 .. MaxMoves
    BY <1>2, <2>1, LinkSizes DEF LinkMoves
  <2>3. broken' \in BOOLEAN /\ repaired' \in BOOLEAN
    BY <1>2 DEF LinkNext, Stage, ClearStaged, Commit, CommitAttach, AttachFails, CommitSaveKeys, CommitSaveCommitted,
                CommitEraseStaged, SaveFails, Pairs, Unpairs, Restarts, Activates, PeerReady, linkVars
  <2>4. QED BY <2>2, <2>3
<1>3. QED BY <1>1, <1>2

(* Every variable of a slave's links keeps its type.                        *)
THEOREM LinkTypeCorrect == LinkSpec => []LinkTypeOK
<1>1. LinkInv /\ LinkCounts => LinkTypeOK
  BY DEF LinkInv, LinkTypes, LinkTypeOK, LinkCounts, Stores
<1>2. QED BY LinkInitial, LinkStep, LinksCounted, <1>1, PTL DEF LinkSpec

(* The links of a paired slave follow its committed topology.               *)
THEOREM LinksFollow == LinkSpec => []LinksFollowCommit
<1>1. LinkInv => LinksFollowCommit
  BY DEF LinkInv, LinksCarryOne, LinksCarry, LinksFollowCommit, Followed, Saving, Doing, Quiet
<1>2. QED BY LinkInitial, LinkStep, <1>1, PTL DEF LinkSpec
-----------------------------------------------------------------------------
(* Triggers: what holds of the frames in the air and of the table.         *)
TriggerTypes ==
  /\ nextSeq \in 1 .. SeqMax /\ sent \in 0 .. TriggerMax
  /\ air \in Seq(Frames) /\ dedup \in Seq(1 .. SeqMax) /\ Len(dedup) <= DedupMax
  /\ ran \in [Triggers -> 0 .. 2] /\ accepted \subseteq Triggers

(* Every frame in the air is of a trigger of its own, with a number of its  *)
(* own: a repeated frame is a delivered frame that stays.                   *)
OwnNumbers(frames, n) ==
  /\ \A i \in DOMAIN frames : frames[i].id <= n
  /\ \A i, j \in DOMAIN frames : i # j => frames[i].seq # frames[j].seq /\ frames[i].id # frames[j].id

(* A trigger whose frame is in the air ran once if its number is in the     *)
(* table, and has not run if it is not.                                     *)
Has(table, seq) == \E i \in DOMAIN table : table[i] = seq
TableTells(frames, table, runs) ==
  \A i \in DOMAIN frames : runs[frames[i].id] = IF Has(table, frames[i].seq) THEN 1 ELSE 0

RanAtMostOnce == /\ \A k \in Triggers : ran[k] <= 1 /\ (k > sent => ran[k] = 0)
                 /\ \A k \in accepted : ran[k] = 1

TriggerInv == TriggerTypes /\ (~lapse => OwnNumbers(air, sent) /\ TableTells(air, dedup, ran) /\ RanAtMostOnce)

-----------------------------------------------------------------------------
(* A frame that leaves the air leaves the others in their order.            *)
LEMMA FrameLeaves ==
  ASSUME NEW s \in Seq(Frames), NEW i \in DOMAIN s
  PROVE  /\ WithoutFrame(s, i) \in Seq(Frames)
         /\ Len(WithoutFrame(s, i)) = Len(s) - 1
         /\ \A j \in 1 .. Len(s) - 1 : WithoutFrame(s, i)[j] = s[IF j < i THEN j ELSE j + 1]
<1> DEFINE before == SubSeq(s, 1, i - 1)  after == SubSeq(s, i + 1, Len(s))
<1>1. i \in 1 .. Len(s) /\ Len(s) \in Nat /\ \A j \in 1 .. Len(s) : s[j] \in Frames
  OBVIOUS
<1>2. /\ before \in Seq(Frames) /\ Len(before) = i - 1
      /\ \A j \in 1 .. i - 1 : before[j] = s[j]
  BY <1>1, SubSeqProperties
<1>3. /\ after \in Seq(Frames) /\ Len(after) = Len(s) - i
      /\ \A j \in 1 .. Len(s) - i : after[j] = s[i + j]
  <2>1. /\ after \in Seq(Frames) /\ Len(after) = IF i + 1 <= Len(s) THEN Len(s) - (i + 1) + 1 ELSE 0
        /\ \A j \in 1 .. Len(s) - (i + 1) + 1 : after[j] = s[i + 1 + j - 1]
    BY <1>1, SubSeqProperties
  <2>2. Len(s) - (i + 1) + 1 = Len(s) - i /\ \A j \in Int : i + 1 + j - 1 = i + j
    BY <1>1
  <2>3. (IF i + 1 <= Len(s) THEN Len(s) - (i + 1) + 1 ELSE 0) = Len(s) - i
    BY <1>1
  <2> HIDE DEF after
  <2>4. Len(after) = Len(s) - i
    BY <2>1, <2>3
  <2>5. ASSUME NEW j \in 1 .. Len(s) - i  PROVE after[j] = s[i + j]
    <3>1. j \in 1 .. Len(s) - (i + 1) + 1 /\ i + 1 + j - 1 = i + j
      BY <1>1
    <3>2. after[j] = s[i + 1 + j - 1]
      BY <2>1, <3>1
    <3>3. QED BY <3>1, <3>2
  <2>6. QED BY <2>1, <2>4, <2>5
<1>4. /\ WithoutFrame(s, i) \in Seq(Frames) /\ Len(WithoutFrame(s, i)) = Len(s) - 1
      /\ \A j \in 1 .. Len(s) - 1 : WithoutFrame(s, i)[j] = IF j <= i - 1 THEN before[j] ELSE after[j - (i - 1)]
  <2> HIDE DEF before, after
  <2>1. Len(before) + Len(after) = Len(s) - 1
    BY <1>1, <1>2, <1>3
  <2>2. WithoutFrame(s, i) = before \o after
    BY DEF WithoutFrame, before, after
  <2>3. /\ before \o after \in Seq(Frames) /\ Len(before \o after) = Len(before) + Len(after)
        /\ \A j \in 1 .. Len(before) + Len(after) :
             (before \o after)[j] = IF j <= Len(before) THEN before[j] ELSE after[j - Len(before)]
    BY <1>2, <1>3, ConcatProperties
  <2>4. QED BY <1>2, <2>1, <2>2, <2>3
<1>5. ASSUME NEW j \in 1 .. Len(s) - 1
      PROVE  WithoutFrame(s, i)[j] = s[IF j < i THEN j ELSE j + 1]
  <2> HIDE DEF before, after
  <2>1. CASE j < i
    BY <1>1, <1>2, <1>4, <2>1
  <2>2. CASE j >= i
    <3>1. j - (i - 1) \in 1 .. Len(s) - i /\ i + (j - (i - 1)) = j + 1 /\ ~(j <= i - 1) /\ ~(j < i)
      BY <1>1, <2>2
    <3>2. QED BY <1>3, <1>4, <3>1
  <2>3. QED BY <1>1, <2>1, <2>2
<1>6. QED BY <1>4, <1>5

(* So what holds of all frames, or of any two of them, still does.          *)
LEMMA FramesStay ==
  ASSUME NEW s \in Seq(Frames), NEW i \in DOMAIN s,
         NEW j \in DOMAIN WithoutFrame(s, i), NEW k \in DOMAIN WithoutFrame(s, i)
  PROVE  \E m, n \in DOMAIN s : /\ WithoutFrame(s, i)[j] = s[m] /\ WithoutFrame(s, i)[k] = s[n]
                                /\ j # k => m # n
<1> DEFINE m == IF j < i THEN j ELSE j + 1  n == IF k < i THEN k ELSE k + 1
<1>1. /\ i \in 1 .. Len(s) /\ Len(s) \in Nat /\ DOMAIN s = 1 .. Len(s)
      /\ j \in 1 .. Len(s) - 1 /\ k \in 1 .. Len(s) - 1
  BY FrameLeaves
<1>2. m \in DOMAIN s /\ n \in DOMAIN s /\ (j # k => m # n)
  BY <1>1
<1>3. WithoutFrame(s, i)[j] = s[m] /\ WithoutFrame(s, i)[k] = s[n]
  BY <1>1, FrameLeaves
<1> HIDE DEF m, n
<1>4. QED BY <1>2, <1>3

(* A number put into a table with room is in it, and so are the others.     *)
LEMMA NotedIsSeen ==
  ASSUME dedup \in Seq(1 .. SeqMax), Len(dedup) <= DedupMax, NEW f \in Frames
  PROVE  /\ Noted(f) \in Seq(1 .. SeqMax) /\ Len(Noted(f)) <= DedupMax
         /\ Len(dedup) # DedupMax /\ dedup' = Noted(f) =>
              \A g \in Frames : Has(dedup', g.seq) <=> Has(dedup, g.seq) \/ g.seq = f.seq
<1>1. f.seq \in 1 .. SeqMax /\ DedupMax \in Nat \ {0}
  BY TriggerSizes DEF Frames
<1>2. CASE Len(dedup) = DedupMax
  BY <1>1, <1>2 DEF Noted
<1>3. CASE Len(dedup) # DedupMax
  <2>1. Noted(f) = Append(dedup, f.seq)
    BY <1>3 DEF Noted
  <2>2. ASSUME NEW g \in Frames, dedup' = Noted(f)
        PROVE  Has(dedup', g.seq) <=> Has(dedup, g.seq) \/ g.seq = f.seq
    <3>1. DOMAIN dedup' = 1 .. Len(dedup) + 1 /\ DOMAIN dedup = 1 .. Len(dedup) /\ Len(dedup) \in Nat
          /\ dedup'[Len(dedup) + 1] = f.seq /\ \A i \in 1 .. Len(dedup) : dedup'[i] = dedup[i]
      BY <1>1, <2>1, <2>2
    <3>2. QED BY <3>1 DEF Has
  <2>3. QED BY <1>1, <1>3, <2>1, <2>2
<1>4. QED BY <1>2, <1>3

(* An entry that leaves the table takes only its own number with it.        *)
LEMMA PrunedIsUnseen ==
  ASSUME dedup \in Seq(1 .. SeqMax), dedup # << >>, dedup' = Tail(dedup)
  PROVE  /\ dedup' \in Seq(1 .. SeqMax) /\ Len(dedup') = Len(dedup) - 1
         /\ \A g \in Frames : g.seq # Head(dedup) => (Has(dedup', g.seq) <=> Has(dedup, g.seq))
<1>1. Len(dedup) \in Nat \ {0} /\ DOMAIN dedup = 1 .. Len(dedup) /\ DOMAIN dedup' = 1 .. Len(dedup) - 1
      /\ Head(dedup) = dedup[1] /\ \A i \in 1 .. Len(dedup) - 1 : dedup'[i] = dedup[i + 1]
  OBVIOUS
<1>2. ASSUME NEW g \in Frames, g.seq # Head(dedup)
      PROVE  Has(dedup', g.seq) <=> Has(dedup, g.seq)
  <2>1. ASSUME Has(dedup', g.seq)  PROVE Has(dedup, g.seq)
    BY <1>1, <2>1 DEF Has
  <2>2. ASSUME Has(dedup, g.seq)  PROVE Has(dedup', g.seq)
    <3>1. PICK i \in 1 .. Len(dedup) : dedup[i] = g.seq
      BY <1>1, <2>2 DEF Has
    <3>2. i # 1 /\ i - 1 \in 1 .. Len(dedup) - 1 /\ (i - 1) + 1 = i
      BY <1>1, <1>2, <3>1
    <3>3. QED BY <1>1, <3>1, <3>2 DEF Has
  <2>3. QED BY <2>1, <2>2
<1>3. QED BY <1>1, <1>2
-----------------------------------------------------------------------------
LEMMA TriggerInitial == TriggerInit => TriggerInv
<1> SUFFICES ASSUME TriggerInit  PROVE TriggerInv
  OBVIOUS
<1>1. TriggerTypes
  BY TriggerSizes DEF TriggerInit, TriggerTypes, Triggers
<1>2. DOMAIN air = {}
  BY DEF TriggerInit
<1>3. QED BY <1>1, <1>2 DEF TriggerInit, TriggerInv, OwnNumbers, TableTells, RanAtMostOnce

(* The number of a sent trigger is in no table and on no frame.             *)
LEMMA SentKeeps ==
  ASSUME TriggerInv, NEW batch \in BOOLEAN, SendTrigger(batch)
  PROVE  TriggerInv'
<1> DEFINE new == [id |-> sent + 1, seq |-> nextSeq, batch |-> batch]
<1>1. /\ new \in Frames /\ sent' = sent + 1 /\ sent' \in 0 .. TriggerMax /\ nextSeq' \in 1 .. SeqMax
      /\ new.id = sent + 1 /\ new.seq = nextSeq
  BY TriggerSizes DEF TriggerInv, TriggerTypes, SendTrigger, SeqAfter, Frames, Triggers
<1>2. air' = Append(air, new) /\ air \in Seq(Frames)
  BY DEF SendTrigger, TriggerInv, TriggerTypes
<1> HIDE DEF new
<1>3. /\ air' \in Seq(Frames) /\ Len(air) \in Nat /\ DOMAIN air = 1 .. Len(air) /\ DOMAIN air' = 1 .. Len(air) + 1
      /\ \A i \in 1 .. Len(air) : air'[i] = air[i]
      /\ air'[Len(air) + 1] = new
  BY <1>1, <1>2
<1>4. TriggerTypes'
  BY <1>1, <1>3 DEF TriggerInv, TriggerTypes, SendTrigger
<1>5. ASSUME ~lapse'  PROVE OwnNumbers(air, sent)' /\ TableTells(air, dedup, ran)' /\ RanAtMostOnce'
  <2>1. OwnNumbers(air, sent) /\ TableTells(air, dedup, ran) /\ RanAtMostOnce /\ ~InUse(nextSeq) /\ UNCHANGED <<dedup, ran, accepted>>
    BY <1>5 DEF SendTrigger, TriggerInv
  <2>2. ASSUME NEW i \in 1 .. Len(air)
        PROVE  air[i] \in Frames /\ air[i].id \in Nat /\ air[i].id <= sent /\ air[i].seq # nextSeq
    <3>1. air[i] \in Frames
      BY <1>2
    <3>2. air[i].id \in Nat
      BY <3>1, TriggerSizes DEF Frames, Triggers
    <3>3. QED BY <1>3, <2>1, <3>1, <3>2 DEF OwnNumbers, InUse
  <2>3. OwnNumbers(air, sent)'
    <3>1. sent \in Nat
      BY DEF TriggerInv, TriggerTypes
    <3>2. ASSUME NEW i \in DOMAIN air'  PROVE air'[i].id <= sent'
      BY <1>1, <1>3, <2>1, <2>2, <3>1 DEF OwnNumbers
    <3>3. ASSUME NEW i \in DOMAIN air', NEW j \in DOMAIN air', i # j
          PROVE  air'[i].seq # air'[j].seq /\ air'[i].id # air'[j].id
      <4>1. CASE i \in 1 .. Len(air) /\ j \in 1 .. Len(air)
        BY <1>3, <2>1, <3>3, <4>1 DEF OwnNumbers
      <4>2. CASE i = Len(air) + 1 /\ j \in 1 .. Len(air)
        BY <1>1, <1>3, <2>2, <3>1, <4>2
      <4>3. CASE j = Len(air) + 1 /\ i \in 1 .. Len(air)
        BY <1>1, <1>3, <2>2, <3>1, <4>3
      <4>4. QED BY <1>3, <3>3, <4>1, <4>2, <4>3
    <3>4. QED BY <3>2, <3>3 DEF OwnNumbers
  <2>5. ran[sent + 1] = 0
    <3>1. sent + 1 \in Triggers /\ sent + 1 > sent
      BY <1>1 DEF Frames, TriggerInv, TriggerTypes
    <3>2. QED BY <2>1, <3>1 DEF RanAtMostOnce
  <2>6. ASSUME NEW i \in DOMAIN air'
        PROVE  ran'[air'[i].id] = IF Has(dedup', air'[i].seq) THEN 1 ELSE 0
    <3>1. CASE i \in 1 .. Len(air)
      BY <1>3, <2>1, <3>1 DEF TableTells
    <3>2. CASE i = Len(air) + 1
      BY <1>1, <1>3, <2>1, <2>5, <3>2 DEF InUse, Has
    <3>3. QED BY <1>3, <3>1, <3>2
  <2>7. RanAtMostOnce'
    BY <1>1, <2>1 DEF RanAtMostOnce, Triggers, TriggerInv, TriggerTypes
  <2>8. QED BY <2>3, <2>6, <2>7 DEF TableTells
<1>6. QED BY <1>4, <1>5 DEF TriggerInv

(* A frame that leaves the air changes nothing for the others.              *)
LEMMA LeaveKeeps ==
  ASSUME NEW frames \in Seq(Frames), NEW i \in DOMAIN frames, NEW n, NEW table, NEW runs,
         OwnNumbers(frames, n), TableTells(frames, table, runs)
  PROVE  OwnNumbers(WithoutFrame(frames, i), n) /\ TableTells(WithoutFrame(frames, i), table, runs)
<1> DEFINE left == WithoutFrame(frames, i)
<1>1. ASSUME NEW j \in DOMAIN left, NEW k \in DOMAIN left
      PROVE  /\ left[j].id <= n /\ runs[left[j].id] = IF Has(table, left[j].seq) THEN 1 ELSE 0
             /\ j # k => left[j].seq # left[k].seq /\ left[j].id # left[k].id
  <2>1. PICK m, l \in DOMAIN frames : left[j] = frames[m] /\ left[k] = frames[l] /\ (j # k => m # l)
    BY FramesStay
  <2>2. QED BY <2>1 DEF OwnNumbers, TableTells
<1> HIDE DEF left
<1>2. QED BY <1>1 DEF OwnNumbers, TableTells, left

(* A frame that is handled runs its trigger if its number is new, and the   *)
(* table then has the number.                                               *)
LEMMA HandledKeeps ==
  ASSUME TriggerInv, NEW i \in DOMAIN air, HandleSingle(air[i]) \/ HandleBatch(air[i])
  PROVE  /\ dedup' \in Seq(1 .. SeqMax) /\ Len(dedup') <= DedupMax
         /\ ran' \in [Triggers -> 0 .. 2] /\ accepted' \subseteq Triggers
         /\ ~lapse' => ~lapse /\ TableTells(air, dedup', ran') /\ (sent' = sent => RanAtMostOnce')
<1> DEFINE f == air[i]
<1>1. f \in Frames /\ f.id \in Triggers /\ f.seq \in 1 .. SeqMax
  <2>1. f \in Frames
    BY DEF TriggerInv, TriggerTypes
  <2>2. QED BY <2>1 DEF Frames
<1>2. Seen(f) = Has(dedup, f.seq)
  BY DEF Seen, Has
<1> HIDE DEF f
<1>3. CASE UNCHANGED <<dedup, ran, lapse>> /\ (accepted' = accepted \/ (Seen(f) /\ accepted' = accepted \cup {f.id}))
  <2>1. dedup' \in Seq(1 .. SeqMax) /\ Len(dedup') <= DedupMax /\ ran' \in [Triggers -> 0 .. 2] /\ accepted' \subseteq Triggers
    BY <1>1, <1>3 DEF TriggerInv, TriggerTypes
  <2>2. ASSUME ~lapse', sent' = sent  PROVE RanAtMostOnce'
    <3>1. Seen(f) => ran[f.id] = 1
      BY <1>2, <1>3, <2>2 DEF TriggerInv, TableTells, f
    <3>2. QED BY <1>3, <2>2, <3>1 DEF TriggerInv, RanAtMostOnce
  <2>3. QED BY <1>3, <2>1, <2>2 DEF TriggerInv
<1>4. CASE ~Seen(f) /\ dedup' = Noted(f) /\ (Len(dedup) = DedupMax => lapse') /\ (lapse => lapse') /\ TriggerRuns(f)
  <2>1. dedup' \in Seq(1 .. SeqMax) /\ Len(dedup') <= DedupMax
    BY <1>1, <1>4, NotedIsSeen DEF TriggerInv, TriggerTypes
  <2>2. ran' \in [Triggers -> 0 .. 2] /\ accepted' \subseteq Triggers
    BY <1>1, <1>4 DEF TriggerInv, TriggerTypes, TriggerRuns
  <2>3. ASSUME ~lapse'  PROVE ~lapse /\ TableTells(air, dedup', ran') /\ (sent' = sent => RanAtMostOnce')
    <3>1. /\ OwnNumbers(air, sent) /\ TableTells(air, dedup, ran) /\ RanAtMostOnce /\ Len(dedup) # DedupMax /\ ~lapse
      BY <1>4, <2>3 DEF TriggerInv
    <3>2. ran[f.id] = 0 /\ f.id <= sent
      BY <1>2, <1>4, <3>1 DEF TableTells, OwnNumbers, f
    <3>3. ran' = [ran EXCEPT ![f.id] = 1]
      BY <1>1, <1>4, <3>2 DEF TriggerRuns, TriggerInv, TriggerTypes
    <3>4. \A g \in Frames : Has(dedup', g.seq) <=> Has(dedup, g.seq) \/ g.seq = f.seq
      BY <1>1, <1>4, <3>1, NotedIsSeen DEF TriggerInv, TriggerTypes
    <3>5. ASSUME NEW j \in DOMAIN air
          PROVE  ran'[air[j].id] = IF Has(dedup', air[j].seq) THEN 1 ELSE 0
      <4>1. air[j] \in Frames /\ air[j].id \in Triggers
        <5>1. air[j] \in Frames
          BY DEF TriggerInv, TriggerTypes
        <5>2. QED BY <5>1 DEF Frames
      <4>2. CASE j = i
        BY <1>1, <3>3, <3>4, <4>1, <4>2 DEF TriggerInv, TriggerTypes, f
      <4>3. CASE j # i
        <5>1. air[j].id # f.id /\ air[j].seq # f.seq
          BY <3>1, <4>3 DEF OwnNumbers, f
        <5>2. ran'[air[j].id] = ran[air[j].id]
          BY <3>3, <4>1, <5>1 DEF TriggerInv, TriggerTypes
        <5>3. QED BY <3>1, <3>4, <4>1, <5>1, <5>2 DEF TableTells
      <4>4. QED BY <4>2, <4>3
    <3>6. ASSUME sent' = sent  PROVE RanAtMostOnce'
      <4>1. \A k \in Triggers : ran'[k] = IF k = f.id THEN 1 ELSE ran[k]
        BY <3>3 DEF TriggerInv, TriggerTypes
      <4>2. accepted' = accepted \cup {f.id} /\ accepted \subseteq Triggers
        BY <1>4 DEF TriggerRuns, TriggerInv, TriggerTypes
      <4>3. f.id \in Nat /\ sent \in Nat /\ sent' = sent /\ ~(f.id > sent)
        BY <1>1, <3>2, <3>6 DEF Triggers, TriggerInv, TriggerTypes
      <4>4. QED BY <1>1, <3>1, <4>1, <4>2, <4>3 DEF RanAtMostOnce
    <3>7. QED BY <3>1, <3>5, <3>6 DEF TableTells
  <2>4. QED BY <2>1, <2>2, <2>3
<1>5. CASE lapse' /\ dedup' = Noted(f) /\ UNCHANGED <<ran, accepted>>
  BY <1>1, <1>5, NotedIsSeen DEF TriggerInv, TriggerTypes
<1>6. QED
  BY <1>3, <1>4, <1>5 DEF HandleSingle, HandleBatch, f

LEMMA TriggerStep == TriggerInv /\ [TriggerNext]_triggerVars => TriggerInv'
<1> SUFFICES ASSUME TriggerInv, [TriggerNext]_triggerVars  PROVE TriggerInv'
  OBVIOUS
<1>1. ASSUME NEW batch \in BOOLEAN, SendTrigger(batch)  PROVE TriggerInv'
  BY <1>1, SentKeeps
<1>2. ASSUME NEW i \in DOMAIN air, NEW again \in BOOLEAN, DeliverFrame(i, again)  PROVE TriggerInv'
  <2>1. HandleSingle(air[i]) \/ HandleBatch(air[i])
    BY <1>2 DEF DeliverFrame
  <2>2. air' = (IF again THEN air ELSE WithoutFrame(air, i)) /\ UNCHANGED <<nextSeq, sent>>
    BY <1>2 DEF DeliverFrame
  <2>3. air \in Seq(Frames)
    BY DEF TriggerInv, TriggerTypes
  <2>4. TriggerTypes'
    BY <2>1, <2>2, <2>3, HandledKeeps, FrameLeaves DEF TriggerInv, TriggerTypes
  <2>5. ASSUME ~lapse'  PROVE OwnNumbers(air', sent') /\ TableTells(air', dedup', ran') /\ RanAtMostOnce'
    <3>1. TableTells(air, dedup', ran') /\ RanAtMostOnce' /\ ~lapse
      BY <2>1, <2>2, <2>5, HandledKeeps
    <3>2. OwnNumbers(air, sent')
      BY <2>2, <3>1 DEF TriggerInv
    <3>3. QED BY <2>2, <2>3, <3>1, <3>2, LeaveKeeps
  <2>6. QED BY <2>4, <2>5 DEF TriggerInv
<1>3. ASSUME NEW i \in DOMAIN air, LoseFrame(i)  PROVE TriggerInv'
  <2>1. air' = WithoutFrame(air, i) /\ UNCHANGED <<nextSeq, sent, dedup, ran, accepted, lapse>> /\ air \in Seq(Frames)
    BY <1>3 DEF LoseFrame, TriggerInv, TriggerTypes
  <2>2. TriggerTypes'
    BY <2>1, FrameLeaves DEF TriggerInv, TriggerTypes
  <2>3. ~lapse' => OwnNumbers(air', sent') /\ TableTells(air', dedup', ran') /\ RanAtMostOnce'
    BY <2>1, LeaveKeeps DEF TriggerInv, RanAtMostOnce
  <2>4. QED BY <2>2, <2>3 DEF TriggerInv
<1>4. CASE PruneDedup
  <2>1. /\ dedup # << >> /\ dedup' = Tail(dedup) /\ dedup \in Seq(1 .. SeqMax) /\ air \in Seq(Frames)
        /\ \A i \in DOMAIN air : air[i] \in Frames /\ air[i].seq # Head(dedup)
        /\ UNCHANGED <<nextSeq, sent, air, ran, accepted, lapse>>
    BY <1>4 DEF PruneDedup, TriggerInv, TriggerTypes
  <2>2. TriggerTypes'
    BY <2>1, PrunedIsUnseen, TriggerSizes DEF TriggerInv, TriggerTypes
  <2>3. TableTells(air, dedup, ran) => TableTells(air, dedup', ran)
    BY <2>1, PrunedIsUnseen DEF TableTells
  <2>4. QED BY <2>1, <2>2, <2>3 DEF TriggerInv, RanAtMostOnce
<1>5. CASE TopologyChanges
  BY <1>5 DEF TopologyChanges, TriggerInv, TriggerTypes, RanAtMostOnce
<1>6. CASE SenderBoots
  <2>1. TriggerTypes'
    BY <1>6, TriggerSizes DEF SenderBoots, TriggerInv, TriggerTypes
  <2>2. ASSUME ~lapse'  PROVE sent = 0 /\ sent' = sent /\ ~lapse /\ UNCHANGED <<air, dedup, ran, accepted>>
    BY <1>6, <2>2 DEF SenderBoots
  <2>3. QED BY <2>1, <2>2 DEF TriggerInv, RanAtMostOnce
<1>7. CASE ReceiverBoots
  <2>1. TriggerTypes'
    BY <1>7, TriggerSizes DEF ReceiverBoots, TriggerInv, TriggerTypes
  <2>2. ~lapse' => dedup' = dedup /\ ~lapse /\ UNCHANGED <<air, sent, ran, accepted>>
    BY <1>7 DEF ReceiverBoots
  <2>3. QED BY <2>1, <2>2 DEF TriggerInv, RanAtMostOnce
<1>8. CASE UNCHANGED triggerVars
  BY <1>8 DEF triggerVars, TriggerInv, TriggerTypes, RanAtMostOnce
<1>9. QED
  BY <1>1, <1>2, <1>3, <1>4, <1>5, <1>6, <1>7, <1>8 DEF TriggerNext

(* A trigger runs once, and one that is answered as accepted has run.       *)
THEOREM TriggersRunOnce == TriggerSpec => []RunsOnce
<1>1. TriggerInv => RunsOnce
  BY DEF TriggerInv, RanAtMostOnce, RunsOnce
<1>2. QED BY TriggerInitial, TriggerStep, <1>1, PTL DEF TriggerSpec

(* The rest of the trigger's variables.                                     *)
TriggerFlags == allowed \in BOOLEAN /\ lapse \in BOOLEAN
BootsBounded == boots \in 0 .. BootMax

LEMMA TriggersFlagged ==
  /\ TriggerInit => TriggerFlags
  /\ TriggerFlags /\ [TriggerNext]_triggerVars => TriggerFlags'
BY DEF TriggerFlags, TriggerInit, TriggerNext, SendTrigger, DeliverFrame, HandleSingle, HandleBatch, TriggerRuns, LoseFrame, PruneDedup,
       TopologyChanges, SenderBoots, ReceiverBoots, triggerVars

LEMMA TriggerBoots ==
  /\ TriggerInit => BootsBounded
  /\ BootsBounded /\ [TriggerNext]_triggerVars => BootsBounded'
<1>1. TriggerInit => boots \in 0 .. BootMax
  BY TriggerSizes DEF TriggerInit
<1>2. ASSUME boots \in 0 .. BootMax, [TriggerNext]_triggerVars  PROVE boots' \in 0 .. BootMax
  <2>1. boots' = boots \/ TriggerCounts
    BY <1>2 DEF TriggerNext, SendTrigger, DeliverFrame, LoseFrame, PruneDedup, TopologyChanges, SenderBoots,
                ReceiverBoots, triggerVars
  <2>2. QED BY <1>2, <2>1, TriggerSizes DEF TriggerCounts
<1>3. QED BY <1>1, <1>2 DEF BootsBounded

(* Every variable of the two devices keeps its type.                        *)
THEOREM TriggerTypeCorrect == TriggerSpec => []TriggerTypeOK
<1>1. TriggerInv /\ TriggerFlags /\ BootsBounded => TriggerTypeOK
  BY DEF TriggerInv, TriggerTypes, TriggerTypeOK, TriggerFlags, BootsBounded
<1>2. QED BY TriggerInitial, TriggerStep, TriggersFlagged, TriggerBoots, <1>1, PTL DEF TriggerSpec
=============================================================================
