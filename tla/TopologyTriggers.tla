-------------------------- MODULE TopologyTriggers --------------------------
(***************************************************************************)
(* Topology triggers: one slave sends single triggers and batches to        *)
(* another, which runs each of them once, keeps the sequence numbers it has *)
(* seen for 15 seconds, and answers every frame.  The radio may lose,       *)
(* reorder and repeat a frame while it is younger than that window.         *)
(***************************************************************************)
EXTENDS Naturals, Sequences, FiniteSets

CONSTANTS TriggerMax,  \* bound: triggers sent
          SeqMax,      \* largest sequence number, 65535 in the code
          DedupMax,    \* kTopologyTriggerDedupMaxEntries
          BootMax      \* bound: restarts of the two devices, changes of the topology

ASSUME TriggerSizes == /\ {TriggerMax, SeqMax, DedupMax} \subseteq Nat \ {0}
                       /\ BootMax \in Nat

VARIABLES
  nextSeq,   \* topology_trigger_seq_ of the sender
  sent,      \* triggers sent so far
  air,       \* frames the radio still carries, older ones first
  dedup,     \* topology_trigger_dedup_ of the receiver, oldest entry first
  allowed,   \* whether the committed topology of the receiver has the slot
  boots,
  ran,       \* history: how often the hook ran for a trigger
  accepted,  \* history: triggers answered as accepted
  lapse      \* history: entries were dropped early, or numbers began again

triggerVars == <<nextSeq, sent, air, dedup, allowed, boots, ran, accepted, lapse>>

Triggers == 1 .. TriggerMax
Frames == [id : Triggers, seq : 1 .. SeqMax, batch : BOOLEAN]

TriggerInit ==
  /\ nextSeq = 1 /\ sent = 0 /\ air = << >> /\ dedup = << >>
  /\ allowed \in BOOLEAN /\ boots = 0
  /\ ran = [i \in Triggers |-> 0] /\ accepted = {} /\ lapse = FALSE

(* Fault: the 16-bit counter runs through zero.                             *)
SeqAfterZero(s) == (s + 1) % (SeqMax + 1)

(* sendTopologyTrigger and sendTopologyTriggerBatch take one number each;   *)
(* zero is skipped.                                                         *)
SeqAfter(s) == IF s = SeqMax THEN 1 ELSE s + 1

(* The 65535 numbers do not come round within 15 s, unless they begin again.*)
InUse(s) == (\E i \in DOMAIN air : air[i].seq = s) \/ (\E i \in DOMAIN dedup : dedup[i] = s)

SendTrigger(batch) ==
  /\ sent < TriggerMax /\ (InUse(nextSeq) => lapse)
  /\ sent' = sent + 1 /\ nextSeq' = SeqAfter(nextSeq)
  /\ air' = Append(air, [id |-> sent + 1, seq |-> nextSeq, batch |-> batch])
  /\ UNCHANGED <<dedup, allowed, boots, ran, accepted, lapse>>

(* isTopologyTriggerDuplicate_: a number that is not in the table is put    *)
(* there, and the oldest entry leaves a full table.                         *)
Seen(f) == \E i \in DOMAIN dedup : dedup[i] = f.seq
Noted(f) == IF Len(dedup) = DedupMax THEN Append(Tail(dedup), f.seq) ELSE Append(dedup, f.seq)

TriggerRuns(f) == ran' = [ran EXCEPT ![f.id] = IF @ < 2 THEN @ + 1 ELSE @] /\ accepted' = accepted \cup {f.id}

(* Fault: the table is asked before the topology, as for a batch.           *)
HandleSingleEarly(f) ==
  IF Seen(f) THEN accepted' = accepted \cup {f.id} /\ UNCHANGED <<dedup, ran, lapse>>
  ELSE /\ dedup' = Noted(f) /\ lapse' = (lapse \/ Len(dedup) = DedupMax)
       /\ IF allowed THEN TriggerRuns(f) ELSE UNCHANGED <<ran, accepted>>

(* onRxTopologyTrigger: the topology first, then the table.                 *)
HandleSingle(f) ==
  IF ~allowed THEN UNCHANGED <<dedup, ran, accepted, lapse>>
  ELSE IF Seen(f) THEN accepted' = accepted \cup {f.id} /\ UNCHANGED <<dedup, ran, lapse>>
  ELSE TriggerRuns(f) /\ dedup' = Noted(f) /\ lapse' = (lapse \/ Len(dedup) = DedupMax)

(* onRxTopologyTriggerBatch: the table first.  A batch whose items are not  *)
(* in the topology is refused, but its number stays in the table.           *)
HandleBatch(f) ==
  IF Seen(f) THEN accepted' = accepted \cup {f.id} /\ UNCHANGED <<dedup, ran, lapse>>
  ELSE /\ dedup' = Noted(f) /\ lapse' = (lapse \/ ~allowed \/ Len(dedup) = DedupMax)
       /\ IF allowed THEN TriggerRuns(f) ELSE UNCHANGED <<ran, accepted>>

WithoutFrame(s, i) == SubSeq(s, 1, i - 1) \o SubSeq(s, i + 1, Len(s))

DeliverFrame(i, again) ==
  /\ i \in DOMAIN air
  /\ IF air[i].batch THEN HandleBatch(air[i]) ELSE HandleSingle(air[i])
  /\ air' = IF again THEN air ELSE WithoutFrame(air, i)
  /\ UNCHANGED <<nextSeq, sent, allowed, boots>>

LoseFrame(i) ==
  /\ i \in DOMAIN air /\ air' = WithoutFrame(air, i)
  /\ UNCHANGED <<nextSeq, sent, dedup, allowed, boots, ran, accepted, lapse>>

(* pruneTopologyTriggerDedup_: an entry leaves after 15 s, when no frame of *)
(* its number is in the air any more.                                       *)
PruneDedup ==
  /\ dedup # << >> /\ \A i \in DOMAIN air : air[i].seq # Head(dedup)
  /\ dedup' = Tail(dedup)
  /\ UNCHANGED <<nextSeq, sent, air, allowed, boots, ran, accepted, lapse>>

TriggerCounts == boots < BootMax /\ boots' = boots + 1

(* A commit on the receiver adds the slot, or takes it away.                *)
TopologyChanges ==
  /\ TriggerCounts /\ allowed' = ~allowed
  /\ UNCHANGED <<nextSeq, sent, air, dedup, ran, accepted, lapse>>

(* The numbers of the sender and the table of the receiver are in memory.   *)
SenderBoots ==
  /\ TriggerCounts /\ nextSeq' = 1 /\ lapse' = (lapse \/ sent # 0)
  /\ UNCHANGED <<sent, air, dedup, allowed, ran, accepted>>

ReceiverBoots ==
  /\ TriggerCounts /\ dedup' = << >> /\ lapse' = (lapse \/ dedup # << >>)
  /\ UNCHANGED <<nextSeq, sent, air, allowed, ran, accepted>>

TriggerNext ==
  \/ \E batch \in BOOLEAN : SendTrigger(batch)
  \/ \E i \in DOMAIN air, again \in BOOLEAN : DeliverFrame(i, again)
  \/ \E i \in DOMAIN air : LoseFrame(i)
  \/ PruneDedup \/ TopologyChanges \/ SenderBoots \/ ReceiverBoots

TriggerSpec == TriggerInit /\ [][TriggerNext]_triggerVars

-----------------------------------------------------------------------------
TriggerTypeOK ==
  /\ nextSeq \in 1 .. SeqMax /\ sent \in 0 .. TriggerMax
  /\ air \in Seq(Frames) /\ dedup \in Seq(1 .. SeqMax) /\ Len(dedup) <= DedupMax
  /\ allowed \in BOOLEAN /\ boots \in 0 .. BootMax
  /\ ran \in [Triggers -> 0 .. 2] /\ accepted \subseteq Triggers /\ lapse \in BOOLEAN

(* A trigger runs once however often its frame arrives, and an answer that  *)
(* accepts it says that it ran; across changes of the topology, and unless  *)
(* a device restarted, the table overflowed or a batch was refused, which   *)
(* the table does not survive.                                              *)
RunsOnce == ~lapse => /\ \A i \in Triggers : ran[i] <= 1
                      /\ \A i \in accepted : ran[i] = 1
=============================================================================
