-------------------------- MODULE FirmwareProofs --------------------------
(***************************************************************************)
(* Proofs about FirmwareStream: its types, that a push reported as done was *)
(* promoted by the slave, and that what the master believes acknowledged    *)
(* was received.                                                            *)
(*                                                                         *)
(* The inductive invariant PushInv says of a push that started while no     *)
(* frame with its id was under way: frames to the slave with its id are its *)
(* own; the slave keeps an old verdict with its id only as long as nothing  *)
(* of the push is acknowledged or about to be; and an old verdict in the    *)
(* master's queue is ahead of every report of progress.  The master waits   *)
(* for a verdict only once everything is acknowledged.  Of a push with a    *)
(* new id it says that every offset reported or kept is a prefix of what    *)
(* was taken.                                                               *)
(***************************************************************************)
EXTENDS FirmwareStream, SequenceTheorems, WellFoundedInduction, TLAPS

-----------------------------------------------------------------------------
(* Numbers.                                                                 *)
LEMMA LowestExists ==
  ASSUME NEW S \in SUBSET Nat, S # {}
  PROVE  \E n \in S : \A m \in S : n <= m
<1>1. PICK n \in S : \A m \in S : ~(<<m, n>> \in OpToRel(<, Nat))
  BY NatLessThanWellFounded, WFMin
<1>2. ASSUME NEW m \in S, m < n  PROVE FALSE
  <2>1. <<m, n>> \in Nat \X Nat /\ <<m, n>>[1] < <<m, n>>[2]
    BY <1>2
  <2>2. <<m, n>> \in OpToRel(<, Nat)
    BY <2>1 DEF OpToRel
  <2>3. QED BY <1>1, <2>2
<1>3. QED BY <1>2

LEMMA TimesGrows ==
  ASSUME NEW a \in Nat, NEW b \in Nat \ {0}
  PROVE  a * b \in Nat /\ a * b >= a
<1>1. b - 1 \in Nat /\ a * (b - 1) \in Nat /\ a * b = a * (b - 1) + a
  OBVIOUS
<1>2. QED BY <1>1

(* The prefix received without a gap.                                       *)
Prefix(n, got) == \A c \in Indices : c < n => c \in got

LEMMA ContiguousIs ==
  ASSUME NEW got \in SUBSET Indices
  PROVE  \E n \in Offsets : Prefix(n, got) /\ n \notin got
<1> DEFINE Missing == {n \in Offsets : n \notin got}
<1>1. Chunks \in Missing
  BY Sizes DEF Offsets, Indices
<1>2. Missing \in SUBSET Nat /\ Missing # {}
  BY <1>1, Sizes DEF Offsets
<1>3. PICK n \in Missing : \A m \in Missing : n <= m
  BY <1>2, LowestExists
<1>4. \A c \in Indices : c < n => c \in got
  BY <1>3, Sizes DEF Offsets, Indices
<1>5. QED BY <1>3, <1>4 DEF Prefix

LEMMA NextAckIs ==
  ASSUME fw.next \in Nat, fw.next >= 1, NEW e \in Offsets
  PROVE  NextAck(e) \in Nat /\ NextAck(e) > e
<1> DEFINE later == {n \in {fw.next + k * AckStep : k \in Offsets} : n > e}
<1>1. \A k \in Offsets : k * AckStep \in Nat /\ k * AckStep >= k /\ k \in Nat
  BY TimesGrows, Sizes DEF Offsets
<1>2. fw.next + e * AckStep > e
  BY <1>1
<1>3. later # {}
  BY <1>2
<1>4. \A n \in later : n \in Nat
  BY <1>1
<1>5. PICK low \in later : \A m \in later : low <= m
  BY <1>3, <1>4, LowestExists
<1>6. NextAck(e) \in later
  BY <1>5 DEF NextAck
<1>7. QED BY <1>4, <1>6

-----------------------------------------------------------------------------
(* Queues.  What a queue holds after a step is what it held, without some   *)
(* at its head, and perhaps one new frame at its end.                       *)
After(q, new, f) ==
  \E k \in {0, 1} : \A i \in DOMAIN new :
     \/ i \in Nat /\ i + k \in DOMAIN q /\ new[i] = q[i + k]
     \/ new[i] = f /\ \A j \in DOMAIN new : j \in Nat /\ j <= i

LEMMA AppendAfter ==
  ASSUME NEW S, NEW q \in Seq(S), NEW f \in S
  PROVE  Append(q, f) \in Seq(S) /\ After(q, Append(q, f), f)
<1>1. \A i \in DOMAIN Append(q, f) :
         \/ i \in Nat /\ i + 0 \in DOMAIN q /\ Append(q, f)[i] = q[i + 0]
         \/ Append(q, f)[i] = f /\ \A j \in DOMAIN Append(q, f) : j \in Nat /\ j <= i
  OBVIOUS
<1>2. QED BY <1>1 DEF After

LEMMA EnqueueAfter ==
  ASSUME NEW S, NEW q \in Seq(S), NEW f \in S
  PROVE  Enqueue(q, f) \in Seq(S) /\ After(q, Enqueue(q, f), f)
<1>1. CASE Len(q) >= QMax
  <2> DEFINE t == Tail(q)
  <2>1. q # << >>
    BY <1>1, Sizes
  <2>2. t \in Seq(S) /\ \A i \in DOMAIN t : i \in Nat /\ i + 1 \in DOMAIN q /\ t[i] = q[i + 1]
    BY <2>1
  <2> HIDE DEF t
  <2>3. Append(t, f) \in Seq(S) /\ \A i \in DOMAIN Append(t, f) :
           \/ i \in DOMAIN t /\ Append(t, f)[i] = t[i]
           \/ Append(t, f)[i] = f /\ \A j \in DOMAIN Append(t, f) : j \in Nat /\ j <= i
    BY <2>2
  <2>4. After(q, Append(t, f), f)
    BY <2>2, <2>3 DEF After
  <2>5. QED BY <1>1, <2>3, <2>4 DEF Enqueue, t
<1>2. CASE ~(Len(q) >= QMax)
  BY <1>2, AppendAfter DEF Enqueue
<1>3. QED BY <1>1, <1>2

LEMMA SameAfter ==
  ASSUME NEW S, NEW q \in Seq(S), NEW f
  PROVE  After(q, q, f)
<1>1. \A i \in DOMAIN q : i \in Nat /\ i + 0 \in DOMAIN q /\ q[i] = q[i + 0]
  OBVIOUS
<1>2. QED BY <1>1 DEF After

LEMMA TailAfter ==
  ASSUME NEW S, NEW q \in Seq(S), q # << >>, NEW f
  PROVE  /\ Tail(q) \in Seq(S) /\ After(q, Tail(q), f)
         /\ Head(q) = q[1] /\ Head(q) \in S /\ 1 \in DOMAIN q
<1>1. \A i \in DOMAIN Tail(q) : i \in Nat /\ i + 1 \in DOMAIN q /\ Tail(q)[i] = q[i + 1]
  OBVIOUS
<1>2. QED BY <1>1 DEF After

LEMMA DeliversAfter ==
  ASSUME NEW S, NEW q \in Seq(S), NEW f \in S, NEW new, NEW ty, Delivers(q, new, f, ty)
  PROVE  new \in Seq(S) /\ After(q, new, f)
BY EnqueueAfter, SameAfter DEF Delivers

LEMMA LostTyped ==
  ASSUME lost \in [count : 0 .. MaxLost, others : BOOLEAN], NEW q, NEW new, NEW f, NEW ty,
         Delivers(q, new, f, ty)
  PROVE  lost' \in [count : 0 .. MaxLost, others : BOOLEAN]
<1>1. CASE lost' = lost
  BY <1>1
<1>2. CASE lost.count < MaxLost /\ lost' = [count |-> lost.count + 1, others |-> lost.others \/ ty # "Chunk"]
  <2>1. lost.count + 1 \in 0 .. MaxLost
    BY <1>2, Sizes
  <2>2. (lost.others \/ ty # "Chunk") \in BOOLEAN
    OBVIOUS
  <2>3. QED BY <1>2, <2>1, <2>2
<1>3. QED BY <1>1, <1>2 DEF Delivers

(* What a queue of frames says of a request id.                             *)
OnlyOf(q, i, n)     == \A k \in DOMAIN q : q[k].id = i => q[k].no = n
IsProgress(f, i)    == f.id = i /\ f.type \in {"Ack", "Nack"}
IsVerdict(f, i)     == f.id = i /\ f.type = "Ok"
NoProgress(q, i)    == \A k \in DOMAIN q : ~IsProgress(q[k], i)
NoVerdict(q, i)     == \A k \in DOMAIN q : ~IsVerdict(q[k], i)
VerdictsFirst(q, i) == \A j, k \in DOMAIN q : IsProgress(q[j], i) /\ IsVerdict(q[k], i) => k < j
AllTaken(q, i, got) == \A k \in DOMAIN q : IsProgress(q[k], i) => Prefix(q[k].off, got)

LEMMA AfterOnlyOf ==
  ASSUME NEW q, NEW new, NEW f, After(q, new, f), NEW i, NEW n, OnlyOf(q, i, n), f.id = i => f.no = n
  PROVE  OnlyOf(new, i, n)
BY DEF After, OnlyOf

LEMMA AfterNoProgress ==
  ASSUME NEW q, NEW new, NEW f, After(q, new, f), NEW i, NoProgress(q, i), ~IsProgress(f, i)
  PROVE  NoProgress(new, i)
BY DEF After, NoProgress

LEMMA AfterNoVerdict ==
  ASSUME NEW q, NEW new, NEW f, After(q, new, f), NEW i, NoVerdict(q, i), ~IsVerdict(f, i)
  PROVE  NoVerdict(new, i)
BY DEF After, NoVerdict

LEMMA AfterAllTaken ==
  ASSUME NEW q, NEW new, NEW f, After(q, new, f), NEW i, NEW got, AllTaken(q, i, got),
         IsProgress(f, i) => Prefix(f.off, got)
  PROVE  AllTaken(new, i, got)
BY DEF After, AllTaken

LEMMA AfterVerdictsFirst ==
  ASSUME NEW S, NEW q \in Seq(S), NEW new \in Seq(S), NEW f, After(q, new, f), NEW i, VerdictsFirst(q, i),
         IsVerdict(f, i) => NoProgress(q, i)
  PROVE  VerdictsFirst(new, i)
<1>1. PICK s \in {0, 1} : \A k \in DOMAIN new :
         \/ k \in Nat /\ k + s \in DOMAIN q /\ new[k] = q[k + s]
         \/ new[k] = f /\ \A j \in DOMAIN new : j \in Nat /\ j <= k
  BY DEF After
<1>2. SUFFICES ASSUME NEW j \in DOMAIN new, NEW k \in DOMAIN new, IsProgress(new[j], i), IsVerdict(new[k], i)
               PROVE  k < j
  BY DEF VerdictsFirst
<1>3. j # k /\ j \in Nat /\ k \in Nat
  BY <1>2 DEF IsProgress, IsVerdict
<1>4. CASE \A m \in DOMAIN new : m <= j
  BY <1>3, <1>4
<1>5. CASE j + s \in DOMAIN q /\ new[j] = q[j + s]
  <2>1. ~IsVerdict(f, i)
    BY <1>2, <1>5 DEF NoProgress
  <2>2. k + s \in DOMAIN q /\ new[k] = q[k + s]
    BY <1>1, <1>2, <2>1
  <2>3. k + s < j + s
    BY <1>2, <1>5, <2>2 DEF VerdictsFirst
  <2>4. QED BY <1>3, <2>3
<1>6. QED BY <1>1, <1>4, <1>5

-----------------------------------------------------------------------------
(* The inductive invariant.                                                 *)

Receivings == [active : BOOLEAN, id : Nat, no : 0 .. MaxPushes, got : SUBSET Indices]
Transfers  == [corr : Nat, size : {0, Chunks}, last : Offsets, acked : Offsets, next : Nat,
               nacked : Offsets \cup {Chunks + 1}]
Verdicts   == [pending : BOOLEAN, kind : {"Ok", "Fail"}, corr : Nat, off : Offsets]
Events     == [corr : Nat, seq : Nat]
Losses     == [count : 0 .. MaxLost, others : BOOLEAN]

(* The parts of TypeOK of the two devices and of the histories.             *)
MasterTypes == /\ push \in Sessions /\ upd \in {"Idle", "Push", "WaitBoot"}
               /\ push.active => push.no = Len(outcome)
QueueTypes  == /\ down \in Seq(DownFrames) /\ acks \in Seq(Nat) /\ pull \in Seq(Commands)
               /\ up \in Seq(UpFrames) /\ lost \in Losses
SlaveTypes  == /\ rx \in Receivings /\ image \in 0 .. MaxPushes
               /\ fw \in Transfers /\ fin \in Verdicts /\ event \in Events
PastTypes   == /\ outcome \in Seq(Outcomes) /\ Len(outcome) <= MaxPushes
               /\ promoted \subseteq Pushes /\ accepted \subseteq Indices /\ used \subseteq Ids

(* What a frame in the air says belongs to a push that was started.         *)
DownKnown(f, ids) == f.id \in ids /\ f.no \in Pushes /\ (f.type = "Chunk" => f.off \in Indices)
UpKnown(f, ids)   == f.type # "Ready" => f.id \in ids

AllDown(q, ids) == \A k \in DOMAIN q : DownKnown(q[k], ids)
AllUp(q, ids)   == \A k \in DOMAIN q : UpKnown(q[k], ids)
FramesKnown     == AllDown(down, used) /\ AllUp(up, used)

(* So do the ids the slave keeps; a verdict that is repeated is not of the  *)
(* transfer under way.                                                      *)
IdsKnown == /\ rx.id \in used \cup {0} /\ fw.corr \in used \cup {0}
            /\ fw.corr # 0 => fw.next >= 1
            /\ fin.pending => fin.corr \in used /\ fin.corr # fw.corr

(* The window of a session: no chunk before next was skipped, and the push  *)
(* waits for its verdict only when all is acknowledged.                     *)
Windowed(s) == /\ s.no \in Pushes /\ s.id \in Ids
               /\ s.phase = "WaitBegin" => s.next = 0 /\ s.pend = 0 /\ ~s.waiting
               /\ s.phase = "Streaming" =>
                    /\ s.waiting => s.next <= s.pend
                    /\ ~s.waiting /\ s.pend # 0 => s.next < s.pend
                    /\ s.pend = 0 => s.next <= s.acked
               /\ s.phase = "WaitEnd" => s.acked = Chunks

SessionKept == push.active => Windowed(push) /\ push.id \in used /\ outcome[push.no] = "Running"

(* An old verdict with the id of a push that started alone can only be in   *)
(* the air before anything of this push is acknowledged, and comes first.   *)
OldVerdict(id) == fin.pending /\ fin.corr = id /\ fin.kind = "Ok"

NotYet(id) == /\ OldVerdict(id) => push.acked = 0 /\ NoProgress(up, id)
              /\ VerdictsFirst(up, id)
              /\ push.acked = 0 \/ NoVerdict(up, id)

VerdictKept == push.active /\ push.alone => /\ OnlyOf(down, push.id, push.no)
                                            /\ push.no \in promoted \/ NotYet(push.id)

(* What anybody believes acknowledged of a push with a new id was taken.    *)
TakenSoFar == /\ OnlyOf(down, push.id, push.no)
              /\ Prefix(push.acked, accepted) /\ AllTaken(up, push.id, accepted)
              /\ fw.corr = push.id => Prefix(fw.last, accepted)
              /\ rx.id = push.id => rx.got \subseteq accepted

TakenKept == push.active /\ push.fresh => TakenSoFar

StreamTypes == MasterTypes /\ QueueTypes /\ SlaveTypes /\ PastTypes
PushInv == StreamTypes /\ FramesKnown /\ IdsKnown /\ SessionKept /\ VerdictKept /\ TakenKept

-----------------------------------------------------------------------------
(* Steps of the master: what its pump, its timers and the reports that end  *)
(* a push have in common.                                                   *)

SameSession == /\ push.active /\ push' \in Sessions /\ push'.active
               /\ push'.id = push.id /\ push'.no = push.no
               /\ push'.fresh = push.fresh /\ push'.alone = push.alone

(* The session goes on, has ended, or is what it was.                       *)
PushMoves == \/ push' = push
             \/ push' = NoSession
             \/ SameSession /\ Windowed(push') /\ push'.acked = push.acked

OwnFrame(d) == /\ d \in DownFrames /\ push.active /\ d.id = push.id /\ d.no = push.no
               /\ d.type = "Chunk" => d.off \in Indices

Silence == Status("Ready", EventSeq0, 0)

MasterMoves ==
  /\ PushMoves
  /\ upd' \in {"Idle", "Push", "WaitBoot"}
  /\ outcome' \in Seq(Outcomes) /\ Len(outcome') = Len(outcome)
  /\ push'.active => outcome' = outcome
  /\ down' = down \/ \E d : OwnFrame(d) /\ down' \in Seq(DownFrames) /\ After(down, down', d)
  /\ acks' \in Seq(Nat) /\ pull' \in Seq(Commands)
  /\ up' \in Seq(UpFrames) /\ After(up, up', Silence)
  /\ lost' \in Losses
  /\ UNCHANGED <<slaveVars, promoted, accepted, used>>

LEMMA TypesAre == TypeOK <=> StreamTypes
BY DEF TypeOK, StreamTypes, MasterTypes, QueueTypes, SlaveTypes, PastTypes,
       Receivings, Transfers, Verdicts, Events, Losses

LEMMA SilenceIs ==
  /\ Silence \in UpFrames /\ Silence.type = "Ready" /\ Silence.id = EventSeq0
BY Sizes DEF Silence, Status, UpFrames, Offsets

LEMMA NoSessionIs == NoSession \in Sessions /\ ~NoSession.active
BY Sizes DEF NoSession, Sessions, Offsets

LEMMA QueueTyped ==
  ASSUME QueueTypes, NEW c \in Commands, NEW n \in Nat
  PROVE  /\ Enqueue(pull, c) \in Seq(Commands) /\ Enqueue(Enqueue(pull, c), c) \in Seq(Commands)
         /\ Enqueue(acks, n) \in Seq(Nat)
BY EnqueueAfter DEF QueueTypes

LEMMA EndTyped ==
  ASSUME outcome \in Seq(Outcomes), NEW why \in Outcomes, NEW n
  PROVE  [outcome EXCEPT ![n] = why] \in Seq(Outcomes)
         /\ Len([outcome EXCEPT ![n] = why]) = Len(outcome)
<1>1. CASE n \in 1 .. Len(outcome)
  BY <1>1, ExceptSeq, LenProperties
<1>2. CASE n \notin 1 .. Len(outcome)
  <2>1. [outcome EXCEPT ![n] = why] = outcome
    BY <1>2, LenProperties
  <2>2. QED BY <2>1
<1>3. QED BY <1>1, <1>2

LEMMA PullTyped ==
  ASSUME QueueTypes, NEW c \in Commands, SendPull(c)
  PROVE  pull' \in Seq(Commands) /\ lost' \in Losses
BY DeliversAfter, LostTyped DEF QueueTypes, Losses, SendPull

LEMMA NothingTyped ==
  ASSUME QueueTypes, SendNothing(pull, pull')
  PROVE  pull' \in Seq(Commands) /\ lost' \in Losses
BY DEF QueueTypes, Losses, SendNothing

(* A push that fails.                                                       *)
LEMMA StopFailedMoves ==
  ASSUME StreamTypes, NEW clears, NEW why \in Outcomes, StopFailed(clears, why)
  PROVE  /\ push' = NoSession /\ upd' = "Idle"
         /\ outcome' \in Seq(Outcomes) /\ Len(outcome') = Len(outcome)
         /\ pull' \in Seq(Commands) /\ lost' \in Losses
<1>1. pull' \in Seq(Commands) /\ lost' \in Losses
  <2>1. "Clear" \in Commands
    BY DEF Commands
  <2>2. QED BY <2>1, PullTyped, NothingTyped DEF StreamTypes, StopFailed
<1>2. QED BY <1>1, EndTyped DEF StreamTypes, PastTypes, StopFailed

(* ... and one that is done.                                                *)
LEMMA StopDoneMoves ==
  ASSUME StreamTypes, StopDone
  PROVE  /\ push' = NoSession /\ upd' \in {"Idle", "Push", "WaitBoot"}
         /\ outcome' \in Seq(Outcomes) /\ Len(outcome') = Len(outcome)
         /\ pull' \in Seq(Commands) /\ lost' \in Losses
<1>1. pull' \in Seq(Commands) /\ lost' \in Losses
  <2>1. "Apply" \in Commands
    BY DEF Commands
  <2>2. QED BY <2>1, PullTyped, NothingTyped DEF StreamTypes, StopDone
<1>2. "Done" \in Outcomes
  BY DEF Outcomes
<1>3. outcome' \in Seq(Outcomes) /\ Len(outcome') = Len(outcome)
  BY <1>2, EndTyped DEF StreamTypes, PastTypes, StopDone
<1>4. QED BY <1>1, <1>3 DEF StreamTypes, MasterTypes, StopDone

(* The up queue of a master that only pumps.                                *)
LEMMA UpStays ==
  ASSUME StreamTypes, up' = up
  PROVE  up' \in Seq(UpFrames) /\ After(up, up', Silence)
BY SameAfter DEF StreamTypes, QueueTypes

LEMMA TailSilence ==
  ASSUME StreamTypes, NEW f, Reports(f)
  PROVE  /\ up' \in Seq(UpFrames) /\ After(up, up', Silence)
         /\ 1 \in DOMAIN up /\ up[1] = f /\ f \in UpFrames
BY TailAfter DEF StreamTypes, QueueTypes, Reports

-----------------------------------------------------------------------------
(* Every action of the master but a start and the progress reports.         *)

LEMMA ZeroOffset == 0 \in Offsets
BY Sizes DEF Offsets

LEMMA OwnTyped ==
  ASSUME MasterTypes, PastTypes, push.active, SessionKept, NEW ty \in {"Begin", "Chunk", "End"},
         NEW off \in Offsets, ty = "Chunk" => off \in Indices
  PROVE  OwnFrame(Down(ty, off)) /\ Down(ty, off).id = push.id /\ Down(ty, off).no = push.no
BY DEF OwnFrame, Down, DownFrames, MasterTypes, Sessions

LEMMA DownGoes ==
  ASSUME QueueTypes, NEW d, OwnFrame(d), SendDown(d)
  PROVE  /\ \E e : OwnFrame(e) /\ down' \in Seq(DownFrames) /\ After(down, down', e)
         /\ lost' \in Losses
<1>1. d \in DownFrames
  BY DEF OwnFrame
<1>2. down' \in Seq(DownFrames) /\ After(down, down', d)
  BY <1>1, DeliversAfter DEF QueueTypes, SendDown
<1>3. QED BY <1>2, LostTyped DEF QueueTypes, SendDown, Losses

LEMMA FailedMoves ==
  ASSUME StreamTypes, NEW clears, NEW why \in Outcomes, StopFailed(clears, why),
         UNCHANGED <<down, acks, up, slaveVars, promoted, accepted, used>>
  PROVE  MasterMoves
<1>1. acks' \in Seq(Nat)
  BY DEF StreamTypes, QueueTypes
<1>2. QED BY <1>1, StopFailedMoves, UpStays, NoSessionIs DEF MasterMoves, PushMoves

LEMMA StartRefusedMoves == ASSUME StreamTypes, StartRefused PROVE MasterMoves
<1>1. pull' \in Seq(Commands)
  BY QueueTyped DEF StartRefused, StreamTypes, Commands
<1>2. QED
  BY <1>1, UpStays DEF StartRefused, MasterMoves, PushMoves, StreamTypes, MasterTypes,
       QueueTypes, PastTypes, masterVars, history

(* What the pump does with a session that goes on.                          *)
LEMMA GoesOnMoves ==
  ASSUME StreamTypes, SameSession, Windowed(push'), push'.acked = push.acked,
         UNCHANGED <<upd, outcome, acks, pull, up, slaveVars, promoted, accepted, used>>,
         down' = down \/ \E d : OwnFrame(d) /\ down' \in Seq(DownFrames) /\ After(down, down', d),
         lost' \in Losses
  PROVE  MasterMoves
BY UpStays DEF MasterMoves, PushMoves, StreamTypes, MasterTypes, QueueTypes, PastTypes

LEMMA PumpWaitBeginMoves == ASSUME StreamTypes, SessionKept, PumpWaitBegin PROVE MasterMoves
<1>1. CASE StopFailed(TRUE, "Failed")
  BY <1>1, FailedMoves DEF PumpWaitBegin, Outcomes
<1>2. CASE push' = Streaming(push) /\ UNCHANGED <<upd, outcome, pull, lost>>
  <2>1. SameSession /\ push'.acked = push.acked
    BY <1>2 DEF SameSession, Streaming, PumpWaitBegin, StreamTypes, MasterTypes, Sessions
  <2>2. Windowed(push')
    BY <1>2, Sizes DEF Windowed, SessionKept, Streaming, PumpWaitBegin, StreamTypes, MasterTypes,
         Sessions, Offsets
  <2>3. QED BY <1>2, <2>1, <2>2, GoesOnMoves DEF PumpWaitBegin, StreamTypes, QueueTypes
<1>3. QED BY <1>1, <1>2 DEF PumpWaitBegin

LEMMA PumpWaitEndMoves == ASSUME StreamTypes, PumpWaitEnd PROVE MasterMoves
BY FailedMoves DEF PumpWaitEnd, Outcomes

LEMMA PumpAckSeenMoves == ASSUME StreamTypes, SessionKept, PumpAckSeen PROVE MasterMoves
<1>1. SameSession /\ push'.acked = push.acked
  BY ZeroOffset DEF SameSession, NoLongerWaits, PumpAckSeen, Waits, StreamTypes, MasterTypes, Sessions
<1>2. Windowed(push')
  BY Sizes DEF Windowed, SessionKept, NoLongerWaits, PumpAckSeen, Waits, StreamTypes, MasterTypes,
       Sessions, Offsets
<1>3. QED
  BY <1>1, <1>2, GoesOnMoves DEF PumpAckSeen, queues, history, StreamTypes, QueueTypes

LEMMA PumpAckTimeoutMoves == ASSUME StreamTypes, SessionKept, PumpAckTimeout PROVE MasterMoves
<1>1. CASE StopFailed(TRUE, "Failed")
  BY <1>1, FailedMoves DEF PumpAckTimeout, Outcomes
<1>2. CASE /\ push' = [push EXCEPT !.retry = @ + 1, !.waiting = FALSE, !.pend = 0,
                                   !.next = Least(push.acked, Chunks)]
           /\ UNCHANGED <<upd, outcome, pull, lost>>
  <2>a. Least(push.acked, Chunks) \in Offsets
    BY Sizes DEF Least, StreamTypes, MasterTypes, Sessions, Offsets
  <2> DEFINE low == Least(push.acked, Chunks)
             more == push.retry + 1
  <2>b. more \in Nat /\ push.active
    BY DEF StreamTypes, MasterTypes, Sessions, PumpAckTimeout, Waits
  <2>c. push' = [push EXCEPT !.retry = more, !.waiting = FALSE, !.pend = 0, !.next = low]
    BY <1>2
  <2> HIDE DEF low, more
  <2>1. SameSession /\ push'.acked = push.acked
    BY <2>a, <2>b, <2>c, ZeroOffset DEF SameSession, StreamTypes, MasterTypes, Sessions, low
  <2>2. Windowed(push')
    BY <1>2, Sizes DEF Windowed, SessionKept, Least, PumpAckTimeout, Waits, StreamTypes, MasterTypes,
         Sessions, Offsets
  <2>3. QED BY <1>2, <2>1, <2>2, GoesOnMoves DEF PumpAckTimeout, StreamTypes, QueueTypes
<1>3. QED BY <1>1, <1>2 DEF PumpAckTimeout

LEMMA PumpEndMoves == ASSUME StreamTypes, SessionKept, PumpEnd PROVE MasterMoves
<1>1. CASE StopFailed(TRUE, "Stopped") /\ UNCHANGED down
  BY <1>1, FailedMoves DEF PumpEnd, Outcomes
<1>2. CASE /\ SendDown(Down("End", Chunks)) /\ push' = [push EXCEPT !.phase = "WaitEnd"]
           /\ UNCHANGED <<upd, pull, outcome>>
  <2>1. SameSession /\ push'.acked = push.acked
    BY <1>2 DEF SameSession, PumpEnd, Sends, StreamTypes, MasterTypes, Sessions
  <2>2. push.acked = Chunks
    BY Sizes DEF PumpEnd, Sends, SessionKept, Windowed, StreamTypes, MasterTypes, Sessions, Offsets
  <2>3. Windowed(push')
    BY <1>2, <2>2, Sizes DEF Windowed, SessionKept, PumpEnd, Sends, StreamTypes, MasterTypes, Sessions
  <2>4. OwnFrame(Down("End", Chunks))
    BY OwnTyped, Sizes DEF PumpEnd, Sends, StreamTypes, Offsets
  <2>5. QED BY <1>2, <2>1, <2>3, <2>4, DownGoes, GoesOnMoves DEF PumpEnd, StreamTypes
<1>3. QED BY <1>1, <1>2 DEF PumpEnd

(* A window begins behind the next chunk and ends within the image.         *)
LEMMA WindowEndIs ==
  ASSUME MasterTypes, SessionKept, Sends, push.next < Chunks
  PROVE  WindowEnd(push) \in Offsets /\ push.next < WindowEnd(push)
<1>1. Window \in Nat \ {0} /\ Chunks \in Nat \ {0}
  BY Sizes
<1>2. push.next \in 0 .. Chunks /\ push.pend \in 0 .. Chunks /\ push.window \in {1, Window}
  BY DEF MasterTypes, Sessions, Offsets
<1>3. push.pend # 0 => push.next < push.pend
  BY DEF SessionKept, Sends, Windowed
<1>4. QED BY <1>1, <1>2, <1>3 DEF WindowEnd, Least, Offsets

LEMMA PumpChunkMoves == ASSUME StreamTypes, SessionKept, PumpChunk PROVE MasterMoves
<1> DEFINE e == WindowEnd(push)
<1>1. e \in Offsets /\ push.next < e
  BY WindowEndIs DEF PumpChunk, StreamTypes
<1>2. push' = Sent(push, e) /\ push.active /\ push.phase = "Streaming" /\ push.next < Chunks
  BY DEF PumpChunk, Sends
<1> HIDE DEF e
<1>3. push.next + 1 \in Offsets /\ push.next \in Indices /\ push.next \in Offsets
  BY <1>2, Sizes DEF StreamTypes, MasterTypes, Sessions, Offsets, Indices
<1>4. (push.next + 1 >= e) \in BOOLEAN
  OBVIOUS
<1> DEFINE waits == push.next + 1 >= e
           retry == IF waits THEN 0 ELSE push.retry
           next  == push.next + 1
<1>a. push' = [push EXCEPT !.fails = 0, !.next = next, !.pend = e, !.waiting = waits,
                           !.retry = retry]
  BY <1>2 DEF Sent
<1>b. retry \in Nat
  BY DEF StreamTypes, MasterTypes, Sessions
<1>c. push.next \in Nat /\ e \in Nat /\ (waits <=> push.next + 1 >= e)
  BY <1>1, <1>3, Sizes DEF Offsets
<1>d. next = push.next + 1
  OBVIOUS
<1>e. next \in Offsets /\ waits \in BOOLEAN /\ e \in Offsets /\ push.active
  BY <1>1, <1>2, <1>3, <1>4
<1> HIDE DEF waits, retry, next
<1>5. SameSession /\ push'.acked = push.acked
  BY <1>a, <1>b, <1>e, ZeroOffset DEF SameSession, StreamTypes, MasterTypes, Sessions
<1>6. Windowed(push')
  <2>1. /\ push'.no = push.no /\ push'.id = push.id /\ push'.phase = "Streaming"
        /\ push'.next = next /\ push'.pend = e /\ push'.waiting = waits
    BY <1>2, <1>a DEF StreamTypes, MasterTypes, Sessions
  <2>2. push.no \in Pushes /\ push.id \in Ids
    BY <1>2 DEF SessionKept, Windowed
  <2>3. QED BY <1>1, <1>c, <1>d, <2>1, <2>2 DEF Windowed
<1>7. OwnFrame(Down("Chunk", push.next))
  BY <1>2, <1>3, OwnTyped DEF StreamTypes
<1>8. QED BY <1>5, <1>6, <1>7, DownGoes, GoesOnMoves DEF PumpChunk, StreamTypes, history

LEMMA PumpChunkRefusedMoves == ASSUME StreamTypes, SessionKept, PumpChunkRefused PROVE MasterMoves
<1> DEFINE e == WindowEnd(push)
<1>1. e \in Offsets /\ push.next < e
  BY WindowEndIs DEF PumpChunkRefused, StreamTypes
<1>2. CASE StopFailed(TRUE, "Stopped")
  BY <1>2, FailedMoves DEF PumpChunkRefused, Outcomes
<1>3. CASE push' = [push EXCEPT !.fails = @ + 1, !.pend = e] /\ UNCHANGED <<upd, pull, outcome, lost>>
  <2> HIDE DEF e
  <2>1. push.active /\ push.phase = "Streaming" /\ ~push.waiting
    BY DEF PumpChunkRefused, Sends
  <2>a. push.fails + 1 \in Nat
    BY DEF StreamTypes, MasterTypes, Sessions
  <2>2. SameSession /\ push'.acked = push.acked
    BY <1>1, <1>3, <2>1, <2>a DEF SameSession, StreamTypes, MasterTypes, Sessions
  <2>3. Windowed(push')
    BY <1>1, <1>3, <2>1, Sizes DEF Windowed, SessionKept, StreamTypes, MasterTypes, Sessions, Offsets
  <2>4. QED BY <1>3, <2>2, <2>3, GoesOnMoves DEF PumpChunkRefused, StreamTypes, QueueTypes
<1>4. QED BY <1>2, <1>3 DEF PumpChunkRefused

LEMMA PumpGivesUpMoves == ASSUME StreamTypes, PumpGivesUp PROVE MasterMoves
BY FailedMoves DEF PumpGivesUp, Outcomes

LEMMA AbortMoves == ASSUME StreamTypes, Abort PROVE MasterMoves
<1>1. "Clear" \in Commands /\ "Stopped" \in Outcomes
  BY DEF Commands, Outcomes
<1>2. pull' \in Seq(Commands)
  BY <1>1, QueueTyped DEF Abort, StreamTypes, QueueTypes
<1>3. outcome' \in Seq(Outcomes) /\ Len(outcome') = Len(outcome)
  BY <1>1, EndTyped DEF Abort, StreamTypes, PastTypes
<1>4. acks' \in Seq(Nat) /\ lost' \in Losses
  BY DEF Abort, StreamTypes, QueueTypes
<1>5. QED BY <1>2, <1>3, <1>4, UpStays, NoSessionIs DEF Abort, MasterMoves, PushMoves

LEMMA UpdateEndsMoves == ASSUME StreamTypes, UpdateEnds PROVE MasterMoves
BY UpStays DEF UpdateEnds, MasterMoves, PushMoves, StreamTypes, QueueTypes, PastTypes, queues, history

LEMMA OnFinalizeMoves == ASSUME StreamTypes, FramesKnown, NEW f, OnFinalize(f) PROVE MasterMoves
<1>1. /\ up' \in Seq(UpFrames) /\ After(up, up', Silence) /\ f \in UpFrames
  BY TailSilence DEF OnFinalize
<1>2. acks' \in Seq(Nat)
  <2>1. f.id \in Nat
    BY <1>1 DEF UpFrames
  <2>2. acks \in Seq(Nat) /\ Enqueue(acks, f.id) \in Seq(Nat)
    BY <2>1, EnqueueAfter DEF StreamTypes, QueueTypes
  <2>3. QED BY <2>2 DEF OnFinalize
<1>3. CASE UNCHANGED <<push, upd, outcome, pull, lost>>
  BY <1>1, <1>2, <1>3
  DEF OnFinalize, MasterMoves, PushMoves, StreamTypes, MasterTypes, QueueTypes, PastTypes
<1>4. CASE StopDone
  BY <1>1, <1>2, <1>4, StopDoneMoves, NoSessionIs DEF OnFinalize, MasterMoves, PushMoves
<1>5. CASE StopFailed(TRUE, "Failed")
  BY <1>1, <1>2, <1>5, StopFailedMoves, NoSessionIs DEF OnFinalize, MasterMoves, PushMoves, Outcomes
<1>6. QED BY <1>3, <1>4, <1>5 DEF OnFinalize

LEMMA OnTransferReadyMoves == ASSUME StreamTypes, NEW f, OnTransferReady(f) PROVE MasterMoves
<1>1. up' \in Seq(UpFrames) /\ After(up, up', Silence)
  BY TailSilence DEF OnTransferReady
<1>2. acks' \in Seq(Nat)
  BY DEF OnTransferReady, StreamTypes, QueueTypes
<1>3. CASE UNCHANGED <<push, upd, outcome, pull, lost>>
  BY <1>1, <1>2, <1>3
  DEF OnTransferReady, MasterMoves, PushMoves, StreamTypes, MasterTypes, QueueTypes, PastTypes
<1>4. CASE StopDone
  BY <1>1, <1>2, <1>4, StopDoneMoves, NoSessionIs DEF OnTransferReady, MasterMoves, PushMoves
<1>5. QED BY <1>3, <1>4 DEF OnTransferReady

LEMMA MasterRebootMoves == ASSUME StreamTypes, MasterReboot PROVE MasterMoves
<1>1. up' \in Seq(UpFrames) /\ After(up, up', Silence)
  BY EmptySeq DEF MasterReboot, After
<1>2. QED
  BY <1>1, NoSessionIs DEF MasterReboot, MasterMoves, PushMoves, StreamTypes, QueueTypes, PastTypes, history

LEMMA StutterMoves == ASSUME StreamTypes, UNCHANGED vars PROVE MasterMoves
BY UpStays DEF vars, masterVars, queues, history, MasterMoves, PushMoves, StreamTypes, MasterTypes,
     QueueTypes, PastTypes

-----------------------------------------------------------------------------
(* A step of the master that only stops or goes on with its session keeps   *)
(* the invariant.                                                           *)

LEMMA AfterDownKnown ==
  ASSUME NEW q, NEW new, NEW ids, AllDown(q, ids), NEW f, After(q, new, f), DownKnown(f, ids)
  PROVE  AllDown(new, ids)
BY DEF After, AllDown

LEMMA AfterUpKnown ==
  ASSUME NEW q, NEW new, NEW ids, AllUp(q, ids), NEW f, After(q, new, f), UpKnown(f, ids)
  PROVE  AllUp(new, ids)
BY DEF After, AllUp

LEMMA NoteSilence ==
  ASSUME NEW i
  PROVE  ~IsProgress(Silence, i) /\ ~IsVerdict(Silence, i) /\ \A ids : UpKnown(Silence, ids)
BY SilenceIs, Sizes DEF IsProgress, IsVerdict, UpKnown

LEMMA OldKept ==
  ASSUME NEW i, After(up, up', Silence), QueueTypes, up' \in Seq(UpFrames)
  PROVE  /\ NoProgress(up, i) => NoProgress(up', i)
         /\ NoVerdict(up, i) => NoVerdict(up', i)
         /\ VerdictsFirst(up, i) => VerdictsFirst(up', i)
         /\ \A got : AllTaken(up, i, got) => AllTaken(up', i, got)
<1>1. ~IsProgress(Silence, i) /\ ~IsVerdict(Silence, i)
  BY NoteSilence
<1>2. NoProgress(up, i) => NoProgress(up', i)
  BY <1>1, AfterNoProgress
<1>3. NoVerdict(up, i) => NoVerdict(up', i)
  BY <1>1, AfterNoVerdict
<1>4. VerdictsFirst(up, i) => VerdictsFirst(up', i)
  BY <1>1, AfterVerdictsFirst DEF QueueTypes
<1>5. \A got : AllTaken(up, i, got) => AllTaken(up', i, got)
  BY <1>1, AfterAllTaken
<1>6. QED BY <1>2, <1>3, <1>4, <1>5

LEMMA MasterTyped == ASSUME PushInv, MasterMoves PROVE StreamTypes'
<1>1. push' \in Sessions /\ (push'.active => push.active /\ push'.no = push.no)
  BY NoSessionIs DEF MasterMoves, PushMoves, SameSession, PushInv, StreamTypes, MasterTypes
<1>2. MasterTypes'
  BY <1>1 DEF MasterMoves, MasterTypes, PushInv, StreamTypes
<1>3. QueueTypes'
  BY DEF MasterMoves, QueueTypes, PushInv, StreamTypes
<1>4. SlaveTypes'
  BY DEF MasterMoves, slaveVars, SlaveTypes, PushInv, StreamTypes
<1>5. PastTypes'
  BY DEF MasterMoves, PastTypes, PushInv, StreamTypes
<1>6. QED BY <1>2, <1>3, <1>4, <1>5 DEF StreamTypes

LEMMA MasterFrames == ASSUME PushInv, MasterMoves PROVE FramesKnown'
<1>1. AllDown(down', used)
  <2>1. CASE down' = down
    BY <2>1 DEF PushInv, FramesKnown
  <2>2. ASSUME NEW d, OwnFrame(d), After(down, down', d)
        PROVE  AllDown(down', used)
    <3>1. DownKnown(d, used)
      BY <2>2 DEF OwnFrame, DownKnown, PushInv, SessionKept, Windowed
    <3>2. QED BY <2>2, <3>1, AfterDownKnown DEF PushInv, FramesKnown
  <2>3. QED BY <2>1, <2>2 DEF MasterMoves
<1>2. AllUp(up', used)
  BY AfterUpKnown, NoteSilence DEF MasterMoves, PushInv, FramesKnown
<1>3. used' = used
  BY DEF MasterMoves
<1>4. QED BY <1>1, <1>2, <1>3 DEF FramesKnown

LEMMA MasterIds == ASSUME PushInv, MasterMoves PROVE IdsKnown'
BY DEF PushInv, IdsKnown, MasterMoves, slaveVars

LEMMA MasterSession == ASSUME PushInv, MasterMoves PROVE SessionKept'
<1>1. CASE push' = push
  BY <1>1 DEF PushInv, SessionKept, MasterMoves
<1>2. CASE push' = NoSession
  BY <1>2, NoSessionIs DEF SessionKept
<1>3. CASE SameSession /\ Windowed(push')
  BY <1>3 DEF PushInv, SessionKept, MasterMoves, SameSession
<1>4. QED BY <1>1, <1>2, <1>3 DEF MasterMoves, PushMoves

(* The session, as far as the invariant looks at it, is the one before.     *)
LEMMA MasterGoesOn ==
  ASSUME MasterMoves, push'.active
  PROVE  /\ push.active /\ push'.id = push.id /\ push'.no = push.no /\ push'.fresh = push.fresh
         /\ push'.alone = push.alone /\ push'.acked = push.acked
BY NoSessionIs DEF MasterMoves, PushMoves, SameSession

LEMMA MasterOnly ==
  ASSUME PushInv, MasterMoves, push.active, OnlyOf(down, push.id, push.no)
  PROVE  OnlyOf(down', push.id, push.no)
BY AfterOnlyOf DEF MasterMoves, OwnFrame

LEMMA MasterVerdict == ASSUME PushInv, MasterMoves PROVE VerdictKept'
<1> SUFFICES ASSUME push'.active, push'.alone
             PROVE  OnlyOf(down, push.id, push.no)' /\ (push.no \in promoted \/ NotYet(push.id))'
  BY DEF VerdictKept
<1>1. /\ push.active /\ push.alone /\ push'.id = push.id /\ push'.no = push.no
      /\ push'.acked = push.acked
  BY MasterGoesOn
<1>2. OnlyOf(down, push.id, push.no) /\ (push.no \in promoted \/ NotYet(push.id))
  BY <1>1 DEF PushInv, VerdictKept
<1>3. OnlyOf(down, push.id, push.no)'
  BY <1>1, <1>2, MasterOnly
<1>4. ASSUME NotYet(push.id) PROVE NotYet(push.id)'
  <2>1. After(up, up', Silence) /\ up' \in Seq(UpFrames) /\ QueueTypes /\ fin' = fin
    BY DEF MasterMoves, PushInv, StreamTypes, slaveVars
  <2>2. QED BY <1>1, <1>4, <2>1, OldKept DEF NotYet, OldVerdict
<1>5. promoted' = promoted
  BY DEF MasterMoves
<1>6. QED BY <1>1, <1>2, <1>3, <1>4, <1>5

LEMMA MasterTaken == ASSUME PushInv, MasterMoves PROVE TakenKept'
<1> SUFFICES ASSUME push'.active, push'.fresh
             PROVE  /\ OnlyOf(down, push.id, push.no)'
                    /\ Prefix(push.acked, accepted)' /\ AllTaken(up, push.id, accepted)'
                    /\ (fw.corr = push.id => Prefix(fw.last, accepted))'
                    /\ (rx.id = push.id => rx.got \subseteq accepted)'
  BY DEF TakenKept, TakenSoFar
<1>1. /\ push.active /\ push.fresh /\ push'.id = push.id /\ push'.no = push.no
      /\ push'.acked = push.acked
  BY MasterGoesOn
<1>2. /\ OnlyOf(down, push.id, push.no)
      /\ Prefix(push.acked, accepted) /\ AllTaken(up, push.id, accepted)
      /\ fw.corr = push.id => Prefix(fw.last, accepted)
      /\ rx.id = push.id => rx.got \subseteq accepted
  BY <1>1 DEF PushInv, TakenKept, TakenSoFar
<1>3. OnlyOf(down, push.id, push.no)'
  BY <1>1, <1>2, MasterOnly
<1>4. After(up, up', Silence) /\ up' \in Seq(UpFrames) /\ QueueTypes /\ fw' = fw /\ rx' = rx
      /\ accepted' = accepted
  BY DEF MasterMoves, PushInv, StreamTypes, slaveVars
<1>5. AllTaken(up, push.id, accepted)'
  BY <1>1, <1>2, <1>4, OldKept
<1>6. QED BY <1>1, <1>2, <1>3, <1>4, <1>5

LEMMA MasterKeeps == ASSUME PushInv, MasterMoves PROVE PushInv'
BY MasterTyped, MasterFrames, MasterIds, MasterSession, MasterVerdict, MasterTaken DEF PushInv

-----------------------------------------------------------------------------
(* A start.                                                                 *)

BeginOf(id) == [type |-> "Begin", id |-> id, no |-> Len(outcome) + 1, off |-> 0]

LEMMA StartIs ==
  ASSUME PushInv, NEW id \in Ids, NEW update \in BOOLEAN, Start(id, update)
  PROVE  /\ push' \in Sessions /\ push'.active /\ push'.id = id /\ push'.no = Len(outcome) + 1
         /\ push'.acked = 0 /\ push'.fresh = (id \notin used) /\ push'.alone = NoneOf(id)
         /\ push'.phase = "WaitBegin" /\ push'.next = 0 /\ push'.pend = 0 /\ ~push'.waiting
         /\ Len(outcome) + 1 \in Pushes /\ id \in Nat \ {0}
<1>1. Len(outcome) \in Nat /\ Len(outcome) + 1 \in Pushes
  BY LenProperties, Sizes DEF PushInv, StreamTypes, PastTypes, Start, Pushes
<1>2. id \in Nat \ {0}
  BY Sizes
<1>3. (id \notin used) \in BOOLEAN /\ NoneOf(id) \in BOOLEAN
  BY DEF NoneOf
<1> DEFINE no == Len(outcome) + 1
<1>4. no \in 0 .. MaxPushes /\ no \in Pushes /\ Window \in {1, Window} /\ 0 \in Nat
  BY <1>1, Sizes DEF Pushes
<1>5. push' = [NoSession EXCEPT !.active = TRUE, !.id = id, !.no = no,
                                !.fresh = id \notin used, !.alone = NoneOf(id)]
  BY DEF Start, StartSession
<1> HIDE DEF no
<1>6. /\ push' \in Sessions /\ push'.active /\ push'.id = id /\ push'.no = no
      /\ push'.acked = 0 /\ push'.fresh = (id \notin used) /\ push'.alone = NoneOf(id)
      /\ push'.phase = "WaitBegin" /\ push'.next = 0 /\ push'.pend = 0 /\ ~push'.waiting
  BY <1>2, <1>3, <1>4, <1>5, ZeroOffset DEF NoSession, Sessions
<1>7. QED BY <1>2, <1>4, <1>6 DEF no

LEMMA StartQueues ==
  ASSUME PushInv, NEW id \in Ids, NEW update \in BOOLEAN, Start(id, update)
  PROVE  /\ down' \in Seq(DownFrames) /\ After(down, down', BeginOf(id)) /\ lost' \in Losses
         /\ BeginOf(id) \in DownFrames
         /\ pull' \in Seq(Commands) /\ acks' = acks /\ up' = up
         /\ BeginOf(id).id = id /\ BeginOf(id).no = Len(outcome) + 1 /\ BeginOf(id).type = "Begin"
<1>1. Len(outcome) + 1 \in Pushes /\ id \in Nat
  BY StartIs
<1>2. BeginOf(id) \in DownFrames /\ BeginOf(id).type = "Begin" /\ BeginOf(id).id = id
      /\ BeginOf(id).no = Len(outcome) + 1
  <2> DEFINE no == Len(outcome) + 1
  <2>1. no \in 0 .. MaxPushes
    BY <1>1, Sizes DEF Pushes
  <2>2. BeginOf(id) = [type |-> "Begin", id |-> id, no |-> no, off |-> 0]
    BY DEF BeginOf
  <2> HIDE DEF no
  <2>3. BeginOf(id) \in DownFrames /\ BeginOf(id).type = "Begin" /\ BeginOf(id).id = id
        /\ BeginOf(id).no = no
    BY <1>1, <2>1, <2>2, ZeroOffset DEF DownFrames
  <2>4. QED BY <2>3 DEF no
<1>3. SendDown(BeginOf(id))
  BY DEF Start, BeginOf
<1>4. QueueTypes
  BY DEF PushInv, StreamTypes
<1>5. down' \in Seq(DownFrames) /\ After(down, down', BeginOf(id)) /\ lost' \in Losses
  BY <1>2, <1>3, <1>4, DeliversAfter, LostTyped DEF QueueTypes, SendDown, Losses
<1>6. pull' \in Seq(Commands)
  <2>1. "Clear" \in Commands
    BY DEF Commands
  <2>2. pull \in Seq(Commands) /\ Enqueue(pull, "Clear") \in Seq(Commands)
    BY <1>4, <2>1, EnqueueAfter DEF QueueTypes
  <2>3. QED BY <2>2 DEF Start
<1>7. QED BY <1>2, <1>5, <1>6 DEF Start

LEMMA StartTyped ==
  ASSUME PushInv, NEW id \in Ids, NEW update \in BOOLEAN, Start(id, update)
  PROVE  StreamTypes'
<1>1. "Running" \in Outcomes
  BY DEF Outcomes
<1>2. /\ outcome' \in Seq(Outcomes) /\ Len(outcome') = Len(outcome) + 1
      /\ Len(outcome') <= MaxPushes
  BY <1>1, AppendProperties, Sizes DEF Start, PushInv, StreamTypes, PastTypes
<1>3. MasterTypes'
  BY <1>2, StartIs DEF MasterTypes, Start
<1>4. QueueTypes'
  BY StartQueues DEF QueueTypes, PushInv, StreamTypes
<1>5. SlaveTypes'
  BY DEF Start, slaveVars, SlaveTypes, PushInv, StreamTypes
<1>6. PastTypes'
  BY <1>2 DEF Start, PastTypes, PushInv, StreamTypes
<1>7. QED BY <1>3, <1>4, <1>5, <1>6 DEF StreamTypes

LEMMA StartKnown ==
  ASSUME PushInv, NEW id \in Ids, NEW update \in BOOLEAN, Start(id, update)
  PROVE  FramesKnown' /\ IdsKnown' /\ SessionKept'
<1>1. used' = used \cup {id} /\ Len(outcome) + 1 \in Pushes
  BY StartIs DEF Start
<1>2. AllDown(down, used') /\ AllUp(up, used')
  BY <1>1 DEF PushInv, FramesKnown, AllDown, AllUp, DownKnown, UpKnown
<1>3. DownKnown(BeginOf(id), used')
  BY <1>1, StartQueues DEF DownKnown
<1>4. AllDown(down', used')
  BY <1>2, <1>3, StartQueues, AfterDownKnown
<1>5. FramesKnown'
  BY <1>2, <1>4, StartQueues DEF FramesKnown
<1>6. IdsKnown'
  BY <1>1 DEF PushInv, IdsKnown, Start, slaveVars
<1>7. SessionKept'
  <2>1. outcome'[Len(outcome) + 1] = "Running"
    BY AppendProperties DEF Start, PushInv, StreamTypes, PastTypes, Outcomes
  <2>2. QED BY <1>1, <2>1, StartIs DEF SessionKept, Windowed
<1>8. QED BY <1>5, <1>6, <1>7

LEMMA StartVerdict ==
  ASSUME PushInv, NEW id \in Ids, NEW update \in BOOLEAN, Start(id, update)
  PROVE  VerdictKept'
<1> SUFFICES ASSUME push'.alone
             PROVE  OnlyOf(down, push.id, push.no)' /\ NotYet(push.id)'
  BY DEF VerdictKept
<1>1. push'.id = id /\ push'.no = Len(outcome) + 1 /\ push'.acked = 0 /\ NoneOf(id) /\ up' = up
  BY StartIs, StartQueues
<1>2. OnlyOf(down, id, Len(outcome) + 1)
  BY <1>1 DEF NoneOf, OnlyOf
<1>3. OnlyOf(down', id, Len(outcome) + 1)
  BY <1>2, StartQueues, AfterOnlyOf
<1>4. NoProgress(up, id) /\ VerdictsFirst(up, id)
  BY <1>1 DEF NoneOf, NoProgress, VerdictsFirst, IsProgress
<1>5. QED BY <1>1, <1>3, <1>4 DEF NotYet

LEMMA StartTaken ==
  ASSUME PushInv, NEW id \in Ids, NEW update \in BOOLEAN, Start(id, update)
  PROVE  TakenKept'
<1> SUFFICES ASSUME push'.fresh
             PROVE  /\ OnlyOf(down, push.id, push.no)'
                    /\ Prefix(push.acked, accepted)' /\ AllTaken(up, push.id, accepted)'
                    /\ (fw.corr = push.id => Prefix(fw.last, accepted))'
                    /\ (rx.id = push.id => rx.got \subseteq accepted)'
  BY DEF TakenKept, TakenSoFar
<1>1. push'.id = id /\ push'.no = Len(outcome) + 1 /\ push'.acked = 0 /\ id \notin used /\ up' = up
      /\ id \in Nat \ {0}
  BY StartIs, StartQueues
<1>2. OnlyOf(down, id, Len(outcome) + 1)
  BY <1>1 DEF OnlyOf, PushInv, FramesKnown, AllDown, DownKnown
<1>3. OnlyOf(down', id, Len(outcome) + 1)
  BY <1>2, StartQueues, AfterOnlyOf
<1>4. Prefix(0, accepted')
  BY Sizes DEF Prefix, Indices
<1>5. NoProgress(up, id)
  BY <1>1 DEF NoProgress, IsProgress, PushInv, FramesKnown, AllUp, UpKnown
<1>6. AllTaken(up', id, accepted')
  BY <1>1, <1>5 DEF AllTaken, NoProgress
<1>7. fw' = fw /\ rx' = rx /\ fw.corr # id /\ rx.id # id
  BY <1>1 DEF PushInv, IdsKnown, Start, slaveVars
<1>8. QED BY <1>1, <1>3, <1>4, <1>6, <1>7

LEMMA StartKeeps ==
  ASSUME PushInv, NEW id \in Ids, NEW update \in BOOLEAN, Start(id, update)
  PROVE  PushInv'
BY StartTyped, StartKnown, StartVerdict, StartTaken DEF PushInv

-----------------------------------------------------------------------------
(* A report of progress.                                                    *)


LEMMA RecoversIs ==
  ASSUME NEW s \in Sessions
  PROVE  Recovers(s) \in Sessions /\ \E r, w : Recovers(s) = [s EXCEPT !.recov = r, !.window = w]
<1>1. CASE s.recov # 0 /\ s.acked >= s.recov
  <2>1. [s EXCEPT !.recov = 0, !.window = Window] \in Sessions
    BY ZeroOffset DEF Sessions
  <2>2. Recovers(s) = [s EXCEPT !.recov = 0, !.window = Window]
    BY <1>1 DEF Recovers
  <2>3. QED BY <2>1, <2>2
<1>2. CASE ~(s.recov # 0 /\ s.acked >= s.recov)
  <2>1. Recovers(s) = s
    BY <1>2 DEF Recovers
  <2>2. s = [s EXCEPT !.recov = s.recov, !.window = s.window]
    BY DEF Sessions
  <2>3. QED BY <2>1, <2>2
<1>3. QED BY <1>1, <1>2

LEMMA StreamingIs ==
  ASSUME NEW s \in Sessions
  PROVE  LET t == Streaming(s) IN
         /\ t \in Sessions /\ t.phase = "Streaming" /\ ~t.waiting /\ t.next = s.next
         /\ t.pend = s.pend /\ t.acked = s.acked
         /\ t.active = s.active /\ t.id = s.id /\ t.no = s.no /\ t.fresh = s.fresh
         /\ t.alone = s.alone
BY DEF Streaming, Sessions

LEMMA NoLongerWaitsIs ==
  ASSUME NEW s \in Sessions
  PROVE  LET t == NoLongerWaits(s) IN
         /\ t \in Sessions /\ t.phase = s.phase /\ ~t.waiting /\ t.next = s.next
         /\ t.pend = 0 /\ t.acked = s.acked
         /\ t.active = s.active /\ t.id = s.id /\ t.no = s.no /\ t.fresh = s.fresh
         /\ t.alone = s.alone
BY ZeroOffset DEF NoLongerWaits, Sessions

LEMMA OnAckIs ==
  ASSUME NEW s \in Sessions, Windowed(s), NEW off \in Offsets
  PROVE  LET t == OnAck(s, off) IN
         /\ t \in Sessions /\ Windowed(t)
         /\ t.active = s.active /\ t.id = s.id /\ t.no = s.no /\ t.fresh = s.fresh
         /\ t.alone = s.alone /\ t.acked \in {s.acked, off}
<1> DEFINE g == Greatest(s.acked, off)
           b == [s EXCEPT !.acked = g]
           a == Recovers(b)
<1>1. g \in Offsets /\ g \in {s.acked, off} /\ s.acked <= g /\ off <= g
  BY Sizes DEF Greatest, Sessions, Offsets
<1>2. g \in Offsets /\ g \in {s.acked, off}
  BY <1>1
<1> HIDE DEF g
<1>3. b \in Sessions
  BY <1>2 DEF Sessions
<1>4. a \in Sessions /\ \E r, w : a = [b EXCEPT !.recov = r, !.window = w]
  BY <1>3, RecoversIs
<1> HIDE DEF a
<1>5. /\ a.active = s.active /\ a.id = s.id /\ a.no = s.no /\ a.fresh = s.fresh
      /\ a.alone = s.alone /\ a.acked = g /\ a.phase = s.phase /\ a.next = s.next
      /\ a.pend = s.pend /\ a.waiting = s.waiting
  BY <1>3, <1>4 DEF Sessions
<1> DEFINE t == OnAck(s, off)
<1>6. CASE s.phase = "WaitBegin" /\ off = 0
  <2>1. t = Streaming(a)
    BY <1>6 DEF OnAck, a, g
  <2>2. /\ t \in Sessions /\ t.phase = "Streaming" /\ ~t.waiting /\ t.next = a.next
        /\ t.pend = a.pend /\ t.acked = a.acked
        /\ t.active = a.active /\ t.id = a.id /\ t.no = a.no /\ t.fresh = a.fresh
        /\ t.alone = a.alone
    BY <1>4, <2>1, StreamingIs
  <2> HIDE DEF t
  <2>3. Windowed(t)
    BY <1>1, <1>5, <1>6, <2>2, Sizes DEF Windowed, Offsets
  <2>4. QED BY <1>2, <1>5, <2>2, <2>3 DEF t
<1>7. CASE s.phase = "Streaming" /\ s.waiting /\ off >= s.pend
  <2>1. t = NoLongerWaits(a)
    BY <1>7 DEF OnAck, a, g
  <2>2. /\ t \in Sessions /\ t.phase = a.phase /\ ~t.waiting /\ t.next = a.next
        /\ t.pend = 0 /\ t.acked = a.acked
        /\ t.active = a.active /\ t.id = a.id /\ t.no = a.no /\ t.fresh = a.fresh
        /\ t.alone = a.alone
    BY <1>4, <2>1, NoLongerWaitsIs
  <2> HIDE DEF t
  <2>3. s.next \in Nat /\ s.pend \in Nat /\ off \in Nat /\ g \in Nat
    BY <1>1, Sizes DEF Sessions, Offsets
  <2>4. Windowed(t)
    BY <1>1, <1>5, <1>7, <2>2, <2>3 DEF Windowed
  <2>5. QED BY <1>2, <1>5, <2>2, <2>4 DEF t
<1>8. CASE /\ ~(s.phase = "WaitBegin" /\ off = 0)
           /\ ~(s.phase = "Streaming" /\ s.waiting /\ off >= s.pend)
  <2>1. t = a
    BY <1>8 DEF OnAck, a, g
  <2> HIDE DEF t
  <2>2. s.next \in 0 .. Chunks /\ g \in 0 .. Chunks /\ s.acked \in 0 .. Chunks /\ Chunks \in Nat
    BY <1>1, Sizes DEF Sessions, Offsets
  <2>3. Windowed(t)
    BY <1>1, <1>5, <2>1, <2>2 DEF Windowed
  <2>4. QED BY <1>2, <1>4, <1>5, <2>1, <2>3 DEF t
<1>9. QED BY <1>6, <1>7, <1>8

LEMMA OnNackIs ==
  ASSUME NEW s \in Sessions, Windowed(s), NEW off \in Offsets
  PROVE  LET t == OnNack(s, off) IN
         /\ t \in Sessions /\ Windowed(t)
         /\ t.active = s.active /\ t.id = s.id /\ t.no = s.no /\ t.fresh = s.fresh
         /\ t.alone = s.alone /\ t.acked \in {s.acked, off, Least(off, s.next)}
<1> DEFINE t == OnNack(s, off)
           back == Greatest(Least(off, s.next), s.acked)
           far == Least(back + 1, Chunks)
<1>1. CASE s.phase # "Streaming"
  BY <1>1 DEF OnNack
<1>2. CASE s.phase = "Streaming"
  <2>1. back \in Offsets /\ back \in {s.acked, off, Least(off, s.next)}
    BY Sizes DEF Greatest, Least, Sessions, Offsets
  <2>2. far \in Offsets
    BY <2>1, Sizes DEF Least, Offsets
  <2>3. t = [NoLongerWaits(s) EXCEPT !.acked = back, !.next = back, !.window = 1, !.recov = far]
    BY <1>2 DEF OnNack
  <2> HIDE DEF t, back, far
  <2>4. /\ t \in Sessions /\ t.phase = "Streaming" /\ ~t.waiting /\ t.next = back /\ t.pend = 0
        /\ t.acked = back
        /\ t.active = s.active /\ t.id = s.id /\ t.no = s.no /\ t.fresh = s.fresh
        /\ t.alone = s.alone
    BY <1>2, <2>1, <2>2, <2>3, ZeroOffset DEF NoLongerWaits, Sessions
  <2>5. Windowed(t)
    BY <2>1, <2>4, Sizes DEF Windowed, Offsets
  <2>6. QED BY <2>1, <2>4, <2>5 DEF t
<1>3. QED BY <1>1, <1>2

LEMMA ProgressMoves ==
  ASSUME PushInv, NEW f, OnProgress(f)
  PROVE  /\ up' \in Seq(UpFrames) /\ After(up, up', Silence)
         /\ 1 \in DOMAIN up /\ up[1] = f /\ f.id \in used /\ f.off \in Offsets
         /\ \/ push' = push
            \/ /\ SameSession /\ Windowed(push') /\ IsProgress(f, push.id)
               /\ push'.acked \in {push.acked, f.off, Least(f.off, push.next)}
<1>1. up' \in Seq(UpFrames) /\ After(up, up', Silence) /\ 1 \in DOMAIN up /\ up[1] = f
      /\ f \in UpFrames
  BY TailSilence DEF OnProgress, PushInv
<1>2. f.id \in used
  BY <1>1 DEF PushInv, FramesKnown, AllUp, UpKnown, OnProgress
<1>3. f.off \in Offsets
  BY <1>1 DEF UpFrames
<1>4. \/ push' = push
      \/ /\ SameSession /\ Windowed(push') /\ IsProgress(f, push.id)
         /\ push'.acked \in {push.acked, f.off, Least(f.off, push.next)}
  <2>1. CASE ~Concerns(f)
    BY <2>1 DEF OnProgress
  <2>2. CASE Concerns(f)
    <3>1. push \in Sessions /\ push.active /\ Windowed(push) /\ f.id = push.id
      BY <2>2 DEF Concerns, PushInv, StreamTypes, MasterTypes, SessionKept
    <3>2. IsProgress(f, push.id)
      BY <3>1 DEF IsProgress, OnProgress
    <3>3. push' = OnAck(push, f.off) \/ push' = OnNack(push, f.off)
      BY <2>2 DEF OnProgress
    <3>4. CASE push' = OnAck(push, f.off)
      BY <1>3, <3>1, <3>2, <3>4, OnAckIs DEF SameSession
    <3>5. CASE push' = OnNack(push, f.off)
      BY <1>3, <3>1, <3>2, <3>5, OnNackIs DEF SameSession
    <3>6. QED BY <3>3, <3>4, <3>5
  <2>3. QED BY <2>1, <2>2
<1>5. QED BY <1>1, <1>2, <1>3, <1>4

LEMMA ProgressVerdict == ASSUME PushInv, NEW f, OnProgress(f) PROVE VerdictKept'
<1> SUFFICES ASSUME push'.active, push'.alone
             PROVE  OnlyOf(down, push.id, push.no)' /\ (push.no \in promoted \/ NotYet(push.id))'
  BY DEF VerdictKept
<1>1. push.active /\ push.alone /\ push'.id = push.id /\ push'.no = push.no
  BY ProgressMoves DEF SameSession
<1>2. OnlyOf(down, push.id, push.no) /\ (push.no \in promoted \/ NotYet(push.id))
  BY <1>1 DEF PushInv, VerdictKept
<1>3. down' = down /\ promoted' = promoted /\ fin' = fin
  BY DEF OnProgress, slaveVars, history
<1>4. ASSUME NotYet(push.id) PROVE NotYet(push.id)'
  <2>1. After(up, up', Silence) /\ up' \in Seq(UpFrames) /\ QueueTypes
    BY ProgressMoves DEF PushInv, StreamTypes
  <2>2. VerdictsFirst(up', push.id)
    BY <1>4, <2>1, OldKept DEF NotYet
  <2>3. CASE push' = push
    BY <1>1, <1>3, <1>4, <2>1, <2>2, <2>3, OldKept DEF NotYet, OldVerdict
  <2>4. CASE IsProgress(f, push.id)
    <3>1. 1 \in DOMAIN up /\ IsProgress(up[1], push.id)
      BY <2>4, ProgressMoves
    <3>2. ~OldVerdict(push.id)
      BY <1>4, <3>1 DEF NotYet, NoProgress
    <3>3. \A k \in DOMAIN up : k \in Nat /\ k >= 1
      BY DEF PushInv, StreamTypes, QueueTypes
    <3>4. NoVerdict(up, push.id)
      BY <1>4, <3>1, <3>3 DEF NotYet, VerdictsFirst, NoVerdict
    <3>5. NoVerdict(up', push.id)
      BY <2>1, <3>4, OldKept
    <3>6. QED BY <1>1, <1>3, <2>2, <3>2, <3>5 DEF NotYet, OldVerdict
  <2>5. QED BY <2>3, <2>4, ProgressMoves
<1>5. QED BY <1>1, <1>2, <1>3, <1>4

LEMMA ProgressTaken == ASSUME PushInv, NEW f, OnProgress(f) PROVE TakenKept'
<1> SUFFICES ASSUME push'.active, push'.fresh
             PROVE  /\ OnlyOf(down, push.id, push.no)'
                    /\ Prefix(push.acked, accepted)' /\ AllTaken(up, push.id, accepted)'
                    /\ (fw.corr = push.id => Prefix(fw.last, accepted))'
                    /\ (rx.id = push.id => rx.got \subseteq accepted)'
  BY DEF TakenKept, TakenSoFar
<1>1. push.active /\ push.fresh /\ push'.id = push.id /\ push'.no = push.no
  BY ProgressMoves DEF SameSession
<1>2. /\ OnlyOf(down, push.id, push.no)
      /\ Prefix(push.acked, accepted) /\ AllTaken(up, push.id, accepted)
      /\ fw.corr = push.id => Prefix(fw.last, accepted)
      /\ rx.id = push.id => rx.got \subseteq accepted
  BY <1>1 DEF PushInv, TakenKept, TakenSoFar
<1>3. down' = down /\ fw' = fw /\ rx' = rx /\ accepted' = accepted
  BY DEF OnProgress, slaveVars, history
<1>4. AllTaken(up', push.id, accepted)
  BY <1>2, ProgressMoves, OldKept DEF PushInv, StreamTypes
<1>5. Prefix(push'.acked, accepted)
  <2>1. CASE push' = push
    BY <1>2, <2>1
  <2>2. CASE IsProgress(f, push.id) /\ push'.acked \in {push.acked, f.off, Least(f.off, push.next)}
    <3>1. Prefix(f.off, accepted)
      BY <1>2, <2>2, ProgressMoves DEF AllTaken
    <3>2. f.off \in Nat /\ push.next \in Nat
      BY ProgressMoves, Sizes DEF PushInv, StreamTypes, MasterTypes, Sessions, Offsets
    <3>3. Prefix(Least(f.off, push.next), accepted)
      BY <3>1, <3>2, Sizes DEF Prefix, Least, Indices
    <3>4. QED BY <1>2, <2>2, <3>1, <3>3
  <2>3. QED BY <2>1, <2>2, ProgressMoves
<1>6. QED BY <1>1, <1>2, <1>3, <1>4, <1>5

LEMMA ProgressKeeps == ASSUME PushInv, NEW f, OnProgress(f) PROVE PushInv'
<1>1. UNCHANGED <<upd, down, acks, pull, slaveVars, history, lost>>
  BY DEF OnProgress
<1>2. push' \in Sessions /\ (push'.active => push.active /\ push'.no = push.no /\ push'.id = push.id
                            /\ Windowed(push'))
  BY ProgressMoves DEF SameSession, PushInv, StreamTypes, MasterTypes, SessionKept
<1>3. MasterTypes'
  BY <1>1, <1>2 DEF MasterTypes, PushInv, StreamTypes, history
<1>4. QueueTypes'
  BY <1>1, ProgressMoves DEF QueueTypes, PushInv, StreamTypes
<1>5. SlaveTypes' /\ PastTypes'
  BY <1>1 DEF SlaveTypes, PastTypes, PushInv, StreamTypes, slaveVars, history
<1>6. FramesKnown'
  BY <1>1, ProgressMoves, AfterUpKnown, NoteSilence DEF PushInv, FramesKnown, history
<1>7. IdsKnown'
  BY <1>1 DEF PushInv, IdsKnown, slaveVars, history
<1>8. SessionKept'
  BY <1>1, <1>2 DEF PushInv, SessionKept, history
<1>9. QED
  BY <1>3, <1>4, <1>5, <1>6, <1>7, <1>8, ProgressVerdict, ProgressTaken DEF PushInv, StreamTypes

-----------------------------------------------------------------------------
(* Steps of the slave.                                                      *)

Left(q, new) == \A i \in DOMAIN new : \E j \in DOMAIN q : new[i] = q[j]

(* An old verdict of the push is not brought back, and while there is one   *)
(* nothing of the push is reported as received.                             *)
VerdictMoves(u) ==
  push.active /\ OnlyOf(down, push.id, push.no) /\ push.no \notin promoted' =>
    /\ IsVerdict(u, push.id) => OldVerdict(push.id)
    /\ IsProgress(u, push.id) => ~OldVerdict(push.id)'
    /\ OldVerdict(push.id)' => OldVerdict(push.id)

(* What the slave reports and keeps of a new push it took.                  *)
TakenMoves(u) ==
  push.active /\ TakenSoFar =>
    /\ IsProgress(u, push.id) => Prefix(u.off, accepted')
    /\ fw'.corr = push.id => Prefix(fw'.last, accepted')
    /\ rx'.id = push.id => rx'.got \subseteq accepted'

SlaveMoves(u) ==
  /\ UNCHANGED <<masterVars, outcome, used>>
  /\ down' \in Seq(DownFrames) /\ Left(down, down')
  /\ acks' \in Seq(Nat) /\ pull' \in Seq(Commands) /\ lost' \in Losses
  /\ up' \in Seq(UpFrames) /\ After(up, up', u) /\ UpKnown(u, used)
  /\ SlaveTypes' /\ IdsKnown'
  /\ promoted \subseteq promoted' /\ promoted' \subseteq Pushes
  /\ accepted \subseteq accepted' /\ accepted' \subseteq Indices
  /\ VerdictMoves(u) /\ TakenMoves(u)

LEMMA LeftKeeps ==
  ASSUME NEW q, NEW new, Left(q, new)
  PROVE  /\ \A ids : AllDown(q, ids) => AllDown(new, ids)
         /\ \A i, n : OnlyOf(q, i, n) => OnlyOf(new, i, n)
BY DEF Left, AllDown, OnlyOf

LEMMA LeftIs ==
  ASSUME QueueTypes, down' = down \/ down' = << >> \/ (down # << >> /\ down' = Tail(down))
  PROVE  down' \in Seq(DownFrames) /\ Left(down, down')
<1>1. CASE down' = down
  BY <1>1 DEF QueueTypes, Left
<1>2. CASE down' = << >>
  BY <1>2 DEF Left
<1>3. CASE down # << >> /\ down' = Tail(down)
  <2>1. down' \in Seq(DownFrames) /\ \A i \in DOMAIN down' : i + 1 \in DOMAIN down /\ down'[i] = down[i + 1]
    BY <1>3 DEF QueueTypes
  <2>2. QED BY <2>1 DEF Left
<1>4. QED BY <1>1, <1>2, <1>3

LEMMA PrefixGrows ==
  ASSUME NEW n, NEW got, NEW more, got \subseteq more, Prefix(n, got)
  PROVE  Prefix(n, more)
BY DEF Prefix

LEMMA SlaveTyped == ASSUME PushInv, NEW u, SlaveMoves(u) PROVE StreamTypes' /\ FramesKnown' /\ SessionKept'
<1>1. MasterTypes' /\ SessionKept'
  BY DEF MasterTypes, SessionKept, SlaveMoves, PushInv, StreamTypes, masterVars
<1>2. QueueTypes'
  BY DEF QueueTypes, SlaveMoves
<1>3. PastTypes'
  BY DEF PastTypes, SlaveMoves, PushInv, StreamTypes
<1>4. AllDown(down', used)
  BY LeftKeeps DEF PushInv, FramesKnown, SlaveMoves
<1>5. AllUp(up', used)
  BY AfterUpKnown DEF PushInv, FramesKnown, SlaveMoves
<1>6. used' = used /\ SlaveTypes'
  BY DEF SlaveMoves
<1>7. FramesKnown'
  BY <1>4, <1>5, <1>6 DEF FramesKnown
<1>8. QED BY <1>1, <1>2, <1>3, <1>6, <1>7 DEF StreamTypes

LEMMA SlaveVerdict == ASSUME PushInv, NEW u, SlaveMoves(u) PROVE VerdictKept'
<1>1. push' = push
  BY DEF SlaveMoves, masterVars
<1> SUFFICES ASSUME push.active, push.alone
             PROVE  OnlyOf(down', push.id, push.no) /\ (push.no \in promoted' \/ NotYet(push.id)')
  BY <1>1 DEF VerdictKept
<1>2. OnlyOf(down, push.id, push.no) /\ (push.no \in promoted \/ NotYet(push.id))
  BY DEF PushInv, VerdictKept
<1>3. OnlyOf(down', push.id, push.no)
  BY <1>2, LeftKeeps DEF SlaveMoves
<1>4. ASSUME NotYet(push.id), push.no \notin promoted' PROVE NotYet(push.id)'
  <2>1. /\ IsVerdict(u, push.id) => OldVerdict(push.id)
        /\ IsProgress(u, push.id) => ~OldVerdict(push.id)'
        /\ OldVerdict(push.id)' => OldVerdict(push.id)
    BY <1>2, <1>4 DEF SlaveMoves, VerdictMoves
  <2>2. After(up, up', u) /\ up \in Seq(UpFrames) /\ up' \in Seq(UpFrames)
    BY DEF SlaveMoves, PushInv, StreamTypes, QueueTypes
  <2>3. OldVerdict(push.id)' => push.acked = 0 /\ NoProgress(up', push.id)
    BY <1>4, <2>1, <2>2, AfterNoProgress DEF NotYet
  <2>4. VerdictsFirst(up', push.id)
    BY <1>4, <2>1, <2>2, AfterVerdictsFirst DEF NotYet
  <2>5. push.acked = 0 \/ NoVerdict(up', push.id)
    BY <1>4, <2>1, <2>2, AfterNoVerdict DEF NotYet
  <2>6. QED BY <1>1, <2>3, <2>4, <2>5 DEF NotYet
<1>5. promoted \subseteq promoted'
  BY DEF SlaveMoves
<1>6. QED BY <1>2, <1>3, <1>4, <1>5

LEMMA SlaveTaken == ASSUME PushInv, NEW u, SlaveMoves(u) PROVE TakenKept'
<1>1. push' = push /\ accepted \subseteq accepted' /\ After(up, up', u)
  BY DEF SlaveMoves, masterVars
<1> SUFFICES ASSUME push.active, push.fresh
             PROVE  /\ OnlyOf(down', push.id, push.no)
                    /\ Prefix(push.acked, accepted') /\ AllTaken(up', push.id, accepted')
                    /\ fw'.corr = push.id => Prefix(fw'.last, accepted')
                    /\ rx'.id = push.id => rx'.got \subseteq accepted'
  BY <1>1 DEF TakenKept, TakenSoFar
<1>2. TakenSoFar
  BY DEF PushInv, TakenKept
<1>3. /\ IsProgress(u, push.id) => Prefix(u.off, accepted')
      /\ fw'.corr = push.id => Prefix(fw'.last, accepted')
      /\ rx'.id = push.id => rx'.got \subseteq accepted'
  BY <1>2 DEF SlaveMoves, TakenMoves
<1>4. OnlyOf(down', push.id, push.no)
  BY <1>2, LeftKeeps DEF SlaveMoves, TakenSoFar
<1>5. Prefix(push.acked, accepted') /\ AllTaken(up, push.id, accepted')
  BY <1>1, <1>2, PrefixGrows DEF TakenSoFar, AllTaken
<1>6. AllTaken(up', push.id, accepted')
  BY <1>1, <1>3, <1>5, AfterAllTaken
<1>7. QED BY <1>3, <1>4, <1>5, <1>6

LEMMA SlaveKeeps == ASSUME PushInv, NEW u, SlaveMoves(u) PROVE PushInv'
BY SlaveTyped, SlaveVerdict, SlaveTaken DEF PushInv, SlaveMoves

-----------------------------------------------------------------------------
(* Steps of the slave that say nothing: timers that run out, cleanups,      *)
(* acknowledged verdicts and restarts.                                      *)

LEMMA NothingIs ==
  /\ NoReceive \in Receivings /\ NoReceive.id = 0 /\ NoReceive.got = {}
  /\ NoTransfer \in Transfers /\ NoTransfer.corr = 0
  /\ NoFinalize \in Verdicts /\ ~NoFinalize.pending
<1>1. NoReceive \in Receivings /\ NoReceive.id = 0 /\ NoReceive.got = {}
  BY Sizes DEF NoReceive, Receivings
<1>2. NoTransfer \in Transfers /\ NoTransfer.corr = 0
  BY ZeroOffset, Sizes DEF NoTransfer, Transfers
<1>3. NoFinalize \in Verdicts /\ ~NoFinalize.pending
  BY ZeroOffset DEF NoFinalize, Verdicts
<1>4. QED BY <1>1, <1>2, <1>3

LEMMA QuietMoves ==
  ASSUME PushInv,
         rx' \in {rx, NoReceive}, fw' \in {fw, NoTransfer}, fin' \in {fin, NoFinalize},
         event' \in Events, image' \in 0 .. MaxPushes, UNCHANGED <<masterVars, up, lost, history>>,
         acks' \in Seq(Nat), pull' \in Seq(Commands),
         down' = down \/ down' = << >> \/ (down # << >> /\ down' = Tail(down))
  PROVE  SlaveMoves(Silence)
<1>1. UNCHANGED <<masterVars, outcome, used>> /\ promoted' = promoted /\ accepted' = accepted
  BY DEF history
<1>2. down' \in Seq(DownFrames) /\ Left(down, down')
  BY LeftIs DEF PushInv, StreamTypes
<1>3. up' \in Seq(UpFrames) /\ After(up, up', Silence) /\ UpKnown(Silence, used) /\ lost' \in Losses
  BY UpStays, NoteSilence DEF PushInv, StreamTypes, QueueTypes
<1>4. SlaveTypes'
  BY NothingIs DEF SlaveTypes, PushInv, StreamTypes
<1>5. IdsKnown'
  <2>1. IdsKnown
    BY DEF PushInv
  <2>2. used \subseteq Nat \ {0}
    BY Sizes DEF PushInv, StreamTypes, PastTypes
  <2>3. fin'.pending => fin' = fin /\ fin.corr \in used /\ fin.corr # fw'.corr
    BY <2>1, <2>2, NothingIs DEF IdsKnown
  <2>4. QED BY <1>1, <2>1, <2>3, NothingIs DEF IdsKnown
<1>6. VerdictMoves(Silence)
  <2>1. OldVerdict(push.id)' => OldVerdict(push.id)
    BY NothingIs, <1>1 DEF OldVerdict, masterVars
  <2>2. QED BY <2>1, NoteSilence DEF VerdictMoves
<1>7. TakenMoves(Silence)
  <2>1. push.active => push.id # 0
    BY Sizes DEF PushInv, SessionKept, Windowed
  <2>2. QED BY <1>1, <2>1, NoteSilence, NothingIs DEF TakenMoves, TakenSoFar
<1>8. promoted' \subseteq Pushes /\ accepted' \subseteq Indices
  BY <1>1 DEF PushInv, StreamTypes, PastTypes
<1>9. QED
  BY <1>1, <1>2, <1>3, <1>4, <1>5, <1>6, <1>7, <1>8 DEF SlaveMoves

LEMMA StillIs ==
  ASSUME PushInv
  PROVE  /\ event \in Events /\ image \in 0 .. MaxPushes /\ acks \in Seq(Nat) /\ pull \in Seq(Commands)
         /\ acks # << >> => Tail(acks) \in Seq(Nat)
         /\ pull # << >> => Tail(pull) \in Seq(Commands)
BY DEF PushInv, StreamTypes, IdsKnown, SlaveTypes, QueueTypes

LEMMA SlaveFinalizeAckMoves == ASSUME PushInv, SlaveFinalizeAck PROVE SlaveMoves(Silence)
BY StillIs, QuietMoves DEF SlaveFinalizeAck, history

LEMMA FinalizeExpiresMoves == ASSUME PushInv, FinalizeExpires PROVE SlaveMoves(Silence)
BY StillIs, QuietMoves DEF FinalizeExpires, queues

LEMMA ClearScopeMoves == ASSUME PushInv, ClearScope PROVE SlaveMoves(Silence)
BY StillIs, QuietMoves DEF ClearScope

LEMMA ReceiveExpiresMoves == ASSUME PushInv, ReceiveExpires PROVE SlaveMoves(Silence)
BY StillIs, QuietMoves DEF ReceiveExpires, queues

LEMMA RestartIs ==
  ASSUME SlaveRestarts
  PROVE  /\ rx' = NoReceive /\ fw' = NoTransfer /\ fin' = NoFinalize
         /\ event' \in Events /\ image' \in 0 .. MaxPushes /\ down' = << >> /\ acks' \in Seq(Nat)
BY EmptySeq, Sizes DEF SlaveRestarts, Events, NoImage

LEMMA SlaveRebootMoves == ASSUME PushInv, SlaveReboot PROVE SlaveMoves(Silence)
<1>1. pull' \in Seq(Commands)
  BY EmptySeq DEF SlaveReboot
<1>2. QED BY <1>1, RestartIs, QuietMoves DEF SlaveReboot

LEMMA ApplyMoves == ASSUME PushInv, Apply PROVE SlaveMoves(Silence)
<1>1. CASE SlaveRestarts /\ pull' = << >>
  <2>1. pull' \in Seq(Commands)
    BY <1>1, EmptySeq
  <2>2. QED BY <1>1, <2>1, RestartIs, QuietMoves DEF Apply
<1>2. CASE pull' = Tail(pull) /\ UNCHANGED <<slaveVars, down, acks>>
  BY <1>2, StillIs, QuietMoves DEF Apply, slaveVars
<1>3. QED BY <1>1, <1>2 DEF Apply

-----------------------------------------------------------------------------
(* Steps of the slave that report something.                                *)

LEMMA ReceivesIs ==
  ASSUME PushInv, NEW f, Receives(f)
  PROVE  /\ f \in DownFrames /\ f.id \in used /\ f.no \in Pushes /\ f.id \in Nat \ {0}
         /\ f.off \in Offsets /\ (f.type = "Chunk" => f.off \in Indices)
         /\ down' \in Seq(DownFrames) /\ Left(down, down')
         /\ push.active /\ OnlyOf(down, push.id, push.no) /\ f.id = push.id => f.no = push.no
<1>1. down # << >> /\ down \in Seq(DownFrames) /\ f = Head(down) /\ down' = Tail(down)
  BY DEF Receives, PushInv, StreamTypes, QueueTypes
<1>2. f \in DownFrames /\ 1 \in DOMAIN down /\ f = down[1]
  BY <1>1, TailAfter
<1>3. f.id \in used /\ f.no \in Pushes /\ (f.type = "Chunk" => f.off \in Indices)
  BY <1>2 DEF PushInv, FramesKnown, AllDown, DownKnown
<1>4. f.id \in Nat \ {0}
  BY <1>3, Sizes DEF PushInv, StreamTypes, PastTypes
<1>5. f.off \in Offsets
  BY <1>2 DEF DownFrames
<1>6. down' \in Seq(DownFrames) /\ Left(down, down')
  BY <1>1, LeftIs DEF PushInv, StreamTypes
<1>7. push.active /\ OnlyOf(down, push.id, push.no) /\ f.id = push.id => f.no = push.no
  BY <1>2 DEF OnlyOf
<1>8. QED BY <1>2, <1>3, <1>4, <1>5, <1>6, <1>7

LEMMA ReportMoves ==
  ASSUME PushInv, NEW u \in UpFrames, SendUp(u) \/ UNCHANGED <<up, lost>>
  PROVE  up' \in Seq(UpFrames) /\ After(up, up', u) /\ lost' \in Losses
<1>1. up \in Seq(UpFrames) /\ lost \in Losses
  BY DEF PushInv, StreamTypes, QueueTypes
<1>2. CASE SendUp(u)
  BY <1>1, <1>2, DeliversAfter, LostTyped DEF SendUp, Losses
<1>3. CASE UNCHANGED <<up, lost>>
  BY <1>1, <1>3, SameAfter
<1>4. QED BY <1>2, <1>3

LEMMA StatusIs ==
  ASSUME NEW ty \in {"Ack", "Nack", "Ok", "Fail", "Ready"}, NEW id \in Nat, NEW off \in Offsets
  PROVE  LET u == Status(ty, id, off) IN
         u \in UpFrames /\ u.type = ty /\ u.id = id /\ u.off = off
BY DEF Status, UpFrames

LEMMA FromNothing == \A got : Prefix(0, got)
BY Sizes DEF Prefix, Indices

(* Queues and histories of a step that only reports.                        *)
LEMMA OthersStay ==
  ASSUME PushInv, UNCHANGED <<masterVars, acks, pull, history>>
  PROVE  /\ UNCHANGED <<masterVars, outcome, used, push, promoted, accepted>>
         /\ acks' \in Seq(Nat) /\ pull' \in Seq(Commands)
         /\ promoted \subseteq promoted' /\ promoted' \subseteq Pushes
         /\ accepted \subseteq accepted' /\ accepted' \subseteq Indices
BY DEF PushInv, StreamTypes, QueueTypes, PastTypes, history, masterVars

LEMMA SlaveBeginMoves ==
  ASSUME PushInv, NEW f, SlaveBegin(f)
  PROVE  \E u : SlaveMoves(u)
<1>1. Receives(f) /\ fin' = NoFinalize /\ image' = image /\ event' = event
      /\ UNCHANGED <<masterVars, acks, pull, history>>
  BY DEF SlaveBegin
<1>2. f.id \in used /\ f.id \in Nat \ {0} /\ f.no \in Pushes /\ f.no \in 0 .. MaxPushes
  BY <1>1, ReceivesIs, Sizes DEF Pushes
<1>3. SlaveTypes /\ IdsKnown
  BY DEF PushInv, StreamTypes
<1>4. ASSUME NEW ty \in {"Ack", "Nack"}, SendUp(Status(ty, f.id, 0)),
             rx' \in Receivings, rx'.id = f.id \/ rx'.id = 0 \/ rx' = rx, rx'.got = {} \/ rx' = rx,
             fw' \in Transfers, fw'.corr = f.id \/ (fw'.corr = fw.corr /\ fw'.last = fw.last),
             fw'.last = 0 \/ (fw'.corr = fw.corr /\ fw'.last = fw.last),
             fw'.corr # 0 => fw'.next >= 1
      PROVE  SlaveMoves(Status(ty, f.id, 0))
  <2> DEFINE u == Status(ty, f.id, 0)
  <2>1. u \in UpFrames /\ u.type = ty /\ u.id = f.id /\ u.off = 0
    BY <1>2, StatusIs, ZeroOffset
  <2>2. SendUp(u)
    BY <1>4
  <2> HIDE DEF u
  <2>3. up' \in Seq(UpFrames) /\ After(up, up', u) /\ lost' \in Losses
    BY <2>1, <2>2, ReportMoves
  <2>4. UpKnown(u, used)
    BY <1>2, <2>1 DEF UpKnown
  <2>5. SlaveTypes'
    BY <1>1, <1>3, <1>4, NothingIs DEF SlaveTypes
  <2>6. IdsKnown'
    BY <1>1, <1>2, <1>3, <1>4, NothingIs DEF IdsKnown, history
  <2>7. VerdictMoves(u)
    BY <1>1, <2>1, NothingIs DEF VerdictMoves, OldVerdict, IsVerdict
  <2>8. TakenMoves(u)
    BY <1>1, <1>4, <2>1, FromNothing, OthersStay DEF TakenMoves, TakenSoFar
  <2>9. SlaveMoves(u)
    BY <1>1, <2>3, <2>4, <2>5, <2>6, <2>7, <2>8, ReceivesIs, OthersStay DEF SlaveMoves
  <2>10. QED BY <2>9 DEF u
<1>5. CASE /\ BeginReceive(f)
           /\ fw' = [NoTransfer EXCEPT !.corr = f.id, !.size = Chunks, !.next = AckStep]
           /\ SendUp(Status("Ack", f.id, 0))
  <2>1. rx' \in Receivings /\ rx'.id = f.id /\ rx'.got = {}
    BY <1>2, <1>5 DEF BeginReceive, Receivings
  <2>2. AckStep \in Nat /\ AckStep >= 1
    BY Sizes
  <2>3. AckStep \in Nat
    BY <2>2
  <2>4. fw' \in Transfers /\ fw'.corr = f.id /\ fw'.last = 0 /\ fw'.next = AckStep
    BY <1>2, <1>5, <2>3, NothingIs DEF NoTransfer, Transfers
  <2>5. QED BY <1>4, <1>5, <2>1, <2>2, <2>4
<1>6. CASE /\ rx' \in {rx, NoReceive}
           /\ fw' = [fw EXCEPT !.size = 0, !.acked = 0]
           /\ SendUp(Status("Nack", f.id, 0))
  <2>1. rx' \in Receivings /\ (rx'.id = 0 \/ rx' = rx) /\ (rx'.got = {} \/ rx' = rx)
    BY <1>3, <1>6, NothingIs DEF SlaveTypes
  <2>2. fw' \in Transfers /\ fw'.corr = fw.corr /\ fw'.last = fw.last /\ fw'.next = fw.next
    BY <1>3, <1>6, ZeroOffset DEF SlaveTypes, Transfers
  <2>3. QED BY <1>3, <1>4, <1>6, <2>1, <2>2 DEF IdsKnown
<1>7. QED BY <1>5, <1>6 DEF SlaveBegin

LEMMA EventTickMoves ==
  ASSUME PushInv, EventTick
  PROVE  \E u : SlaveMoves(u)
<1> DEFINE u == Status("Ready", event.corr, 0)
<1>1. event \in Events /\ event.corr \in Nat /\ IdsKnown
  BY DEF PushInv, IdsKnown, EventTick, StreamTypes, SlaveTypes, Events
<1>2. u \in UpFrames /\ u.type = "Ready" /\ u.id = event.corr
  BY <1>1, StatusIs, ZeroOffset
<1>3. SendUp(u) \/ UNCHANGED <<up, lost>>
  BY DEF EventTick
<1> HIDE DEF u
<1>4. up' \in Seq(UpFrames) /\ After(up, up', u) /\ lost' \in Losses
  BY <1>2, <1>3, ReportMoves
<1>5. UpKnown(u, used) /\ (\A i : ~IsVerdict(u, i) /\ ~IsProgress(u, i))
  BY <1>1, <1>2 DEF UpKnown, IsVerdict, IsProgress
<1>6. UNCHANGED <<masterVars, down, acks, pull, rx, image, fw, fin, history>>
      /\ event' = [event EXCEPT !.corr = 0]
  BY DEF EventTick
<1>7. event' \in Events
  BY <1>1, <1>6 DEF Events
<1>8. SlaveTypes'
  BY <1>6, <1>7 DEF PushInv, StreamTypes, SlaveTypes
<1>9. IdsKnown'
  BY <1>1, <1>6, <1>7 DEF IdsKnown, history
<1>10. down' \in Seq(DownFrames) /\ Left(down, down')
  BY <1>6, LeftIs DEF PushInv, StreamTypes
<1>11. VerdictMoves(u) /\ TakenMoves(u)
  BY <1>5, <1>6, OthersStay DEF VerdictMoves, TakenMoves, TakenSoFar, OldVerdict
<1>12. QED
  BY <1>4, <1>5, <1>6, <1>8, <1>9, <1>10, <1>11, OthersStay DEF SlaveMoves

LEMMA FinalizeRetryMoves ==
  ASSUME PushInv, FinalizeRetry
  PROVE  \E u : SlaveMoves(u)
<1> DEFINE u == Status(fin.kind, fin.corr, fin.off)
<1>1. fin.pending /\ fin.kind \in {"Ok", "Fail"} /\ fin.corr \in Nat /\ fin.off \in Offsets
      /\ fin.corr \in used /\ IdsKnown
  BY DEF PushInv, IdsKnown, FinalizeRetry, StreamTypes, SlaveTypes, Verdicts
<1>2. u \in UpFrames /\ u.type = fin.kind /\ u.id = fin.corr
  BY <1>1, StatusIs
<1>3. SendUp(u) \/ UNCHANGED <<up, lost>>
  BY DEF FinalizeRetry
<1> HIDE DEF u
<1>4. up' \in Seq(UpFrames) /\ After(up, up', u) /\ lost' \in Losses
  BY <1>2, <1>3, ReportMoves
<1>5. UpKnown(u, used) /\ (\A i : ~IsProgress(u, i) /\ (IsVerdict(u, i) => OldVerdict(i)))
  BY <1>1, <1>2 DEF UpKnown, IsVerdict, IsProgress, OldVerdict
<1>6. UNCHANGED <<masterVars, down, acks, pull, rx, image, fw, fin, event, history>>
  BY DEF FinalizeRetry, slaveVars
<1>7. SlaveTypes'
  BY <1>6 DEF PushInv, StreamTypes, SlaveTypes
<1>8. IdsKnown'
  BY <1>1, <1>6 DEF IdsKnown, history
<1>9. down' \in Seq(DownFrames) /\ Left(down, down')
  BY <1>6, LeftIs DEF PushInv, StreamTypes
<1>10. VerdictMoves(u) /\ TakenMoves(u)
  BY <1>5, <1>6, OthersStay DEF VerdictMoves, TakenMoves, TakenSoFar, OldVerdict
<1>11. QED
  BY <1>4, <1>5, <1>6, <1>7, <1>8, <1>9, <1>10, OthersStay DEF SlaveMoves

LEMMA ChunkRejectedMoves ==
  ASSUME PushInv, NEW f, SlaveChunkRejected(f)
  PROVE  \E u : SlaveMoves(u)
<1>1. Receives(f) /\ UNCHANGED <<masterVars, acks, pull, rx, image, fin, event, history>>
  BY DEF SlaveChunkRejected
<1>2. SlaveTypes /\ IdsKnown
  BY DEF PushInv, StreamTypes
<1>3. ASSUME NEW u \in UpFrames, SendUp(u) \/ UNCHANGED <<up, lost>>, UpKnown(u, used),
             fw' \in Transfers, fw'.corr = fw.corr, fw'.next = fw.next, fw'.last = fw.last,
             \A i : ~IsVerdict(u, i),
             \A i : IsProgress(u, i) => fw.corr = i /\ u.off = fw.last
      PROVE  SlaveMoves(u)
  <2>1. up' \in Seq(UpFrames) /\ After(up, up', u) /\ lost' \in Losses
    BY <1>3, ReportMoves
  <2>2. SlaveTypes'
    BY <1>1, <1>2, <1>3 DEF SlaveTypes
  <2>3. IdsKnown'
    BY <1>1, <1>2, <1>3 DEF IdsKnown, history
  <2>4. VerdictMoves(u)
    BY <1>1, <1>2, <1>3, OthersStay DEF VerdictMoves, OldVerdict, IdsKnown
  <2>5. TakenMoves(u)
    BY <1>1, <1>3, OthersStay DEF TakenMoves, TakenSoFar
  <2>6. QED
    BY <1>1, <1>3, <2>1, <2>2, <2>3, <2>4, <2>5, ReceivesIs, OthersStay DEF SlaveMoves
<1>4. CASE UNCHANGED <<fw, up, lost>>
  <2>1. SlaveMoves(Silence)
    BY <1>2, <1>3, <1>4, SilenceIs, NoteSilence DEF SlaveTypes
  <2>2. QED BY <2>1
<1>5. CASE /\ fw.corr = f.id /\ fw' = [fw EXCEPT !.nacked = fw.last]
           /\ SendUp(Status("Nack", f.id, fw.last))
  <2> DEFINE u == Status("Nack", f.id, fw.last)
  <2>1. f.id \in used /\ f.id \in Nat /\ fw.last \in Offsets
    BY <1>1, <1>2, ReceivesIs DEF SlaveTypes, Transfers
  <2>2. u \in UpFrames /\ u.type = "Nack" /\ u.id = f.id /\ u.off = fw.last
    BY <2>1, StatusIs
  <2>3. SendUp(u)
    BY <1>5
  <2> HIDE DEF u
  <2>4. fw' \in Transfers /\ fw'.corr = fw.corr /\ fw'.next = fw.next /\ fw'.last = fw.last
    BY <1>2, <1>5 DEF SlaveTypes, Transfers
  <2>5. UpKnown(u, used) /\ (\A i : ~IsVerdict(u, i))
        /\ (\A i : IsProgress(u, i) => fw.corr = i /\ u.off = fw.last)
    BY <1>5, <2>1, <2>2 DEF UpKnown, IsVerdict, IsProgress
  <2>6. SlaveMoves(u)
    BY <1>3, <2>2, <2>3, <2>4, <2>5
  <2>7. QED BY <2>6
<1>6. QED BY <1>4, <1>5 DEF SlaveChunkRejected

(* What taking a chunk writes, and the prefix it makes.                     *)
LEMMA ChunkTaken ==
  ASSUME PushInv, NEW f, SlaveChunk(f)
  PROVE  /\ rx' \in Receivings /\ rx'.id = f.id /\ rx.id = f.id /\ rx'.got = rx.got \cup {f.off}
         /\ accepted \subseteq accepted' /\ accepted' \subseteq Indices
         /\ f.no = Len(outcome) => f.off \in accepted'
         /\ Contiguous' \in Offsets /\ Prefix(Contiguous', rx'.got)
         /\ Expected \in Offsets /\ Expected \in {fw.last, Contiguous'}
<1>1. f.off \in Indices /\ rx.id = f.id /\ rx \in Receivings /\ fw.last \in Offsets
  BY ReceivesIs DEF SlaveChunk, InSession, PushInv, StreamTypes, SlaveTypes, Transfers
<1>2. rx' \in Receivings /\ rx'.id = rx.id /\ rx'.got = rx.got \cup {f.off}
  BY <1>1 DEF SlaveChunk, WriteChunk, Receivings
<1>3. /\ accepted \subseteq accepted' /\ accepted' \subseteq Indices
      /\ f.no = Len(outcome) => f.off \in accepted'
  BY <1>1 DEF SlaveChunk, WriteChunk, PushInv, StreamTypes, PastTypes
<1>4. rx'.got \in SUBSET Indices
  BY <1>2 DEF Receivings
<1>5. \E n \in Offsets : (\A c \in Indices : c < n => c \in rx'.got) /\ n \notin rx'.got
  BY <1>4, ContiguousIs DEF Prefix
<1>6. Contiguous' \in Offsets /\ Prefix(Contiguous', rx'.got)
  BY <1>5 DEF Contiguous, Prefix
<1>7. Expected \in Offsets /\ Expected \in {fw.last, Contiguous'}
  BY <1>1, <1>6 DEF Expected, Greatest
<1>8. QED BY <1>1, <1>2, <1>3, <1>6, <1>7

LEMMA ChunkMoves ==
  ASSUME PushInv, NEW f, SlaveChunk(f)
  PROVE  \E u : SlaveMoves(u)
<1>1. Receives(f)
      /\ UNCHANGED <<masterVars, push, acks, pull, image, fin, event, outcome, promoted, used>>
  BY DEF SlaveChunk, masterVars
<1>2. SlaveTypes /\ IdsKnown /\ f.id \in used /\ f.id \in Nat
  BY <1>1, ReceivesIs DEF PushInv, StreamTypes
<1> DEFINE e == Expected
<1>3. e \in Offsets /\ e \in {fw.last, Contiguous'}
  BY ChunkTaken
<1> HIDE DEF e
(* The session's own chunks are those of the push, when its id is new.      *)
<1>5. push.active /\ TakenSoFar /\ rx'.id = push.id => rx'.got \subseteq accepted'
  <2> SUFFICES ASSUME push.active, TakenSoFar, rx'.id = push.id
               PROVE  rx'.got \subseteq accepted'
    OBVIOUS
  <2>1. f.no = push.no
    BY <1>1, ReceivesIs, ChunkTaken DEF TakenSoFar
  <2>2. push.no = Len(outcome)
    BY DEF PushInv, StreamTypes, MasterTypes
  <2>3. rx.got \subseteq accepted
    BY ChunkTaken DEF TakenSoFar
  <2>4. QED BY <2>1, <2>2, <2>3, ChunkTaken
<1>6. push.active /\ TakenSoFar /\ fw.corr = push.id /\ f.id = push.id => Prefix(e, accepted')
  <2> SUFFICES ASSUME push.active, TakenSoFar, fw.corr = push.id, f.id = push.id
               PROVE  Prefix(e, accepted')
    OBVIOUS
  <2>1. rx'.got \subseteq accepted'
    BY <1>5, ChunkTaken
  <2>2. Prefix(Contiguous', accepted')
    BY <2>1, ChunkTaken, PrefixGrows
  <2>3. Prefix(fw.last, accepted')
    BY ChunkTaken, PrefixGrows DEF TakenSoFar
  <2>4. QED BY <1>3, <2>2, <2>3
<1>7. ASSUME NEW u \in UpFrames, SendUp(u) \/ UNCHANGED <<up, lost>>, UpKnown(u, used),
             fw' \in Transfers, fw'.corr = fw.corr, fw'.corr # 0 => fw'.next >= 1,
             fw'.last = fw.last \/ (fw'.last = e /\ fw.corr = f.id),
             \A i : ~IsVerdict(u, i),
             \A i : IsProgress(u, i) => fw.corr = i /\ f.id = i /\ u.off = e
      PROVE  SlaveMoves(u)
  <2>1. up' \in Seq(UpFrames) /\ After(up, up', u) /\ lost' \in Losses
    BY <1>7, ReportMoves
  <2>2. SlaveTypes'
    BY <1>1, <1>2, <1>7, ChunkTaken DEF SlaveTypes
  <2>3. IdsKnown'
    BY <1>1, <1>2, <1>7, ChunkTaken DEF IdsKnown
  <2>4. VerdictMoves(u)
    BY <1>1, <1>2, <1>7 DEF VerdictMoves, OldVerdict, IdsKnown
  <2>5. push.active /\ TakenSoFar /\ IsProgress(u, push.id) => Prefix(u.off, accepted')
    BY <1>6, <1>7
  <2>6. push.active /\ TakenSoFar /\ fw'.corr = push.id => Prefix(fw'.last, accepted')
    <3> SUFFICES ASSUME push.active, TakenSoFar, fw'.corr = push.id
                 PROVE  Prefix(fw'.last, accepted')
      OBVIOUS
    <3>1. CASE fw'.last = fw.last
      BY <1>7, <3>1, ChunkTaken, PrefixGrows DEF TakenSoFar
    <3>2. CASE fw'.last = e /\ fw.corr = f.id
      BY <1>6, <1>7, <3>2
    <3>3. QED BY <1>7, <3>1, <3>2
  <2>7. TakenMoves(u)
    BY <1>5, <2>5, <2>6 DEF TakenMoves
  <2>8. acks' \in Seq(Nat) /\ pull' \in Seq(Commands) /\ promoted' \subseteq Pushes
    BY <1>1 DEF PushInv, StreamTypes, QueueTypes, PastTypes
  <2>9. QED
    BY <1>1, <1>7, <2>1, <2>2, <2>3, <2>4, <2>7, <2>8, ReceivesIs, ChunkTaken DEF SlaveMoves
<1>8. CASE UNCHANGED <<fw, up, lost>>
  <2>1. SlaveMoves(Silence)
    BY <1>2, <1>7, <1>8, SilenceIs, NoteSilence DEF SlaveTypes, IdsKnown
  <2>2. QED BY <2>1
<1>9. CASE fw.corr = f.id /\ fw' = [fw EXCEPT !.last = e] /\ UNCHANGED <<up, lost>>
  <2>1. fw' \in Transfers /\ fw'.corr = fw.corr /\ fw'.last = e /\ fw'.next = fw.next
    BY <1>2, <1>3, <1>9 DEF SlaveTypes, Transfers
  <2>2. fw'.corr # 0 => fw'.next >= 1
    BY <1>2, <2>1 DEF IdsKnown
  <2>3. SlaveMoves(Silence)
    BY <1>7, <1>9, <2>1, <2>2, SilenceIs, NoteSilence
  <2>4. QED BY <2>3
<1>10. CASE /\ fw.corr = f.id
            /\ fw' = [fw EXCEPT !.last = e, !.acked = e, !.next = NextAck(e)]
            /\ SendUp(Status("Ack", f.id, e))
  <2> DEFINE n == NextAck(e)
             u == Status("Ack", f.id, e)
  <2>1. fw.next \in Nat /\ fw.next >= 1
    BY <1>2, <1>10, ReceivesIs, <1>1 DEF IdsKnown, SlaveTypes, Transfers
  <2>2. n \in Nat /\ n > e
    BY <1>3, <2>1, NextAckIs
  <2>3. n \in Nat /\ n >= 1
    BY <1>3, <2>2, Sizes DEF Offsets
  <2>4. fw' = [fw EXCEPT !.last = e, !.acked = e, !.next = n] /\ SendUp(u)
    BY <1>10
  <2>5. u \in UpFrames /\ u.type = "Ack" /\ u.id = f.id /\ u.off = e
    BY <1>2, <1>3, StatusIs
  <2> HIDE DEF n, u
  <2>6. n \in Nat
    BY <2>3
  <2>7. fw' \in Transfers /\ fw'.corr = fw.corr /\ fw'.last = e /\ fw'.next = n
    BY <1>2, <1>3, <2>4, <2>6 DEF SlaveTypes, Transfers
  <2>8. UpKnown(u, used) /\ (\A i : ~IsVerdict(u, i))
        /\ (\A i : IsProgress(u, i) => fw.corr = i /\ f.id = i /\ u.off = e)
    BY <1>2, <1>10, <2>5 DEF UpKnown, IsVerdict, IsProgress
  <2>9. fw'.corr # 0 => fw'.next >= 1
    BY <2>3, <2>7
  <2>10. SlaveMoves(u)
    BY <1>7, <1>10, <2>4, <2>5, <2>7, <2>8, <2>9
  <2>11. QED BY <2>10
<1>11. QED BY <1>8, <1>9, <1>10 DEF SlaveChunk, e

LEMMA EndMoves ==
  ASSUME PushInv, NEW f, SlaveEnd(f)
  PROVE  \E u : SlaveMoves(u)
<1>1. /\ Receives(f) /\ UNCHANGED <<masterVars, push, acks, pull, outcome, accepted, used>>
      /\ fw' = IF fw.corr = f.id THEN NoTransfer ELSE fw
  BY DEF SlaveEnd, masterVars
<1>2. SlaveTypes /\ IdsKnown
  BY DEF PushInv, StreamTypes
<1>3. f.id \in used /\ f.id \in Nat \ {0} /\ f.no \in Pushes /\ f.no \in 0 .. MaxPushes
  BY <1>1, ReceivesIs, Sizes DEF Pushes
<1>4. fw' \in Transfers /\ fw'.corr \in {0, fw.corr} /\ fw'.corr # f.id
      /\ (fw'.corr # 0 => fw' = fw)
  BY <1>1, <1>2, <1>3, NothingIs DEF SlaveTypes
<1>5. ASSUME NEW kind \in {"Ok", "Fail"}, Finalize(f, kind),
             rx' \in {rx, NoReceive}, image' \in 0 .. MaxPushes,
             promoted \subseteq promoted', promoted' \subseteq promoted \cup {f.no},
             kind = "Ok" => f.no \in promoted',
             event' \in Events
      PROVE  \E u : SlaveMoves(u)
  <2> DEFINE off == IF kind = "Ok" THEN Chunks ELSE fw.last
             u == Status(kind, f.id, off)
  <2>1. off \in Offsets
    BY <1>2, Sizes DEF SlaveTypes, Transfers, Offsets
  <2>2. fin' = [pending |-> TRUE, kind |-> kind, corr |-> f.id, off |-> off] /\ SendUp(u)
    BY <1>5 DEF Finalize
  <2> HIDE DEF off
  <2>3. u \in UpFrames /\ u.type = kind /\ u.id = f.id
    BY <1>3, <2>1, StatusIs
  <2> HIDE DEF u
  <2>4. fin' \in Verdicts /\ fin'.pending /\ fin'.corr = f.id /\ fin'.kind = kind
    BY <1>3, <2>1, <2>2 DEF Verdicts
  <2>5. up' \in Seq(UpFrames) /\ After(up, up', u) /\ lost' \in Losses
    BY <2>2, <2>3, ReportMoves
  <2>6. UpKnown(u, used)
    BY <1>3, <2>3 DEF UpKnown
  <2>7. SlaveTypes'
    BY <1>2, <1>4, <1>5, <2>4, NothingIs DEF SlaveTypes
  <2>8. IdsKnown'
    BY <1>1, <1>2, <1>3, <1>4, <1>5, <2>4, NothingIs DEF IdsKnown
  <2>9. VerdictMoves(u)
    <3> SUFFICES ASSUME push.active, OnlyOf(down, push.id, push.no), push.no \notin promoted'
                 PROVE  /\ IsVerdict(u, push.id) => OldVerdict(push.id)
                        /\ IsProgress(u, push.id) => ~OldVerdict(push.id)'
                        /\ OldVerdict(push.id)' => OldVerdict(push.id)
      BY DEF VerdictMoves
    <3>1. kind = "Ok" => f.id # push.id
      BY <1>1, <1>5, ReceivesIs
    <3>2. QED BY <1>1, <2>3, <2>4, <3>1 DEF IsVerdict, IsProgress, OldVerdict
  <2>10. TakenMoves(u)
    <3>1. \A i : ~IsProgress(u, i)
      BY <2>3 DEF IsProgress
    <3>2. push.active => push.id # 0
      BY Sizes DEF PushInv, SessionKept, Windowed
    <3>3. QED BY <1>1, <1>4, <1>5, <3>1, <3>2, NothingIs DEF TakenMoves, TakenSoFar
  <2>11. promoted' \subseteq Pushes /\ accepted' \subseteq Indices
         /\ acks' \in Seq(Nat) /\ pull' \in Seq(Commands)
    BY <1>1, <1>3, <1>5 DEF PushInv, StreamTypes, PastTypes, QueueTypes
  <2>12. SlaveMoves(u)
    BY <1>1, <1>5, <2>5, <2>6, <2>7, <2>8, <2>9, <2>10, <2>11, ReceivesIs DEF SlaveMoves
  <2>13. QED BY <2>12
<1>6. CASE Complete(f) /\ rx' = NoReceive /\ Promote(f.no) /\ PublishReady /\ Finalize(f, "Ok")
  <2>1. event' \in Events
    <3>1. event.seq \in Nat /\ event.seq + 1 \in Nat
      BY <1>2, Sizes DEF IdsKnown, SlaveTypes, Events
    <3>2. QED BY <1>6, <3>1 DEF PublishReady, Events
  <2>2. image' = f.no /\ promoted' = promoted \cup {f.no}
    BY <1>6 DEF Promote
  <2>3. QED BY <1>3, <1>5, <1>6, <2>1, <2>2
<1>7. CASE /\ rx' \in {rx, NoReceive} /\ image' \in {image, NoImage} /\ Finalize(f, "Fail")
           /\ UNCHANGED <<promoted, event>>
  <2>1. image' \in 0 .. MaxPushes
    BY <1>2, <1>7, Sizes DEF SlaveTypes, NoImage
  <2>2. event' \in Events
    BY <1>2, <1>7 DEF IdsKnown, SlaveTypes
  <2>3. QED BY <1>5, <1>7, <2>1, <2>2
<1>8. QED BY <1>6, <1>7 DEF SlaveEnd

-----------------------------------------------------------------------------
(* The theorems.                                                            *)

LEMMA PushInit == Init => PushInv
<1> SUFFICES ASSUME Init PROVE PushInv
  OBVIOUS
<1>1. MasterTypes
  BY NoSessionIs DEF Init, MasterTypes
<1>2. QueueTypes
  BY EmptySeq, Sizes DEF Init, QueueTypes, Losses
<1>3. SlaveTypes
  BY NothingIs, Sizes DEF Init, SlaveTypes, Events, NoImage
<1>4. PastTypes
  BY EmptySeq, Sizes DEF Init, PastTypes
<1>5. FramesKnown
  BY EmptySeq DEF Init, FramesKnown, AllDown, AllUp
<1>6. IdsKnown
  BY NothingIs, Sizes DEF Init, IdsKnown
<1>7. ~push.active
  BY NoSessionIs DEF Init
<1>8. QED
  BY <1>1, <1>2, <1>3, <1>4, <1>5, <1>6, <1>7
  DEF PushInv, StreamTypes, SessionKept, VerdictKept, TakenKept

(* Every step is one of the master's, a start, a report or one of the       *)
(* slave's.                                                                 *)
LEMMA PushStep == PushInv /\ [Next]_vars => PushInv'
<1> SUFFICES ASSUME PushInv, [Next]_vars PROVE PushInv'
  OBVIOUS
<1>1. StreamTypes /\ SessionKept /\ FramesKnown
  BY DEF PushInv
<1>2. ASSUME NEW id \in Ids, NEW update \in BOOLEAN, Start(id, update) PROVE PushInv'
  BY <1>2, StartKeeps
<1>3. CASE StartRefused
  BY <1>1, <1>3, StartRefusedMoves, MasterKeeps
<1>4. CASE MasterPump
  <2>1. MasterMoves
    BY <1>1, <1>4, PumpWaitBeginMoves, PumpWaitEndMoves, PumpAckSeenMoves, PumpAckTimeoutMoves,
       PumpEndMoves, PumpChunkMoves, PumpChunkRefusedMoves DEF MasterPump
  <2>2. QED BY <2>1, MasterKeeps
<1>5. CASE PumpGivesUp \/ Abort \/ UpdateEnds
  BY <1>1, <1>5, PumpGivesUpMoves, AbortMoves, UpdateEndsMoves, MasterKeeps
<1>6. CASE MasterReceives
  BY <1>1, <1>6, ProgressKeeps, OnFinalizeMoves, OnTransferReadyMoves, MasterKeeps DEF MasterReceives
<1>7. CASE SlaveReceives
  BY <1>7, SlaveBeginMoves, ChunkMoves, ChunkRejectedMoves, EndMoves, SlaveKeeps DEF SlaveReceives
<1>8. CASE SlaveTick
  BY <1>8, FinalizeRetryMoves, FinalizeExpiresMoves, EventTickMoves, ReceiveExpiresMoves, SlaveKeeps
  DEF SlaveTick
<1>9. CASE SlaveControl
  BY <1>9, ClearScopeMoves, ApplyMoves, SlaveFinalizeAckMoves, SlaveKeeps DEF SlaveControl
<1>10. CASE SlaveReboot
  BY <1>10, SlaveRebootMoves, SlaveKeeps
<1>11. CASE MasterReboot
  BY <1>1, <1>11, MasterRebootMoves, MasterKeeps
<1>12. CASE UNCHANGED vars
  BY <1>1, <1>12, StutterMoves, MasterKeeps
<1>13. QED
  BY <1>2, <1>3, <1>4, <1>5, <1>6, <1>7, <1>8, <1>9, <1>10, <1>11, <1>12 DEF Next

LEMMA PushInvariant == Spec => []PushInv
BY PushInit, PushStep, PTL DEF Spec

(* Every record, queue and history of the stream keeps its range, for every *)
(* image size, window, retry limit and queue length.                        *)
THEOREM FirmwareTypeCorrect == Spec => []TypeOK
<1>1. PushInv => TypeOK
  BY TypesAre DEF PushInv
<1>2. QED BY <1>1, PushInvariant, PTL

(* What the master believes acknowledged of a push with a new request id,   *)
(* the slave has received: handleFirmwareChunk reports the prefix received  *)
(* without a gap, and the pump ends the transfer only at its end.           *)
THEOREM AckedWasReceived == Spec => []AckedIsReceived
<1>1. PushInv => AckedIsReceived
  <2> SUFFICES ASSUME PushInv, push.active, push.fresh
               PROVE  /\ \A c \in Indices : c < push.acked => c \in accepted
                      /\ push.phase = "WaitEnd" => accepted = Indices
    BY DEF AckedIsReceived
  <2>1. \A c \in Indices : c < push.acked => c \in accepted
    BY DEF PushInv, TakenKept, TakenSoFar, Prefix
  <2>2. push.phase = "WaitEnd" => accepted = Indices
    <3>1. push.phase = "WaitEnd" => push.acked = Chunks
      BY DEF PushInv, SessionKept, Windowed
    <3>2. \A c \in Indices : c < Chunks
      BY Sizes DEF Indices
    <3>3. accepted \subseteq Indices
      BY DEF PushInv, StreamTypes, PastTypes
    <3>4. QED BY <2>1, <3>1, <3>2, <3>3
  <2>3. QED BY <2>1, <2>2
<1>2. QED BY <1>1, PushInvariant, PTL

(* What an action does to the record of how pushes ended, unless it ends    *)
(* one with Done.                                                           *)
EndsOtherwise == \/ outcome' = outcome
                 \/ \E why \in {"Failed", "Stopped"} :
                       outcome' = [outcome EXCEPT ![push.no] = why]

LEMMA OtherwiseNotDone ==
  ASSUME PushInv, push.active, EndsOtherwise
  PROVE  outcome'[push.no] # "Done"
<1>1. outcome \in Seq(Outcomes) /\ push.no \in DOMAIN outcome /\ outcome[push.no] = "Running"
  <2>1. outcome \in Seq(Outcomes) /\ push.no = Len(outcome) /\ push.no \in Pushes
        /\ outcome[push.no] = "Running"
    BY DEF PushInv, StreamTypes, PastTypes, MasterTypes, SessionKept, Windowed
  <2>2. QED BY <2>1, Sizes DEF Pushes
<1>2. CASE outcome' = outcome
  BY <1>1, <1>2
<1>3. ASSUME NEW why \in {"Failed", "Stopped"},
             outcome' = [outcome EXCEPT ![push.no] = why]
      PROVE  outcome'[push.no] # "Done"
  BY <1>1, <1>3
<1>4. QED BY <1>2, <1>3 DEF EndsOtherwise

LEMMA DoneStep ==
  ASSUME PushInv, [Next]_vars, push.active, push.alone, outcome'[push.no] = "Done", ~ByEvent
  PROVE  push.no \in promoted
<1>1. ~EndsOtherwise
  BY OtherwiseNotDone
<1>2. \A id \in Ids, update \in BOOLEAN : ~Start(id, update)
  BY DEF Start
<1>3. ~StartRefused /\ ~UpdateEnds /\ ~MasterReboot /\ ~(UNCHANGED vars)
  BY <1>1 DEF EndsOtherwise, StartRefused, UpdateEnds, MasterReboot, vars, history
<1>4. ~MasterPump
  BY <1>1 DEF EndsOtherwise, MasterPump, PumpWaitBegin, PumpWaitEnd, PumpAckSeen, PumpAckTimeout,
       PumpEnd, PumpChunk, PumpChunkRefused, StopFailed, history
<1>5. ~PumpGivesUp /\ ~Abort
  BY <1>1 DEF EndsOtherwise, PumpGivesUp, Abort, StopFailed
<1>6. ~SlaveReceives
  BY <1>1 DEF EndsOtherwise, SlaveReceives, SlaveBegin, SlaveChunk, SlaveChunkRejected, SlaveEnd, history
<1>7. ~SlaveTick /\ ~SlaveControl /\ ~SlaveReboot
  BY <1>1 DEF EndsOtherwise, SlaveTick, SlaveControl, FinalizeRetry, FinalizeExpires, EventTick,
       ReceiveExpires, ClearScope, Apply, SlaveFinalizeAck, SlaveReboot, history
<1>8. PICK f : OnProgress(f) \/ OnFinalize(f) \/ OnTransferReady(f)
  BY <1>2, <1>3, <1>4, <1>5, <1>6, <1>7 DEF Next, MasterReceives
<1>9. ~OnProgress(f)
  BY <1>1 DEF EndsOtherwise, OnProgress, history
<1>10. Reports(f)
  BY <1>8 DEF OnProgress, OnFinalize, OnTransferReady
<1>11. 1 \in DOMAIN up /\ up[1] = f
  BY <1>10, TailSilence DEF PushInv
(* The verdict of another push cannot be here: nothing of this one would be *)
(* acknowledged yet, and the push waits for a verdict only when all is.     *)
<1>12. CASE OnFinalize(f)
  <2>1. Concerns(f) /\ push.phase = "WaitEnd" /\ f.type = "Ok"
    BY <1>1, <1>12 DEF EndsOtherwise, OnFinalize, StopFailed
  <2>2. push.acked = Chunks /\ Chunks # 0
    BY <2>1, Sizes DEF PushInv, SessionKept, Windowed
  <2>3. IsVerdict(up[1], push.id)
    BY <1>11, <2>1 DEF Concerns, IsVerdict
  <2>4. ~NotYet(push.id)
    BY <1>11, <2>2, <2>3 DEF NotYet, NoVerdict
  <2>5. QED BY <2>4 DEF PushInv, VerdictKept
<1>13. CASE OnTransferReady(f)
  BY <1>13 DEF OnTransferReady, Reports, ByEvent
<1>14. QED BY <1>8, <1>9, <1>12, <1>13

DoneNow == push.active /\ push.alone /\ outcome'[push.no] = "Done" /\ ~ByEvent
             => push.no \in promoted

(* Done for a push means that the slave promoted the image of that very     *)
(* push: clearing the repeated verdict at a begin, and waiting for one only *)
(* when all is acknowledged, keeps the verdict of an earlier push away.     *)
THEOREM DoneIsPromoted == Spec => DoneMeansPromoted
<1>1. PushInv /\ [Next]_vars => DoneNow
  BY DoneStep DEF DoneNow
<1>2. PushInv /\ [Next]_vars => [DoneNow]_vars
  BY <1>1
<1>3. Spec => [][DoneNow]_vars
  BY <1>2, PushInvariant, PTL DEF Spec
<1>4. QED BY <1>3 DEF DoneMeansPromoted, DoneNow
=============================================================================
