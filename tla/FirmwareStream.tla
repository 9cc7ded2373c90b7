--------------------------- MODULE FirmwareStream ---------------------------
(***************************************************************************)
(* Pushing a firmware image from a master to one paired slave: the local    *)
(* push session of ManagementService (master), the firmware receive path of *)
(* EspNowManager and the receive session of OtaManager (slave).             *)
(*                                                                         *)
(* Offsets and sizes are counted in chunks.  A push carries the number of   *)
(* its start as the identity of its image, in place of the CRC-32.  Frames  *)
(* travel through receive queues that each device drains in its tick: those *)
(* of firmware, control and pull frames of the slave, and of control frames *)
(* of the master.  A receive callback runs beside the tick, so nothing      *)
(* orders the slave's queues against each other.                            *)
(***************************************************************************)
EXTENDS Naturals, Sequences, FiniteSets

CONSTANTS Chunks,       \* chunks of an image
          Window,       \* chunks the master sends before it waits (16)
          AckStep,      \* chunks between two acknowledgements: max(1024, 16 * chunk_bytes)
          RetryMax,         \* kChunkAckMaxRetry (6)
          RetryMaxRecovery, \* kChunkAckMaxRetryRecovery (20)
          SendFailMax,  \* refused chunk sends in a row that end a push (24)
          Ids,          \* request ids the frontends use
          EventSeq0,    \* first correlation id of the slave's own events after a restart
          QMax,         \* capacity of each receive queue
          MaxPushes,    \* bound: pushes started
          MaxLost,      \* bound: frames lost on the air
          Losable,      \* types of frames the radio may lose
          Refusals,     \* whether the slave may refuse a begin (gate, storage)
          SendFaults,   \* whether a transport may refuse a send
          Aborts,       \* pushes whose user, file or pair may end them
          Updates,      \* whether pushes may be started by OtaUpdateStart
          Reboots,      \* whether the devices may restart
          Timely        \* whether timers outlast the time frames spend in queues

ASSUME Sizes == /\ {Chunks, Window, AckStep, SendFailMax, QMax} \subseteq Nat \ {0}
                /\ {RetryMax, RetryMaxRecovery, EventSeq0, MaxPushes, MaxLost} \subseteq Nat
                /\ Ids \subseteq Nat \ {0}
                /\ {Refusals, SendFaults, Updates, Reboots, Timely} \subseteq BOOLEAN

VARIABLES
  push,      \* master: ota_push_local_
  upd,       \* master: the phase of ota_update_local_
  down,      \* slave: firmware_rx_queue_
  acks,      \* slave: the FinalizeAcks in control_rx_queue_, by request id
  pull,      \* slave: pull_request_queue_
  up,        \* master: control_rx_queue_
  rx,        \* slave: the receive session of OtaManager
  image,     \* slave: the push whose image is promoted and still on disk, 0 when none
  fw,        \* slave: the ota_transfer_ fields of EspNowManager
  fin,       \* slave: the ota_finalize_ fields
  event,     \* slave: queued OtaTransferReady (its correlation id, 0 when none) and the sequence
  outcome,   \* history: how each push ended
  promoted,  \* history: pushes whose image the slave has promoted
  accepted,  \* history: chunks of the latest push the slave has taken
  used,      \* history: request ids of the pushes started
  lost       \* history: frames lost so far, and whether any was no chunk

masterVars == <<push, upd>>
slaveVars  == <<rx, image, fw, fin, event>>
queues     == <<down, acks, pull, up>>
history    == <<outcome, promoted, accepted, used>>
vars       == <<masterVars, queues, slaveVars, history, lost>>

Offsets == 0 .. Chunks
Indices == 0 .. Chunks - 1
Pushes  == 1 .. MaxPushes
NoImage == 0

Least(a, b)    == IF a < b THEN a ELSE b
Greatest(a, b) == IF a < b THEN b ELSE a

-----------------------------------------------------------------------------
(* Data.                                                                    *)

Sessions == [active : BOOLEAN, phase : {"WaitBegin", "Streaming", "WaitEnd"},
             id : Nat, no : 0 .. MaxPushes, next : Offsets, acked : Offsets,
             pend : Offsets,                  \* pending_end_offset
             waiting : BOOLEAN,               \* waiting_chunk_ack
             fresh : BOOLEAN,                 \* history: no earlier push had this id
             alone : BOOLEAN,                 \* history: no frame with this id was under way
             retry : Nat, window : {1, Window}, recov : Offsets, fails : Nat]

(* How a push ends: "Stopped" by a user, its file, its pair or the transport, *)
(* "Failed" by a timer, the retry limits or a negative answer.              *)
Outcomes == {"Running", "Done", "Failed", "Stopped"}

NoSession == [active |-> FALSE, phase |-> "WaitBegin", id |-> 0, no |-> 0, next |-> 0,
              acked |-> 0, pend |-> 0, waiting |-> FALSE, fresh |-> FALSE,
              alone |-> FALSE, retry |-> 0, window |-> Window, recov |-> 0, fails |-> 0]

DownFrames == [type : {"Begin", "Chunk", "End"}, id : Nat,
               no : 0 .. MaxPushes, off : Offsets]
UpFrames   == [type : {"Ack", "Nack", "Ok", "Fail", "Ready"}, id : Nat, off : Offsets]
Commands   == {"Clear", "Apply"}

Down(ty, off)   == [type |-> ty, id |-> push.id, no |-> push.no, off |-> off]
Status(ty, id, off) == [type |-> ty, id |-> id, off |-> off]

NoReceive == [active |-> FALSE, id |-> 0, no |-> 0, got |-> {}]

NoTransfer == [corr |-> 0, size |-> 0, last |-> 0, acked |-> 0, next |-> 0,
               nacked |-> Chunks + 1]          \* Chunks + 1: no NACK sent yet

NoFinalize == [pending |-> FALSE, kind |-> "Fail", corr |-> 0, off |-> 0]

(* Fault: the number of chunks received instead of the gapless prefix.      *)
ContiguousCounts == Cardinality(rx.got)

(* received_size: the length of the prefix received without a gap.          *)
Contiguous == CHOOSE n \in Offsets : /\ \A c \in Indices : c < n => c \in rx.got
                                     /\ n \notin rx.got

-----------------------------------------------------------------------------
(* Radio and queues.                                                        *)

(* A full queue drops its oldest frame.                                     *)
Enqueue(q, f) == Append(IF Len(q) >= QMax THEN Tail(q) ELSE q, f)

(* What a send whose result nobody looks at does: the frame arrives, or the *)
(* radio loses it.                                                          *)
Delivers(q, new, f, ty) ==
  \/ new = Enqueue(q, f) /\ lost' = lost
  \/ /\ ty \in Losable /\ lost.count < MaxLost /\ new = q
     /\ lost' = [count |-> lost.count + 1, others |-> lost.others \/ ty # "Chunk"]

SendDown(f)   == Delivers(down, down', f, f.type)
SendUp(f)     == Delivers(up, up', f, f.type)
SendPull(cmd) == Delivers(pull, pull', cmd, cmd)
SendNothing(q, new) == new = q /\ lost' = lost

-----------------------------------------------------------------------------
(* Master: the push session.                                                *)

(* No frame of an earlier push with this id is queued or in the air.        *)
NoneOf(id) == /\ \A k \in DOMAIN down : down[k].id # id
              /\ \A k \in DOMAIN up : up[k].id # id

StartSession(id) == [NoSession EXCEPT !.active = TRUE, !.id = id, !.no = Len(outcome) + 1,
                                      !.fresh = id \notin used, !.alone = NoneOf(id)]

(* startOtaPushLocalSession, after requestOtaClearScope when the push       *)
(* belongs to an OtaUpdateStart.  A refused send starts nothing.            *)
Start(id, update) ==
  /\ ~push.active /\ upd = "Idle" /\ Len(outcome) < MaxPushes
  /\ update => Updates
  /\ id <= Len(outcome) + 1      \* which new id a push gets makes no difference
  /\ push' = StartSession(id)
  /\ upd' = IF update THEN "Push" ELSE "Idle"
  /\ pull' = IF update THEN Enqueue(pull, "Clear") ELSE pull
  /\ LET f == [type |-> "Begin", id |-> id, no |-> Len(outcome) + 1, off |-> 0] IN SendDown(f)
  /\ outcome' = Append(outcome, "Running")
  /\ accepted' = {} /\ used' = used \cup {id}
  /\ UNCHANGED <<acks, up, slaveVars, promoted>>

(* OtaUpdateStart sent its cleanup request and could not send the begin.    *)
StartRefused ==
  /\ Updates /\ SendFaults
  /\ ~push.active /\ upd = "Idle"
  /\ pull' = Enqueue(pull, "Clear")
  /\ UNCHANGED <<masterVars, down, acks, up, slaveVars, history, lost>>

(* stopOtaPushLocal(false): the slave is asked to drop what it received     *)
(* unless the pair is gone, and a surrounding update fails too.             *)
StopFailed(clears, why) ==
  /\ push' = NoSession
  /\ upd' = "Idle"
  /\ outcome' = [outcome EXCEPT ![push.no] = why]
  /\ IF clears THEN SendPull("Clear") ELSE SendNothing(pull, pull')

(* stopOtaPushLocal(true): a surrounding update asks for the apply, and     *)
(* fails when that request cannot be sent.                                  *)
StopDone ==
  /\ push' = NoSession
  /\ outcome' = [outcome EXCEPT ![push.no] = "Done"]
  /\ \/ upd = "Push" /\ upd' = "WaitBoot" /\ SendPull("Apply")
     \/ upd = "Push" /\ SendFaults /\ upd' = "Idle" /\ SendNothing(pull, pull')
     \/ upd # "Push" /\ upd' = upd /\ SendNothing(pull, pull')

Streaming(s) == [s EXCEPT !.phase = "Streaming", !.waiting = FALSE, !.retry = 0]

Quiet == down = <<>> /\ acks = <<>> /\ pull = <<>> /\ up = <<>>

(* pumpOtaPushLocal in WAIT_BEGIN: 12 s without any status, or, after 900   *)
(* ms, streaming starts without an acknowledged begin.                      *)
PumpWaitBegin ==
  /\ push.active /\ push.phase = "WaitBegin"
  /\ Timely => Quiet
  /\ \/ /\ push' = Streaming(push)
        /\ UNCHANGED <<upd, outcome, pull, lost>>
     \/ ~Timely /\ StopFailed(TRUE, "Failed")
  /\ UNCHANGED <<down, acks, up, slaveVars, promoted, accepted, used>>

(* WAIT_END: 60 s without any status.                                       *)
PumpWaitEnd ==
  /\ push.active /\ push.phase = "WaitEnd"
  /\ Timely => Quiet /\ ~fin.pending
  /\ StopFailed(TRUE, "Failed")
  /\ UNCHANGED <<down, acks, up, slaveVars, promoted, accepted, used>>

Waits == push.active /\ push.phase = "Streaming" /\ push.waiting

NoLongerWaits(s) == [s EXCEPT !.waiting = FALSE, !.retry = 0, !.pend = 0]

PumpAckSeen ==
  /\ Waits /\ push.acked >= push.pend
  /\ push' = NoLongerWaits(push)
  /\ UNCHANGED <<upd, queues, slaveVars, history, lost>>

(* The acknowledgement of a window does not come: the window is sent again  *)
(* from what was acknowledged, a bounded number of times.                   *)
RetryLimit == IF push.window <= 1 THEN RetryMaxRecovery ELSE RetryMax

PumpAckTimeout ==
  /\ Waits /\ push.acked < push.pend
  /\ Timely => Quiet
  /\ \/ /\ push.retry >= RetryLimit
        /\ StopFailed(TRUE, "Failed")
     \/ /\ push.retry < RetryLimit
        /\ push' = [push EXCEPT !.retry = @ + 1, !.waiting = FALSE, !.pend = 0,
                                !.next = Least(push.acked, Chunks)]
        /\ UNCHANGED <<upd, outcome, pull, lost>>
  /\ UNCHANGED <<down, acks, up, slaveVars, promoted, accepted, used>>

Sends == push.active /\ push.phase = "Streaming" /\ ~push.waiting

(* Everything is acknowledged: FirmwareEnd.                                 *)
PumpEnd ==
  /\ Sends /\ push.next >= Chunks
  /\ \/ /\ SendDown(Down("End", Chunks))
        /\ push' = [push EXCEPT !.phase = "WaitEnd"]
        /\ UNCHANGED <<upd, pull, outcome>>
     \/ SendFaults /\ StopFailed(TRUE, "Stopped") /\ UNCHANGED down
  /\ UNCHANGED <<acks, up, slaveVars, promoted, accepted, used>>

(* Fault: the last window may reach beyond the image.                       *)
WindowEndUnclamped(s) == IF s.pend = 0 \/ s.next >= s.pend THEN s.next + s.window ELSE s.pend

(* The end of the window the next chunk belongs to.                         *)
WindowEnd(s) == IF s.pend = 0 \/ s.next >= s.pend
                THEN Least(s.next + s.window, Chunks) ELSE s.pend

(* A chunk was handed to the radio; the last one of the window starts the   *)
(* wait for its acknowledgement and clears the retry counter.               *)
Sent(s, e) == LET waits == s.next + 1 >= e
              IN  [s EXCEPT !.fails = 0, !.next = @ + 1, !.pend = e, !.waiting = waits,
                            !.retry = IF waits THEN 0 ELSE @]

(* One chunk of the loop of pumpOtaPushLocal.  The loop's budget of eight   *)
(* chunks is only pacing: a window of 16 is sent over several ticks anyway, *)
(* and a refused send may end a tick after any chunk.                       *)
PumpChunk ==
  /\ Sends /\ push.next < Chunks
  /\ SendDown(Down("Chunk", push.next))
  /\ push' = Sent(push, WindowEnd(push))
  /\ UNCHANGED <<upd, acks, pull, up, slaveVars, history>>

PumpChunkRefused ==
  /\ SendFaults /\ Sends /\ push.next < Chunks
  /\ IF push.fails + 1 >= SendFailMax
     THEN StopFailed(TRUE, "Stopped")
     ELSE /\ push' = [push EXCEPT !.fails = @ + 1, !.pend = WindowEnd(push)]
          /\ UNCHANGED <<upd, pull, outcome, lost>>
  /\ UNCHANGED <<down, acks, up, slaveVars, promoted, accepted, used>>

(* The pair is gone, the file cannot be read, or the user aborts; an abort  *)
(* asks for the cleanup itself before stopOtaPushLocal asks again.          *)
PumpGivesUp ==
  /\ push.no \in Aborts /\ push.active
  /\ \/ StopFailed(FALSE, "Stopped")
     \/ Sends /\ push.next < Chunks /\ StopFailed(TRUE, "Stopped")
  /\ UNCHANGED <<down, acks, up, slaveVars, promoted, accepted, used>>

Abort ==
  /\ push.no \in Aborts /\ push.active
  /\ push' = NoSession
  /\ upd' = "Idle"
  /\ outcome' = [outcome EXCEPT ![push.no] = "Stopped"]
  /\ pull' \in {Enqueue(Enqueue(pull, "Clear"), "Clear")}
              \cup (IF SendFaults THEN {Enqueue(pull, "Clear"), pull} ELSE {})
  /\ UNCHANGED <<down, acks, up, slaveVars, promoted, accepted, used, lost>>

(* pumpOtaUpdateLocal: 180 s without a boot report, or the report arrives   *)
(* (the boot of the slave is outside this module).                          *)
UpdateEnds ==
  /\ upd = "WaitBoot"
  /\ upd' = "Idle"
  /\ UNCHANGED <<push, queues, slaveVars, history, lost>>

-----------------------------------------------------------------------------
(* Master: what the slave reports.                                          *)

Recovers(s) == IF s.recov # 0 /\ s.acked >= s.recov
               THEN [s EXCEPT !.recov = 0, !.window = Window] ELSE s

(* ChunkAck: the acknowledged prefix only grows; acknowledging offset 0     *)
(* acknowledges the begin.                                                  *)
OnAck(s, off) ==
  LET a == Recovers([s EXCEPT !.acked = Greatest(@, off)])
  IN  CASE s.phase = "WaitBegin" /\ off = 0 -> Streaming(a)
        [] s.phase = "Streaming" /\ s.waiting /\ off >= s.pend -> NoLongerWaits(a)
        [] OTHER -> a

(* ChunkNack: sending resumes at the rejected offset, one chunk at a time.  *)
OnNack(s, off) ==
  LET back == Greatest(Least(off, s.next), s.acked)
  IN  IF s.phase # "Streaming" THEN s
      ELSE [NoLongerWaits(s) EXCEPT !.acked = back, !.next = back, !.window = 1,
                                    !.recov = Least(back + 1, Chunks)]

Reports(f) == up # <<>> /\ Head(up) = f /\ up' = Tail(up)

Concerns(f) == push.active /\ f.id = push.id

OnProgress(f) ==
  /\ Reports(f) /\ f.type \in {"Ack", "Nack"}
  /\ push' = IF ~Concerns(f) THEN push
             ELSE IF f.type = "Ack" THEN OnAck(push, f.off) ELSE OnNack(push, f.off)
  /\ UNCHANGED <<upd, down, acks, pull, slaveVars, history, lost>>

(* FinalizeOk and FinalizeFail are acknowledged whatever session they are   *)
(* of; they end the session that waits for them.  The acknowledgement goes  *)
(* out first and the cleanup or apply request after it.                     *)
OnFinalize(f) ==
  /\ Reports(f) /\ f.type \in {"Ok", "Fail"}
  /\ acks' \in {Enqueue(acks, f.id)} \cup (IF SendFaults THEN {acks} ELSE {})
  /\ CASE Concerns(f) /\ push.phase = "WaitEnd" /\ f.type = "Ok"   -> StopDone
       [] Concerns(f) /\ push.phase = "WaitEnd" /\ f.type = "Fail" -> StopFailed(TRUE, "Failed")
       [] OTHER -> UNCHANGED <<push, upd, outcome, pull, lost>>
  /\ UNCHANGED <<down, slaveVars, promoted, accepted, used>>

(* The mandatory event OtaTransferReady carries the slave's own event       *)
(* sequence as its correlation id, and is compared with the request id.     *)
OnTransferReady(f) ==
  /\ Reports(f) /\ f.type = "Ready"
  /\ IF Concerns(f) /\ push.phase = "WaitEnd"
     THEN StopDone
     ELSE UNCHANGED <<push, upd, outcome, pull, lost>>
  /\ UNCHANGED <<down, acks, slaveVars, promoted, accepted, used>>

-----------------------------------------------------------------------------
(* Slave: OtaManager's receive session.                                     *)

Receives(f) == down # <<>> /\ Head(down) = f /\ down' = Tail(down)

(* beginReceive replaces any session; a begin is refused before that (gate, *)
(* size, folders, memory) or after it (the temporary file).                 *)
BeginReceive(f) == rx' = [active |-> TRUE, id |-> f.id, no |-> f.no, got |-> {}]

(* handleFirmwareBegin.                                                     *)
SlaveBegin(f) ==
  /\ Receives(f) /\ f.type = "Begin"
  /\ fin' = NoFinalize
  /\ \/ /\ BeginReceive(f)
        /\ fw' = [NoTransfer EXCEPT !.corr = f.id, !.size = Chunks, !.next = AckStep]
        /\ SendUp(Status("Ack", f.id, 0))
     \/ /\ Refusals /\ rx' \in {rx, NoReceive}
        /\ fw' = [fw EXCEPT !.size = 0, !.acked = 0]
        /\ SendUp(Status("Nack", f.id, 0))
  /\ UNCHANGED <<masterVars, acks, pull, image, event, history>>

(* writeReceiveChunk: only the active session's chunks are taken, in any    *)
(* order; a chunk received before is written again.                         *)
InSession(f) == rx.active /\ rx.id = f.id

WriteChunk(f) ==
  /\ rx' = [rx EXCEPT !.got = @ \cup {f.off}]
  /\ accepted' = IF f.no = Len(outcome) THEN accepted \cup {f.off} ELSE accepted

(* The prefix handleFirmwareChunk reports: never less than before, although *)
(* the sink reports 0 once its session is gone.                             *)
Expected == Greatest(fw.last, Contiguous')

(* Fault: the end of the image is not acknowledged on its own.              *)
AcksAtThreshold(e) == (e >= fw.next \/ e = 0) /\ e # fw.acked

AcksAt(e) == (e >= fw.next \/ (fw.size # 0 /\ e = fw.size) \/ e = 0) /\ e # fw.acked

NextAck(e) == LET later == {n \in {fw.next + k * AckStep : k \in Offsets} : n > e}
              IN  CHOOSE n \in later : \A m \in later : n <= m

(* handleFirmwareChunk for a chunk the session takes.                       *)
SlaveChunk(f) ==
  /\ Receives(f) /\ f.type = "Chunk" /\ InSession(f)
  /\ WriteChunk(f)
  /\ LET e == Expected IN
     IF fw.corr # f.id
     THEN UNCHANGED <<fw, up, lost>>
     ELSE IF AcksAt(e)
          THEN /\ fw' = [fw EXCEPT !.last = e, !.acked = e, !.next = NextAck(e)]
               /\ SendUp(Status("Ack", f.id, e))
          ELSE fw' = [fw EXCEPT !.last = e] /\ UNCHANGED <<up, lost>>
  /\ UNCHANGED <<masterVars, acks, pull, image, fin, event, outcome, promoted, used>>

(* ... and for one it rejects: a NACK, unless the same offset was rejected  *)
(* less than 60 ms ago.                                                     *)
SlaveChunkRejected(f) ==
  /\ Receives(f) /\ f.type = "Chunk" /\ ~InSession(f)
  /\ IF fw.corr # f.id
     THEN UNCHANGED <<fw, up, lost>>
     ELSE \/ /\ fw' = [fw EXCEPT !.nacked = fw.last]
             /\ SendUp(Status("Nack", f.id, fw.last))
          \/ fw.nacked = fw.last /\ UNCHANGED <<fw, up, lost>>
  /\ UNCHANGED <<masterVars, acks, pull, rx, image, fin, event, history>>

Complete(f) == InSession(f) /\ f.no = rx.no /\ rx.got = Indices

(* Promotion removes the previous image before it writes the new one, so a  *)
(* failing flush or rename leaves none; a CRC mismatch leaves it alone.     *)
Promote(no) == image' = no /\ promoted' = promoted \cup {no}

(* Fault: the result of the promotion is not looked at.                     *)
FinalizeOk(f, kind) ==
  /\ fin' = [pending |-> TRUE, kind |-> "Ok", corr |-> f.id, off |-> Chunks]
  /\ SendUp(Status("Ok", f.id, Chunks))

(* handleFirmwareEnd: the verdict is kept and repeated until acknowledged.  *)
Finalize(f, kind) ==
  LET off == IF kind = "Ok" THEN Chunks ELSE fw.last
  IN  /\ fin' = [pending |-> TRUE, kind |-> kind, corr |-> f.id, off |-> off]
      /\ SendUp(Status(kind, f.id, off))

(* publishMandatoryEvent: a queued event of the same kind is replaced.      *)
PublishReady == event' = [corr |-> event.seq, seq |-> event.seq + 1]

SlaveEnd(f) ==
  /\ Receives(f) /\ f.type = "End"
  /\ fw' = IF fw.corr = f.id THEN NoTransfer ELSE fw
  /\ IF Complete(f)
     THEN /\ rx' = NoReceive
          /\ \/ Promote(f.no) /\ PublishReady /\ Finalize(f, "Ok")
             \/ Refusals /\ image' \in {image, NoImage} /\ Finalize(f, "Fail")
                /\ UNCHANGED <<promoted, event>>
     ELSE Finalize(f, "Fail") /\ UNCHANGED <<rx, image, promoted, event>>
  /\ UNCHANGED <<masterVars, acks, pull, outcome, accepted, used>>

(* handleFirmwareStatus on the slave.                                       *)
SlaveFinalizeAck ==
  /\ acks # <<>> /\ acks' = Tail(acks)
  /\ fin' = IF fin.pending /\ fin.corr = Head(acks) THEN NoFinalize ELSE fin
  /\ UNCHANGED <<masterVars, down, pull, up, rx, image, fw, event, history, lost>>

(* tickOtaFinalizeStatusRetry: every 400 ms, for 12 s.                      *)
FinalizeRetry ==
  /\ fin.pending
  /\ Timely => up = <<>> /\ down = <<>>
  /\ SendUp(Status(fin.kind, fin.corr, fin.off))
  /\ UNCHANGED <<masterVars, down, acks, pull, slaveVars, history>>

FinalizeExpires ==
  /\ fin.pending
  /\ Timely => Quiet
  /\ fin' = NoFinalize
  /\ UNCHANGED <<masterVars, queues, rx, image, fw, event, history, lost>>

(* tickMandatoryEventQueue: sent once, or dropped after too many failures.  *)
EventTick ==
  /\ event.corr # 0
  /\ event' = [event EXCEPT !.corr = 0]
  /\ \/ SendUp(Status("Ready", event.corr, 0))
     \/ SendFaults /\ UNCHANGED <<up, lost>>
  /\ UNCHANGED <<masterVars, down, acks, pull, rx, image, fw, fin, history>>

(* clearOtaScopeInternal_("in"): the receive session is dropped.            *)
ClearScope ==
  /\ pull # <<>> /\ Head(pull) = "Clear" /\ pull' = Tail(pull)
  /\ rx' = NoReceive
  /\ UNCHANGED <<masterVars, down, acks, up, image, fw, fin, event, history, lost>>

(* expireReceiveIfStale_: 12 s without a chunk.                             *)
ReceiveExpires ==
  /\ rx.active
  /\ Timely => Quiet /\ ~push.active
  /\ rx' = NoReceive
  /\ UNCHANGED <<masterVars, queues, image, fw, fin, event, history, lost>>

-----------------------------------------------------------------------------
(* Restarts.                                                                *)

(* The slave forgets everything, and OtaManager::begin empties the image    *)
(* directory.                                                               *)
SlaveRestarts ==
  /\ rx' = NoReceive /\ image' = NoImage /\ fw' = NoTransfer /\ fin' = NoFinalize
  /\ event' = [corr |-> 0, seq |-> EventSeq0]
  /\ down' = <<>> /\ acks' = <<>>

SlaveReboot ==
  /\ Reboots
  /\ SlaveRestarts /\ pull' = <<>>
  /\ UNCHANGED <<masterVars, up, history, lost>>

(* applyOtaImage: refused, or the device restarts into the image.           *)
Apply ==
  /\ pull # <<>> /\ Head(pull) = "Apply"
  /\ \/ image # NoImage /\ SlaveRestarts /\ pull' = <<>>
     \/ pull' = Tail(pull) /\ UNCHANGED <<slaveVars, down, acks>>
  /\ UNCHANGED <<masterVars, up, history, lost>>

MasterReboot ==
  /\ Reboots
  /\ push' = NoSession /\ upd' = "Idle" /\ up' = <<>>
  /\ UNCHANGED <<down, acks, pull, slaveVars, history, lost>>

-----------------------------------------------------------------------------
Init ==
  /\ push = NoSession /\ upd = "Idle"
  /\ down = <<>> /\ acks = <<>> /\ pull = <<>> /\ up = <<>>
  /\ rx = NoReceive /\ image = NoImage
  /\ fw = NoTransfer /\ fin = NoFinalize /\ event = [corr |-> 0, seq |-> EventSeq0]
  /\ outcome = <<>> /\ promoted = {} /\ accepted = {} /\ used = {} 
  /\ lost = [count |-> 0, others |-> FALSE]

MasterPump == \/ PumpWaitBegin \/ PumpWaitEnd \/ PumpAckSeen \/ PumpAckTimeout
              \/ PumpEnd \/ PumpChunk \/ PumpChunkRefused

MasterReceives == up # <<>> /\ LET f == Head(up) IN
                    OnProgress(f) \/ OnFinalize(f) \/ OnTransferReady(f)

SlaveReceives == down # <<>> /\ LET f == Head(down) IN
                   \/ SlaveBegin(f) \/ SlaveChunk(f) \/ SlaveChunkRejected(f)
                   \/ SlaveEnd(f)

SlaveTick == FinalizeRetry \/ FinalizeExpires \/ EventTick \/ ReceiveExpires

SlaveControl == ClearScope \/ Apply \/ SlaveFinalizeAck

Next == \/ \E id \in Ids, update \in BOOLEAN : Start(id, update)
        \/ StartRefused \/ MasterPump \/ PumpGivesUp \/ Abort \/ UpdateEnds
        \/ MasterReceives \/ SlaveReceives \/ SlaveTick \/ SlaveControl
        \/ SlaveReboot \/ MasterReboot

Spec == Init /\ [][Next]_vars

(* Both main loops keep ticking: a tick dispatches what is queued, runs the *)
(* pump and compares every timer with a clock that keeps advancing.         *)
FairSpec == /\ Spec
            /\ WF_vars(MasterPump) /\ WF_vars(MasterReceives) /\ WF_vars(UpdateEnds)
            /\ WF_vars(SlaveReceives) /\ WF_vars(SlaveControl) /\ WF_vars(SlaveTick)

-----------------------------------------------------------------------------
(* Properties.                                                              *)

(* Every record, queue and history variable keeps its range.                *)
TypeOK ==
  /\ push \in Sessions /\ upd \in {"Idle", "Push", "WaitBoot"}
  /\ down \in Seq(DownFrames) /\ acks \in Seq(Nat) /\ pull \in Seq(Commands)
  /\ up \in Seq(UpFrames)
  /\ rx \in [active : BOOLEAN, id : Nat, no : 0 .. MaxPushes, got : SUBSET Indices]
  /\ image \in 0 .. MaxPushes
  /\ fw \in [corr : Nat, size : {0, Chunks}, last : Offsets, acked : Offsets, next : Nat,
             nacked : Offsets \cup {Chunks + 1}]
  /\ fin \in [pending : BOOLEAN, kind : {"Ok", "Fail"}, corr : Nat, off : Offsets]
  /\ event \in [corr : Nat, seq : Nat]
  /\ outcome \in Seq(Outcomes) /\ Len(outcome) <= MaxPushes
  /\ promoted \subseteq Pushes /\ accepted \subseteq Indices /\ used \subseteq Ids 
  /\ lost \in [count : 0 .. MaxLost, others : BOOLEAN]
  /\ push.active => push.no = Len(outcome)

(* The report being handled is an event of the slave.                       *)
ByEvent == up # <<>> /\ Head(up).type = "Ready"

(* CmdDone for a push means that the slave verified and promoted the image  *)
(* of that very push, whatever restarts, repeated verdicts and reused       *)
(* request ids came between.  Two cases are excepted, in which the code has *)
(* no means to tell: a push that starts while frames of an earlier push     *)
(* with its id are still queued, and one that is ended by an event whose    *)
(* number happens to be its id.                                             *)
DoneMeansPromoted ==
  [][push.active /\ push.alone /\ outcome'[push.no] = "Done" /\ ~ByEvent
       => push.no \in promoted]_vars

(* In a push whose request id is new, what the master believes acknowledged *)
(* the slave has received: a rewind never skips a chunk and FirmwareEnd is  *)
(* sent only when nothing is missing.                                       *)
AckedIsReceived ==
  push.active /\ push.fresh =>
    /\ \A c \in Indices : c < push.acked => c \in accepted
    /\ push.phase = "WaitEnd" => accepted = Indices

(* A push in progress ends: OtaPushStart is deferred and is completed by    *)
(* CmdDone or CmdFail.                                                      *)
PushEnds == push.active ~> ~push.active

(* Every push ends, with a report, also when cleanups, verdicts and ends of *)
(* the transfer are lost.  When the radio loses nothing but chunks, and     *)
(* neither the transport nor the user makes the push fail, it completes:    *)
(* lost chunks are sent again.                                              *)
PushCompletes ==
  push.active ~> /\ ~push.active /\ outcome # <<>>
                 /\ \/ outcome[Len(outcome)] \in {"Done", "Stopped"}
                    \/ lost.others
=============================================================================
