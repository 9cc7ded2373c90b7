--------------------------- MODULE ReportPayloads ---------------------------
(***************************************************************************)
(* What the management service tells its frontends: the payloads of its     *)
(* answers and events, and what the frontend adapter and the console make    *)
(* of them.  A frontend polls every answer and event of its source; which    *)
(* decoder is meant follows from the command or the event alone, and the     *)
(* payload has no mark of its own.                                          *)
(***************************************************************************)
EXTENDS CommandPayloads

CONSTANTS Tellings,    \* what a service may tell: [kind, what]
          ListMax     \* entries a list counts in one byte (255)

VARIABLES told,       \* the report, and the message it went out in
          shown       \* what the frontends made of it: [frontend, as, what]

NoAge == -1
Kept(list) == Cut(list, ListMax)
Byte(n)    == <<n % 256>>
I16(names) == Each("i16", names)
EachRow(list, RowBytes(_)) == FlattenSeq([i \in DOMAIN list |-> RowBytes(list[i])])

-----------------------------------------------------------------------------
(* What the service writes.                                                 *)
(* Who was discovered, then, in the same order, what the registry knows.    *)
Clamped(rssi) == Max({-127, Min({127, rssi})})
Seconds(age)  == Min({age \div 1000, 65535})
DiscoverySnapshotBytes(rows) ==
  LET known(r) == Byte((IF r.rssi # 0 THEN 1 ELSE 0) + (IF r.age # NoAge THEN 2 ELSE 0))
                  \o Byte(Clamped(r.rssi)) \o LittleEndian(IF r.age = NoAge THEN 0 ELSE Seconds(r.age), 2)
  IN  Byte(Len(Kept(rows))) \o EachRow(Kept(rows), LAMBDA r : r.peer)
      \o IF rows = None THEN None
         ELSE <<213, 1, Len(Kept(rows)), 4>> \o EachRow(Kept(rows), known)
PairedSnapshotBytes(rows) ==
  Byte(Len(Kept(rows))) \o EachRow(Kept(rows), LAMBDA r : r.peer \o <<r.role>>)
RuntimeChannelBytes(w) ==
  <<w.channel, Len(Kept(w.entries))>>
  \o EachRow(Kept(w.entries), LAMBDA e : e.peer \o <<e.channel>> \o Text(e.key, 255, 1))

(* Of a topology that is not there, noughts; the window is the committed    *)
(* one's, else the staged one's.                                            *)
NoSnapshot == [version |-> 0, state |-> 0, slots |-> 0, groups |-> 0, neg |-> 0, pos |-> 0, checksum |-> 0]
(* A defect: the window of the staged topology comes first.                 *)
TopologyStatusBytesStaged(w) ==
  LET staged    == IF w.staged = None THEN NoSnapshot ELSE w.staged[1]
      committed == IF w.committed = None THEN NoSnapshot ELSE w.committed[1]
      window    == IF w.staged # None THEN staged ELSE committed
      there(t)  == IF t = None THEN 0 ELSE 1
  IN  <<w.schema, there(w.staged), there(w.committed), 0>>
      \o LittleEndian(staged.version, 4) \o LittleEndian(committed.version, 4)
      \o <<staged.state, committed.state, staged.slots, committed.slots, staged.groups, committed.groups,
           window.neg, window.pos>>
      \o LittleEndian(staged.checksum, 4) \o LittleEndian(committed.checksum, 4)
TopologyStatusBytes(w) ==
  LET staged    == IF w.staged = None THEN NoSnapshot ELSE w.staged[1]
      committed == IF w.committed = None THEN NoSnapshot ELSE w.committed[1]
      window    == IF w.committed # None THEN committed ELSE staged
      there(t)  == IF t = None THEN 0 ELSE 1
  IN  <<w.schema, there(w.staged), there(w.committed), 0>>
      \o LittleEndian(staged.version, 4) \o LittleEndian(committed.version, 4)
      \o <<staged.state, committed.state, staged.slots, committed.slots, staged.groups, committed.groups,
           window.neg, window.pos>>
      \o LittleEndian(staged.checksum, 4) \o LittleEndian(committed.checksum, 4)
TopologySlotsBytes(w) ==
  <<w.schema, w.state, Len(w.slots)>> \o EachRow(w.slots, LAMBDA s : Fields(SlotFields, s))

LoggerStatusBytes(w) ==
  Encode(Flags(<<"available", "enabled">>) \o U8(<<"level">>) \o Pad
         \o U32(<<"used", "dropped", "appended", "rotations">>), w)
LoggerReadBytes(w) == Encode(U32(<<"offset", "total">>), w) \o Text(w.chunk, 65535, 2)
LiveMonitorBytes(w) ==
  Encode(Flags(<<"enabled", "ignoring">>) \o U16(<<"reasons">>) \o U8(<<"tracked", "online", "offline">>)
         \o U32(<<"next", "last">>), w)
PushStartBytes(w) == Encode(U32(<<"req", "size", "crc">>) \o U16(<<"chunk">>) \o Short(<<"path">>), w)
PushStatusBytes(w) ==
  Encode(Flags(<<"active">>) \o U8(<<"phase">>) \o U16(<<"chunk">>) \o U32(<<"req", "next", "size">>)
         \o U16(<<"sent">>) \o Short(<<"image">>), w)

PeerTextBytes(w)  == w.peer \o Text(w.text, 255, 1)
SeenBytes(w)      == w.peer \o LittleEndian(w.rssi, 2) \o Text(w.name, 255, 1) \o <<w.role>> \o <<0, 0>>
MandatoryBytes(w) == Encode(Mac \o U16(<<"event">>) \o U8(<<"severity">>) \o U32(<<"value", "at">>), w)
TransferBytes(w)  == Encode(Mac \o U8(<<"status">>) \o U32(<<"offset">>) \o U16(<<"code">>), w)
TriggerStates     == [received |-> 0, rejected |-> 1, duplicate |-> 2, ack |-> 3]
TriggerFields     == U8(<<"reason", "result", "srcRole", "src", "dstRole", "dst", "direction">>)
                     \o U16(<<"delay", "hold", "ackSeq">>)
TriggerBytes(w)   == <<1>> \o w.peer \o LittleEndian(w.seq, 2) \o <<TriggerStates[w.state]>> \o Encode(TriggerFields, w)
TransitionBytes(w) == <<1>> \o w.peer \o <<IF w.online THEN 0 ELSE 1, w.reason>> \o LittleEndian(w.at, 4)
PushEndBytes(w)   == Encode(U32(<<"req", "next", "size">>) \o U16(<<"sent", "code">>) \o Short(<<"text">>), w)
UpdateEndBytes(w) == Encode(U32(<<"req">>) \o U8(<<"phase">>) \o U16(<<"code">>) \o Short(<<"text">>), w)

ReportBytes(kind, w) ==
  CASE kind = "discovered"  -> DiscoverySnapshotBytes(w.rows)
    [] kind = "paired"      -> PairedSnapshotBytes(w.rows)
    [] kind = "channels"    -> RuntimeChannelBytes(w)
    [] kind = "topology"    -> TopologyStatusBytes(w)
    [] kind = "slots"       -> TopologySlotsBytes(w)
    [] kind = "logStatus"   -> LoggerStatusBytes(w)
    [] kind = "logRead"     -> LoggerReadBytes(w)
    [] kind = "monitor"     -> LiveMonitorBytes(w)
    [] kind = "pushStarted" -> PushStartBytes(w)
    [] kind = "pushStatus"  -> PushStatusBytes(w)
    [] kind = "archive"     -> Text(w.text, 65535, 2)
    [] kind = "triggered"   -> LittleEndian(w.seq, 2)
    [] kind \in {"cli", "loop"} -> <<IF w.enabled THEN 1 ELSE 0>>
    [] kind = "syncing"     -> <<w.channel, w.total>>
    [] kind = "looping"     -> <<IF w.enabled THEN 1 ELSE 0, w.total>>
    [] kind = "refused"     -> None
    [] kind \in {"pairStep", "unpaired", "pairEnd", "fault"} -> PeerTextBytes(w)
    [] kind = "seen"        -> SeenBytes(w)
    [] kind = "expired"     -> w.peer
    [] kind = "mandatory"   -> MandatoryBytes(w)
    [] kind = "transfer"    -> TransferBytes(w)
    [] kind = "trigger"     -> TriggerBytes(w)
    [] kind = "transition"  -> TransitionBytes(w)
    [] kind = "removed"     -> w.peer \o <<IF w.removed THEN 1 ELSE 0>>
    [] kind = "pushEnd"     -> PushEndBytes(w)
    [] kind = "updateEnd"   -> UpdateEndBytes(w)
    [] kind = "syncEnd"     -> <<w.channel, w.acked, w.total>>
    [] kind = "loopEnd"     -> <<IF w.enabled THEN 1 ELSE 0, w.acked, w.total>>
    [] kind = "deployed"    -> LittleEndian(w.queued, 4) \o LittleEndian(w.failed, 4)

(* The message that carries it: an answer to a command, or an event.        *)
AnswerOf(cmd, status) == [id |-> "Answer", cmd |-> cmd, status |-> status]
EventOf(id, cmd)    == [id |-> id, cmd |-> cmd, status |-> "any"]
Ended(done, cmd)    == EventOf(IF done THEN "CmdDone" ELSE "CmdFail", cmd)
AnswerTo ==
  [discovered |-> "DiscoverySnapshotGet", paired |-> "PairedSnapshotGet", channels |-> "ChannelRuntimeGet",
   topology |-> "TopologyStatusGet", slots |-> "TopologySlotsGet", logStatus |-> "LogLocalStatusGet",
   logRead |-> "LogLocalRead", monitor |-> "LiveMonitorStatusGet", pushStatus |-> "OtaPushStatus",
   triggered |-> "TopologyTriggerSend", cli |-> "CliControlSet", loop |-> "ChainLoopControlSet"]
EventFor ==
  [pairStep |-> "PairProgress", unpaired |-> "UnpairResult", pairEnd |-> "PairResult",
   seen |-> "DiscoveryUpdate", expired |-> "DiscoveryUpdate", transfer |-> "OtaTransferStatus",
   transition |-> "PeerLivenessTransition", removed |-> "PeerRemoved"]
CarriedBy(kind, w) ==
  CASE kind \in DOMAIN AnswerTo -> AnswerOf(AnswerTo[kind], "Ok")
    [] kind \in DOMAIN EventFor -> EventOf(EventFor[kind], "none")
    [] kind = "pushStarted" -> AnswerOf(w.cmd, "OkDeferred")
    [] kind = "syncing"     -> AnswerOf("ChannelSyncAll", "OkDeferred")
    [] kind = "looping"     -> AnswerOf("ChainLoopControlSet", "OkDeferred")
    [] kind = "archive"     -> AnswerOf(w.cmd, w.status)
    [] kind = "refused"     -> AnswerOf(w.cmd, "Refused")
    [] kind = "mandatory"   -> EventOf(IF w.event = 1 THEN "OtaTransferReady" ELSE "OtaBootComplete", "none")
    [] kind = "trigger"     -> EventOf(CASE w.state = "rejected" -> "TopologyTriggerRejected"
                                         [] w.state = "ack"      -> "TopologyTriggerAck"
                                         [] OTHER                -> "TopologyTriggerReceived", "none")
    [] kind = "fault"       -> EventOf("CmdFail", "none")
    [] kind = "pushEnd"     -> Ended(w.done, "OtaPushStart")
    [] kind = "updateEnd"   -> Ended(w.done, "OtaUpdateStart")
    [] kind = "syncEnd"     -> Ended(w.done, "ChannelSyncAll")
    [] kind = "loopEnd"     -> Ended(w.done, "ChainLoopControlSet")
    [] kind = "deployed"    -> EventOf("CmdDone", "TopologyCommit")

-----------------------------------------------------------------------------
(* What a frontend reads.                                                   *)
(* As many peers as there are; the metadata only when all of it fits them.  *)
DiscoverySnapshotOf(p) ==
  LET n    == Min({p[1], (Len(p) - 1) \div 6})
      meta == 2 + 6 * n
      size == p[meta + 3]
      full == /\ Len(p) > meta + 2 /\ p[meta] = 213 /\ p[meta + 1] = 1
              /\ p[meta + 2] = n /\ size >= 4 /\ Len(p) >= meta + 3 + n * size
      row(i) ==
        LET at    == meta + 4 + (i - 1) * size
            flags == p[at]
        IN  [peer |-> SubSeq(p, 6 * i - 4, 6 * i + 1),
             rssi |-> IF full /\ flags % 2 = 1 THEN Number("i8", <<p[at + 1]>>) ELSE 0,
             age  |-> IF full /\ (flags \div 2) % 2 = 1 THEN 1000 * Number("u16", SubSeq(p, at + 2, at + 3)) ELSE NoAge]
  IN  IF p = None THEN BadPayload ELSE [rows |-> [i \in 1 .. n |-> row(i)]]
PairedSnapshotOf(p) == Exactly(Counts(<<"rows">>) \o ListOf("rows", Mac \o U8(<<"role">>)), p)
RuntimeChannelOf(p) ==
  Exactly(U8(<<"channel">>) \o Counts(<<"entries">>) \o ListOf("entries", Mac \o U8(<<"channel">>) \o Short(<<"key">>)), p)
TopologyStatusOf(p) ==
  Exactly(U8(<<"schema">>) \o Flags(<<"hasStaged", "hasCommitted">>) \o Pad
          \o U32(<<"stagedVersion", "committedVersion">>)
          \o U8(<<"stagedState", "committedState", "stagedSlots", "committedSlots", "stagedGroups",
                  "committedGroups", "neg", "pos">>)
          \o U32(<<"stagedChecksum", "committedChecksum">>), p)
TopologySlotsOf(p) ==
  LET r == Exactly(U8(<<"schema", "state">>) \o Counts(<<"slots">>) \o ListOf("slots", SlotFields), p)
  IN  Accept(r, Len(r.slots) <= SlotsMax)
LogStatusOf(p) ==
  Leading(Flags(<<"available", "enabled">>) \o U8(<<"level">>) \o Pad
          \o U32(<<"used", "dropped", "appended", "rotations">>), p)
LogReadOf(p)    == Exactly(U32(<<"offset", "total">>) \o Long(<<"chunk">>), p)
MonitorOf(p)    == Exactly(Flags(<<"enabled", "ignoring">>) \o U16(<<"reasons">>)
                           \o U8(<<"tracked", "online", "offline">>) \o U32(<<"next", "last">>), p)
PushStartOf(p)  == Exactly(U32(<<"req", "size", "crc">>) \o U16(<<"chunk">>) \o Short(<<"path">>), p)
PushStatusOf(p) == Exactly(Flags(<<"active">>) \o U8(<<"phase">>) \o U16(<<"chunk">>)
                           \o U32(<<"req", "next", "size">>) \o U16(<<"sent">>) \o Short(<<"image">>), p)
TextOf(p)       == Exactly(Long(<<"text">>), p)
TriggeredOf(p)  == Exactly(U16(<<"seq">>), p)
BitOf(p)        == Exactly(Bits(<<"enabled">>), p)
PeerTextOf(p)   == Exactly(Mac \o Short(<<"text">>), p)
MandatoryOf(p)  == Exactly(Mac \o U16(<<"event">>) \o U8(<<"severity">>) \o U32(<<"value", "at">>), p)
TransferOf(p)   == Exactly(Mac \o U8(<<"status">>) \o U32(<<"offset">>) \o U16(<<"code">>), p)
TriggerOf(p)    == Exactly(U8(<<"schema">>) \o Mac \o U16(<<"seq">>) \o U8(<<"state">>) \o TriggerFields, p)
TransitionOf(p) == Exactly(U8(<<"schema">>) \o Mac \o U8(<<"state", "reason">>) \o U32(<<"at">>), p)
RemovedOf(p)    == Exactly(Mac \o Flags(<<"removed">>), p)
PushEndOf(p)    == Exactly(U32(<<"req", "next", "size">>) \o U16(<<"sent", "code">>) \o Short(<<"text">>), p)
UpdateEndOf(p)  == Exactly(U32(<<"req">>) \o U8(<<"phase">>) \o U16(<<"code">>) \o Short(<<"text">>), p)
SyncEndOf(p)    == Exactly(U8(<<"channel", "acked", "total">>), p)
LoopEndOf(p)    == Exactly(Bits(<<"enabled">>) \o U8(<<"acked", "total">>), p)
DeployedOf(p)   == Exactly(U32(<<"queued", "failed">>), p)

(* A defect: an update that ends early is refused.                          *)
SeenOfWhole(p) ==
  Exactly(Mac \o I16(<<"rssi">>) \o Short(<<"name">>) \o U8(<<"role">>) \o U16(<<"age">>), p)
(* The update of a discovered peer ends after the peer, its signal, its     *)
(* name, its role or its age.                                               *)
SeenOf(p) ==
  LET signal == Leading(Mac \o I16(<<"rssi">>), p)
      named  == Leading(Mac \o I16(<<"rssi">>) \o Short(<<"name">>), p)
      rolled == Leading(Mac \o I16(<<"rssi">>) \o Short(<<"name">>) \o U8(<<"role">>), p)
      aged   == Leading(Mac \o I16(<<"rssi">>) \o Short(<<"name">>) \o U8(<<"role">>) \o U16(<<"age">>), p)
      peer   == Leading(Mac, p)
      bare   == [rssi |-> 0, name |-> None, role |-> 0, age |-> NoAge]
      seen   == CASE aged # BadPayload   -> [aged EXCEPT !.age = 1000 * @]
                  [] rolled # BadPayload -> rolled
                  [] named # BadPayload  -> named
                  [] signal # BadPayload -> signal
                  [] OTHER               -> peer
  IN  IF peer = BadPayload THEN BadPayload ELSE seen @@ bare

Shows(condition, as, r) == IF condition /\ r # BadPayload THEN {[as |-> as, what |-> r]} ELSE {}
Archives == ByRole \cup ById
IsAnswer(m, cmds) == m.id = "Answer" /\ m.cmd \in cmds
IsEnd(m, cmd)   == m.id \in {"CmdDone", "CmdFail"} /\ m.cmd = cmd
Triggering == {"TopologyTriggerReceived", "TopologyTriggerRejected", "TopologyTriggerAck"}

(* The decoders of the frontend adapter: those whose command or event it is.*)
AdapterEvents(m) ==
  LET p == m.payload IN
  Shows(m.id \in {"PairProgress", "PairResult", "UnpairResult"}, "peerText", PeerTextOf(p))
  \cup Shows(m.id = "PeerRemoved", "removed", RemovedOf(p))
  \cup Shows(m.id = "DiscoveryUpdate", "seen", SeenOf(p))
  \cup Shows(m.id \in {"OtaTransferReady", "OtaBootComplete"}, "mandatory", MandatoryOf(p))
  \cup Shows(m.id = "OtaTransferStatus", "transfer", TransferOf(p))
  \cup Shows(IsEnd(m, "OtaPushStart"), "pushEnd", PushEndOf(p))
  \cup Shows(IsEnd(m, "OtaUpdateStart"), "updateEnd", UpdateEndOf(p))
AdapterAnswers(m) ==
  LET p == m.payload IN
  Shows(IsAnswer(m, Uploads), "pushStarted", PushStartOf(p))
  \cup Shows(IsAnswer(m, {"OtaPushStatus"}), "pushStatus", PushStatusOf(p))
  \cup Shows(IsAnswer(m, Archives), "archive", TextOf(p))
  \cup Shows(IsAnswer(m, {"DiscoverySnapshotGet"}), "discovered", DiscoverySnapshotOf(p))
  \cup Shows(IsAnswer(m, {"PairedSnapshotGet"}), "paired", PairedSnapshotOf(p))
  \cup Shows(IsAnswer(m, {"TopologyStatusGet"}), "topology", TopologyStatusOf(p))
  \cup Shows(IsAnswer(m, {"TopologySlotsGet"}), "slots", TopologySlotsOf(p))
  \cup Shows(IsAnswer(m, {"TopologyTriggerSend"}), "triggered", TriggeredOf(p))
  \cup Shows(IsAnswer(m, {"LiveMonitorStatusGet"}), "monitor", MonitorOf(p))
  \cup Shows(IsAnswer(m, {"CliControlSet"}), "cli", BitOf(p))
  \cup Shows(IsAnswer(m, {"ChainLoopControlSet"}) /\ m.status = "Ok", "loop", BitOf(p))
AdapterLiveEvents(m) ==
  LET p == m.payload IN
  Shows(IsEnd(m, "ChainLoopControlSet"), "loopEnd", LoopEndOf(p))
  \cup Shows(m.id = "PeerLivenessTransition", "transition", TransitionOf(p))
  \cup Shows(m.id \in Triggering, "trigger", TriggerOf(p))
AdapterRuntimeReads(m) ==
  LET p == m.payload IN
  Shows(IsAnswer(m, {"LogLocalStatusGet"}), "logStatus", LogStatusOf(p))
  \cup Shows(IsAnswer(m, {"LogLocalRead"}), "logRead", LogReadOf(p))
  \cup Shows(IsAnswer(m, {"ChannelRuntimeGet"}) /\ m.status = "Ok", "channels", RuntimeChannelOf(p))
  \cup Shows(IsEnd(m, "ChannelSyncAll"), "syncEnd", SyncEndOf(p))
AdapterReads(m) == AdapterEvents(m) \cup AdapterAnswers(m) \cup AdapterLiveEvents(m) \cup AdapterRuntimeReads(m)

(* The console, which reads its mailbox on its own; of the live monitor only *)
(* what it asked for.                                                       *)
ConsoleAnswers(m) ==
  LET fine(cmd) == IsAnswer(m, {cmd}) /\ m.status \in {"Ok", "OkDeferred"}
      p == m.payload
  IN  Shows(fine("LiveMonitorStatusGet"), "monitor", MonitorOf(p))
      \cup Shows(fine("TopologyStatusGet"), "topology", TopologyStatusOf(p))
      \cup Shows(fine("TopologySlotsGet"), "slots", TopologySlotsOf(p))
      \cup Shows(fine("TopologyTriggerSend"), "triggered", TriggeredOf(p))
ConsoleArchive(m) ==
  LET text == TextOf(m.payload)
  IN  Shows(IsAnswer(m, Archives) /\ text # [text |-> None], "archive", text)
ConsoleEvents(m) ==
  LET p == m.payload IN
  Shows(m.id = "PeerLivenessTransition", "transition", TransitionOf(p))
  \cup Shows(m.id \in Triggering, "trigger", TriggerOf(p))
  \cup Shows(IsEnd(m, "TopologyCommit"), "deployed", DeployedOf(p))
  \cup Shows(IsEnd(m, "ChannelSyncAll"), "syncEnd", SyncEndOf(p))
  \cup Shows(IsEnd(m, "ChainLoopControlSet"), "loopEnd", LoopEndOf(p))
ConsoleFirmwareEvents(m) ==
  LET p == m.payload IN
  Shows(m.id \in {"OtaTransferReady", "OtaBootComplete"}, "mandatory",
        Leading(Mac \o U16(<<"event">>) \o U8(<<"severity">>) \o U32(<<"value", "at">>), p))
  \cup Shows(m.id = "OtaTransferStatus", "transfer",
             Leading(Mac \o U8(<<"status">>) \o U32(<<"offset">>) \o U16(<<"code">>), p))
ConsoleReads(m) == ConsoleAnswers(m) \cup ConsoleArchive(m) \cup ConsoleEvents(m) \cup ConsoleFirmwareEvents(m)

-----------------------------------------------------------------------------
NoReport == [id |-> "none"]
Unshown  == [adapter |-> {[as |-> "none", what |-> NoReport]}, console |-> {}]

TellFrontends ==
  /\ told = NoReport
  /\ \E r \in Tellings :
       told' = CarriedBy(r.kind, r.what) @@ [report |-> r, payload |-> ReportBytes(r.kind, r.what)]
  /\ UNCHANGED shown
ShowReport ==
  /\ told # NoReport /\ shown = Unshown
  /\ shown' = [adapter |-> AdapterReads(told), console |-> ConsoleReads(told)]
  /\ UNCHANGED told

reportVars == <<told, shown>>
ReportInit == told = NoReport /\ shown = Unshown
ReportNext == TellFrontends \/ ShowReport

-----------------------------------------------------------------------------
(* What a report means: the fields a frontend has a place for, within their *)
(* limits, and as it may read them.                                         *)
Limited(r, f, n) == [r EXCEPT ![f] = Cut(@, n)]
TopologyMeant(w) ==
  LET staged    == IF w.staged = None THEN NoSnapshot ELSE w.staged[1]
      committed == IF w.committed = None THEN NoSnapshot ELSE w.committed[1]
      window    == IF w.committed = None THEN staged ELSE committed
  IN  [schema |-> w.schema, hasStaged |-> w.staged # None, hasCommitted |-> w.committed # None,
       stagedVersion |-> staged.version, committedVersion |-> committed.version,
       stagedState |-> staged.state, committedState |-> committed.state,
       stagedSlots |-> staged.slots, committedSlots |-> committed.slots,
       stagedGroups |-> staged.groups, committedGroups |-> committed.groups,
       neg |-> window.neg, pos |-> window.pos,
       stagedChecksum |-> staged.checksum, committedChecksum |-> committed.checksum]
MeantBy(kind, w) ==
  CASE kind = "discovered" ->
         [rows |-> [i \in DOMAIN Kept(w.rows) |->
            [w.rows[i] EXCEPT !.rssi = Max({-127, Min({127, @})}),
                              !.age = IF @ = NoAge THEN NoAge ELSE 1000 * Min({65535, @ \div 1000})]]]
    [] kind = "paired"     -> Limited(w, "rows", ListMax)
    [] kind = "channels"   ->
         [w EXCEPT !.entries = [i \in DOMAIN Kept(@) |-> Limited(w.entries[i], "key", 255)]]
    [] kind = "topology"   -> TopologyMeant(w)
    [] kind = "pushStarted" -> Restrict(Limited(w, "path", 255), {"req", "size", "crc", "chunk", "path"})
    [] kind = "pushStatus" -> Limited(w, "image", 255)
    [] kind = "archive"    -> [text |-> w.text]
    [] kind \in {"pairStep", "unpaired", "pairEnd"} -> Limited(w, "text", 255)
    [] kind = "seen"       -> Limited(w, "name", 255) @@ [age |-> 0]
    [] kind = "expired"    -> w @@ [rssi |-> 0, name |-> None, role |-> 0, age |-> NoAge]
    [] kind = "trigger"    -> [schema |-> 1] @@ [w EXCEPT !.state = TriggerStates[@]]
    [] kind = "transition" -> [schema |-> 1, peer |-> w.peer, state |-> IF w.online THEN 0 ELSE 1,
                               reason |-> w.reason, at |-> w.at]
    [] kind = "pushEnd"    -> Restrict(Limited(w, "text", 255), {"req", "next", "size", "sent", "code", "text"})
    [] kind = "updateEnd"  -> Restrict(Limited(w, "text", 255), {"req", "phase", "code", "text"})
    [] kind = "syncEnd"    -> Restrict(w, {"channel", "acked", "total"})
    [] kind = "loopEnd"    -> Restrict(w, {"enabled", "acked", "total"})
    [] OTHER               -> w

(* Who has a place for it.                                                  *)
ShownAs(kind) ==
  CASE kind \in {"pairStep", "unpaired", "pairEnd"} -> "peerText"
    [] kind = "expired" -> "seen"
    [] OTHER            -> kind
Nowhere == {"refused", "fault", "syncing", "looping"}
Console == {"monitor", "topology", "slots", "triggered", "transition", "trigger", "deployed", "syncEnd",
            "loopEnd", "mandatory", "transfer"}
OnAdapter(r) == r.kind \notin Nowhere \cup {"deployed"}
OnConsole(r) == r.kind \in Console \/ (r.kind = "archive" /\ r.what.text # None)

(* A frontend shows what the service told, all of it, and nothing else: a   *)
(* payload is never read as a report of another kind, and one that has no   *)
(* place is not shown at all.                                               *)
ReportsArrive ==
  shown # Unshown =>
    LET r    == told.report
        here == {[as |-> ShownAs(r.kind), what |-> MeantBy(r.kind, r.what)]}
    IN  /\ shown.adapter = IF OnAdapter(r) THEN here ELSE {}
        /\ shown.console = IF OnConsole(r) THEN here ELSE {}
=============================================================================
