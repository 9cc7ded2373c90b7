-------------------------- MODULE CommandPayloads --------------------------
(***************************************************************************)
(* A command on its way from a frontend to the management service: the      *)
(* controller writes its arguments as bytes, the service reads them back.   *)
(* Writer and reader are separate code, agree on no schema, and nothing in  *)
(* a payload says of what command it is.                                    *)
(*                                                                         *)
(* A payload is a sequence of bytes, a text or an address a sequence of     *)
(* bytes too.  A 32-bit value stands for its residue in -2^31 .. 2^31 - 1,  *)
(* and 64-bit values are below 2^31.                                        *)
(***************************************************************************)
EXTENDS Integers, Sequences, FiniteSets, SequencesExt, FiniteSetsExt

CONSTANTS Calls,                \* the commands a frontend may give: [cmd, args]
          SlotsMax, GroupsMax   \* a master's chain slots and groups (13 and 12)

VARIABLES call,     \* the command given, and its payload
          served    \* what the service read

BadPayload == [bad |-> TRUE]
None       == <<>>
Cut(text, n) == SubSeq(text, 1, Min({n, Len(text)}))

-----------------------------------------------------------------------------
(* Layouts: sequences of fields, each a name and a kind.                    *)
Each(kind, names) == [i \in DOMAIN names |-> <<names[i], kind>>]
U8(names)    == Each("u8", names)
I8(names)    == Each("i8", names)
U16(names)   == Each("u16", names)
U32(names)   == Each("u32", names)
U64(names)   == Each("u64", names)
Flags(names) == Each("flag", names)     \* any byte but 0 is TRUE
Bits(names)  == Each("bit", names)      \* 0 or 1
Counts(names) == Each("count", names)   \* the length of a list, in a byte
Mac          == Each("mac", <<"peer">>)
Short(names) == Each("short", names)    \* a text after its length in a byte
Long(names)  == Each("long", names)     \* a text after its length in two
Rest(names)  == Each("rest", names)     \* all bytes that follow
Pad          == << <<"pad", "pad">> >>
ListOf(name, entry) == << <<name, "list", entry>> >>

Width == [u8 |-> 1, i8 |-> 1, flag |-> 1, bit |-> 1, pad |-> 1, count |-> 1,
          u16 |-> 2, i16 |-> 2, u32 |-> 4, u64 |-> 8]

LittleEndian(v, n) == [i \in 1 .. n |-> IF i > 4 THEN 0 ELSE (v \div 256 ^ (i - 1)) % 256]
Number(kind, b) ==
  LET n   == Min({Len(b), 4})
      top == IF kind \in {"i8", "i16", "u32"} /\ b[n] > 127 THEN b[n] - 256 ELSE b[n]
  IN  FoldRight(LAMBDA x, high : high * 256 + x, SubSeq(b, 1, n - 1), top)

Text(v, max, n) == LittleEndian(Len(Cut(v, max)), n) \o Cut(v, max)
FieldBytes(f, r) ==
  LET v == r[f[1]] IN
  CASE f[2] = "pad"   -> <<0>>
    [] f[2] \in {"flag", "bit"} -> <<IF v THEN 1 ELSE 0>>
    [] f[2] = "count" -> LittleEndian(Len(v), 1)
    [] f[2] = "short" -> Text(v, 255, 1)
    [] f[2] = "long"  -> Text(v, 65535, 2)
    [] f[2] \in {"mac", "seed", "rest"} -> v
    [] OTHER          -> LittleEndian(v, Width[f[2]])
Fields(layout, r) == FlattenSeq([i \in DOMAIN layout |-> FieldBytes(layout[i], r)])
Encode(layout, r) ==
  FlattenSeq([i \in DOMAIN layout |->
    IF layout[i][2] # "list" THEN FieldBytes(layout[i], r)
    ELSE FlattenSeq([j \in DOMAIN r[layout[i][1]] |-> Fields(layout[i][3], r[layout[i][1]][j])])])

(* Reading: where, whether all was there, and what was got so far.          *)
Prefix(kind) == CASE kind = "short" -> 1 [] kind = "long" -> 2 [] OTHER -> 0
Missing(st)  == [st EXCEPT !.ok = FALSE]
Holds(kind, b) ==
  CASE kind \in {"mac", "seed", "rest", "short", "long"} -> b
    [] kind \in {"flag", "bit"} -> b[1] # 0
    [] OTHER -> Number(kind, b)
SizeAt(p, at, kind, prefix) ==
  CASE kind = "mac"  -> 6
    [] kind = "seed" -> 32
    [] kind = "rest" -> Len(p) - at + 1
    [] prefix > 0    -> prefix + Number("u16", SubSeq(p, at, at + prefix - 1))
    [] OTHER         -> Width[kind]
Got(st, f, size, b) ==
  CASE f[2] = "bit" /\ b[1] > 1 -> Missing(st)
    [] f[2] = "pad"             -> [st EXCEPT !.at = @ + 1]
    [] OTHER -> [ok |-> TRUE, at |-> st.at + size, got |-> (f[1] :> Holds(f[2], b)) @@ st.got]
TakeBytes(p, st, f, prefix, size) ==
  IF st.at + size > Len(p) + 1 THEN Missing(st)
  ELSE Got(st, f, size, SubSeq(p, st.at + prefix, st.at + size - 1))
ReadField(p, st, f) ==
  IF ~st.ok \/ st.at + Prefix(f[2]) > Len(p) + 1 THEN Missing(st)
  ELSE TakeBytes(p, st, f, Prefix(f[2]), SizeAt(p, st.at, f[2], Prefix(f[2])))
ReadFields(p, st, layout) == FoldLeft(LAMBDA s, f : ReadField(p, s, f), st, layout)
InList(st, name, e) == [e EXCEPT !.got = (name :> Append(st.got[name], e.got)) @@ st.got]
ReadEntry(p, st, name, entry) == InList(st, name, ReadFields(p, [st EXCEPT !.got = None], entry))
ReadItem(p, st, f) ==
  IF f[2] # "list" THEN ReadField(p, st, f)
  ELSE IF ~st.ok THEN st
  ELSE FoldLeft(LAMBDA s, i : ReadEntry(p, s, f[1], f[3]),
                [st EXCEPT !.got = (f[1] :> None) @@ @], [i \in 1 .. st.got[f[1]] |-> i])
Reading(layout, p) ==
  FoldLeft(LAMBDA st, f : ReadItem(p, st, f), [ok |-> TRUE, at |-> 1, got |-> None], layout)

(* A payload of these fields and no more, and one that begins with them.    *)
Whole(p, e) == IF e.ok /\ e.at = Len(p) + 1 THEN e.got ELSE BadPayload
Found(e)    == IF e.ok THEN e.got ELSE BadPayload
Exactly(layout, p) == Whole(p, Reading(layout, p))
Leading(layout, p) == Found(Reading(layout, p))
Accept(r, ok) == IF r # BadPayload /\ ok THEN r ELSE BadPayload

-----------------------------------------------------------------------------
(* What the controller writes.                                              *)
SettingGetPayload(a) ==
  IF "key" \in DOMAIN a THEN <<0>> \o Encode(Short(<<"key">>), a) ELSE <<1>> \o Encode(U16(<<"setting">>), a)
SettingSetPayload(a) ==
  IF "key" \in DOMAIN a THEN <<0>> \o Encode(Short(<<"key">>) \o Long(<<"value">>), a)
  ELSE <<1>> \o Encode(U16(<<"setting">>) \o Long(<<"value">>), a)
NodeBundlePayload(a) == IF a.mask = 0 THEN <<31>> ELSE <<a.mask>>
PagePayload(a)       == Encode(U16(<<"cursor">>) \o U8(<<"size">>), a)
LogReadPayload(a)    == Encode(U32(<<"offset">>) \o U16(<<"max">>), a)
EnabledPayload(a)    == <<IF a.enabled THEN 1 ELSE 0>>
StringPayload(a)     == Encode(Long(<<"text">>), a)

Described(a) == "sw" \in DOMAIN a       \* the begin comes with the image's metadata
TransferBeginPayload(a) ==
  LET sw == Cut(a.sw, 63)  build == Cut(a.build, 63)  target == Cut(a.target, 15) IN
  Encode(U32(<<"total", "chunk", "crc">>), a)
  \o IF Described(a) THEN <<Len(sw), Len(build), Len(target)>> \o sw \o build \o target ELSE None
TransferChunkPayload(a) == Encode(U32(<<"offset">>) \o Rest(<<"data">>), a)
TransferEndPayload(a)   == Encode(U32(<<"total", "crc">>), a)
PushStartPayload(a)     == Encode(Long(<<"path">>) \o U16(<<"chunk">>), a)

Letter == [m |-> 109, s |-> 115, M |-> 77, S |-> 83]
ArchivePayload(a) ==
  LET id == Cut(a.id, 63) IN
  <<IF a.remote THEN 1 ELSE 0, Letter[IF a.role \in {"s", "S"} THEN "s" ELSE "m"], Len(id)>> \o id

SlotFields ==
  U8(<<"slot">>) \o Flags(<<"enabled">>) \o Mac \o U8(<<"role", "group">>) \o I8(<<"relative">>)
  \o U8(<<"local", "remote">>) \o I8(<<"axis">>) \o U16(<<"delay", "hold">>)
StagePayload(a) ==
  LET group == U8(<<"slot">>) \o Flags(<<"enabled">>) \o U8(<<"group">>) \o Short(<<"seed">>)
      kept  == Cut(a.groups, GroupsMax)
  IN  Encode(U8(<<"schema">>) \o Pad \o U32(<<"version">>) \o U8(<<"neg", "pos">>)
               \o Counts(<<"slots", "groups">>) \o ListOf("slots", SlotFields) \o ListOf("groups", group),
             ("slots" :> Cut(a.slots, SlotsMax))
             @@ ("groups" :> [i \in DOMAIN kept |-> IF kept[i].enabled THEN kept[i] ELSE [kept[i] EXCEPT !.seed = None]])
             @@ a)
SlotsGetPayload(a) == IF a.committed THEN <<2>> ELSE <<1>>
TriggerPayload(a)  ==
  Encode(I8(<<"target">>) \o U8(<<"direction">>) \o U16(<<"delay", "hold">>) \o U8(<<"source">>), a)

Paging   == {"CapsPageGet", "SettingsPageGet", "TelemSchemaPageGet", "TelemPull", "OtaManifestPageGet"}
LogReads == {"LogLocalRead", "LogRemoteRead"}
Switches == {"CliControlSet", "ChainLoopControlSet", "LogLocalControlSet", "LogRemoteControlSet"}
PathCalls == {"StorageList", "StorageStat", "OtaClearScope", "OtaApply", "OtaMasterUpdateStart"}
Uploads  == {"OtaPushStart", "OtaUpdateStart"}
ByRole   == {"OtaArchiveList", "OtaArchiveSaveRunning", "OtaArchiveSaveStaged", "OtaArchiveClear"}
ById     == {"OtaArchiveRestore", "OtaArchiveDelete", "OtaArchiveVerify"}

PairingPayload(cmd, a) ==
  CASE cmd = "DiscoveryStart" -> Encode(U32(<<"window">>), a)
    [] cmd \in {"PairRequest", "RemovePeerRequest"} -> a.peer
    [] cmd = "TopologyStageSet"    -> StagePayload(a)
    [] cmd = "TopologySlotsGet"    -> SlotsGetPayload(a)
    [] cmd = "TopologyTriggerSend" -> TriggerPayload(a)
DescriptorPayload(cmd, a) ==
  CASE cmd \in Paging         -> PagePayload(a)
    [] cmd = "NodeBundleGet"  -> NodeBundlePayload(a)
    [] cmd = "SettingGet"     -> SettingGetPayload(a)
    [] cmd = "SettingSet"     -> SettingSetPayload(a)
    [] cmd = "TimeSet"        -> Encode(U64(<<"epoch">>), a)
SystemPayload(cmd, a) ==
  CASE cmd \in LogReads       -> LogReadPayload(a)
    [] cmd \in Switches       -> EnabledPayload(a)
    [] cmd = "ChannelSyncAll" -> <<a.channel>>
StoragePayload(cmd, a) ==
  CASE cmd \in PathCalls          -> StringPayload(a)
    [] cmd \in Uploads            -> PushStartPayload(a)
    [] cmd \in ByRole \cup ById   -> ArchivePayload(IF cmd \in ById THEN a ELSE [a EXCEPT !.id = None])
    [] cmd = "OtaTransferBegin"   -> TransferBeginPayload(a)
    [] cmd = "OtaTransferChunk"   -> TransferChunkPayload(a)
    [] cmd = "OtaTransferEnd"     -> TransferEndPayload(a)

-----------------------------------------------------------------------------
(* What the service reads.                                                  *)
SettingGetArgs(p) ==
  CASE p = None -> BadPayload
    [] p[1] = 1 -> Leading(U16(<<"setting">>), Tail(p))
    [] p[1] = 0 -> LET r == Exactly(Short(<<"key">>), Tail(p)) IN Accept(r, r.key # None)
    [] OTHER    -> BadPayload
SettingSetArgs(p) ==
  CASE p = None -> BadPayload
    [] p[1] = 1 -> Exactly(U16(<<"setting">>) \o Long(<<"value">>), Tail(p))
    [] p[1] = 0 -> LET r == Exactly(Short(<<"key">>) \o Long(<<"value">>), Tail(p)) IN Accept(r, r.key # None)
    [] OTHER    -> BadPayload
LogReadArgs(p) ==
  IF Len(p) = 4 THEN Leading(U32(<<"offset">>), p) @@ [max |-> 96]
  ELSE LET r == Exactly(U32(<<"offset">>) \o U16(<<"max">>), p) IN
       IF r = BadPayload \/ r.max = 0 THEN BadPayload ELSE [r EXCEPT !.max = Min({@, 512})]
LogControlArgs(p)     == Exactly(Bits(<<"enabled">>), p)
ChannelSyncAllArgs(p) == LET r == Exactly(U8(<<"channel">>), p) IN Accept(r, r.channel \in 1 .. 14)
ChainLoopArgs(p)      == IF p = None THEN None ELSE Exactly(Bits(<<"enabled">>), p)
StringArgs(p)         == LET r == Exactly(Long(<<"text">>), p) IN Accept(r, r.text # None)
PageArgs(p)           == LET r == Exactly(U16(<<"cursor">>) \o U8(<<"size">>), p) IN Accept(r, r.size # 0)
RemovePeerArgs(p)     == IF p = None THEN None ELSE Exactly(Mac, p)
NodeBundleArgs(p) ==
  CASE p = None   -> [mask |-> 31]
    [] Len(p) = 1 -> [mask |-> IF p[1] = 0 THEN 31 ELSE p[1]]
    [] OTHER      -> BadPayload

(* A defect: the last role of 15 characters is taken for one too long.      *)
TransferBeginArgsStrict(p) ==
  LET r == Leading(U32(<<"total", "chunk", "crc">>), p)
      sw == p[13]  build == p[14]  target == p[15]
  IN  CASE Len(p) = 12 -> r
        [] Len(p) < 15 -> BadPayload
        [] sw > 63 \/ build > 63 \/ target >= 15 \/ Len(p) # 15 + sw + build + target -> BadPayload
        [] OTHER -> r @@ [sw     |-> SubSeq(p, 16, 15 + sw),
                          build  |-> SubSeq(p, 16 + sw, 15 + sw + build),
                          target |-> SubSeq(p, 16 + sw + build, Len(p))]
TransferBeginArgs(p) ==
  LET r == Leading(U32(<<"total", "chunk", "crc">>), p)
      sw == p[13]  build == p[14]  target == p[15]
  IN  CASE Len(p) = 12 -> r
        [] Len(p) < 15 -> BadPayload
        [] sw > 63 \/ build > 63 \/ target > 15 \/ Len(p) # 15 + sw + build + target -> BadPayload
        [] OTHER -> r @@ [sw     |-> SubSeq(p, 16, 15 + sw),
                          build  |-> SubSeq(p, 16 + sw, 15 + sw + build),
                          target |-> SubSeq(p, 16 + sw + build, Len(p))]
TransferChunkArgs(p) == LET r == Leading(U32(<<"offset">>) \o Rest(<<"data">>), p) IN Accept(r, r.data # None)
TransferEndArgs(p)   == Exactly(U32(<<"total", "crc">>), p)
RunTransferArgs(cmd, p) ==
  CASE cmd = "OtaTransferBegin" -> LET r == TransferBeginArgs(p) IN Accept(r, r.total # 0 /\ r.chunk # 0)
    [] cmd = "OtaTransferChunk" -> TransferChunkArgs(p)
    [] cmd = "OtaTransferEnd"   -> LET r == TransferEndArgs(p) IN Accept(r, r.total # 0)
PushStartArgs(p)     == Exactly(Long(<<"path">>) \o U16(<<"chunk">>), p)
MasterUpdateArgs(p)  == LET r == Exactly(Long(<<"text">>), p) IN Accept(r, r.text # None)
ArchiveArgs(p, requireId) ==
  IF Len(p) < 3 \/ p[1] > 1 \/ (\A c \in DOMAIN Letter : p[2] # Letter[c]) \/ Len(p) # 3 + p[3]
     \/ (requireId /\ p[3] = 0)
  THEN BadPayload
  ELSE [remote |-> p[1] # 0, role |-> IF p[2] \in {Letter.s, Letter.S} THEN "s" ELSE "m",
        id |-> SubSeq(p, 4, Len(p))]

SlotsGetArgs(p) ==
  CASE p \in {None, <<2>>} -> [committed |-> TRUE]
    [] p = <<1>>           -> [committed |-> FALSE]
    [] OTHER               -> BadPayload
TriggerArgs(p) ==
  Exactly(I8(<<"target">>) \o U8(<<"direction">>) \o U16(<<"delay", "hold">>) \o U8(<<"source">>), p)
Places(entries, max) ==
  /\ \A i \in DOMAIN entries : entries[i].slot < max
  /\ \A i, j \in DOMAIN entries : entries[i].slot = entries[j].slot => i = j
StageArgs(p) ==
  LET group == U8(<<"slot">>) \o Flags(<<"enabled">>) \o U8(<<"group">>) \o Short(<<"seed">>)
      r == Exactly(U8(<<"schema">>) \o Pad \o U32(<<"version">>) \o U8(<<"neg", "pos">>)
                     \o Counts(<<"slots", "groups">>) \o ListOf("slots", SlotFields) \o ListOf("groups", group), p)
  IN  Accept(r, /\ Len(r.slots) <= SlotsMax /\ Places(r.slots, SlotsMax)
                /\ Len(r.groups) <= GroupsMax /\ Places(r.groups, GroupsMax)
                /\ \A i \in DOMAIN r.groups : Len(r.groups[i].seed) = IF r.groups[i].enabled THEN 32 ELSE 0)

PairingArgs(cmd, p) ==
  CASE cmd = "DiscoveryStart"      -> IF p = None THEN [window |-> 10000] ELSE Leading(U32(<<"window">>), p)
    [] cmd = "PairRequest"         -> Exactly(Mac, p)
    [] cmd = "RemovePeerRequest"   -> RemovePeerArgs(p)
    [] cmd = "TopologyStageSet"    -> StageArgs(p)
    [] cmd = "TopologySlotsGet"    -> SlotsGetArgs(p)
    [] cmd = "TopologyTriggerSend" -> TriggerArgs(p)
DescriptorArgs(cmd, p) ==
  CASE cmd = "TelemPull" /\ p = None -> None
    [] cmd \in Paging        -> PageArgs(p)
    [] cmd = "NodeBundleGet" -> NodeBundleArgs(p)
    [] cmd = "SettingGet"    -> SettingGetArgs(p)
    [] cmd = "SettingSet"    -> SettingSetArgs(p)
    [] cmd = "TimeSet"       -> Leading(U64(<<"epoch">>), p)
SystemArgs(cmd, p) ==
  CASE cmd \in LogReads              -> LogReadArgs(p)
    [] cmd = "ChannelSyncAll"        -> ChannelSyncAllArgs(p)
    [] cmd = "ChainLoopControlSet"   -> ChainLoopArgs(p)
    [] cmd = "CliControlSet"         -> IF p = None THEN None ELSE Exactly(Bits(<<"enabled">>), p)
    [] OTHER                         -> LogControlArgs(p)
StorageArgs(cmd, p) ==
  CASE cmd = "OtaMasterUpdateStart" -> MasterUpdateArgs(p)
    [] cmd \in PathCalls            -> StringArgs(p)
    [] cmd \in Uploads              -> PushStartArgs(p)
    [] cmd \in ByRole \cup ById     -> ArchiveArgs(p, cmd \in ById)
    [] OTHER                        -> RunTransferArgs(cmd, p)

-----------------------------------------------------------------------------
(* A telemetry push command travels as tagged rows, and a metric only with  *)
(* what differs from its stream.  The service reads it and writes it again  *)
(* for the slave.                                                           *)
PushModes   == {"Periodic", "OnChange", "Hybrid"}
PushActions == {"Start", "Update", "Pause", "Resume", "Stop", "Get"}
CommandOf   == [Start |-> "PushStart", Update |-> "PushUpdate", Pause |-> "PushPause",
                Resume |-> "PushResume", Stop |-> "PushStop", Get |-> "PushGet"]
PushCalls   == {CommandOf[a] : a \in PushActions}
Carries(c)  == c.action \in {"Start", "Update"}       \* a stream comes with it
NoIndex     == -1
DefaultPush == [action |-> "Get", stream |-> 1, mode |-> "Hybrid", interval |-> 1000, gap |-> 200,
                metrics |-> None]
ValidMetric(x) == (x.key # None) # (x.index # NoIndex) /\ x.mode \in PushModes

CanEncodePush(c) ==
  /\ c.action \in PushActions /\ c.mode \in PushModes
  /\ Carries(c) => \A i \in DOMAIN c.metrics : ValidMetric(c.metrics[i])

If(condition, row) == IF condition THEN <<row>> ELSE None
(* A defect: an own mode equal to the default of a command is left out.     *)
MetricRowsPlain(c, x) ==
  <<IF x.key # None THEN <<"key", x.key>> ELSE <<"index", x.index>> >>
  \o If(~x.enabled, <<"enabled", FALSE>>)
  \o If(x.mode # DefaultPush.mode, <<"metric mode", x.mode>>)
  \o If(x.interval \notin {0, c.interval}, <<"metric interval", x.interval>>)
  \o If(x.gap \notin {0, c.gap}, <<"metric gap", x.gap>>)
  \o If(x.threshold /\ x.mode # "Periodic", <<"delta", x.delta>>)
MetricRows(c, x) ==
  <<IF x.key # None THEN <<"key", x.key>> ELSE <<"index", x.index>> >>
  \o If(~x.enabled, <<"enabled", FALSE>>)
  \o If(x.mode # c.mode, <<"metric mode", x.mode>>)
  \o If(x.interval \notin {0, c.interval}, <<"metric interval", x.interval>>)
  \o If(x.gap \notin {0, c.gap}, <<"metric gap", x.gap>>)
  \o If(x.threshold /\ x.mode # "Periodic", <<"delta", x.delta>>)
EncodePush(c) ==
  << <<"magic", TRUE>>, <<"action", c.action>> >>
  \o IF ~Carries(c) THEN None
     ELSE << <<"stream", c.stream>>, <<"mode", c.mode>>, <<"interval", c.interval>>, <<"gap", c.gap>> >>
          \o FlattenSeq([i \in DOMAIN c.metrics |-> MetricRows(c, c.metrics[i])])

NewMetric(c, tag, v) ==
  [key |-> IF tag = "key" THEN v ELSE None, index |-> IF tag = "index" THEN v ELSE NoIndex,
   enabled |-> TRUE, mode |-> c.mode, interval |-> c.interval, gap |-> c.gap,
   threshold |-> c.mode # "Periodic", delta |-> 0]
SetMetric(x, tag, v) ==
  CASE tag = "enabled"         -> [x EXCEPT !.enabled = v]
    [] tag = "metric mode"     -> [x EXCEPT !.mode = v, !.threshold = v # "Periodic",
                                            !.delta = IF v = "Periodic" THEN 0 ELSE @]
    [] tag = "metric interval" -> [x EXCEPT !.interval = v]
    [] tag = "metric gap"      -> [x EXCEPT !.gap = v]
    [] tag = "delta"           -> [x EXCEPT !.threshold = TRUE, !.delta = v]
TakeRow(c, row) ==
  LET tag == row[1]  v == row[2]  last == Len(c.metrics) IN
  CASE tag = "magic" -> c
    [] tag \in DOMAIN c       -> [c EXCEPT ![tag] = v]
    [] tag \in {"key", "index"} -> [c EXCEPT !.metrics = Append(@, NewMetric(c, tag, v))]
    [] OTHER -> [c EXCEPT !.metrics[last] = SetMetric(@, tag, v)]
ParsePush(rows) ==
  LET c == FoldLeft(TakeRow, DefaultPush, rows) IN
  Accept(c, /\ c.action \in PushActions
            /\ Carries(c) => /\ c.mode \in PushModes /\ c.metrics # None
                             /\ \A i \in DOMAIN c.metrics : ValidMetric(c.metrics[i]))

(* The service, then the manager, then the slave.                           *)
ActionOf(cmd) == CHOOSE a \in PushActions : CommandOf[a] = cmd
RunPushArgs(cmd, p) == IF p = None THEN [DefaultPush EXCEPT !.action = ActionOf(cmd)] ELSE ParsePush(p)
SlaveTakes(c) == IF c = BadPayload \/ ~CanEncodePush(c) THEN BadPayload ELSE ParsePush(EncodePush(c))

-----------------------------------------------------------------------------
Pairings    == {"DiscoveryStart", "PairRequest", "RemovePeerRequest", "TopologyStageSet",
                "TopologySlotsGet", "TopologyTriggerSend"}
Descriptors == Paging \cup {"NodeBundleGet", "SettingGet", "SettingSet", "TimeSet"}
Systems     == LogReads \cup Switches \cup {"ChannelSyncAll"}
Storages    == PathCalls \cup Uploads \cup ByRole \cup ById
               \cup {"OtaTransferBegin", "OtaTransferChunk", "OtaTransferEnd"}

(* pushCommand and the chunk calls give up before they submit.              *)
Submits(c) ==
  /\ c.cmd = "PushCommand" => CanEncodePush(c.args)
  /\ c.cmd = "OtaTransferChunk" /\ c.args # None => c.args.data # None
SubmittedAs(c) == IF c.cmd = "PushCommand" THEN CommandOf[c.args.action] ELSE c.cmd
Write(c) ==
  CASE c.args = None            -> None
    [] c.cmd = "PushCommand"    -> EncodePush(c.args)
    [] c.cmd \in Pairings       -> PairingPayload(c.cmd, c.args)
    [] c.cmd \in Descriptors    -> DescriptorPayload(c.cmd, c.args)
    [] c.cmd \in Systems        -> SystemPayload(c.cmd, c.args)
    [] c.cmd \in Storages       -> StoragePayload(c.cmd, c.args)
Reads(cmd, p) ==
  CASE cmd \in PushCalls   -> SlaveTakes(RunPushArgs(cmd, p))
    [] cmd \in Pairings    -> PairingArgs(cmd, p)
    [] cmd \in Descriptors -> DescriptorArgs(cmd, p)
    [] cmd \in Systems     -> SystemArgs(cmd, p)
    [] cmd \in Storages    -> StorageArgs(cmd, p)

NoCall == [cmd |-> "none"]
Unread == [unread |-> TRUE]

Submit ==
  /\ call = NoCall
  /\ \E c \in Calls :
       IF Submits(c) THEN call' = [cmd |-> SubmittedAs(c), given |-> c, payload |-> Write(c)] /\ UNCHANGED served
       ELSE call' = [cmd |-> "refused", given |-> c] /\ served' = BadPayload
Serve ==
  /\ call # NoCall /\ served = Unread
  /\ served' = Reads(call.cmd, call.payload)
  /\ UNCHANGED call

commandVars == <<call, served>>
CommandInit == call = NoCall /\ served = Unread
CommandNext == Submit \/ Serve

-----------------------------------------------------------------------------
(* What a command means: its arguments within the limits of their fields,   *)
(* the defaults of one without a payload, and nothing when one of them has   *)
(* no meaning.                                                              *)
WithoutPayload(cmd) ==
  CASE cmd = "DiscoveryStart"   -> [window |-> 10000]
    [] cmd = "NodeBundleGet"    -> [mask |-> 31]
    [] cmd = "TopologySlotsGet" -> [committed |-> TRUE]
    [] cmd \in {"RemovePeerRequest", "TelemPull", "ChainLoopControlSet", "CliControlSet"} -> None
    [] cmd \in PushCalls \ {"PushStart", "PushUpdate"} -> [DefaultPush EXCEPT !.action = ActionOf(cmd)]
    [] OTHER -> BadPayload

StreamMeant(c) ==
  IF ~CanEncodePush(c) \/ (Carries(c) /\ c.metrics = None) THEN BadPayload
  ELSE IF ~Carries(c) THEN [DefaultPush EXCEPT !.action = c.action]
  ELSE [c EXCEPT !.metrics = [i \in DOMAIN c.metrics |->
         [c.metrics[i] EXCEPT !.interval  = IF @ = 0 THEN c.interval ELSE @,
                              !.gap       = IF @ = 0 THEN c.gap ELSE @,
                              !.threshold = c.metrics[i].mode # "Periodic",
                              !.delta     = IF c.metrics[i].threshold /\ c.metrics[i].mode # "Periodic" THEN @ ELSE 0]]]

Meaningless(cmd, a) ==
  \/ cmd \in {"SettingGet", "SettingSet"} /\ "key" \in DOMAIN a /\ a.key = None
  \/ cmd \in PathCalls /\ a.text = None
  \/ cmd \in Paging /\ a.size = 0
  \/ cmd \in LogReads /\ a.max = 0
  \/ cmd \in ById /\ a.id = None
  \/ cmd = "ChannelSyncAll" /\ a.channel \notin 1 .. 14
  \/ cmd = "OtaTransferBegin" /\ 0 \in {a.total, a.chunk}
  \/ cmd = "OtaTransferChunk" /\ a.data = None
  \/ cmd = "OtaTransferEnd" /\ a.total = 0
  \/ cmd = "TopologyStageSet" /\ ~(Places(Cut(a.slots, SlotsMax), SlotsMax) /\ Places(Cut(a.groups, GroupsMax), GroupsMax))
Within(cmd, a) ==
  [f \in DOMAIN a |->
     CASE f = "key"     -> Cut(a[f], 255)
       [] f \in {"id", "sw", "build"} -> IF cmd \in ByRole THEN None ELSE Cut(a[f], 63)
       [] f = "target" /\ cmd = "OtaTransferBegin" -> Cut(a[f], 15)
       [] f \in {"text", "path", "value"} -> Cut(a[f], 65535)
       [] f = "mask"    -> IF a[f] = 0 THEN 31 ELSE a[f]
       [] f = "max"     -> Min({a[f], 512})
       [] f = "role"    -> IF a[f] \in {"s", "S"} THEN "s" ELSE "m"
       [] f = "slots"   -> Cut(a[f], SlotsMax)
       [] f = "groups"  -> [i \in DOMAIN Cut(a[f], GroupsMax) |->
                              IF a[f][i].enabled THEN a[f][i] ELSE [a[f][i] EXCEPT !.seed = None]]
       [] OTHER         -> a[f]]
Owed(c) ==
  CASE c.args = None         -> WithoutPayload(c.cmd)
    [] c.cmd = "PushCommand" -> StreamMeant(c.args)
    [] Meaningless(c.cmd, c.args) -> BadPayload
    [] OTHER                 -> Within(c.cmd, c.args)

(* The service carries out what the frontend asked for, and refuses what    *)
(* has no meaning: whatever writes a payload and whatever reads it agree on *)
(* its layout, its limits and its defaults.                                 *)
CommandsArrive == served # Unread => served = Owed(call.given)
=============================================================================
