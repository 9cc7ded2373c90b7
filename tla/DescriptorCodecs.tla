-------------------------- MODULE DescriptorCodecs --------------------------
(***************************************************************************)
(* A query on its way from a master to a slave, and an answer on its way    *)
(* back to the frontend that asked.  A master's pull client makes the query *)
(* of a request; each end has the codec of its profile;                     *)
(* the management service decodes an answer with the master's codec and     *)
(* encodes it again as plain TLV for its frontends.                         *)
(*                                                                         *)
(* A field holds a number, 0 standing for an empty text, a zero or an       *)
(* absent option.  In a frame a TLV takes two units and a positional field  *)
(* one, and a text that is not empty one more.                              *)
(***************************************************************************)
EXTENDS Integers, Sequences, FiniteSets, SequencesExt, FiniteSetsExt

CONSTANTS FrameMax,    \* what a frame holds (kMaxPayload)
          Asks,     \* the requests to a master's pull client, [call, args]
          Answers   \* the answers a slave may give

VARIABLES ends,     \* the codec of each end
          asked,    \* the query under way and its frame
          understood,    \* what the slave made of it
          held,     \* the answer under way and its frame
          seen      \* what the frontend made of it

codecVars == <<ends, asked, understood, held, seen>>

Refused == [type |-> "refused"]
Nothing == [type |-> "nothing"]
Failed(m) == m = Refused

Positional == {"Compact", "Varint", "Delta"}
Enveloped  == {"Packed", "CborLite", "BinaryMap"}
Codecs     == {"Default"} \cup Positional \cup Enveloped

-----------------------------------------------------------------------------
(* Queries: [type, has], where has gives the fields that are not 0.         *)
Value(q, f) == IF f \in DOMAIN q.has THEN q.has[f] ELSE 0
Given(q, f) == Value(q, f) # 0
Query(type, has) == [type |-> type, has |-> [f \in {g \in DOMAIN has : has[g] # 0} |-> has[f]]]

PageFields     == {"paged", "cursor", "size"}
SupportsPaging == {"GetCapabilities", "GetTelemetry", "PullTelemetry", "GetNodeBundle",
                   "GetSettings", "GetOtaManifest"}
AllParts == 31      \* kNodeBundleMaskAll
Beyond   == 9       \* an index or a choice outside its range

(* What encodeDescriptorQuery sends for each type; the fields of the second *)
(* set only when they are given.                                            *)
QueryFields(type) ==
  CASE type = "GetSetting"    -> {"id", "key"}
    [] type = "SetSetting"    -> {"id", "key", "value"}
    [] type = "SetTime"       -> {"time"}
    [] type = "GetNodeBundle" -> {"mask"}
    [] type = "ReadLogChunk"  -> {"offset", "max"}
    [] type = "SetLogControl" -> {"has_enable", "enable"}
    [] type \in {"ListStoragePath", "StatStoragePath"} -> {"path"}
    [] type = "ClearOtaScope" -> {"scope"}
    [] type = "ApplyOtaImage" -> {"target"}
    [] type = "TopologyStageBegin"    -> {"schema", "version", "neg", "pos"}
    [] type = "TopologyStageSlotSet"  -> {"slot", "enabled", "peer", "role", "group", "relative",
                                          "local", "remote", "axis", "delay", "hold"}
    [] type = "TopologyStageGroupSet" -> {"slot", "enabled", "group", "seed"}
    [] type = "TopologyTriggerSend"   -> {"toward", "direction", "delay", "hold", "source"}
    [] OTHER -> {}
OnlyIfGiven == {"id", "key", "path", "scope", "target", "seed"}

(* MasterPullClient: the type of query each request makes; args names the   *)
(* fields its arguments fill.                                               *)
DescriptorRequests ==
  [requestDevice |-> "GetDevice", requestLiveness |-> "GetLiveness",
   requestCapabilities |-> "GetCapabilities", requestCapabilitiesPage |-> "GetCapabilities",
   requestTelemetrySchema |-> "GetTelemetry", requestTelemetrySchemaPage |-> "GetTelemetry",
   requestTelemetryPull |-> "PullTelemetry", requestTelemetryPullPage |-> "PullTelemetry",
   requestTimeGet |-> "GetTime", requestTimeSet |-> "SetTime",
   requestSettings |-> "GetSettings", requestSettingsPage |-> "GetSettings",
   requestNodeBundle |-> "GetNodeBundle"]
SettingRequests ==
  [requestSettingGet |-> "GetSetting", requestSettingGetById |-> "GetSetting",
   requestSettingSet |-> "SetSetting", requestSettingSetById |-> "SetSetting"]
StorageRequests ==
  [requestLogStatus |-> "GetLogStatus", requestLogReadChunk |-> "ReadLogChunk", requestLogClear |-> "ClearLog",
   requestLogSetEnabled |-> "SetLogControl", requestStorageInfo |-> "GetStorageInfo",
   requestStorageList |-> "ListStoragePath", requestStorageStat |-> "StatStoragePath",
   requestStorageFormat |-> "FormatStorage", requestOtaStatus |-> "GetOtaStatus",
   requestOtaManifest |-> "GetOtaManifest", requestOtaManifestPage |-> "GetOtaManifest",
   requestOtaManifestRebuild |-> "RebuildOtaManifest", requestOtaClearScope |-> "ClearOtaScope",
   requestOtaCapacity |-> "GetOtaCapacity", requestOtaGateInfo |-> "GetOtaGateInfo",
   requestOtaApply |-> "ApplyOtaImage"]
TopologyRequests ==
  [requestTopologyStageClear |-> "TopologyStageClear", requestTopologyStageBegin |-> "TopologyStageBegin",
   requestTopologyStageSlotSet |-> "TopologyStageSlotSet", requestTopologyStageGroupSet |-> "TopologyStageGroupSet",
   requestTopologyStageFinalize |-> "TopologyStageFinalize", requestTopologyCommit |-> "TopologyCommit",
   requestTopologyStatus |-> "TopologyStatus", requestTopologyTriggerSend |-> "TopologyTriggerSend"]
QueryTypeOf ==
  DescriptorRequests @@ SettingRequests @@ StorageRequests @@ TopologyRequests @@ [sendControlCommand |-> "Control"]

PageRequests == {"requestCapabilitiesPage", "requestTelemetrySchemaPage", "requestTelemetryPullPage",
                 "requestSettingsPage", "requestOtaManifestPage"}
WithSettings(mask) == (mask \div 8) % 2 = 1        \* kNodeBundleMaskSettings
BundlePage == 16
ChunkMax   == 128

(* Decides on the page of settings before an empty mask stands for all.     *)
BundleArgsUnpaged(mask) ==
  [mask |-> IF mask = 0 THEN AllParts ELSE mask]
  @@ IF WithSettings(mask) THEN [paged |-> 1, cursor |-> 0, size |-> BundlePage] ELSE << >>
(* requestNodeBundle: an empty mask asks for everything, settings in pages. *)
BundleArgs(mask) ==
  LET parts == IF mask = 0 THEN AllParts ELSE mask
  IN  [mask |-> parts]
      @@ IF WithSettings(parts) THEN [paged |-> 1, cursor |-> 0, size |-> BundlePage] ELSE << >>

PullQuery(r) ==
  LET a   == r.args
      has == CASE r.call \in PageRequests         -> [paged |-> 1] @@ a
                [] r.call = "requestNodeBundle"    -> BundleArgs(a.mask)
                [] r.call = "requestLogReadChunk"  -> [a EXCEPT !.max = IF @ = 0 THEN 96 ELSE Min({@, ChunkMax})]
                [] r.call = "requestLogSetEnabled" -> [has_enable |-> 1] @@ a
                [] OTHER -> a
  IN  Query(QueryTypeOf[r.call], has)

OneSelector(q) == q.type \in {"GetSetting", "SetSetting"} => Given(q, "id") # Given(q, "key")

EncodeQuery(q) ==
  LET own  == {f \in QueryFields(q.type) : f \in OnlyIfGiven => Given(q, f)}
      page == IF q.type \in SupportsPaging /\ Given(q, "paged") THEN PageFields ELSE {}
  IN  IF ~OneSelector(q) THEN Refused
      ELSE [codec |-> "Default", type |-> q.type,
            has |-> [f \in own \cup page |->
                       IF f = "mask" /\ ~Given(q, f) THEN AllParts ELSE Value(q, f)]]

(* What parseDescriptorQuery refuses although every field could be read.    *)
Acceptable(q) ==
  /\ OneSelector(q)
  /\ q.type = "SetSetting"    => Given(q, "value")
  /\ q.type = "SetTime"       => Given(q, "time")
  /\ q.type = "ReadLogChunk"  => Given(q, "max")
  /\ q.type = "SetLogControl" => Given(q, "has_enable")
  /\ q.type = "ClearOtaScope" => Given(q, "scope")
  /\ q.type = "ApplyOtaImage" => Given(q, "target")
  /\ q.type = "TopologyStageBegin" => Given(q, "version")
  /\ q.type = "TopologyStageSlotSet" =>
       /\ Value(q, "slot") # Beyond
       /\ Given(q, "enabled") => \A f \in {"role", "relative", "group"} : Given(q, f)
  /\ q.type = "TopologyStageGroupSet" =>
       /\ Value(q, "slot") # Beyond
       /\ Given(q, "enabled") => Given(q, "group")
  /\ q.type = "TopologyTriggerSend" =>
       /\ Value(q, "toward") \notin {0, Beyond} /\ Value(q, "direction") \notin {0, Beyond}
       /\ Value(q, "source") # Beyond
  /\ q.type \notin {"Unknown", "Control"}

ParseQuery(w) ==
  LET q == Query(w.type, w.has) IN IF Acceptable(q) THEN q ELSE Refused

(* The positional codecs flag the fields they know, and leave the queries   *)
(* they do not know to the plain encoding.                                  *)
Flagged(codec, q) ==
  LET own  == {f \in {"id", "key", "value", "time"} : Given(q, f)}
      page == IF Given(q, "paged") THEN PageFields ELSE {}
  IN  IF ~OneSelector(q) THEN Refused
      ELSE [codec |-> codec, type |-> q.type, has |-> [f \in own \cup page |-> Value(q, f)]]

FromFlags(w) ==
  LET q == Query(w.type, w.has) IN
  IF OneSelector(q) /\ (q.type = "SetSetting" => Given(q, "value")) THEN q ELSE Refused

LogAndStorageQueries ==
  {"GetLogStatus", "ReadLogChunk", "ClearLog", "SetLogControl", "GetStorageInfo", "ListStoragePath",
   "StatStoragePath", "FormatStorage", "GetNodeBundle", "GetOtaStatus", "GetOtaManifest",
   "RebuildOtaManifest", "ClearOtaScope", "GetOtaCapacity", "GetOtaGateInfo", "ApplyOtaImage"}
TopologyQueries ==
  {"TopologyStageClear", "TopologyStageBegin", "TopologyStageSlotSet", "TopologyStageGroupSet",
   "TopologyStageFinalize", "TopologyCommit", "TopologyStatus", "TopologyTriggerSend"}
TopologyWithFields == {t \in TopologyQueries : QueryFields(t) # {}}

(* Flags the topology queries like the others.                              *)
CompactAllQuery(q) == IF q.type \in LogAndStorageQueries THEN EncodeQuery(q) ELSE Flagged("Compact", q)
CompactQuery(q) ==
  IF q.type \in LogAndStorageQueries \cup TopologyQueries THEN EncodeQuery(q) ELSE Flagged("Compact", q)
CompactQueryIn(w) ==
  IF w.codec # "Compact" THEN ParseQuery(w)
  ELSE IF w.type \in TopologyWithFields THEN Refused ELSE FromFlags(w)

VarintQuery(q)   == IF q.type \in LogAndStorageQueries THEN EncodeQuery(q) ELSE Flagged("Varint", q)
VarintQueryIn(w) == IF w.codec = "Varint" THEN FromFlags(w) ELSE ParseQuery(w)
DeltaQuery(q)    == IF q.type \in LogAndStorageQueries THEN EncodeQuery(q) ELSE Flagged("Delta", q)
DeltaQueryIn(w)  == IF w.codec = "Delta" THEN FromFlags(w) ELSE ParseQuery(w)

(* A control command is a TLV of its own, which no query parser takes.      *)
ControlCommand(cmd) == [codec |-> "Default", type |-> "Control", has |-> [f \in {"cmd"} |-> cmd]]
ControlIn(w) == IF w.type = "Control" THEN Query("Control", w.has) ELSE Refused

(* A frame of another positional codec has none of the tags a parser knows. *)
Legible(codec, w) == w.codec \in {codec, "Default"}

DescriptorQueryIn(codec, w) ==
  CASE codec = "Compact" -> CompactQueryIn(w)
    [] codec = "Varint"  -> VarintQueryIn(w)
    [] codec = "Delta"   -> DeltaQueryIn(w)
    [] OTHER             -> ParseQuery(w)

(* onPullRequest: a query first, then a control command.                    *)
QueryIn(codec, w) ==
  IF ~Legible(codec, w) THEN Refused
  ELSE IF w.type # "Control" THEN DescriptorQueryIn(codec, w) ELSE ControlIn(w)

-----------------------------------------------------------------------------
(* Answers: [type, msg, mask, flat, lists, page]; flat gives the fields of   *)
(* the answer itself, lists the entries it carries, each a record of fields. *)
DeviceFields    == <<"device_type", "device_id", "device_name", "hw_version", "sw_version", "build_id">>
LivenessFields  == <<"online", "uptime", "state">>
TimeFields      == <<"epoch", "time_uptime">>
LogStatusFields == <<"available", "enabled", "min_level", "used", "dropped", "appended", "rotations", "total">>
ChunkFields     == <<"chunk_offset", "chunk_total">>
StorageFields   == <<"mode", "storage_available", "mounted", "total_bytes", "used_bytes", "free_bytes",
                     "root_path", "cwd">>
PathFields      == <<"storage_path", "parent_path">>
StatFields      == <<"stat_path", "exists", "stat_is_dir", "stat_size">>
OtaStatusFields == <<"transfer", "status_code", "expected", "received", "expected_crc", "actual_crc",
                     "temp_path", "image_path", "persistent", "persistent_epoch", "confirmed_version",
                     "confirmed_build">>
CapacityFields  == <<"max_fw", "last_checked", "last_fit">>
GateFields      == <<"decision", "detail">>

CapabilityEntry == <<"cap_key", "cap_description">>
MetricEntry     == <<"metric_id", "metric_key", "metric_unit", "min", "max", "metric_description">>
SampleEntry     == <<"sample_id", "sample_key", "sample_value", "sample_unit">>
SettingEntry    == <<"setting_id", "setting_key", "value_type", "writable", "nvs_key", "current", "default",
                     "setting_description">>
FileEntry       == <<"file_name", "is_dir", "file_size">>
ImageEntry      == <<"image_id", "image_name", "image_size", "image_crc", "version", "image_build",
                     "created", "image_state", "required">>

EntryFields == [capability |-> CapabilityEntry, metric |-> MetricEntry, sample |-> SampleEntry,
                setting |-> SettingEntry, file |-> FileEntry, image |-> ImageEntry, byte |-> <<"byte">>]
Kinds == DOMAIN EntryFields

ListsOf(type) ==
  CASE type = "Capabilities"             -> <<"capability">>
    [] type = "Telemetry"                -> <<"metric">>
    [] type = "TelemetrySnapshot"        -> <<"sample">>
    [] type \in {"Settings", "Setting"}  -> <<"setting">>
    [] type = "StorageList"              -> <<"file">>
    [] type = "OtaManifest"              -> <<"image">>
    [] type = "LogChunk"                 -> <<"byte">>
    [] type = "NodeBundle"               -> <<"sample", "setting">>
    [] OTHER                             -> << >>

FlatOf(type, mask) ==
  CASE type = "Device"      -> DeviceFields
    [] type = "Liveness"    -> LivenessFields
    [] type = "Time"        -> TimeFields
    [] type = "LogStatus"   -> LogStatusFields
    [] type = "LogChunk"    -> ChunkFields
    [] type = "StorageInfo" -> StorageFields
    [] type = "StorageList" -> PathFields
    [] type = "StorageStat" -> StatFields
    [] type = "OtaStatus"   -> OtaStatusFields
    [] type = "OtaCapacity" -> CapacityFields
    [] type = "OtaGateInfo" -> GateFields
    [] type = "NodeBundle"  -> (IF "device" \in mask THEN DeviceFields ELSE << >>)
                               \o (IF "liveness" \in mask THEN LivenessFields ELSE << >>)
                               \o (IF "time" \in mask THEN TimeFields ELSE << >>)
    [] type = "Result"      -> <<"command", "result">>
    [] OTHER                -> << >>

Texts == {"message", "device_type", "device_id", "device_name", "hw_version", "sw_version", "build_id",
          "state", "root_path", "cwd", "storage_path", "parent_path", "stat_path", "temp_path",
          "image_path", "persistent", "confirmed_version", "confirmed_build", "detail",
          "cap_key", "cap_description", "metric_key", "metric_unit", "metric_description",
          "sample_key", "sample_value", "sample_unit", "setting_key", "nvs_key", "current", "default",
          "setting_description", "file_name", "image_name", "version", "image_build", "image_state"}

NoPage  == [total |-> 0, cursor |-> 0, returned |-> 0, next |-> 0, done |-> FALSE]
NoLists == [k \in Kinds |-> << >>]
Rows(fields, values) == [i \in 1 .. Len(fields) |-> <<fields[i], values[fields[i]]>>]

(* Room taken by fields: Tlv each, or Place each, and the text itself.      *)
Load(unit, rows) ==
  Len(rows) * unit + Cardinality({i \in 1 .. Len(rows) : rows[i][1] \in Texts /\ rows[i][2] # 0})
Tlv   == 2
Place == 1
PageRoom(unit) == 7 * unit      \* kPagedMetaReserveBytes
PagedLists == {"Capabilities", "Telemetry", "TelemetrySnapshot", "NodeBundle", "Settings", "OtaManifest"}
Truncated  == 2                 \* the message of an answer that was cut

(* encodeDescriptorResponse: an entry goes whole or ends its list, except   *)
(* that a metric may go without its limits and its description.             *)
EntryRows(kind, e) ==
  IF kind # "metric" THEN Rows(EntryFields[kind], e) ELSE SubSeq(Rows(MetricEntry, e), 1, 3)
Extras(kind, e) ==
  IF kind # "metric" THEN << >>
  ELSE (IF e["min"] = 0 /\ e["max"] = 0 THEN << >> ELSE << SubSeq(Rows(MetricEntry, e), 4, 5) >>)
       \o (IF e["metric_description"] = 0 THEN << >> ELSE << SubSeq(Rows(MetricEntry, e), 6, 6) >>)

WithEntry(room, acc, kind, e) ==
  LET Fits(out, rows) == Load(Tlv, out \o rows) <= room
      AddExtra(a, rows) ==
        IF Fits(a.out, rows) THEN [a EXCEPT !.out = @ \o rows] ELSE [a EXCEPT !.cut = TRUE]
      rows == EntryRows(kind, e)
  IN  IF acc.full \/ ~Fits(acc.out, rows) THEN [acc EXCEPT !.full = TRUE, !.cut = TRUE]
      ELSE FoldLeft(AddExtra, [acc EXCEPT !.out = @ \o rows, !.sent = @ + 1], Extras(kind, e))

WithList(room, acc, kind, list) ==
  FoldLeft(LAMBDA a, e : WithEntry(room, a, kind, e), [acc EXCEPT !.full = FALSE, !.sent = 0], list)

(* Keeps the page although the list was cut.                                *)
PageKept(r, sent) == r.page
(* A page that was cut ends where its last entry does.                      *)
PageSent(r, sent) ==
  IF r.type \notin PagedLists \/ sent = r.page.returned THEN r.page
  ELSE LET next == Min({r.page.cursor + sent, r.page.total})
       IN  [r.page EXCEPT !.returned = sent, !.next = next, !.done = (next >= r.page.total)]

EncodeAnswer(r) ==
  LET paged == r.page # NoPage
      room  == FrameMax - 2 * Tlv - (IF paged THEN PageRoom(Tlv) ELSE 0)
      head  == (IF r.msg # 0 THEN << <<"message", r.msg>> >> ELSE << >>)
               \o (IF r.type = "NodeBundle" THEN << <<"mask", r.mask>> >> ELSE << >>)
               \o Rows(FlatOf(r.type, r.mask), r.flat)
      body  == FoldLeft(LAMBDA a, k : WithList(room, a, k, r.lists[k]),
                        [out |-> head, full |-> FALSE, cut |-> FALSE, sent |-> 0], ListsOf(r.type))
      cut   == body.cut \/ PageSent(r, body.sent) # r.page
      tail  == << <<"message", Truncated>> >>
      fits  == Load(Tlv, body.out \o tail) <= FrameMax - 2 * Tlv - (IF paged THEN PageRoom(Tlv) ELSE 0)
  IN  IF Load(Tlv, head) > room \/ (r.type = "Setting" /\ body.cut) THEN Refused
      ELSE [codec |-> "Default", type |-> r.type, page |-> PageSent(r, body.sent),
            rows |-> body.out \o (IF cut /\ fits THEN tail ELSE << >>)]

(* decodeDescriptorResponse: entries are put together field by field.  The  *)
(* first field of Opens starts an entry, which ends the one before it; one   *)
(* of Closes ends it; one of Ahead comes before the entry is opened.        *)
Ahead  == {"metric_id", "sample_id", "setting_id", "image_id"}
Opens  == {"cap_key", "metric_key", "sample_key", "setting_key", "file_name", "image_name", "byte"}
Closes == {"cap_description", "metric_description", "sample_unit", "setting_description"}
EntryNames == UNION {ToSet(EntryFields[k]) : k \in Kinds}
KindOf == [f \in EntryNames |-> CHOOSE k \in Kinds : f \in ToSet(EntryFields[k])]

NoEntry(kind) == [f \in ToSet(EntryFields[kind]) |-> 0]
Blank == [type |-> "Unknown", msg |-> 0, mask |-> {}, flat |-> << >>, lists |-> NoLists, page |-> NoPage,
          cur |-> [k \in Kinds |-> NoEntry(k)], open |-> {}]

Flush(d, k) ==
  IF k \notin d.open THEN d
  ELSE [d EXCEPT !.lists[k] = Append(@, d.cur[k]), !.cur[k] = NoEntry(k), !.open = @ \ {k}]

(* Opens an entry without ending the one before it.                         *)
TakeFieldOver(d, f, v) ==
  LET k == KindOf[f]
      s == [d EXCEPT !.cur[k][f] = v, !.open = IF f \in Ahead \cup Closes THEN @ ELSE @ \cup {k}]
  IN  IF f \in Closes THEN Flush(s, k) ELSE s
TakeEntryField(d, f, v) ==
  LET k == KindOf[f]
      e == IF f \in Opens THEN Flush(d, k) ELSE d
      s == [e EXCEPT !.cur[k][f] = v, !.open = IF f \in Ahead \cup Closes THEN @ ELSE @ \cup {k}]
  IN  IF f \in Closes THEN Flush(s, k) ELSE s

TakeField(d, row) ==
  LET f == row[1]  v == row[2] IN
  IF f = "message" THEN [d EXCEPT !.msg = v]
  ELSE IF f = "mask" THEN [d EXCEPT !.mask = v]
  ELSE IF f \in EntryNames THEN TakeEntryField(d, f, v)
  ELSE [d EXCEPT !.flat = [g \in DOMAIN @ \cup {f} |-> IF g = f THEN v ELSE @[g]]]

Reply(type, msg, mask, flat, lists, page) ==
  [type |-> type, msg |-> msg, mask |-> mask, flat |-> flat, lists |-> lists, page |-> page]

DecodeAnswer(w) ==
  LET all  == FoldLeft(TakeField, Blank, w.rows)
  IN  IF w.type \in {"Unknown", "Result"} THEN Refused
      ELSE Reply(w.type, all.msg, all.mask, all.flat, [k \in Kinds |-> Flush(all, k).lists[k]], w.page)

-----------------------------------------------------------------------------
(* The positional codecs write values in a fixed order, a list after its    *)
(* length, and leave the answers they do not know to the plain encoding.    *)
PlainAnswers == {"LogStatus", "LogChunk", "StorageInfo", "StorageList", "StorageStat", "NodeBundle",
                 "OtaStatus", "OtaManifest", "OtaCapacity", "OtaGateInfo"}
DeltaSample  == <<"sample_id", "sample_key", "sample_unit", "sample_value">>
Zero == 8       \* "0.000", what a sample without a value becomes

Own(type) == IF ListsOf(type) = << >> THEN << >> ELSE EntryFields[ListsOf(type)[1]]
Listed(type) == Len(ListsOf(type)) = 1 /\ type # "Setting"

HeadRoom(mark, r) ==
  mark + (IF r.page # NoPage THEN PageRoom(Place) ELSE 0) + (IF r.msg # 0 THEN 2 ELSE 0)

(* mark is what the head of a frame takes, order that of an entry's values. *)
InPlace(codec, mark, order, r, list) ==
  LET values(rows) == [i \in 1 .. Len(rows) |-> rows[i][2]]
      entries == FoldLeft(LAMBDA out, e : out \o Rows(order, e), << >>, list)
      flat    == Rows(FlatOf(r.type, r.mask), r.flat)
      body    == flat \o entries
  IN  IF HeadRoom(mark, r) + Load(Place, body) > FrameMax THEN Refused
      ELSE [codec |-> codec, type |-> r.type, msg |-> r.msg, page |-> r.page,
            count |-> Len(list), values |-> values(body)]

OutOfPlace(order, w) ==
  LET flat  == FlatOf(w.type, {})
      width == Len(order)
      entry(i) == [f \in ToSet(order) |->
                     w.values[Len(flat) + (i - 1) * width + (CHOOSE j \in 1 .. width : order[j] = f)]]
  IN  IF Len(w.values) # Len(flat) + w.count * width THEN Refused
      ELSE Reply(w.type, w.msg, {}, [f \in ToSet(flat) |-> w.values[CHOOSE j \in 1 .. Len(flat) : flat[j] = f]],
                  [k \in Kinds |-> IF ListsOf(w.type) # <<k>> THEN << >> ELSE [i \in 1 .. w.count |-> entry(i)]],
                  w.page)

OwnList(r) == IF ListsOf(r.type) = << >> THEN << >> ELSE r.lists[ListsOf(r.type)[1]]

VarintAnswer(r) ==
  IF r.type \in PlainAnswers THEN EncodeAnswer(r) ELSE InPlace("Varint", 5, Own(r.type), r, OwnList(r))
VarintAnswerIn(w) == IF w.codec = "Varint" THEN OutOfPlace(Own(w.type), w) ELSE DecodeAnswer(w)

(* A value that reads as a number, as an empty one does, goes as a number.  *)
DeltaOrder(type) == IF type = "TelemetrySnapshot" THEN DeltaSample ELSE Own(type)
DeltaFrame(r, list) == InPlace("Delta", 5, DeltaOrder(r.type), r, list)
DeltaValues(w) == OutOfPlace(DeltaOrder(w.type), w)
DeltaAnswer(r) ==
  LET numbered(e) == [e EXCEPT !["sample_value"] = IF @ = 0 THEN Zero ELSE @]
      list == IF r.type = "TelemetrySnapshot" THEN [i \in 1 .. Len(OwnList(r)) |-> numbered(OwnList(r)[i])]
              ELSE OwnList(r)
  IN  IF r.type \in PlainAnswers THEN EncodeAnswer(r) ELSE DeltaFrame(r, list)
DeltaAnswerIn(w) == IF w.codec = "Delta" THEN DeltaValues(w) ELSE DecodeAnswer(w)

(* A list drops its message and the descriptions of its metrics, and ends   *)
(* at the first entry that does not fit; a setting that does not fit goes   *)
(* without its texts if that fits.  The page is not changed.                *)
Slim(e) == [e EXCEPT !["nvs_key"] = 0, !["current"] = 0, !["default"] = 0, !["setting_description"] = 0]

CompactFrame(r, list) == InPlace("Compact", 3, Own(r.type), r, list)
CompactValues(w) == OutOfPlace(Own(w.type), w)

Dense(r) ==
  LET kind == ListsOf(r.type)[1]
      bare == [r EXCEPT !.msg = 0]
      forms(e) == IF kind = "metric" THEN << [e EXCEPT !["metric_description"] = 0] >>
                  ELSE IF kind = "setting" THEN << e, Slim(e) >> ELSE <<e>>
      add(a, e) ==
        LET fit == SelectSeq(forms(e), LAMBDA x : ~Failed(CompactFrame(bare, Append(a.list, x))))
        IN  IF a.full \/ fit = << >> THEN [a EXCEPT !.full = TRUE] ELSE [a EXCEPT !.list = Append(@, fit[1])]
      kept == FoldLeft(add, [list |-> << >>, full |-> FALSE], OwnList(r)).list
  IN  IF kept = << >> /\ OwnList(r) # << >> THEN Refused ELSE CompactFrame(bare, kept)

CompactAnswer(r) ==
  IF r.type \in PlainAnswers THEN EncodeAnswer(r)
  ELSE IF Listed(r.type) THEN Dense(r) ELSE CompactFrame(r, OwnList(r))
CompactAnswerIn(w) == IF w.codec = "Compact" THEN CompactValues(w) ELSE DecodeAnswer(w)

(* The others wrap the plain encoding, which takes room of its own.         *)
Envelope == 2
Size(w) == 2 * Tlv + Load(Tlv, w.rows) + (IF w.page # NoPage THEN PageRoom(Tlv) ELSE 0)
Wrapped(codec, w) ==
  IF Failed(w) \/ ("rows" \in DOMAIN w /\ Size(w) + Envelope > FrameMax) THEN Refused ELSE [w EXCEPT !.codec = codec]

PackedTlv(w) == Wrapped("Packed", w)
CborLite(w)  == Wrapped("CborLite", w)
BinaryMap(w) == Wrapped("BinaryMap", w)
Enclosed(codec, w) ==
  CASE codec = "Packed"    -> PackedTlv(w)
    [] codec = "CborLite"  -> CborLite(w)
    [] codec = "BinaryMap" -> BinaryMap(w)
    [] codec = "Default"   -> w

(* A command or a result, which every codec writes in a form of its own.    *)
OwnControl(codec, w) == [w EXCEPT !.codec = codec]
ControlOut(codec, w) == IF codec \in Positional THEN OwnControl(codec, w) ELSE Enclosed(codec, w)

QueryOut(codec, q) ==
  IF q.type = "Control" THEN ControlOut(codec, ControlCommand(Value(q, "cmd")))
  ELSE CASE codec = "Compact" -> CompactQuery(q)
         [] codec = "Varint"  -> VarintQuery(q)
         [] codec = "Delta"   -> DeltaQuery(q)
         [] OTHER             -> Enclosed(codec, EncodeQuery(q))

ControlResult(r) == [codec |-> "Default", type |-> "Result", flat |-> r.flat]
ControlResultIn(w) == IF w.type = "Result" THEN Reply("Result", 0, {}, w.flat, NoLists, NoPage) ELSE Refused

AnswerOut(codec, r) ==
  IF r.type = "Result" THEN ControlOut(codec, ControlResult(r))
  ELSE CASE codec = "Compact" -> CompactAnswer(r)
         [] codec = "Varint"  -> VarintAnswer(r)
         [] codec = "Delta"   -> DeltaAnswer(r)
         [] OTHER             -> Enclosed(codec, EncodeAnswer(r))

DescriptorAnswerIn(codec, w) ==
  CASE codec = "Compact" -> CompactAnswerIn(w)
    [] codec = "Varint"  -> VarintAnswerIn(w)
    [] codec = "Delta"   -> DeltaAnswerIn(w)
    [] OTHER             -> DecodeAnswer(w)

(* decodePullResponseWithActiveCodec: a descriptor first, then a result.    *)
AnswerIn(codec, w) ==
  IF ~Legible(codec, w) THEN Refused
  ELSE IF w.type = "Result" THEN ControlResultIn(w) ELSE DescriptorAnswerIn(codec, w)

(* The service hands frontends the plain encoding of what it decoded, and a *)
(* result as it came.                                                       *)
ForFrontends(codec, w) ==
  LET r == AnswerIn(codec, w) IN
  IF Failed(r) \/ r.type = "Result" THEN r
  ELSE IF Failed(EncodeAnswer(r)) THEN Refused ELSE DecodeAnswer(EncodeAnswer(r))

-----------------------------------------------------------------------------
SetProfiles(m, s) ==
  /\ asked = Nothing /\ held = Nothing
  /\ ends' = [master |-> m, slave |-> s]
  /\ UNCHANGED <<asked, understood, held, seen>>

Ask ==
  /\ asked = Nothing /\ held = Nothing
  /\ \E r \in Asks :
       LET q == PullQuery(r) IN
       asked' = [type |-> q.type, request |-> r, query |-> q, frame |-> QueryOut(ends.master, q)]
  /\ UNCHANGED <<ends, understood, held, seen>>
Hear ==
  /\ asked # Nothing /\ understood = Nothing /\ ~Failed(asked.frame)
  /\ understood' = QueryIn(ends.slave, asked.frame)
  /\ UNCHANGED <<ends, asked, held, seen>>

Tell ==
  /\ asked = Nothing /\ held = Nothing
  /\ \E r \in Answers : held' = [type |-> r.type, answer |-> r, frame |-> AnswerOut(ends.slave, r)]
  /\ UNCHANGED <<ends, asked, understood, seen>>
Show ==
  /\ held # Nothing /\ seen = Nothing /\ ~Failed(held.frame)
  /\ seen' = ForFrontends(ends.master, held.frame)
  /\ UNCHANGED <<ends, asked, understood, held>>

Plain == [master |-> "Default", slave |-> "Default"]
CodecInit ==
  /\ ends = Plain
  /\ asked = Nothing /\ understood = Nothing /\ held = Nothing /\ seen = Nothing
CodecNext ==
  \/ \E m, s \in Codecs : SetProfiles(m, s)
  \/ Ask \/ Hear
  \/ Tell \/ Show
CodecSpec == CodecInit /\ [][CodecNext]_codecVars

-----------------------------------------------------------------------------
(* Every variable has its type.                                             *)
CodecTypeOK ==
  /\ ends \in [{"master", "slave"} -> Codecs]
  /\ asked = Nothing \/ asked.type = asked.query.type
  /\ held = Nothing \/ held.type = held.answer.type
  /\ understood \in {Nothing, Refused} \/ understood.type = asked.type
  /\ seen \in {Nothing, Refused} \/ seen.type = held.type

(* What a slave makes of a query is what the master's caller requested: its *)
(* arguments and no others, a bundle of everything when it names no part,   *)
(* a page whenever it asks for one or for the settings of a bundle, and a   *)
(* piece of a log that an answer can hold.  With one codec at both ends the *)
(* slave makes something of each request that is complete; the Varint and   *)
(* Delta encodings lose the fields of a topology query.                     *)
Requested(r, q) ==
  /\ q.type = QueryTypeOf[r.call]
  /\ DOMAIN q.has \subseteq DOMAIN r.args \cup PageFields \cup {"has_enable"}
  /\ \A f \in DOMAIN r.args :
       Value(q, f) = CASE f = "mask" /\ r.args.mask = 0 -> AllParts
                       [] f = "max" /\ r.args.max \notin 1 .. ChunkMax -> IF r.args.max = 0 THEN 96 ELSE ChunkMax
                       [] OTHER -> r.args[f]
  /\ Given(q, "paged") = (r.call \in PageRequests \/ WithSettings(Value(q, "mask")))
Loses(codec, type) == codec \in {"Varint", "Delta"} /\ type \in TopologyWithFields
QueriesArrive ==
  understood # Nothing /\ ~Loses(ends.master, asked.type) =>
    IF Failed(understood)
    THEN ends.master # ends.slave \/ ~(Acceptable(asked.query) \/ asked.type = "Control")
    ELSE Requested(asked.request, understood)

(* What a frontend is shown is what the slave told: the fields of the       *)
(* answer, a prefix of its entries, each with its identity and its values,  *)
(* and a page that ends where the entries shown do.  A metric may come      *)
(* without limits and description, a setting the Compact codec could not    *)
(* fit without its texts, and an empty sample from the Delta codec as zero. *)
(* The numbers of images, and of metrics without a description, are shifted *)
(* by the decoder, which ManifestKeepsIds is about.                         *)
Lesser(kind, e, x) ==
  \/ x = e
  \/ kind = "metric" /\ \A f \in DOMAIN e \ {"metric_id"} :
       x[f] = e[f] \/ (x[f] = 0 /\ f \in {"min", "max", "metric_description"})
  \/ kind = "image" /\ \A f \in DOMAIN e \ {"image_id"} : x[f] = e[f]
  \/ kind = "setting" /\ ends.slave = "Compact" /\ x = Slim(e)
  \/ kind = "sample" /\ ends.slave = "Delta" /\ e["sample_value"] = 0 /\ x = [e EXCEPT !["sample_value"] = Zero]

AnswersArrive ==
  seen # Nothing /\ ~Failed(seen) =>
    LET told == held.answer IN
    /\ seen.type = told.type /\ seen.flat = told.flat /\ seen.mask = told.mask
    /\ told.type \in {"Ack", "Error"} => seen.msg = told.msg
    /\ \A k \in Kinds :
         /\ Len(seen.lists[k]) <= Len(told.lists[k])
         /\ \A i \in 1 .. Len(seen.lists[k]) : Lesser(k, told.lists[k][i], seen.lists[k][i])
    /\ told.page # NoPage =>
         LET shown == Len(seen.lists[Last(ListsOf(told.type))])
             next  == Min({told.page.cursor + shown, told.page.total})
         IN  seen.page = [told.page EXCEPT !.returned = shown, !.next = next, !.done = (next = told.page.total)]

(* A query means to the slave what the master asked, and an answer shows    *)
(* the frontend what the slave told.                                        *)
MessagesArrive == QueriesArrive /\ AnswersArrive

(* The number shown with an image is the one that selects it (the numbers   *)
(* of a manifest are what ota.apply takes, docs/current/api-reference.md).  *)
ManifestKeepsIds ==
  seen.type = "OtaManifest" =>
    \A i \in 1 .. Len(seen.lists["image"]) :
      seen.lists["image"][i]["image_id"] = held.answer.lists["image"][i]["image_id"]
=============================================================================
