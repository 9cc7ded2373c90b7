------------------------------ MODULE MCCodecs ------------------------------
(* Requests and answers small enough for TLC: every type, with all of its    *)
(* fields, with some of them missing or out of range, and with up to three   *)
(* entries, each complete or with its identity only.  Commands and reports:  *)
(* every kind, with its numbers, texts and lists at their limits and one     *)
(* beyond.                                                                   *)
EXTENDS DescriptorCodecs, ReportPayloads

Has(fields) == [f \in fields |-> 1]
Arguments(request) ==
  CASE request = "sendControlCommand"    -> {"cmd"}
    [] request \in PageRequests          -> {"cursor", "size"}
    [] request = "requestSettingGet"     -> {"key"}
    [] request = "requestSettingGetById" -> {"id"}
    [] request = "requestSettingSet"     -> {"key", "value"}
    [] request = "requestSettingSetById" -> {"id", "value"}
    [] request = "requestLogSetEnabled"  -> {"enable"}
    [] OTHER -> QueryFields(QueryTypeOf[request])
(* All arguments, all but one or two, and one of them out of range.         *)
Variants(fields) ==
  {[Has(fields) EXCEPT ![f] = 0, ![g] = 0] : f \in fields, g \in fields} \cup {Has(fields)}
  \cup {[Has(fields) EXCEPT ![f] = Beyond] : f \in fields \cap {"slot", "toward", "direction", "source"}}
Asking(request, args) == [call |-> request, args |-> args]

MCAsks ==
  UNION {{Asking(c, v) : v \in Variants(Arguments(c))} : c \in DOMAIN QueryTypeOf \ PageRequests}
  \cup {Asking(c, [cursor |-> n, size |-> 1]) : c \in PageRequests, n \in 0 .. 1}
  \cup {Asking("requestNodeBundle", [mask |-> n]) : n \in {7, 8, 16, 31}}
  \cup {Asking("requestLogReadChunk", [offset |-> n, max |-> k]) : n \in 0 .. 1, k \in {128, 129}}
  \cup {Asking("requestTopologyStageSlotSet", [[f \in QueryFields("TopologyStageSlotSet") |-> 0] EXCEPT !["slot"] = 1])}
  \cup {Asking("requestTopologyStageGroupSet", [[f \in QueryFields("TopologyStageGroupSet") |-> 0] EXCEPT !["slot"] = n])
          : n \in {1, Beyond}}

Full(kind, i) == [f \in ToSet(EntryFields[kind]) |-> i]
Bare(kind, i) == [f \in ToSet(EntryFields[kind]) |-> IF f \in Ahead \cup Opens THEN i ELSE 0]
(* All complete, all bare, the first bare, or the last.                     *)
Entries(kind) ==
  UNION {{[i \in 1 .. n |-> IF i \in s THEN Full(kind, i) ELSE Bare(kind, i)]
            : s \in {{}, {1}, 2 .. n, 1 .. n}} : n \in 0 .. 3}
Only(kind, list) == [NoLists EXCEPT ![kind] = list]

Flats(type, mask) ==
  LET fields == ToSet(FlatOf(type, mask)) IN
  {[f \in fields |-> CHOOSE i \in 1 .. Len(FlatOf(type, mask)) : FlatOf(type, mask)[i] = f]}
  \cup {[f \in fields |-> 0]}
(* The last page of a list, and the second of more.                         *)
Pages(list) ==
  {[total |-> c + Len(list) + c, cursor |-> c, returned |-> Len(list), next |-> c + Len(list), done |-> c = 0]
     : c \in 0 .. 1}

FlatTypes == {"Device", "Liveness", "Time", "LogStatus", "StorageInfo", "StorageStat", "OtaStatus", "OtaCapacity",
              "OtaGateInfo", "Ack", "Error", "Result"}
ListTypes == {"Capabilities", "Telemetry", "TelemetrySnapshot", "Settings", "OtaManifest"}

MCAnswers ==
  UNION {{Reply(t, m, {}, v, NoLists, NoPage) : m \in IF t = "Result" THEN {0} ELSE {0, 1}, v \in Flats(t, {})} : t \in FlatTypes}
  \cup UNION {UNION {{Reply(t, m, {}, << >>, Only(ListsOf(t)[1], e), p) : m \in {0, 1}, p \in {NoPage} \cup Pages(e)}
                       : e \in Entries(ListsOf(t)[1])} : t \in ListTypes}
  \cup {Reply("Setting", 0, {}, << >>, Only("setting", <<e>>), NoPage) : e \in {Full("setting", 1), Bare("setting", 1)}}
  \cup {Reply("StorageList", 0, {}, v, Only("file", e), NoPage) : v \in Flats("StorageList", {}), e \in Entries("file")}
  \cup {Reply("LogChunk", 0, {}, v, Only("byte", [i \in 1 .. n |-> Full("byte", i)]), NoPage)
          : v \in Flats("LogChunk", {}), n \in {0, 3, 20, 30}}
  \cup UNION {UNION {{Reply("NodeBundle", 0, mask, v, [Only("setting", e) EXCEPT !["sample"] = s], p)
          : v \in Flats("NodeBundle", mask), s \in IF "telemetry" \in mask THEN {<<Full("sample", 1)>>} ELSE {<< >>},
            p \in IF "settings" \in mask THEN Pages(e) ELSE {NoPage}}
          : e \in IF "settings" \in mask THEN Entries("setting") ELSE {<< >>}}
          : mask \in {{"settings"}, {"device", "liveness", "settings"}, {"time", "telemetry"},
                      {"device", "liveness", "time", "settings", "telemetry"}}}
-----------------------------------------------------------------------------
Chars(n) == [i \in 1 .. n |-> i % 256]
TextArgs    == {Chars(n) : n \in {0, 1, 255, 256}}
Ids32    == {-1, 0, 65536}
Peer     == <<1, 2, 3, 4, 5, 6>>
Peers    == <<Peer, <<9, 9, 9, 9, 9, 9>>, <<213, 1, 2, 4, 0, 0>> >>
ChainSlot(i, e) ==
  [slot |-> i, enabled |-> e, peer |-> Peer, role |-> 1, group |-> 2, relative |-> -i, local |-> 3,
   remote |-> 255, axis |-> -1, delay |-> 65535, hold |-> 256]
ChainGroup(i, e) == [slot |-> i, enabled |-> e, group |-> 7, seed |-> Chars(32)]
AskedMetric(key, index, mode, enabled, interval, threshold) ==
  [key |-> key, index |-> index, mode |-> mode, enabled |-> enabled, interval |-> interval, gap |-> 0,
   threshold |-> threshold, delta |-> 5]

To(cmd, args) == [cmd |-> cmd, args |-> args]
Metrics ==
  {None, <<AskedMetric(None, NoIndex, "Hybrid", TRUE, 0, FALSE)>>, <<AskedMetric(Chars(1), 3, "Hybrid", TRUE, 0, FALSE)>>}
  \cup {<<AskedMetric(Chars(1), NoIndex, mode, e, n, t), AskedMetric(None, 4, "OnChange", TRUE, 0, TRUE)>>
          : mode \in PushModes \cup {"bad"}, e \in BOOLEAN, n \in {0, 7, 9}, t \in BOOLEAN}
PushCommands ==
  {[action |-> a, stream |-> 2, mode |-> mode, interval |-> 7, gap |-> 8, metrics |-> list]
     : a \in PushActions \cup {"bad"}, mode \in {"Periodic", "Hybrid", "bad"}, list \in Metrics}
Stages ==
  {[schema |-> 1, version |-> -2, neg |-> 6, pos |-> 6, slots |-> [i \in 1 .. n |-> ChainSlot((i - 1) % q, e)],
    groups |-> [i \in 1 .. k |-> ChainGroup(i - 1, e)]]
     : n \in {0, 2, 3, 4}, q \in {1, 3, 4}, k \in {0, 2, 3}, e \in BOOLEAN}

MCCalls ==
  {To(c, None) : c \in Pairings \cup Descriptors \cup Systems \cup Storages \cup PushCalls}
  \cup {To("PushCommand", c) : c \in PushCommands}
  \cup {To("TopologyStageSet", stage) : stage \in Stages}
  \cup {To("SettingGet", [key |-> t]) : t \in TextArgs} \cup {To("SettingGet", [setting |-> n]) : n \in {0, 65535}}
  \cup {To("SettingSet", [key |-> t, value |-> v]) : t \in TextArgs, v \in {None, Chars(300)}}
  \cup {To("SettingSet", [setting |-> n, value |-> v]) : n \in {0, 65535}, v \in {None, Chars(300)}}
  \cup {To("NodeBundleGet", [mask |-> n]) : n \in {0, 1, 31, 255}}
  \cup {To("DiscoveryStart", [window |-> n]) : n \in Ids32} \cup {To("TimeSet", [epoch |-> n]) : n \in {0, 65536}}
  \cup {To(c, [peer |-> Peer]) : c \in {"PairRequest", "RemovePeerRequest"}}
  \cup {To(c, [cursor |-> n, size |-> k]) : c \in Paging, n \in {0, 65535}, k \in {0, 1, 255}}
  \cup {To(c, [offset |-> n, max |-> k]) : c \in LogReads, n \in Ids32, k \in {0, 1, 512, 513, 65535}}
  \cup {To(c, [enabled |-> b]) : c \in Switches, b \in BOOLEAN}
  \cup {To("ChannelSyncAll", [channel |-> n]) : n \in {0, 1, 14, 15, 255}}
  \cup {To(c, [text |-> t]) : c \in PathCalls, t \in TextArgs}
  \cup {To(c, [path |-> t, chunk |-> n]) : c \in Uploads, t \in TextArgs, n \in {0, 65535}}
  \cup {To(c, [role |-> r, id |-> Chars(n), remote |-> b])
          : c \in ByRole \cup ById, r \in {"m", "M", "s", "S"}, n \in {0, 1, 63, 64}, b \in BOOLEAN}
  \cup {To("OtaTransferBegin", [total |-> n, chunk |-> k, crc |-> -1]) : n \in {0, 1}, k \in {0, 1}}
  \cup {To("OtaTransferBegin", [total |-> 5, chunk |-> 6, crc |-> -1, sw |-> Chars(n), build |-> Chars(k), target |-> Chars(q)])
          : n \in {0, 63, 64}, k \in {0, 63, 64}, q \in {0, 15, 16}}
  \cup {To("OtaTransferChunk", [offset |-> n, data |-> Chars(k)]) : n \in Ids32, k \in {0, 1, 200}}
  \cup {To("OtaTransferEnd", [total |-> n, crc |-> k]) : n \in Ids32, k \in Ids32}
  \cup {To("TopologySlotsGet", [committed |-> b]) : b \in BOOLEAN}
  \cup {To("TopologyTriggerSend", [target |-> n, direction |-> 1, delay |-> 65535, hold |-> 0, source |-> 255])
          : n \in {-128, -1, 0, 127}}

Says(kind, what) == [kind |-> kind, what |-> what]
TopologyNo(n) == [version |-> n, state |-> 1, slots |-> 2, groups |-> 3, neg |-> n, pos |-> 5, checksum |-> -1]
MCTellings ==
  {Says("discovered", [rows |-> [i \in 1 .. n |-> [peer |-> Peers[i], rssi |-> r, age |-> a]]])
     : n \in 0 .. 3, r \in {-200, -60, 0, 130}, a \in {NoAge, 0, 1999, 70000000}}
  \cup {Says("paired", [rows |-> [i \in 1 .. n |-> [peer |-> Peers[i], role |-> i]]]) : n \in 0 .. 3}
  \cup {Says("channels", [channel |-> 6, entries |-> [i \in 1 .. n |-> [peer |-> Peers[i], channel |-> i, key |-> t]]])
          : n \in 0 .. 3, t \in TextArgs}
  \cup {Says("topology", [schema |-> 1, staged |-> s, committed |-> c])
          : s \in {None, <<TopologyNo(7)>>}, c \in {None, <<TopologyNo(250)>>}}
  \cup {Says("slots", [schema |-> 1, state |-> 2, slots |-> [i \in 1 .. 3 |-> ChainSlot(i - 1, e)]]) : e \in BOOLEAN}
  \cup {Says("logStatus", [available |-> b, enabled |-> c, level |-> 3, used |-> n, dropped |-> 0, appended |-> 1,
                           rotations |-> -1]) : b \in BOOLEAN, c \in BOOLEAN, n \in Ids32}
  \cup {Says("logRead", [offset |-> n, total |-> 600, chunk |-> Chars(k)]) : n \in Ids32, k \in {0, 1, 256}}
  \cup {Says("monitor", [enabled |-> b, ignoring |-> c, reasons |-> 9, tracked |-> 1, online |-> 0, offline |-> 255,
                         next |-> n, last |-> 0]) : b \in BOOLEAN, c \in BOOLEAN, n \in Ids32}
  \cup {Says("pushStarted", [cmd |-> c, req |-> 1, size |-> -1, crc |-> -2, chunk |-> 128, path |-> t])
          : c \in Uploads, t \in TextArgs}
  \cup {Says("pushStatus", [active |-> b, phase |-> 2, chunk |-> 128, req |-> 1, next |-> 3, size |-> 65536, sent |-> 4,
                            image |-> t]) : b \in BOOLEAN, t \in TextArgs}
  \cup {Says("archive", [cmd |-> c, status |-> s, text |-> t]) : c \in Archives, s \in {"Ok", "InternalError"}, t \in TextArgs}
  \cup {Says("triggered", [seq |-> n]) : n \in {0, 65535}}
  \cup {Says(k, [enabled |-> b]) : k \in {"cli", "loop"}, b \in BOOLEAN}
  \cup {Says("syncing", [channel |-> 1, total |-> n]) : n \in {0, 255}}
  \cup {Says("looping", [enabled |-> b, total |-> n]) : b \in BOOLEAN, n \in {0, 255}}
  \cup {Says("refused", [cmd |-> c]) : c \in Archives \cup Uploads \cup {AnswerTo[k] : k \in DOMAIN AnswerTo}}
  \cup {Says(k, [peer |-> Peer, text |-> t]) : k \in {"pairStep", "unpaired", "pairEnd", "fault"}, t \in TextArgs}
  \cup {Says("seen", [peer |-> Peer, rssi |-> n, name |-> t, role |-> 2]) : n \in {-70, 0, 5}, t \in TextArgs}
  \cup {Says("expired", [peer |-> Peer])}
  \cup {Says("mandatory", [peer |-> Peer, event |-> n, severity |-> 1, value |-> v, at |-> 70000]) : n \in 1 .. 2, v \in Ids32}
  \cup {Says("transfer", [peer |-> Peer, status |-> k, offset |-> v, code |-> 515]) : k \in 1 .. 5, v \in {0, 65536}}
  \cup {Says("trigger", [peer |-> Peer, seq |-> 258, state |-> s, reason |-> 1, result |-> 2, srcRole |-> 3, src |-> 4,
                         dstRole |-> 5, dst |-> 6, direction |-> 1, delay |-> 500, hold |-> 600, ackSeq |-> 259])
          : s \in DOMAIN TriggerStates}
  \cup {Says("transition", [peer |-> Peer, online |-> b, reason |-> 2, at |-> -5]) : b \in BOOLEAN}
  \cup {Says("removed", [peer |-> Peer, removed |-> b]) : b \in BOOLEAN}
  \cup {Says("pushEnd", [done |-> b, req |-> 7, next |-> 8, size |-> 9, sent |-> 10, code |-> 11, text |-> t])
          : b \in BOOLEAN, t \in TextArgs}
  \cup {Says("updateEnd", [done |-> b, req |-> 7, phase |-> 2, code |-> 11, text |-> t]) : b \in BOOLEAN, t \in TextArgs}
  \cup {Says("syncEnd", [done |-> b, channel |-> 6, acked |-> 1, total |-> 2]) : b \in BOOLEAN}
  \cup {Says("loopEnd", [done |-> b, enabled |-> b /\ c, acked |-> 1, total |-> 2]) : b \in BOOLEAN, c \in BOOLEAN}
  \cup {Says("deployed", [queued |-> n, failed |-> 2]) : n \in {0, 300}}
=============================================================================
