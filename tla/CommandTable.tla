---------------------------- MODULE CommandTable ----------------------------
(***************************************************************************)
(* Every command of the management service of a master: who may give it,    *)
(* what executeRequest() does with it, and whether tick() reports its end at *)
(* once or leaves it open.  A command left open is reported later by the     *)
(* record the service keeps for it: a tracked pull, a commit that waits for  *)
(* a stage, the pairing exchange, or one of the sessions.                    *)
(*                                                                         *)
(* A request is its source and its number; a source numbers its own requests *)
(* and may repeat one that is still open.  The frames and the answers are    *)
(* abstract: a payload parses or not, a frame leaves or not, a policy allows *)
(* or not.  The queue before executeRequest() is in CommandLifecycle.        *)
(***************************************************************************)
EXTENDS Naturals, FiniteSets

CONSTANTS Sources,     \* ManagementSource of the frontends, "cli" among them
          Slaves,      \* slaves the master may be paired with
          PairsMax,    \* kMaxPairedSlaves
          PullsMax,    \* kPendingDescriptorPullsMax
          MaxNumber,   \* bound: requests of each source
          MaxRadio     \* bound: radio operations

Nobody == "nobody"
Jobs   == {"exchange", "sync", "loop", "push", "update"}

ASSUME TableSizes == /\ {PairsMax, PullsMax, MaxNumber, MaxRadio} \subseteq Nat
                     /\ Nobody \notin Slaves

VARIABLES
  given,      \* requests each source has given
  paired,     \* slaves with a persisted pair
  pulls,      \* pending_descriptor_pulls_
  deferred,   \* deferred_topology_commits_
  job,        \* deferred_lifecycle_commands_ and the sessions: what each will report
  scanning,   \* discovery_active_
  quiesced,   \* radio_transition_active_
  radioUse,   \* radio operations so far
  left,       \* history: requests tick() has left open
  dropped,    \* history: requests whose record went without a report
  retold      \* history: open requests repeated and not joined to their pull

recordVars == <<pulls, deferred, job>>
linkVars   == <<paired, scanning, quiesced, radioUse>>
tableVars  == <<given, recordVars, linkVars, left, dropped, retold>>

-----------------------------------------------------------------------------
(* The commands, by what they are for.                                      *)

LocalReads == {"StatusGet", "PairedSnapshotGet", "DiscoverySnapshotGet", "QueueGet",
               "MetricsGet", "CommTestStatus", "CommTestReport", "LogLocalStatusGet",
               "LogLocalRead", "ChannelRuntimeGet", "TopologySlotsGet", "LiveMonitorStatusGet",
               "OtaPushStatus"}
PlainPulls == {"DescGet", "CapsGet", "SettingsGet", "TelemSchemaGet", "LiveGet", "PingGet",
               "TimeGet", "LogRemoteStatusGet", "StorageInfoGet", "OtaStatusGet",
               "OtaManifestGet", "OtaCapacityGet", "OtaGateGet"}
ParsedPulls == {"CapsPageGet", "NodeBundleGet", "SettingsPageGet", "SettingGet", "TelemPull",
                "TelemSchemaPageGet", "LogRemoteRead", "StorageList", "StorageStat",
                "OtaManifestPageGet"}
PlainWrites  == {"StorageFormat", "OtaManifestRebuild", "OtaRollback", "LogRemoteClear"}
ParsedWrites == {"SettingSet", "TimeSet", "LogRemoteControlSet", "OtaClearScope", "OtaApply"}
ArchiveReads  == {"OtaArchiveList", "OtaArchiveVerify"}
ArchiveWrites == {"OtaArchiveSaveRunning", "OtaArchiveSaveStaged", "OtaArchiveRestore",
                  "OtaArchiveDelete", "OtaArchiveClear"}
Archive  == ArchiveReads \cup ArchiveWrites
Topology == {"TopologyStatusGet", "TopologyStageSet", "TopologyCommit", "TopologyTriggerSend"}
PushMutations == {"PushStart", "PushUpdate", "PushPause", "PushResume", "PushStop"}
Push     == PushMutations \cup {"PushGet"}
Transfer == {"OtaTransferBegin", "OtaTransferChunk", "OtaTransferEnd", "OtaTransferAbort"}
MasterCritical == {"RestartMasterRequest", "ResetMasterRequest", "OtaMasterUpdateStart"}
SlaveCritical  == {"RestartSlaveRequest", "ResetSlaveRequest", "AudioPingRequest"}
LocalWrites == {"MetricsReset", "LogLocalClear", "LogLocalControlSet", "CliControlSet",
                "LiveMonitorEnable", "LiveMonitorDisable", "RemovePeerRequest"}
Discovery == {"DiscoveryStart", "DiscoveryStop"}
Exchanges == {"PairRequest", "UnpairRequest"}
Pulled    == PlainPulls \cup ParsedPulls \cup PlainWrites \cup ParsedWrites
CommandSet  == LocalReads \cup Pulled \cup Archive \cup Topology \cup Push \cup Transfer
             \cup MasterCritical \cup SlaveCritical \cup LocalWrites \cup Discovery \cup Exchanges
             \cup {"ChannelSyncAll", "ChainLoopControlSet", "OtaPushStart", "OtaPushAbort",
                   "OtaUpdateStart", "CommTestRun"}

(* requiredAccessLevel: Observer 0, Operator 1, Maintainer 2, Owner 3.      *)
Operators == Discovery \cup Exchanges \cup PushMutations
             \cup {"TimeSet", "SettingSet", "TopologyTriggerSend", "AudioPingRequest",
                   "ChannelSyncAll", "ChainLoopControlSet"}
Owners    == {"RemovePeerRequest", "RestartSlaveRequest", "ResetSlaveRequest",
              "RestartMasterRequest", "ResetMasterRequest", "CliControlSet",
              "LiveMonitorEnable", "LiveMonitorDisable"}
Observers == LocalReads \cup PlainPulls \cup ParsedPulls \cup ArchiveReads
             \cup {"PushGet", "TopologyStatusGet"}
RequiredAccess(cmd) ==
  CASE cmd \in Observers -> 0 [] cmd \in Operators -> 1 [] cmd \in Owners -> 3 [] OTHER -> 2

(* isRadioTransitionBlockedCommand                                          *)
RadioBlocked(cmd) == cmd \notin Observers

(* isDescriptorMutationCommand, of the commands that reach a slave.         *)
Mutation(cmd) ==
  cmd \in PlainWrites \cup ArchiveWrites
          \cup {"SettingSet", "LogRemoteControlSet", "OtaClearScope", "OtaApply",
                "TopologyStageSet", "TopologyCommit"}

(* The commands whose end an event reports, isAsyncTerminalCommand.         *)
AsyncTerminal == Exchanges \cup {"ChannelSyncAll", "ChainLoopControlSet",
                                 "OtaPushStart", "OtaUpdateStart"}

-----------------------------------------------------------------------------
(* Requests and the records kept for them.                                  *)

Requests == [src : Sources, no : 1 .. MaxNumber, cmd : CommandSet, access : 0 .. 3,
             peer : Slaves \cup {Nobody}]
Id(q)   == [src |-> q.src, no |-> q.no, cmd |-> q.cmd]
CommandIds     == [src : Sources, no : 1 .. MaxNumber, cmd : CommandSet]
Record(q) == [id |-> Id(q), peer |-> q.peer]
Records == [id : CommandIds, peer : Slaves \cup {Nobody}]
NoJob   == {}

(* trackPendingDescriptorPull_ is for a source other than the console, and  *)
(* for the commands that take several frames.                               *)
Tracked(q) == q.src # "cli" \/ q.cmd \in {"NodeBundleGet", "TopologyStageSet",
                                          "TopologyStatusGet", "TopologyCommit"}

(* findPendingDescriptorPullByCorrelation_: a stage is found by the numbers *)
(* the service gives its frames, which no request has.                      *)
Twins(q) == {p \in pulls : p.id.cmd # "TopologyStageSet" /\ p.peer = q.peer /\ p.id.no = q.no}

StagePending(p) == \E r \in pulls : r.id.cmd = "TopologyStageSet" /\ r.peer = p

(* hasPendingDescriptorPullRequest_                                         *)
PendingFor(q) == \E r \in pulls \cup deferred : r.id.src = q.src /\ r.id.no = q.no

(* Fault: every answer that is not final leaves the command open.           *)
LeftWhenDeferred(q, status) == status = "OkDeferred"

(* tick(): the command stays open when its answer is not final and an event *)
(* or the pull kept for it will report its end.                             *)
LeftOpen(q, status) == status = "OkDeferred" /\ (q.cmd \in AsyncTerminal \/ PendingFor(q)')

Settle(q, status) ==
  /\ left' = IF LeftOpen(q, status) THEN left \cup {Id(q)} ELSE left \ {Id(q)}
  /\ retold' = IF Id(q) \in left /\ ~(LeftOpen(q, status) /\ Record(q) \in pulls)
                 THEN retold \cup {Id(q)} ELSE retold

Final  == {"Ok", "Failed"}
Answer(q, statuses) ==
  /\ UNCHANGED <<recordVars, linkVars, dropped>>
  /\ \E st \in statuses : Settle(q, st)

(* What executeRequest() turns away before anything else.                   *)
Denied(q)   == q.access < RequiredAccess(q.cmd) \/ (quiesced /\ RadioBlocked(q.cmd))

(* requirePairedPeer                                                        *)
Resolved(q) == q.peer \in paired

Open(j, q) == /\ job[j] = NoJob /\ job' = [job EXCEPT ![j] = {Record(q)}]
               /\ UNCHANGED <<pulls, deferred, linkVars, dropped>> /\ Settle(q, "OkDeferred")

(* The reports of jobs S.                                                   *)
IdsOf(R) == {r.id : r \in R}
JobsOf(S) == UNION {job[j] : j \in S}
Stopped(S) == [j \in Jobs |-> IF j \in S THEN NoJob ELSE job[j]]

-----------------------------------------------------------------------------
(* executeRequest(), command by command.                                    *)

(* Answered at once from the master's own state; an archive command whose   *)
(* arguments do not say "remote" is about the master's own archive.         *)
RunRead(q)       == q.cmd \in LocalReads /\ Answer(q, Final)
RunLocalWrite(q) == q.cmd \in LocalWrites \ {"RemovePeerRequest"} /\ Answer(q, Final)
RunArchive(q)    == q.cmd \in Archive /\ Answer(q, Final)
RunLocalTopology(q) ==
  /\ q.cmd \in Topology /\ q.peer = Nobody
  /\ Answer(q, IF q.cmd = "TopologyTriggerSend" THEN {"Failed"} ELSE Final)

(* Handed to the device, which restarts, resets or updates itself later.    *)
RunMasterCritical(q) == q.cmd \in MasterCritical /\ Answer(q, {"OkDeferred", "Failed"})

(* One frame, whose answer is nobody's to wait for.                         *)
Frame(q, status) == Answer(q, IF Resolved(q) THEN {status, "Failed"} ELSE {"Failed"})
RunPush(q)          == /\ q.cmd \in Push
                       /\ Frame(q, IF q.cmd \in PushMutations THEN "OkDeferred" ELSE "Ok")
RunTransfer(q)      == q.cmd \in Transfer /\ Frame(q, "OkDeferred")
RunSlaveCritical(q) == q.cmd \in SlaveCritical /\ Frame(q, "OkDeferred")
RunCommTest(q)      == q.cmd = "CommTestRun" /\ Frame(q, "OkDeferred")

RunRemove(q) ==
  /\ q.cmd = "RemovePeerRequest"
  /\ \/ Answer(q, {"Failed"})
     \/ /\ Resolved(q) /\ paired' = paired \ {q.peer}
        /\ UNCHANGED <<recordVars, scanning, quiesced, radioUse, dropped>> /\ Settle(q, "Ok")

HasRoom == Cardinality(paired) < PairsMax

RunDiscovery(q) ==
  /\ q.cmd \in Discovery
  /\ UNCHANGED <<recordVars, paired, quiesced, radioUse, dropped>>
  /\ \E st \in Final :
       /\ st = "Ok" => q.cmd = "DiscoveryStop" \/ HasRoom
       /\ scanning' = IF st = "Ok" THEN q.cmd = "DiscoveryStart" ELSE scanning /\ HasRoom
       /\ Settle(q, st)

(* PairRequest and UnpairRequest: the engine runs one exchange.             *)
RunExchange(q) ==
  /\ q.cmd \in Exchanges
  /\ \/ Answer(q, IF q.cmd = "PairRequest" /\ Resolved(q) THEN {"Ok"} ELSE {"Failed"})
     \/ /\ IF q.cmd = "PairRequest" THEN q.peer \notin paired \cup {Nobody} /\ HasRoom
                                    ELSE Resolved(q)
        /\ Open("exchange", q)

(* One session with every slave, or a command for the device itself.        *)
RunChannelSync(q) ==
  /\ q.cmd = "ChannelSyncAll"
  /\ Answer(q, {"Failed"}) \/ (q.peer = Nobody /\ Open("sync", q))
RunChainLoop(q) ==
  /\ q.cmd = "ChainLoopControlSet"
  /\ \/ Answer(q, IF q.peer = Nobody THEN Final ELSE {"Failed"})
     \/ q.peer = Nobody /\ Open("loop", q)

(* runDescriptorPull: a repeated request is told again that its pull is on  *)
(* the way; a commit waits for the stage that is being sent to its slave.   *)
Pull(q) ==
  IF Tracked(q) /\ Twins(q) # {}
  THEN Answer(q, {IF \E p \in Twins(q) : p.id = Id(q) THEN "OkDeferred" ELSE "Failed"})
  ELSE \/ Answer(q, {"Failed"})
       \/ /\ Resolved(q)
          /\ Tracked(q) => Cardinality(pulls) < PullsMax
          /\ q.cmd = "TopologyStageSet" => ~StagePending(q.peer)
          /\ IF q.cmd = "TopologyCommit" /\ StagePending(q.peer)
               THEN deferred' = deferred \cup {Record(q)} /\ UNCHANGED pulls
               ELSE /\ pulls' = IF Tracked(q) THEN pulls \cup {Record(q)} ELSE pulls
                    /\ UNCHANGED deferred
          /\ UNCHANGED <<job, linkVars, dropped>>
          /\ Settle(q, IF Mutation(q.cmd) \/ Tracked(q) THEN "OkDeferred" ELSE "Ok")

RunPull(q) ==
  /\ q.cmd \in Pulled \cup Archive \/ (q.cmd \in Topology /\ q.peer # Nobody)
  /\ Pull(q)

(* OtaPushStart and OtaUpdateStart: one image at a time.                    *)
Sending == job["push"] # NoJob \/ job["update"] # NoJob

CanSend(q) == Resolved(q) /\ ~Sending
RunOtaPush(q)   == /\ q.cmd = "OtaPushStart"
                   /\ Answer(q, {"Failed"}) \/ (CanSend(q) /\ Open("push", q))
RunOtaUpdate(q) == /\ q.cmd = "OtaUpdateStart"
                   /\ Answer(q, {"Failed"}) \/ (CanSend(q) /\ Open("update", q))

(* OtaPushAbort ends the push and the update, whoever asked for them.       *)
RunAbort(q) ==
  /\ q.cmd = "OtaPushAbort"
  /\ job' = Stopped({"push", "update"})
  /\ left' = left \ IdsOf(JobsOf({"push", "update"}))
  /\ UNCHANGED <<pulls, deferred, linkVars, dropped, retold>>

Run(q) ==
  IF Denied(q) THEN Answer(q, {"Failed"})
  ELSE \/ RunRead(q) \/ RunLocalWrite(q) \/ RunLocalTopology(q) \/ RunArchive(q)
       \/ RunMasterCritical(q) \/ RunSlaveCritical(q) \/ RunPush(q) \/ RunTransfer(q)
       \/ RunCommTest(q) \/ RunRemove(q) \/ RunDiscovery(q) \/ RunExchange(q)
       \/ RunChannelSync(q) \/ RunChainLoop(q) \/ RunPull(q)
       \/ RunOtaPush(q) \/ RunOtaUpdate(q) \/ RunAbort(q)

(* A source gives its next request, or repeats one that is still open.      *)
Tick(q) ==
  /\ \/ q.no = given[q.src] + 1 /\ given' = [given EXCEPT ![q.src] = q.no]
     \/ Id(q) \in left /\ Record(q) \in pulls \cup deferred /\ UNCHANGED given
  /\ Run(q)

-----------------------------------------------------------------------------
(* What ends a command that was left open.                                  *)

(* The answer to a pull; the last one of a stage sends the commits that     *)
(* wait for it, those that can be sent, and ends the others.                *)
PullAnswered(r) ==
  /\ r \in pulls
  /\ LET held == {w \in deferred : r.id.cmd = "TopologyStageSet" /\ w.peer = r.peer}
     IN \E sent \in SUBSET held :
          /\ pulls' = (pulls \ {r}) \cup sent
          /\ deferred' = deferred \ held
          /\ left' = left \ IdsOf({r} \cup (held \ sent))
  /\ UNCHANGED <<given, job, linkVars, dropped, retold>>

(* prunePendingDescriptorPulls_: a pull that is overdue goes without a word,*)
(* a commit that waited too long is answered.                               *)
PullLapses(r) ==
  /\ r \in pulls
  /\ pulls' = pulls \ {r} /\ dropped' = dropped \cup {r.id}
  /\ UNCHANGED <<given, deferred, job, linkVars, left, retold>>
WaitTimesOut(w) ==
  /\ w \in deferred
  /\ deferred' = deferred \ {w} /\ left' = left \ {w.id}
  /\ UNCHANGED <<given, pulls, job, linkVars, dropped, retold>>

(* A session reports its result.                                            *)
SessionEnds(j) ==
  /\ j # "exchange" /\ job[j] # NoJob
  /\ job' = Stopped({j}) /\ left' = left \ IdsOf(job[j])
  /\ UNCHANGED <<given, pulls, deferred, linkVars, dropped, retold>>

(* The pairing engine reports: the service stops looking for slaves when    *)
(* it has as many as it can keep.                                           *)
ExchangeEnds(r) ==
  /\ r \in job["exchange"]
  /\ \E p \in {paired, IF r.id.cmd = "PairRequest" THEN paired \cup {r.peer}
                                                  ELSE paired \ {r.peer}} :
       paired' = p /\ scanning' = (scanning /\ (p = paired \/ Cardinality(p) < PairsMax))
  /\ job' = Stopped({"exchange"}) /\ left' = left \ {r.id}
  /\ UNCHANGED <<given, pulls, deferred, quiesced, radioUse, dropped, retold>>

DiscoveryEnds ==
  /\ scanning /\ scanning' = FALSE
  /\ UNCHANGED <<given, recordVars, paired, quiesced, radioUse, left, dropped, retold>>

-----------------------------------------------------------------------------
(* The radio transition reports what it cancels; clearQueues does not.      *)
Quiesce(keep) ==
  /\ job' = Stopped(Jobs)
  /\ left' = left \ IdsOf(JobsOf(Jobs))
  /\ IF keep THEN UNCHANGED <<pulls, deferred, dropped>>
             ELSE pulls' = {} /\ deferred' = {} /\ dropped' = dropped \cup IdsOf(pulls \cup deferred)
  /\ quiesced' = TRUE /\ scanning' = FALSE /\ radioUse' = radioUse + 1
  /\ UNCHANGED <<given, paired, retold>>
BeginRadioTransition == ~quiesced /\ radioUse < MaxRadio /\ Quiesce(TRUE)
HardDeinitRadio      == radioUse < MaxRadio /\ Quiesce(FALSE)
EndRadioTransition ==
  /\ quiesced /\ quiesced' = FALSE
  /\ UNCHANGED <<given, recordVars, paired, scanning, radioUse, left, dropped, retold>>

(* hardReinitRadio: the sessions that send an image are not reset.          *)
ReinitFails ==
  /\ radioUse < MaxRadio /\ radioUse' = radioUse + 1 /\ quiesced' = TRUE
  /\ UNCHANGED <<given, recordVars, paired, scanning, left, dropped, retold>>
HardReinitRadio ==
  /\ radioUse < MaxRadio /\ radioUse' = radioUse + 1
  /\ LET lost == {"exchange", "sync", "loop"}
     IN job' = Stopped(lost) /\ dropped' = dropped \cup IdsOf(pulls \cup deferred \cup JobsOf(lost))
  /\ pulls' = {} /\ deferred' = {}
  /\ quiesced' = FALSE /\ scanning' = FALSE
  /\ UNCHANGED <<given, paired, left, retold>>

TableInit ==
  /\ given = [s \in Sources |-> 0]
  /\ paired \in {S \in SUBSET Slaves : Cardinality(S) <= PairsMax}
  /\ pulls = {} /\ deferred = {} /\ job = [j \in Jobs |-> NoJob]
  /\ scanning = FALSE /\ quiesced = FALSE /\ radioUse = 0
  /\ left = {} /\ dropped = {} /\ retold = {}

TableSteps(Q) ==
  \/ \E q \in Q : Tick(q)
  \/ \E r \in pulls : PullAnswered(r) \/ PullLapses(r)
  \/ \E w \in deferred : WaitTimesOut(w)
  \/ \E j \in Jobs : SessionEnds(j)
  \/ \E r \in job["exchange"] : ExchangeEnds(r)
  \/ DiscoveryEnds
  \/ BeginRadioTransition \/ HardDeinitRadio \/ EndRadioTransition \/ HardReinitRadio \/ ReinitFails

TableNext == TableSteps(Requests)

TableSpec == TableInit /\ [][TableNext]_tableVars

-----------------------------------------------------------------------------
(* Correctness.                                                             *)

(* Every variable has its type.                                             *)
TableTypeOK ==
  /\ given \in [Sources -> 0 .. MaxNumber] /\ paired \subseteq Slaves
  /\ pulls \subseteq Records /\ deferred \subseteq Records
  /\ DOMAIN job = Jobs /\ \A j \in Jobs : job[j] \subseteq Records /\ Cardinality(job[j]) <= 1
  /\ scanning \in BOOLEAN /\ quiesced \in BOOLEAN /\ radioUse \in 0 .. MaxRadio
  /\ left \subseteq CommandIds /\ dropped \subseteq CommandIds /\ retold \subseteq CommandIds

(* A command that tick() leaves open is one the service still has a record  *)
(* of, and so will report; and no record will report a command whose end    *)
(* was already reported.  Excepted are the records dropped without a report *)
(* and the repeated requests whose repetition did not join their pull.      *)
OpenIsOwed ==
  LET owed == IdsOf(pulls \cup deferred \cup JobsOf(Jobs))
  IN left \ dropped \subseteq owed /\ owed \subseteq left \cup retold
=============================================================================
