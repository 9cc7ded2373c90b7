----------------------------- MODULE MCStreams -----------------------------
(***************************************************************************)
(* What a master has under way with its slaves: the commands its service    *)
(* left open, a firmware push, the telemetry a slave reports, a switch of    *)
(* channel, and the messages that are only carried: queries and answers,     *)
(* commands and reports.  They share no state, so one of them moves while    *)
(* the others rest in an initial state.                                     *)
(***************************************************************************)
EXTENDS FirmwareStream, MCTelemetryPush, MCTable, ChannelSwitch, MCCodecs

FirmwareRests  == used = {} /\ ~push.active /\ upd = "Idle"
TelemetryRests == busy = 0 /\ session = NoTelemetry /\ value = [k \in Keys |-> 0] /\ active = "m1"
TableRests     == given = [s \in Sources |-> 0] /\ radioUse = 0 /\ paired = {} /\ ~scanning
SwitchRests    == switches = 0 /\ mishaps = 0
CodecRests     == ends = Plain /\ asked = Nothing /\ held = Nothing
CommandRests   == call = NoCall
ReportsRest    == told = NoReport
MessagesRest   == CodecRests /\ CommandRests /\ ReportsRest

messageVars == <<codecVars, commandVars, reportVars>>

PushRests     == TelemetryRests /\ TableRests /\ SwitchRests /\ MessagesRest
ReportRests   == FirmwareRests /\ TableRests /\ SwitchRests /\ MessagesRest

Firmware  == PushRests /\ Next /\ UNCHANGED <<streamVars, tableVars, switchVars, messageVars>>
Telemetry == ReportRests /\ StreamNext /\ UNCHANGED <<vars, tableVars, switchVars, messageVars>>
Table     == /\ FirmwareRests /\ TelemetryRests /\ SwitchRests /\ MessagesRest
             /\ TableMCNext /\ UNCHANGED <<vars, streamVars, switchVars, messageVars>>
Switch    == /\ FirmwareRests /\ TelemetryRests /\ TableRests /\ MessagesRest
             /\ SwitchNext /\ UNCHANGED <<vars, streamVars, tableVars, messageVars>>
Messages  == /\ FirmwareRests /\ TelemetryRests /\ TableRests /\ SwitchRests
             /\ \/ CommandRests /\ ReportsRest /\ CodecNext /\ UNCHANGED <<commandVars, reportVars>>
                \/ CodecRests /\ ReportsRest /\ CommandNext /\ UNCHANGED <<codecVars, reportVars>>
                \/ CodecRests /\ CommandRests /\ ReportNext /\ UNCHANGED <<codecVars, commandVars>>
             /\ UNCHANGED <<vars, streamVars, tableVars, switchVars>>

StreamsNext == Firmware \/ Telemetry \/ Table \/ Switch \/ Messages

StreamsInit == Init /\ StreamInit /\ TableInit /\ SwitchInit /\ CodecInit /\ CommandInit /\ ReportInit

StreamsSpec ==
  /\ StreamsInit
  /\ [][StreamsNext]_<<vars, streamVars, tableVars, switchVars, messageVars>>
  /\ WF_vars(MasterPump) /\ WF_vars(MasterReceives) /\ WF_vars(UpdateEnds)
  /\ WF_vars(SlaveReceives) /\ WF_vars(SlaveControl) /\ WF_vars(SlaveTick)
  /\ WF_streamVars(StreamTick /\ ReportRests) /\ SF_streamVars(Report /\ ReportRests)

(* Every variable has its type (FirmwareStream, TelemetryPush, CommandTable, *)
(* ChannelSwitch, DescriptorCodecs).                                        *)
StreamsTypeOK == TypeOK /\ StreamTypeOK /\ TableTypeOK /\ SwitchTypeOK /\ CodecTypeOK

(* What is written at one end is read at the other: queries and answers over *)
(* the air (DescriptorCodecs), commands to the service and its reports       *)
(* (CommandPayloads, ReportPayloads).                                       *)
WhatIsSentArrives == MessagesArrive /\ CommandsArrive /\ ReportsArrive
=============================================================================
