----------------------------- MODULE MCServices -----------------------------
(***************************************************************************)
(* What a master and its slaves keep of their group.  On a slave: the       *)
(* topology document it is sent, the keys it makes of it and the triggers   *)
(* it runs.  On a master: the file the documents are compiled from, and the *)
(* watch over its slaves.  They share no state, so one of them is explored   *)
(* while the others rest in an initial state.                               *)
(***************************************************************************)
EXTENDS MCTopologyLinks, TopologyTriggers, MCTopologyStaging, MCTopologyChain, LiveMonitor

servicesVars == <<linkVars, triggerVars, stagingVars, chainVars, monitorVars>>

LinksRest    == moves = 0
TriggersRest == sent = 0 /\ boots = 0 /\ allowed
StagingRests == reqs = 0 /\ faults = 0 /\ node.boss = Us
ChainRests   == commands = 0 /\ tp = Gone /\ bak = Gone /\ held = [m \in Devices |-> NoSnapshot]
MonitorRests == /\ turns = 0 /\ parity = 0 /\ probes = {} /\ muted = {}
                /\ monitor = [enabled |-> TRUE, ignoring |-> FALSE, cursor |-> 0]
                /\ kept = SetToSeq(Watched) /\ watch = [i \in 1 .. Len(kept) |-> JustSeen(kept[i])]
TopologyRests == LinksRest /\ TriggersRest /\ StagingRests /\ ChainRests

ServicesInit == LinkInit /\ TriggerInit /\ StagingInit /\ ChainInit /\ MonitorInit

Links      == /\ TriggersRest /\ StagingRests /\ ChainRests /\ MonitorRests
              /\ LinkNext /\ UNCHANGED <<triggerVars, stagingVars, chainVars, monitorVars>>
Triggering == /\ LinksRest /\ StagingRests /\ ChainRests /\ MonitorRests
              /\ TriggerNext /\ UNCHANGED <<linkVars, stagingVars, chainVars, monitorVars>>
Staging    == /\ LinksRest /\ TriggersRest /\ ChainRests /\ MonitorRests
              /\ StagingNext /\ UNCHANGED <<linkVars, triggerVars, chainVars, monitorVars>>
Chaining   == /\ LinksRest /\ TriggersRest /\ StagingRests /\ MonitorRests
              /\ ChainNext /\ UNCHANGED <<linkVars, triggerVars, stagingVars, monitorVars>>
Monitoring == /\ TopologyRests
              /\ MonitorNext /\ UNCHANGED <<linkVars, triggerVars, stagingVars, chainVars>>

(* The monitor ticks on unless the topology moves.                          *)
ServicesSpec ==
  /\ ServicesInit
  /\ [][Links \/ Triggering \/ Staging \/ Chaining \/ Monitoring]_servicesVars
  /\ <>[]TopologyRests => MonitorFairness

(* The state of every part has its type (TopologyLinks, TopologyTriggers,   *)
(* TopologyStaging, TopologyChain, LiveMonitor).                            *)
ServicesTypeOK == LinkTypeOK /\ TriggerTypeOK /\ StagingTypeOK /\ ChainTypeOK /\ MonitorTypeOK
=============================================================================
