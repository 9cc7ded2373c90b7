------------------------------ MODULE MCTable -------------------------------
(* Two requests in all, of either source.  The first may be any command;    *)
(* the second is one of each kind, given by those who may.                  *)
EXTENDS CommandTable

SecondKinds == {"TimeGet", "SettingSet", "TopologyStageSet", "TopologyCommit", "NodeBundleGet",
                "RemovePeerRequest", "DiscoveryStart", "PairRequest", "UnpairRequest",
                "ChannelSyncAll", "OtaPushStart", "OtaUpdateStart", "OtaPushAbort"}
SecondRequests == {q \in Requests : q.cmd \in SecondKinds /\ q.access = 3}

TableMCNext ==
  /\ TableSteps(IF \A s \in Sources : given[s] = 0 THEN Requests ELSE SecondRequests)
  /\ given'["cli"] + given'["web"] <= 2
=============================================================================
