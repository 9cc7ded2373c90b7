-------------------------- MODULE MCTelemetryPush --------------------------
(* One metric that is sampled and one that may change, two masters.         *)
EXTENDS TelemetryPush

M(mode, threshold) == [mode |-> mode, threshold |-> threshold]
TwoKeys == {"volt", "amp"}
MCConfigs == {[volt |-> M("Periodic", 0), amp |-> M("OnChange", 1)],
              [volt |-> M("Off", 0), amp |-> M("Hybrid", 1)]}
=============================================================================
