----------------------------- MODULE MCFrontends -----------------------------
(***************************************************************************)
(* What the frontends of a master go through: the adapter they use, the     *)
(* turns their requests get, the long reads of the console, and the         *)
(* settings the adapter keeps.  They share no state, so one of them is      *)
(* explored while the others rest in an initial state.                      *)
(***************************************************************************)
EXTENDS MCFrontend, ManagementRuntime, MCConsole, MCCache

FrontRests   == asked = [i \in Asks |-> NoCall] /\ radioOps = 0
RuntimeRests == transports = <<>> /\ cursor = 0 /\ depth = 0 /\ backlog = [f \in Frontends |-> 0]
ConsoleRests == /\ reads = 0 /\ probes = 0
                /\ lists = [n \in Nodes |-> lists["m"]] /\ logs = [n \in Nodes |-> <<1>>]
CacheRests   == pullsUsed + edits + ties + upsets = 0

Fronting  == /\ RuntimeRests /\ ConsoleRests /\ CacheRests
             /\ FrontNext /\ UNCHANGED <<runtimeVars, consoleVars, cacheVars>>
Running   == /\ FrontRests /\ ConsoleRests /\ CacheRests
             /\ RuntimeNext /\ UNCHANGED <<frontVars, consoleVars, cacheVars>>
Consoling == /\ FrontRests /\ RuntimeRests /\ CacheRests
             /\ ConsoleMCNext /\ UNCHANGED <<frontVars, runtimeVars, cacheVars>>
Caching   == /\ FrontRests /\ RuntimeRests /\ ConsoleRests
             /\ CacheNext /\ UNCHANGED <<frontVars, runtimeVars, consoleVars>>

FrontendsInit == FrontInit /\ RuntimeInit /\ ConsoleMCInit /\ CacheInit

FrontendsSpec ==
  /\ FrontendsInit
  /\ [][Fronting \/ Running \/ Consoling \/ Caching]_<<frontVars, runtimeVars, consoleVars, cacheVars>>

(* The state of every part has its type (FrontendAdapter,                   *)
(* ManagementRuntime, ConsoleFetch, SettingsCache).                         *)
FrontendsTypeOK == FrontTypeOK /\ RuntimeTypeOK /\ ConsoleTypeOK /\ CacheTypeOK
=============================================================================
