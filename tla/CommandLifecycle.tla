-------------------------- MODULE CommandLifecycle --------------------------
(***************************************************************************)
(* The life of a management command on a master: from submit() through the  *)
(* priority queue and one tick() to its terminal report, for commands that  *)
(* finish in the tick and for those that finish later (pairing, unpairing,  *)
(* channel synchronisation, chain-loop control, tracked pulls), beside the  *)
(* radio transition that cancels and blocks them.                           *)
(*                                                                         *)
(* A command is its request id; one frontend numbers its requests, so ids   *)
(* differ.  tick() holds state_mx_ from end to end: the steps of a tick     *)
(* (Pop, a Run step, Pump) exclude every other entry point by step = "Open".*)
(* Deadlines are not counted: a tick may find anything pending overdue.     *)
(* The pairing engine is reduced to what it owes the service (Pairing.tla   *)
(* has it in full).  Every slave is a chain node and no topology is         *)
(* committed, so that both kinds of session address all paired slaves.      *)
(***************************************************************************)
EXTENDS Naturals, SequencesExt, Selections

CONSTANTS MaxId,        \* bound: commands submitted, numbered from 1
          Peers,        \* slaves of the master
          PeerOrder,    \* the order of the pair index, a sequence of all peers
          Depth,        \* max_queue_depth_
          MaxRadioOps,  \* bound: calls of begin-, hardDeinit- and hardReinitRadio
          None          \* no command, no peer

Ids      == 1 .. MaxId
NoId     == 0
Sessions == {"Sync", "Chain"}
Targeted == {"Pair", "Unpair", "Remove", "Pull"}
Kinds    == {"Read", "LiveOn", "LiveOff"} \cup Sessions \cup Targeted

ASSUME Sizes == {MaxId, Depth} \subseteq Nat \ {0} /\ MaxRadioOps \in Nat
ASSUME Order == PeerOrder \in Seq(Peers) /\ IsFiniteSet(Peers) /\ None \notin Peers

VARIABLES
  issued,      \* the command each id was submitted with
  queue,       \* request_queue_
  step,        \* where the tick is: "Open" when none runs
  cur,         \* the request the tick has taken from the queue
  owing,       \* deferred_lifecycle_commands_
  sess,        \* channel_sync_all_ and chain_loop_all_
  pulls,       \* pending_descriptor_pulls_, by request id
  air,         \* requests sent to slaves whose response may still arrive
  engine,      \* the pairing engine: the exchange it runs and for which command
  paired,      \* peers with a pair record
  radio,       \* radio_transition_state_, active unless "Idle"
  restoreLive, \* radio_transition_restore_live_monitor_
  live,        \* live_monitor_.enabled
  liveCfg,     \* the persisted live monitor setting
  up,          \* whether the manager's transport is begun
  loopOn,      \* chain_loop_enabled_
  reports,     \* history: terminal reports of each id
  forgotten,   \* history: ids whose pending state was dropped without a report
  halfSent,    \* history: ids of sessions whose start failed
  radioOps     \* radio transition operations called so far

tickVars    == <<step, cur>>
radioVars   == <<radio, restoreLive, live, liveCfg, up, radioOps>>
pairVars    == <<engine, paired>>
trackVars   == <<owing, pulls, air>>
historyVars == <<forgotten, halfSent>>
vars == <<issued, queue, tickVars, trackVars, sess, pairVars, radioVars, loopOn,
          reports, historyVars>>

-----------------------------------------------------------------------------
(* Commands.                                                                *)

Commands == [kind : Kinds \ Targeted, peer : {None}] \cup [kind : Targeted, peer : Peers]

(* A submission the full queue turned away.                                 *)
Refused == [kind |-> "Refused", peer |-> None]

(* commandPriority: StatusGet stands for the reads, SettingsGet for the     *)
(* pulls.                                                                   *)
Priority(kind) == CASE kind = "Read" -> 1 [] kind = "Pull" -> 2 [] OTHER -> 0

(* Fault: the channel synchronisation is missing from the switch.           *)
BlockedExceptSync(kind) == kind \notin {"Read", "Pull", "Sync"}

(* isRadioTransitionBlockedCommand                                          *)
Blocked(kind) == kind \notin {"Read", "Pull"}

Kind(i) == issued[i].kind
Target(i) == issued[i].peer

(* submit() inserts before the first request of a lower class.              *)
Enqueue(i, kind) ==
  LET lower == {n \in DOMAIN queue : Priority(kind) < Priority(Kind(queue[n]))}
  IN  IF lower = {} THEN Append(queue, i) ELSE InsertAt(queue, Min(lower), i)

Count(S) == [i \in Ids |-> reports[i] + (IF i \in S THEN 1 ELSE 0)]

(* A session: its command, the peers it waits for and those acknowledged.   *)
NoSession == [active |-> FALSE, id |-> NoId, targets |-> {}, acked |-> {}]

(* The place of p among the peers T, which a session asks in index order.   *)
Place(p) == CHOOSE n \in DOMAIN PeerOrder : PeerOrder[n] = p
Rank(T, p) == Cardinality({q \in T : Place(q) <= Place(p)})

(* Fault: counts down from the request id.                                  *)
CorrDownwards(i, T, p) == i - Rank(T, p)

(* The correlation id of the request that session i sends to p.             *)
Corr(i, T, p) == i + Rank(T, p)

Active == {k \in Sessions : sess[k].active}

(* stopChannelSyncAll and stopChainLoopAll return early only for a session  *)
(* that is neither active nor has an id.                                    *)
Stoppable == {k \in Sessions : sess[k].active \/ sess[k].id # NoId}
IdsOf(S)  == {sess[k].id : k \in S}
Cleared(S) == [k \in Sessions |-> IF k \in S THEN NoSession ELSE sess[k]]

NoJob == [doing |-> "None", id |-> NoId, peer |-> None]

Requests == [peer : Peers, corr : Nat, owner : Ids]

-----------------------------------------------------------------------------
Init ==
  /\ issued = [i \in Ids |-> [kind |-> "New", peer |-> None]]
  /\ queue = <<>> /\ step = "Open" /\ cur = NoId
  /\ owing = {} /\ pulls = {} /\ air = {}
  /\ sess = [k \in Sessions |-> NoSession]
  /\ engine = NoJob
  /\ paired \in SUBSET Peers
  /\ radio = "Idle" /\ restoreLive = FALSE
  /\ liveCfg \in BOOLEAN /\ live = liveCfg
  /\ up = TRUE /\ loopOn = FALSE /\ radioOps = 0
  /\ reports = [i \in Ids |-> 0] /\ forgotten = {} /\ halfSent = {}

-----------------------------------------------------------------------------
(* submit()                                                                 *)

Submit(i, c) ==
  /\ step = "Open" /\ Kind(i) = "New"
  /\ \A j \in Ids : j < i => Kind(j) # "New"
  /\ IF Len(queue) >= Depth
       THEN issued' = [issued EXCEPT ![i] = Refused] /\ UNCHANGED queue
       ELSE issued' = [issued EXCEPT ![i] = c] /\ queue' = Enqueue(i, c.kind)
  /\ UNCHANGED <<tickVars, trackVars, sess, pairVars, radioVars, loopOn, reports, historyVars>>

-----------------------------------------------------------------------------
(* tick(), part one: prune the overdue pulls, then take the first request.  *)

Prune(late) ==
  /\ pulls' = pulls \ late
  /\ forgotten' = forgotten \cup late

Pop(late) ==
  /\ step = "Open" /\ queue # <<>>
  /\ late \subseteq pulls /\ Prune(late)
  /\ cur' = Head(queue) /\ queue' = Tail(queue) /\ step' = "Run"
  /\ UNCHANGED <<issued, owing, air, sess, pairVars, radioVars, loopOn, reports, halfSent>>

-----------------------------------------------------------------------------
(* tick(), part two: executeRequest and the terminal event of a command     *)
(* whose last response is not a deferred one.                               *)

Executed == step' = "Pump" /\ cur' = NoId

EndsNow(i)   == Executed /\ reports' = Count({i})
EndsLater(i) == Executed /\ UNCHANGED reports

Runs(i, kinds) ==
  /\ step = "Run" /\ cur = i /\ Kind(i) \in kinds
  /\ ~(radio # "Idle" /\ Blocked(Kind(i)))

(* A read; or any command that ends without effect: overdue, denied by its  *)
(* access level, blocked by the transition, malformed, refused by policy,   *)
(* for a peer that is not paired, or refused by the engine or a send.       *)
RunAtOnce(i) ==
  /\ step = "Run" /\ cur = i
  /\ EndsNow(i)
  /\ UNCHANGED <<issued, queue, trackVars, sess, pairVars, radioVars, loopOn, historyVars>>

RunLiveMonitor(i) ==
  /\ Runs(i, {"LiveOn", "LiveOff"})
  /\ live' = (Kind(i) = "LiveOn") /\ liveCfg' = (Kind(i) = "LiveOn")
  /\ EndsNow(i)
  /\ UNCHANGED <<issued, queue, trackVars, sess, pairVars, radio, restoreLive, up, radioOps,
                 loopOn, historyVars>>

(* Fault: requestPair does not look at unpair_pending_.                     *)
EngineFreeUnlessPairing == engine.doing # "Pair"

EngineFree == engine.doing = "None"

(* PairRequest of a peer not yet paired, UnpairRequest of a paired one: the *)
(* engine runs one exchange at a time.                                      *)
RunPairing(i) ==
  /\ Runs(i, {"Pair", "Unpair"})
  /\ (Target(i) \in paired) = (Kind(i) = "Unpair")
  /\ up /\ EngineFree
  /\ engine' = [doing |-> Kind(i), id |-> i, peer |-> Target(i)]
  /\ owing' = owing \cup {i}
  /\ EndsLater(i)
  /\ UNCHANGED <<issued, queue, pulls, air, sess, paired, radioVars, loopOn, historyVars>>

(* RemovePeerRequest.  removePeer resets the engine when the peer is the    *)
(* one of a running unpair exchange.                                        *)
RunRemove(i) ==
  /\ Runs(i, {"Remove"})
  /\ Target(i) \in paired
  /\ paired' = paired \ {Target(i)}
  /\ LET resets == engine.doing = "Unpair" /\ engine.peer = Target(i)
     IN  /\ engine' = IF resets THEN NoJob ELSE engine
         /\ forgotten' = IF resets THEN forgotten \cup (owing \cap {engine.id}) ELSE forgotten
  /\ EndsNow(i)
  /\ UNCHANGED <<issued, queue, trackVars, sess, radioVars, loopOn, halfSent>>

(* A descriptor pull of a source other than the command line.               *)
RunPull(i) ==
  /\ Runs(i, {"Pull"})
  /\ Target(i) \in paired /\ up
  /\ pulls' = pulls \cup {i}
  /\ air' = air \cup {[peer |-> Target(i), corr |-> i, owner |-> i]}
  /\ EndsLater(i)
  /\ UNCHANGED <<issued, queue, owing, sess, pairVars, radioVars, loopOn, historyVars>>

(* ChannelSyncAll and ChainLoopControlSet (enable): startChannelSyncAll and *)
(* startChainLoopAll.  Without targets the session ends before the command  *)
(* is answered; the n-th send may fail, which leaves the session inactive   *)
(* with its id set.                                                         *)
Sends(i, T, n) ==
  {[peer |-> p, corr |-> Corr(i, T, p), owner |-> i] : p \in {q \in T : Rank(T, q) <= n}}

RunSession(i) ==
  /\ Runs(i, Sessions)
  /\ LET k       == Kind(i)
         started == [NoSession EXCEPT !.id = i, !.targets = paired]
     IN  /\ ~sess[k].active
         /\ \/ /\ paired = {}
               /\ sess' = [sess EXCEPT ![k] = NoSession]
               /\ loopOn' = (k = "Chain" \/ loopOn)
               /\ EndsNow(i) /\ UNCHANGED <<air, halfSent>>
            \/ /\ paired # {} /\ up
               /\ air' = air \cup Sends(i, paired, Cardinality(paired))
               /\ sess' = [sess EXCEPT ![k] = [started EXCEPT !.active = TRUE]]
               /\ EndsLater(i) /\ UNCHANGED <<loopOn, halfSent>>
            \/ \E n \in 0 .. Cardinality(paired) - 1 :
               /\ up \/ n = 0
               /\ air' = air \cup Sends(i, paired, n)
               /\ sess' = [sess EXCEPT ![k] = started]
               /\ halfSent' = halfSent \cup {i}
               /\ EndsNow(i) /\ UNCHANGED loopOn
  /\ UNCHANGED <<issued, queue, owing, pulls, pairVars, radioVars, forgotten>>

-----------------------------------------------------------------------------
(* tick(), part three: pumpChannelSyncAll and pumpChainLoopAll.  A session  *)
(* found overdue fails, one with every acknowledgement succeeds; applying   *)
(* the channel on the master may still fail.                                *)

Complete(k) == sess[k].active /\ sess[k].acked = sess[k].targets

(* Fault: the timeout of a session is never looked at.                      *)
PumpSessionsForEver(late) ==
  LET done == {k \in Active : Complete(k)}
  IN  /\ sess' = Cleared(done)
      /\ reports' = Count(IdsOf(done))
      /\ loopOn' = ("Chain" \in done \/ loopOn)

PumpSessions(late) ==
  LET done == late \cup {k \in Active : Complete(k)}
  IN  /\ sess' = Cleared(done)
      /\ reports' = Count(IdsOf(done))
      /\ loopOn' = IF "Chain" \in done THEN "Chain" \notin late ELSE loopOn

Pump(late) ==
  /\ step = "Pump" /\ late \subseteq Active
  /\ PumpSessions(late) /\ step' = "Open"
  /\ UNCHANGED <<issued, queue, cur, trackVars, pairVars, radioVars, historyVars>>

(* A tick that finds the queue empty prunes and pumps.                      *)
IdleTick(latePulls, late) ==
  /\ step = "Open" /\ queue = <<>>
  /\ latePulls \subseteq pulls /\ late \subseteq Active
  /\ Prune(latePulls) /\ PumpSessions(late)
  /\ UNCHANGED <<issued, queue, tickVars, owing, air, pairVars, radioVars, halfSent>>

-----------------------------------------------------------------------------
(* Events of the manager: onEvent and onPullResponse.                       *)

(* Fault: the deferred command is found but not erased.                     *)
ConsumedKept == owing

(* consumeDeferredLifecycleCommand                                          *)
Consumed == owing \ {engine.id}

(* The exchange of the engine ends; the deferred command, if it is still    *)
(* registered, is reported as done, failed or timed out.                    *)
ExchangeEnds(ok) ==
  /\ step = "Open" /\ engine.doing # "None" /\ (ok => up)
  /\ engine' = NoJob
  /\ paired' = CASE ~ok -> paired
                  [] ok /\ engine.doing = "Pair" -> paired \cup {engine.peer}
                  [] OTHER -> paired \ {engine.peer}
  /\ owing' = Consumed
  /\ reports' = Count(owing \cap {engine.id})
  /\ UNCHANGED <<issued, queue, tickVars, pulls, air, sess, radioVars, loopOn, historyVars>>

(* The response to m: PullResponseSeen acknowledges whichever session waits *)
(* for its correlation id from its sender, whatever the response says, and  *)
(* onPullResponse completes the pull that waits for them.                   *)
AckedBy(k, m) ==
  {p \in sess[k].targets : p = m.peer /\ Corr(sess[k].id, sess[k].targets, p) = m.corr}

Answers(m) == {i \in pulls : Target(i) = m.peer /\ i = m.corr}

Respond(m) ==
  /\ step = "Open" /\ up /\ m \in air
  /\ air' = air \ {m}
  /\ sess' = [k \in Sessions |->
       IF ~sess[k].active THEN sess[k]
       ELSE [sess[k] EXCEPT !.acked = @ \cup AckedBy(k, m)]]
  /\ pulls' = pulls \ Answers(m)
  /\ reports' = Count(Answers(m))
  /\ UNCHANGED <<issued, queue, tickVars, owing, pairVars, radioVars, loopOn, historyVars>>

-----------------------------------------------------------------------------
(* Radio transition.                                                        *)

RadioOp == step = "Open" /\ radioOps < MaxRadioOps /\ radioOps' = radioOps + 1

(* Fault: a second call does not return early.                              *)
BeginsAgain == TRUE

(* beginRadioTransition returns early under Quiescing or Paused.            *)
Begins == radio # "Paused"

(* The requests of the queue that are not blocked, in their order.          *)
Kept == Picked(queue, {n \in DOMAIN queue : ~Blocked(Kind(queue[n]))})

(* beginRadioTransition with its default options.                           *)
BeginRadioTransition ==
  /\ RadioOp /\ Begins
  /\ radio' = "Paused"
  /\ restoreLive' = live /\ live' = FALSE
  /\ LET blocked == {i \in Range(queue) : Blocked(Kind(i))}
     IN  reports' = Count(blocked \cup owing \cup IdsOf(Stoppable))
  /\ queue' = Kept
  /\ owing' = {} /\ sess' = Cleared(Stoppable)
  /\ loopOn' = IF "Chain" \in Stoppable THEN FALSE ELSE loopOn
  /\ UNCHANGED <<issued, tickVars, pulls, air, pairVars, liveCfg, up, historyVars>>

(* endRadioTransition.  It only follows another operation and needs no      *)
(* bound of its own.                                                        *)
EndRadioTransition ==
  /\ step = "Open" /\ radio # "Idle"
  /\ radio' = "Idle"
  /\ live' = (live \/ restoreLive) /\ restoreLive' = FALSE
  /\ UNCHANGED <<issued, queue, tickVars, trackVars, sess, pairVars, liveCfg, up, radioOps,
                 loopOn, reports, historyVars>>

(* clearQueues: every pending command is dropped, and with it the reports   *)
(* that were just made for it.                                              *)
Unanswered == Range(queue) \cup owing \cup pulls \cup IdsOf(Active)

ClearQueues ==
  /\ queue' = <<>> /\ owing' = {} /\ pulls' = {} /\ sess' = Cleared(Sessions)
  /\ forgotten' = forgotten \cup Unanswered

(* hardDeinitRadio                                                          *)
HardDeinitRadio ==
  /\ RadioOp
  /\ radio' = "Paused" /\ live' = FALSE /\ up' = FALSE
  /\ loopOn' = IF "Chain" \in Stoppable THEN FALSE ELSE loopOn
  /\ ClearQueues
  /\ UNCHANGED <<issued, tickVars, air, pairVars, restoreLive, liveCfg, reports, halfSent>>

(* hardReinitRadio: begin(), which reloads the live monitor setting, once   *)
(* the transport is back and restore() has made a restored peer the active  *)
(* one.  When the transport does not come back the queues stay.             *)
HardReinitRadio(ok) ==
  /\ RadioOp
  /\ up' = ok
  /\ IF ok
       THEN /\ radio' = "Idle" /\ restoreLive' = FALSE /\ live' = liveCfg
            /\ ClearQueues
            /\ \/ paired = {} /\ UNCHANGED engine
               \/ \E p \in paired :
                     engine' = IF engine.doing = "Unpair" THEN [engine EXCEPT !.peer = p]
                               ELSE NoJob
       ELSE /\ radio' = "Failed"
            /\ UNCHANGED <<restoreLive, live, queue, owing, pulls, sess, forgotten, engine>>
  /\ UNCHANGED <<issued, tickVars, air, paired, liveCfg, loopOn, reports, halfSent>>

-----------------------------------------------------------------------------
Run(i) == RunAtOnce(i) \/ RunLiveMonitor(i) \/ RunPairing(i) \/ RunRemove(i)
          \/ RunPull(i) \/ RunSession(i)

Next ==
  \/ \E i \in Ids : (\E c \in Commands : Submit(i, c)) \/ Run(i)
  \/ \E late \in SUBSET pulls : Pop(late)
  \/ \E late \in SUBSET Active : Pump(late)
  \/ \E latePulls \in SUBSET pulls, late \in SUBSET Active : IdleTick(latePulls, late)
  \/ \E ok \in BOOLEAN : ExchangeEnds(ok) \/ HardReinitRadio(ok)
  \/ \E m \in air : Respond(m)
  \/ BeginRadioTransition \/ EndRadioTransition \/ HardDeinitRadio

Spec == Init /\ [][Next]_vars

(* The loop keeps ticking.  A deadline, which the model does not count,     *)
(* passes for whatever stays pending, though other calls come in between;   *)
(* the manager's tick does the same for the exchange of the engine.         *)
Ticks == (\E late \in SUBSET pulls : Pop(late)) \/ IdleTick({}, {})
SessionsOverdue == Active # {} /\ (Pump(Active) \/ IdleTick({}, Active))
PullsOverdue == pulls # {} /\ (Pop(pulls) \/ IdleTick(pulls, {}))

Fairness ==
  /\ WF_vars(Ticks) /\ WF_vars(\E i \in Ids : Run(i)) /\ WF_vars(Pump({}))
  /\ SF_vars(SessionsOverdue) /\ SF_vars(PullsOverdue) /\ SF_vars(ExchangeEnds(FALSE))

FairSpec == Spec /\ Fairness

-----------------------------------------------------------------------------
(* Correctness.                                                             *)

TypeOK ==
  /\ issued \in [Ids -> Commands \cup [kind : {"New", "Refused"}, peer : {None}]]
  /\ queue \in Seq(Ids) /\ step \in {"Open", "Run", "Pump"} /\ cur \in Ids \cup {NoId}
  /\ owing \subseteq Ids /\ pulls \subseteq Ids /\ air \subseteq Requests
  /\ sess \in [Sessions -> [active : BOOLEAN, id : Ids \cup {NoId}, targets : SUBSET Peers,
                            acked : SUBSET Peers]]
  /\ engine \in [doing : {"None", "Pair", "Unpair"}, id : Ids \cup {NoId},
                 peer : Peers \cup {None}]
  /\ paired \subseteq Peers
  /\ radio \in {"Idle", "Paused", "Failed"}
  /\ {restoreLive, live, liveCfg, up, loopOn} \subseteq BOOLEAN
  /\ reports \in [Ids -> Nat] /\ forgotten \subseteq Ids /\ halfSent \subseteq Ids
  /\ radioOps \in Nat

(* No command gets two terminal reports, except one whose session failed in *)
(* the middle of its start: the session keeps the id, and the next          *)
(* transition reports it again.                                             *)
AtMostOneTerminal == \A i \in Ids : reports[i] > 1 => i \in halfSent

(* Under a paused radio no session runs and no exchange is awaited.         *)
PausedIsQuiet == radio = "Paused" => Active = {} /\ owing = {}

(* A deferred pair or unpair command is the one the engine works for, or    *)
(* its exchange was dropped by RemovePeerRequest.                           *)
DeferredHasExchange == owing \subseteq {engine.id} \cup forgotten

(* Out of a transition the live monitor is as the user configured it.       *)
LiveFollowsConfig == radio = "Idle" /\ up => live = liveCfg

(* Every accepted command gets a terminal report, unless it was dropped by  *)
(* clearQueues, as an overdue pull, or by RemovePeerRequest.                *)
CommandsEnd ==
  \A i \in Ids :
    Kind(i) \in Kinds ~> (reports[i] > 0 \/ i \in forgotten)

(* docs/current/testing-validation.md: no lost terminal states for deferred *)
(* commands; here for the commands of the pairing engine.                   *)
NoLostTerminal ==
  \A i \in Ids : i \in owing ~> reports[i] > 0

=============================================================================
