----------------------------- MODULE LiveMonitor -----------------------------
(***************************************************************************)
(* A master's watch over the slaves it is paired with.  A slave not heard    *)
(* for a while is probed with a liveness pull, one not heard for longer is   *)
(* reported offline, and one heard again is reported online.  Probes rest    *)
(* while a firmware session or a critical command has the radio.             *)
(*                                                                         *)
(* Ages count in units of 500 ms and stay at Silence once they reach it.    *)
(***************************************************************************)
EXTENDS Integers, Sequences, FiniteSets, SequencesExt, Selections

CONSTANTS Watched,   \* the slaves
          Trigger,   \* age at which a slave that is online is probed
          Urgency,   \* age at which it is probed although a request for it waits
          Silence,   \* age at which it is offline (kLiveOfflineDetectMaxMs)
          ProbeWait, \* time given to a probe
          Few,       \* peers up to which more probes go at a time
          Steps,     \* what the clock may move by between two ticks
          Fickle,    \* the slaves that go, change their pairing or cannot be sent to
          MaxTurns   \* how often something around the monitor changes

ASSUME MonitorAssumption ==
  /\ {Trigger, Urgency, Silence, ProbeWait, Few} \cup Steps \subseteq Nat /\ 1 \in Steps
  /\ Fickle \subseteq Watched /\ IsFiniteSet(Watched) /\ MaxTurns \in Nat
  /\ 0 < Trigger /\ Trigger < Urgency /\ Urgency < Silence /\ 0 < ProbeWait

VARIABLES kept,      \* the paired slaves, in the order of their pairing
          monitor,   \* [enabled, ignoring, cursor]
          watch,     \* the slaves watched, in the order of the probes
          occupied,  \* a firmware session or the guard of an update is on
          wanted,    \* the slaves that a request in the queue is for
          alive,     \* the slaves that answer
          probes,    \* the slaves with a probe, or its answer, in the air
          shown,     \* what the last report of each slave said: online?
          muted,     \* the slaves that changed without a report
          turns,     \* changes around the monitor so far
          parity     \* of the clock, so that a tick that moves it is a step

monitorVars == <<kept, monitor, watch, occupied, wanted, alive, probes, shown, muted, turns, parity>>

Turning == turns < MaxTurns /\ turns' = turns + 1 /\ parity' = parity

JustSeen(s)     == [peer |-> s, online |-> TRUE, age |-> 0, pending |-> FALSE, sent |-> 0]
Settled(e)   == [e EXCEPT !.pending = FALSE, !.sent = 0]
OnList(w)   == {w[i].peer : i \in 1 .. Len(w)}
OnlineIn(w, s) == \A i \in 1 .. Len(w) : w[i].peer = s => w[i].online
Each(w, Op(_)) == [i \in 1 .. Len(w) |-> Op(w[i])]

(* syncLiveMonitorPeers: forgets the unpaired, adds the newly paired.       *)
SyncLiveMonitorPeers(w) ==
  LET known == Picked(w, {i \in 1 .. Len(w) : w[i].peer \in ToSet(kept)})
      added == Picked(kept, {i \in 1 .. Len(kept) : kept[i] \notin OnList(w)})
  IN  known \o [i \in 1 .. Len(added) |-> JustSeen(added[i])]

ReportLosses(w, v) ==
  LET gone == {s \in OnList(w) \cap OnList(v) : OnlineIn(w, s) /\ ~OnlineIn(v, s)}
      told == IF monitor.enabled THEN gone ELSE {}
  IN  /\ shown' = [s \in Watched |-> shown[s] /\ s \notin told]
      /\ muted' = ((muted \ told) \cup (gone \ told) \cup (OnList(v) \ OnList(w)))

(* The list goes from w to v.  emitLivePeerTransition reports each slave     *)
(* that changed, unless the monitor is off; a slave new to the list counts   *)
(* as online without a report.                                              *)
Report(w, v) ==
  LET changed == {s \in OnList(w) \cap OnList(v) : OnlineIn(w, s) # OnlineIn(v, s)}
      told    == IF monitor.enabled THEN changed ELSE {}
      new     == OnList(v) \ OnList(w)
  IN  /\ shown' = [s \in Watched |-> IF s \in told THEN OnlineIn(v, s) ELSE shown[s]]
      /\ muted' = ((muted \ told) \cup (changed \ told) \cup new) \ {s \in new : shown[s]}

-----------------------------------------------------------------------------
(* pumpLiveMonitor, after a tick in which the clock moved by d; critical     *)
(* says that the tick worked on a critical command.                         *)
Older(w, d) ==
  [i \in 1 .. Len(w) |->
     [w[i] EXCEPT !.age  = IF @ + d > Silence THEN Silence ELSE @ + d,
                  !.sent = IF ~w[i].pending THEN 0 ELSE IF @ + d > ProbeWait THEN ProbeWait ELSE @ + d]]

Rechecked(e) == [Settled(e) EXCEPT !.online = @ /\ e.age < Silence]
Timed(e) ==
  IF e.age >= Silence THEN Rechecked(e)
  ELSE IF e.pending /\ e.sent >= ProbeWait THEN Settled(e)
  ELSE e

Budget(w) ==
  LET few == Len(w) <= Few IN
  IF \A i \in 1 .. Len(w) : w[i].online THEN (IF few THEN 2 ELSE 1) ELSE (IF few THEN 3 ELSE 2)

(* Whether the round comes to probe a slave.                                *)
DueOnline(e) == e.online /\ ~e.pending /\ e.age >= Trigger /\ (e.peer \in wanted => e.age >= Urgency)
Due(e) ==
  LET near == e.online /\ e.age >= Urgency IN
  /\ ~e.pending
  /\ e.online => e.age >= Trigger
  /\ e.peer \in wanted => near

(* The slaves probed: those due, from the cursor on, until the budget is    *)
(* spent; sending to one of broken fails.                                   *)
Probed(w, budget, broken) ==
  LET n        == Len(w)
      turn     == [k \in 1 .. n |-> w[((monitor.cursor + k - 1) % n) + 1]]
      sendable == {k \in 1 .. n : Due(turn[k]) /\ turn[k].peer \notin broken}
  IN  {turn[k].peer : k \in {l \in sendable : Cardinality({j \in sendable : j < l}) < budget}}

PumpLiveMonitor(d, critical, broken) ==
  LET old     == SyncLiveMonitorPeers(Older(watch, d))
      resumed == IF monitor.ignoring THEN Each(old, Rechecked) ELSE old
      timed   == Each(resumed, Timed)
      chosen  == IF timed = << >> THEN {} ELSE Probed(timed, Budget(old), broken)
      active  == monitor.enabled /\ ~occupied /\ ~critical
  IN  /\ monitor' = [monitor EXCEPT !.ignoring = occupied \/ critical,
                                    !.cursor = IF active /\ timed # << >> THEN (@ + 1) % Len(timed) ELSE @]
      /\ watch' = IF ~active THEN old
                  ELSE [i \in 1 .. Len(timed) |->
                          IF timed[i].peer \in chosen THEN [timed[i] EXCEPT !.pending = TRUE, !.sent = 0] ELSE timed[i]]
      /\ probes' = IF active THEN probes \cup chosen ELSE probes
      /\ Report(watch, watch')

MonitorTick(d, critical, broken) ==
  /\ PumpLiveMonitor(d, critical, broken) /\ parity' = (parity + d) % 2
  /\ UNCHANGED <<turns, kept, occupied, wanted, alive>>

-----------------------------------------------------------------------------
(* noteLivePeerSeen, called for every event a paired slave causes.          *)
Marked(w, s) ==
  IF s \notin ToSet(kept) THEN w
  ELSE IF s \notin OnList(w) THEN Append(w, JustSeen(s))
  ELSE [i \in 1 .. Len(w) |-> IF w[i].peer = s THEN JustSeen(s) ELSE w[i]]

NoteLivePeerSeen(s) == watch' = Marked(watch, s) /\ Report(watch, watch')

(* The answer to a probe.                                                   *)
ProbeAnswered(s) ==
  /\ s \in probes /\ s \in alive /\ probes' = probes \ {s}
  /\ NoteLivePeerSeen(s) /\ UNCHANGED <<turns, parity, kept, monitor, occupied, wanted, alive>>
ProbeLost(s) ==
  /\ s \in probes /\ probes' = probes \ {s}
  /\ UNCHANGED <<turns, parity, kept, monitor, watch, occupied, wanted, alive, shown, muted>>

(* Anything else a slave sends.                                             *)
PassiveRx(s) ==
  /\ s \in alive
  /\ NoteLivePeerSeen(s) /\ UNCHANGED <<turns, parity, kept, monitor, occupied, wanted, alive, probes>>

(* LiveMonitorEnable, and a radio transition that ends.                     *)
LiveMonitorEnable ==
  /\ monitor' = [monitor EXCEPT !.enabled = TRUE]
  /\ watch' = SyncLiveMonitorPeers(watch) /\ Report(watch, watch')
  /\ Turning /\ UNCHANGED <<kept, occupied, wanted, alive, probes>>
(* LiveMonitorDisable, and a radio transition that begins.                  *)
LiveMonitorDisable ==
  /\ monitor' = [monitor EXCEPT !.enabled = FALSE] /\ watch' = Each(watch, Settled)
  /\ Turning /\ UNCHANGED <<kept, occupied, wanted, alive, probes, shown, muted>>

(* The engine stores a pair, and reports it later.                          *)
PairKept(s) ==
  /\ s \in alive /\ s \notin ToSet(kept) /\ kept' = Append(kept, s)
  /\ Turning /\ UNCHANGED <<monitor, watch, occupied, wanted, alive, probes, shown, muted>>
PairedEvent(s) ==
  /\ s \in alive /\ s \in ToSet(kept)
  /\ watch' = Marked(SyncLiveMonitorPeers(watch), s) /\ Report(watch, watch')
  /\ UNCHANGED <<turns, parity, kept, monitor, occupied, wanted, alive, probes>>

(* It drops one, by an unpairing or RemovePeerRequest; the slave leaves the *)
(* list with the response or the event.                                     *)
PairDropped(s) ==
  /\ \E i \in 1 .. Len(kept) : kept[i] = s /\ kept' = RemoveAt(kept, i)
  /\ Turning /\ UNCHANGED <<monitor, watch, occupied, wanted, alive, probes, shown, muted>>
RemoveLivePeerState(s) ==
  /\ s \in OnList(watch) /\ s \notin ToSet(kept)
  /\ watch' = SyncLiveMonitorPeers(Picked(watch, {i \in 1 .. Len(watch) : watch[i].peer # s})) /\ Report(watch, watch')
  /\ UNCHANGED <<turns, parity, kept, monitor, occupied, wanted, alive, probes>>

(* What goes on around the monitor: firmware sessions, requests in the      *)
(* queue, slaves that go and come back.                                     *)
Occupy    == occupied' = ~occupied
             /\ Turning /\ UNCHANGED <<kept, monitor, watch, wanted, alive, probes, shown, muted>>
Want(s)   == wanted' = (IF s \in wanted THEN wanted \ {s} ELSE wanted \cup {s})
             /\ Turning /\ UNCHANGED <<kept, monitor, watch, occupied, alive, probes, shown, muted>>
Come(s)   == s \notin alive /\ alive' = alive \cup {s}
             /\ Turning /\ UNCHANGED <<kept, monitor, watch, occupied, wanted, probes, shown, muted>>
Go(s)     == s \in alive /\ alive' = alive \ {s}
             /\ Turning /\ UNCHANGED <<kept, monitor, watch, occupied, wanted, probes, shown, muted>>

-----------------------------------------------------------------------------
MonitorInit ==
  /\ kept \in {SetToSeq(Watched), SetToSeq(Watched \ Fickle)}
  /\ watch = [i \in 1 .. Len(kept) |-> JustSeen(kept[i])]
  /\ monitor \in [enabled : BOOLEAN, ignoring : {FALSE}, cursor : {0}] /\ turns = 0 /\ parity = 0
  /\ occupied = FALSE /\ wanted = {} /\ alive = Watched /\ probes = {}
  /\ shown = [s \in Watched |-> TRUE] /\ muted = {}

MonitorNext ==
  \/ \E d \in Steps : \/ MonitorTick(d, TRUE, {})
                       \/ \E broken \in SUBSET Fickle : MonitorTick(d, FALSE, broken)
  \/ LiveMonitorEnable \/ LiveMonitorDisable \/ Occupy
  \/ \E s \in Watched :
       \/ ProbeAnswered(s) \/ ProbeLost(s) \/ PassiveRx(s)
       \/ PairedEvent(s) \/ RemoveLivePeerState(s)
  \/ \E s \in Fickle : PairKept(s) \/ PairDropped(s) \/ Want(s) \/ Come(s) \/ Go(s)

(* Ticks without a critical command and with a radio that sends recur (a    *)
(* tick is never disabled), and a probe that is sent again and again is      *)
(* answered once.                                                           *)
MonitorFairness ==
  /\ []<><<MonitorTick(1, FALSE, {})>>_monitorVars
  /\ \A s \in Fickle : SF_monitorVars(ProbeAnswered(s))

MonitorSpec == MonitorInit /\ [][MonitorNext]_monitorVars /\ MonitorFairness

Entries == [peer : Watched, online : BOOLEAN, age : 0 .. Silence, pending : BOOLEAN, sent : 0 .. ProbeWait]
NoneTwice(w) == \A i, j \in 1 .. Len(w) : w[i].peer = w[j].peer => i = j

MonitorTypeOK ==
  /\ kept \in Seq(Watched) /\ IsInjective(kept)
  /\ monitor \in [enabled : BOOLEAN, ignoring : BOOLEAN, cursor : Nat]
  /\ watch \in Seq(Entries) /\ NoneTwice(watch)
  /\ occupied \in BOOLEAN /\ wanted \subseteq Watched /\ alive \subseteq Watched /\ probes \subseteq Watched
  /\ shown \in [Watched -> BOOLEAN] /\ muted \subseteq Watched /\ turns \in 0 .. MaxTurns /\ parity \in 0 .. 1

(* Frontends know of every slave watched whether it is online, unless the   *)
(* monitor was off when it came back, or it was paired anew after it was     *)
(* reported offline.                                                        *)
ShownIsHeld ==
  \A i \in 1 .. Len(watch) :
    watch[i].peer \notin muted => shown[watch[i].peer] = watch[i].online

(* While the monitor is on and the radio is not taken by a session, a paired *)
(* slave that is gone for good is reported offline, and one that is there   *)
(* and has no request waiting is online again and again.                    *)
Watching(s) == monitor.enabled /\ ~occupied /\ s \in ToSet(kept)
MonitorFollows ==
  \A s \in Fickle :
    /\ <>[](Watching(s) /\ s \notin alive) => <>[](~shown[s])
    /\ <>[](Watching(s) /\ s \in alive /\ s \notin wanted)
         => []<>(s \in OnList(watch) /\ OnlineIn(watch, s))
=============================================================================
