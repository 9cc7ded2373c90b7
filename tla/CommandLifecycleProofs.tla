----------------------- MODULE CommandLifecycleProofs -----------------------
(***************************************************************************)
(* Proofs about the management service, for any number of commands and      *)
(* slaves, any queue depth and any number of radio transitions: what a      *)
(* transition does to the live monitor, to sessions and to deferred         *)
(* commands, and that no command is reported as ended twice.                *)
(***************************************************************************)
EXTENDS CommandLifecycle, FiniteSetTheorems, SequenceTheorems, WellFoundedInduction, TLAPS

-----------------------------------------------------------------------------
(* The live monitor.  A paused service whose transport is up remembers the  *)
(* configured setting in the restore flag and keeps the monitor off; a      *)
(* failed re-initialisation leaves the transport down.                      *)
LiveInv ==
  /\ radio \in {"Idle", "Paused", "Failed"}
  /\ live \in BOOLEAN /\ liveCfg \in BOOLEAN /\ restoreLive \in BOOLEAN /\ up \in BOOLEAN
  /\ radio = "Idle" /\ up => live = liveCfg
  /\ radio = "Paused" /\ up => restoreLive = liveCfg /\ ~live
  /\ radio = "Failed" => ~up

(* Outside RunLiveMonitor and the transition operations the variables of    *)
(* the live monitor stay.                                                   *)
LEMMA LiveStep ==
  ASSUME LiveInv, [Next]_vars
  PROVE  LiveInv'
<1> USE DEF LiveInv
<1>1. CASE UNCHANGED radioVars
  BY <1>1 DEF radioVars
<1>2. ASSUME NEW i \in Ids, RunLiveMonitor(i)
      PROVE  LiveInv'
  <2>1. radio = "Idle"
    BY <1>2 DEF RunLiveMonitor, Runs, Blocked
  <2> QED BY <1>2, <2>1 DEF RunLiveMonitor
<1>3. CASE BeginRadioTransition
  BY <1>3 DEF BeginRadioTransition, Begins
<1>4. CASE EndRadioTransition
  BY <1>4 DEF EndRadioTransition
<1>5. CASE HardDeinitRadio
  BY <1>5 DEF HardDeinitRadio
<1>6. ASSUME NEW ok \in BOOLEAN, HardReinitRadio(ok)
      PROVE  LiveInv'
  <2>1. CASE ok
    BY <1>6, <2>1 DEF HardReinitRadio
  <2>2. CASE ~ok
    BY <1>6, <2>2 DEF HardReinitRadio
  <2> QED BY <2>1, <2>2
<1>7. ASSUME NEW i \in Ids, Run(i), ~RunLiveMonitor(i)
      PROVE  UNCHANGED radioVars
  BY <1>7 DEF Run, RunAtOnce, RunPairing, RunRemove, RunPull, RunSession
<1>8. CASE UNCHANGED vars
  BY <1>1, <1>8 DEF vars
<1> QED
  BY <1>1, <1>2, <1>3, <1>4, <1>5, <1>6, <1>7, <1>8
  DEF Next, Submit, Pop, Pump, IdleTick, ExchangeEnds, Respond

(* However transitions are begun, begun again, ended, forced or failed,     *)
(* whenever the service is out of a transition over a working transport the *)
(* live monitor is as the user configured it.                               *)
THEOREM LiveMonitorRestored == Spec => []LiveFollowsConfig
<1>1. Init => LiveInv
  BY DEF Init, LiveInv
<1>2. LiveInv /\ [Next]_vars => LiveInv'
  BY LiveStep
<1>3. LiveInv => LiveFollowsConfig
  BY DEF LiveInv, LiveFollowsConfig
<1> QED BY <1>1, <1>2, <1>3, PTL DEF Spec

-----------------------------------------------------------------------------
(* Sessions and deferred commands.  The fields they are made of keep their  *)
(* ranges, and an engine without an exchange works for no command.          *)
SessionRecords ==
  [active : BOOLEAN, id : Ids \cup {NoId}, targets : SUBSET Peers,
   acked : SUBSET Peers]

PendingType ==
  /\ issued \in [Ids -> Commands \cup [kind : {"New", "Refused"}, peer : {None}]]
  /\ owing \subseteq Ids /\ paired \subseteq Peers
  /\ sess \in [Sessions -> SessionRecords]
  /\ \A m \in air : m.peer \in Peers
  /\ engine \in [doing : {"None", "Pair", "Unpair"}, id : Ids \cup {NoId},
                 peer : Peers \cup {None}]
  /\ engine.doing # "None" => engine.peer \in Peers
  /\ engine.doing = "None" => engine = NoJob

PendingInv == PendingType /\ PausedIsQuiet /\ DeferredHasExchange

(* Stopping sessions leaves records, and none of the stopped is active.     *)
LEMMA ClearedSessions ==
  ASSUME sess \in [Sessions -> SessionRecords], NEW S \in SUBSET Sessions
  PROVE  /\ Cleared(S) \in [Sessions -> SessionRecords]
         /\ \A k \in S : ~Cleared(S)[k].active
         /\ \A k \in Sessions \ S : Cleared(S)[k] = sess[k]
  BY DEF Cleared, SessionRecords, NoSession

(* The target of a command of a targeted kind is a peer.                    *)
LEMMA TargetIsPeer ==
  ASSUME PendingType, NEW i \in Ids, Kind(i) \in Targeted
  PROVE  Target(i) \in Peers
  BY DEF PendingType, Commands, Kinds, Targeted, Sessions, Kind, Target

(* Submitting, ticking and pumping start nothing.                           *)
LEMMA PendingSubmit ==
  ASSUME PendingInv, NEW i \in Ids, NEW c \in Commands, Submit(i, c)
  PROVE  PendingInv'
<1>1. issued' \in [Ids -> Commands \cup [kind : {"New", "Refused"}, peer : {None}]]
  BY DEF PendingInv, PendingType, Submit, Refused
<1> QED
  BY <1>1 DEF PendingInv, PendingType, Submit, PausedIsQuiet, DeferredHasExchange, Active,
              trackVars, pairVars, radioVars, historyVars

LEMMA PendingPump ==
  ASSUME PendingInv, NEW late \in SUBSET Active,
         sess' = Cleared(late \cup {k \in Active : Complete(k)}),
         UNCHANGED <<issued, owing, air, pairVars, radio>>, forgotten \subseteq forgotten'
  PROVE  PendingInv'
<1> DEFINE S == late \cup {k \in Active : Complete(k)}
<1>1. S \in SUBSET Sessions
  BY DEF Active
<1>2. sess' \in [Sessions -> SessionRecords] /\ \A k \in Sessions : sess'[k].active => sess[k].active
  BY <1>1, ClearedSessions DEF PendingInv, PendingType
<1>3. radio = "Paused" => Active' = {}
  BY <1>2 DEF PendingInv, PausedIsQuiet, Active
<1> QED
  BY <1>2, <1>3 DEF PendingInv, PendingType, PausedIsQuiet, DeferredHasExchange, pairVars

(* A command that starts an exchange or a session runs only while the radio *)
(* is idle; an exchange starts only when the engine has none.               *)
LEMMA PendingRun ==
  ASSUME PendingInv, NEW i \in Ids, Run(i)
  PROVE  PendingInv'
<1> USE DEF PendingInv, PendingType, PausedIsQuiet, DeferredHasExchange, Active
<1>1. CASE RunAtOnce(i)
  BY <1>1 DEF RunAtOnce, trackVars, pairVars, radioVars, historyVars
<1>2. CASE RunLiveMonitor(i)
  BY <1>2 DEF RunLiveMonitor, trackVars, pairVars, historyVars
<1>3. CASE RunPairing(i)
  <2>1. Kind(i) \in {"Pair", "Unpair"} /\ radio = "Idle" /\ engine = NoJob
    BY <1>3 DEF RunPairing, Runs, Blocked, EngineFree
  <2>2. Target(i) \in Peers
    BY <2>1, TargetIsPeer DEF Targeted
  <2>3. owing \subseteq forgotten
    BY <2>1 DEF NoJob, Ids, NoId
  <2> QED
    BY <1>3, <2>1, <2>2, <2>3 DEF RunPairing, radioVars, historyVars
<1>4. CASE RunRemove(i)
  <2>1. engine' \in {engine, NoJob} /\ paired' \subseteq paired
    BY <1>4 DEF RunRemove
  <2>2. owing' \subseteq {engine'.id} \cup forgotten'
    BY <1>4 DEF RunRemove, trackVars, NoJob
  <2>3. UNCHANGED <<issued, owing, sess, radio>>
    BY <1>4 DEF RunRemove, trackVars, radioVars
  <2>4. air' = air
    BY <1>4 DEF RunRemove, trackVars
  <2>5. PendingType'
    BY <2>1, <2>3, <2>4 DEF NoJob
  <2> QED BY <2>2, <2>3, <2>5
<1>5. CASE RunPull(i)
  <2>1. Target(i) \in Peers
    BY <1>5, TargetIsPeer DEF RunPull, Runs, Targeted
  <2>2. \A m \in air' : m.peer \in Peers
    BY <1>5, <2>1 DEF RunPull
  <2> QED
    BY <1>5, <2>2 DEF RunPull, pairVars, radioVars, historyVars
<1>6. CASE RunSession(i)
  <2>1. Kind(i) \in Sessions /\ radio = "Idle"
    BY <1>6 DEF RunSession, Runs, Blocked, Sessions
  <2> DEFINE started == [NoSession EXCEPT !.id = i, !.targets = paired]
             running == [started EXCEPT !.active = TRUE]
  <2>2. PICK r \in {NoSession, started, running} : sess' = [sess EXCEPT ![Kind(i)] = r]
    BY <1>6, Zenon DEF RunSession
  <2>3. r \in SessionRecords
    <3>1. NoSession \in SessionRecords
      BY DEF NoSession, SessionRecords
    <3>2. started \in SessionRecords
      BY DEF NoSession, SessionRecords
    <3>3. running \in SessionRecords
      BY DEF NoSession, SessionRecords
    <3> QED BY <3>1, <3>2, <3>3
  <2>4. \A m \in air' : m.peer \in Peers
    BY <1>6 DEF RunSession, Sends
  <2>5. UNCHANGED <<issued, owing, pairVars, radioVars, forgotten>>
    BY <1>6 DEF RunSession
  <2> QED BY <2>1, <2>2, <2>3, <2>4, <2>5 DEF pairVars, radioVars
<1> QED
  BY <1>1, <1>2, <1>3, <1>4, <1>5, <1>6 DEF Run

(* The end of an exchange consumes the command it was started for.          *)
LEMMA PendingEvents ==
  ASSUME PendingInv,
         \/ \E ok \in BOOLEAN : ExchangeEnds(ok)
         \/ \E m \in air : Respond(m)
  PROVE  PendingInv'
<1> USE DEF PendingInv, PendingType, PausedIsQuiet, DeferredHasExchange, Active
<1>1. ASSUME NEW ok \in BOOLEAN, ExchangeEnds(ok)
      PROVE  PendingInv'
  <2>1. engine.peer \in Peers /\ paired' \subseteq paired \cup {engine.peer}
    BY <1>1 DEF ExchangeEnds
  <2>2. engine' = NoJob /\ owing' = owing \ {engine.id}
        /\ UNCHANGED <<issued, sess, radio, forgotten>>
    BY <1>1 DEF ExchangeEnds, Consumed, radioVars, historyVars
  <2>3. air' = air
    BY <1>1 DEF ExchangeEnds
  <2> QED BY <2>1, <2>2, <2>3 DEF NoJob
<1>2. ASSUME NEW m \in air, Respond(m)
      PROVE  PendingInv'
  <2>1. UNCHANGED <<issued, owing, pairVars, radio, forgotten>>
    BY <1>2 DEF Respond, radioVars, historyVars
  <2>2. ASSUME NEW k \in Sessions
        PROVE  sess'[k] \in SessionRecords /\ (sess'[k].active => sess[k].active)
    <3> DEFINE acked == sess[k].acked \cup AckedBy(k, m)
    <3>1. sess[k] \in SessionRecords /\ m.peer \in Peers /\ AckedBy(k, m) \subseteq Peers
      BY DEF AckedBy, SessionRecords
    <3>2. sess'[k] \in {sess[k], [sess[k] EXCEPT !.acked = acked]}
          /\ (sess'[k] # sess[k] => sess[k].active)
      BY <1>2, <3>1 DEF Respond, SessionRecords
    <3> HIDE DEF PendingInv, PendingType, PausedIsQuiet, DeferredHasExchange, Active
    <3>3. [sess[k] EXCEPT !.acked = acked] \in SessionRecords
      BY <3>1 DEF SessionRecords
    <3> QED BY <3>1, <3>2, <3>3
  <2>3. sess' \in [Sessions -> SessionRecords]
    BY <1>2, <2>2 DEF Respond
  <2>4. air' \subseteq air
    BY <1>2 DEF Respond
  <2> QED BY <2>1, <2>2, <2>3, <2>4 DEF pairVars
<1> QED BY <1>1, <1>2

(* The transition operations stop every session and drop every deferred     *)
(* command, except a re-initialisation that failed: it leaves Paused.       *)
LEMMA PendingRadio ==
  ASSUME PendingInv,
         \/ BeginRadioTransition \/ EndRadioTransition \/ HardDeinitRadio
         \/ \E ok \in BOOLEAN : HardReinitRadio(ok)
  PROVE  PendingInv'
<1> USE DEF PendingInv, PendingType, PausedIsQuiet, DeferredHasExchange, Active
<1>1. CASE BeginRadioTransition
  <2>1. /\ sess' \in [Sessions -> SessionRecords]
        /\ \A k \in Stoppable : ~sess'[k].active
        /\ \A k \in Sessions \ Stoppable : sess'[k] = sess[k]
    BY <1>1, ClearedSessions DEF BeginRadioTransition, Stoppable
  <2>2. \A k \in Sessions : ~sess'[k].active
    BY <2>1 DEF Stoppable
  <2> QED BY <1>1, <2>1, <2>2 DEF BeginRadioTransition, pairVars, historyVars
<1>2. CASE EndRadioTransition
  BY <1>2 DEF EndRadioTransition, trackVars, pairVars, historyVars
<1>3. ASSUME ClearQueues
      PROVE  /\ sess' \in [Sessions -> SessionRecords]
             /\ Active' = {} /\ owing' = {}
  BY <1>3, ClearedSessions DEF ClearQueues
<1>4. CASE HardDeinitRadio
  BY <1>3, <1>4 DEF HardDeinitRadio, pairVars
<1>5. ASSUME NEW ok \in BOOLEAN, HardReinitRadio(ok)
      PROVE  PendingInv'
  <2>1. CASE ok
    <3>1. /\ engine' \in [doing : {"None", "Pair", "Unpair"}, id : Ids \cup {NoId},
                          peer : Peers \cup {None}]
          /\ engine'.doing # "None" => engine'.peer \in Peers
          /\ engine'.doing = "None" => engine' = NoJob
      BY <1>5, <2>1 DEF HardReinitRadio, NoJob
    <3> QED BY <1>3, <1>5, <2>1, <3>1 DEF HardReinitRadio
  <2>2. CASE ~ok
    BY <1>5, <2>2 DEF HardReinitRadio
  <2> QED BY <2>1, <2>2
<1> QED BY <1>1, <1>2, <1>4, <1>5

LEMMA PendingStep ==
  ASSUME PendingInv, [Next]_vars
  PROVE  PendingInv'
<1>1. ASSUME NEW late \in SUBSET pulls, Pop(late)
      PROVE  PendingInv'
  BY <1>1 DEF Pop, Prune, PendingInv, PendingType, PausedIsQuiet, DeferredHasExchange, Active,
              pairVars, radioVars
<1>2. ASSUME NEW late \in SUBSET Active, Pump(late)
      PROVE  PendingInv'
  BY <1>2, PendingPump DEF Pump, PumpSessions, trackVars, radioVars, historyVars
<1>3. ASSUME NEW latePulls \in SUBSET pulls, NEW late \in SUBSET Active,
             IdleTick(latePulls, late)
      PROVE  PendingInv'
  BY <1>3, PendingPump DEF IdleTick, Prune, PumpSessions, radioVars
<1>4. CASE UNCHANGED vars
  BY <1>4 DEF vars, trackVars, pairVars, radioVars, historyVars, PendingInv, PendingType,
              PausedIsQuiet, DeferredHasExchange, Active
<1> QED
  BY <1>1, <1>2, <1>3, <1>4, PendingSubmit, PendingRun, PendingEvents, PendingRadio DEF Next

LEMMA PendingAlways == Spec => []PendingInv
<1>1. Init => PendingInv
  BY DEF Init, PendingInv, PendingType, PausedIsQuiet, DeferredHasExchange, Active,
         SessionRecords, NoSession, NoJob
<1>2. PendingInv /\ [Next]_vars => PendingInv'
  BY PendingStep
<1> QED BY <1>1, <1>2, PTL DEF Spec

(* While the radio is paused no channel or chain-loop session runs and no   *)
(* pair or unpair command is awaited: beginRadioTransition and              *)
(* hardDeinitRadio leave none, and the policy of isRadioTransitionBlocked-  *)
(* Command lets none start.                                                 *)
THEOREM QuietWhilePaused == Spec => []PausedIsQuiet
  BY PendingAlways, PTL DEF PendingInv

(* A deferred pair or unpair command always has its exchange in the pairing *)
(* engine; the exception is the one whose exchange RemovePeerRequest reset. *)
THEOREM DeferredCommandHasExchange == Spec => []DeferredHasExchange
  BY PendingAlways, PTL DEF PendingInv

-----------------------------------------------------------------------------
(* A property of a non-empty set of numbers: it has a lowest one.           *)
LEMMA LowestExists ==
  ASSUME NEW S \in SUBSET Nat, S # {}
  PROVE  \E n \in S : \A m \in S : n <= m
<1>1. PICK n \in S : \A m \in S : ~(<<m, n>> \in OpToRel(<, Nat))
  BY NatLessThanWellFounded, WFMin
<1>2. ASSUME NEW m \in S, m < n  PROVE FALSE
  <2>1. <<m, n>> \in Nat \X Nat /\ <<m, n>>[1] < <<m, n>>[2]
    BY <1>2
  <2>2. <<m, n>> \in OpToRel(<, Nat)
    BY <2>1 DEF OpToRel
  <2>3. QED BY <1>1, <2>2
<1>3. QED BY <1>2

(* The numbers of a finite set can be put in order: if a bound had a set    *)
(* that cannot, the lowest such bound would have one less than it.          *)
Ordered(S) ==
  /\ Cardinality(S) \in Nat
  /\ \E f \in [1 .. Cardinality(S) -> S] : \A a, b \in DOMAIN f : a < b => f[a] < f[b]

LEMMA NumbersOrdered ==
  ASSUME NEW n \in Nat
  PROVE  \A S \in SUBSET (1 .. n) : Ordered(S)
<1> DEFINE Bad == {k \in Nat : \E S \in SUBSET (1 .. k) : ~Ordered(S)}
<1>1. SUFFICES ASSUME Bad # {}  PROVE FALSE
  OBVIOUS
<1>2. PICK k \in Bad : \A m \in Bad : k <= m
  BY <1>1, LowestExists
<1>3. k \in Nat
  OBVIOUS
<1>4. PICK S \in SUBSET (1 .. k) : ~Ordered(S)
  OBVIOUS
<1>5. IsFiniteSet(S) /\ Cardinality(S) \in Nat
  <2>1. k \in Int /\ 1 \in Int
    BY <1>3
  <2>2. IsFiniteSet(1 .. k)
    BY <2>1, FS_Interval
  <2>3. IsFiniteSet(S)
    BY <2>2, FS_Subset
  <2>4. QED BY <2>3, FS_CardinalityType
<1>6. CASE k = 0
  <2>1. S = {} /\ Cardinality(S) = 0
    <3>1. 1 .. k = {}
      BY <1>6
    <3>2. S = {}
      BY <3>1
    <3>3. QED BY <3>2, FS_EmptySet
  <2>2. << >> \in [1 .. Cardinality(S) -> S]
    BY <2>1
  <2>3. QED BY <1>4, <1>5, <2>1, <2>2 DEF Ordered
<1>7. CASE k # 0
  <2>1. k - 1 \in Nat /\ k - 1 \notin Bad
    BY <1>2, <1>3, <1>7
  <2>2. \A T \in SUBSET (1 .. k - 1) : Ordered(T)
    BY <2>1
  <2> DEFINE T == S \ {k}
  <2>3. T \in SUBSET (1 .. k - 1)
    BY <1>3
  <2>4. Ordered(T)
    BY <2>2, <2>3
  <2>5. S = T \/ k \in S
    OBVIOUS
  <2>6. CASE k \in S
    <3>1. Cardinality(T) = Cardinality(S) - 1
      BY <1>5, <2>6, FS_RemoveElement
    <3> DEFINE c == Cardinality(S)
    <3>2. PICK f \in [1 .. c - 1 -> T] : \A a, b \in DOMAIN f : a < b => f[a] < f[b]
      BY <2>4, <3>1 DEF Ordered
    <3> DEFINE g == [a \in 1 .. c |-> IF a = c THEN k ELSE f[a]]
    <3>3. \A a \in 1 .. c - 1 : f[a] \in S /\ f[a] < k
      <4>1. \A a \in 1 .. c - 1 : f[a] \in T
        OBVIOUS
      <4>2. \A j \in 1 .. k - 1 : j < k
        BY <1>3
      <4>3. QED BY <2>3, <4>1, <4>2
    <3>4. \A a \in 1 .. c : a # c => a \in 1 .. c - 1
      BY <1>5
    <3>5. g \in [1 .. c -> S]
      BY <2>6, <3>3, <3>4
    <3>6. ASSUME NEW a \in 1 .. c, NEW b \in 1 .. c, a < b
          PROVE  g[a] < g[b]
      <4>1. a # c /\ a \in 1 .. c - 1
        BY <1>5, <3>4, <3>6
      <4>2. CASE b = c
        BY <3>3, <4>1, <4>2
      <4>3. CASE b # c
        BY <3>2, <3>4, <3>6, <4>1, <4>3
      <4>4. QED BY <4>2, <4>3
    <3>7. QED
      <4>1. \A a, b \in DOMAIN g : a < b => g[a] < g[b]
        BY <3>6
      <4>2. QED BY <1>4, <1>5, <3>5, <4>1 DEF Ordered
  <2>7. QED BY <1>4, <2>4, <2>5, <2>6
<1>8. QED BY <1>6, <1>7

LEMMA InOrderIs ==
  ASSUME NEW n \in Nat, NEW S \in SUBSET (1 .. n)
  PROVE  /\ Cardinality(S) \in Nat
         /\ InOrder(S) \in [1 .. Cardinality(S) -> S]
         /\ \A a, b \in DOMAIN InOrder(S) : a < b => InOrder(S)[a] < InOrder(S)[b]
BY NumbersOrdered DEF Ordered, InOrder

-----------------------------------------------------------------------------
(* The queue: no request is in it twice.                                    *)
Distinct(q) == \A m, n \in DOMAIN q : q[m] = q[n] => m = n

(* What is kept of the queue is some of it, each request once.              *)
LEMMA KeptQueue ==
  ASSUME queue \in Seq(Ids), Distinct(queue)
  PROVE  /\ Kept \in Seq(Ids) /\ Distinct(Kept)
         /\ Range(Kept) \subseteq {i \in Range(queue) : ~Blocked(Kind(i))}
<1> DEFINE S == {n \in DOMAIN queue : ~Blocked(Kind(queue[n]))}
           f == InOrder(S)
           c == Cardinality(S)
<1>1. Len(queue) \in Nat /\ DOMAIN queue = 1 .. Len(queue) /\ \A n \in DOMAIN queue : queue[n] \in Ids
  OBVIOUS
<1>2. S \in SUBSET (1 .. Len(queue))
  BY <1>1
<1>3. c \in Nat /\ f \in [1 .. c -> S] /\ \A a, b \in 1 .. c : a < b => f[a] < f[b]
  BY <1>1, <1>2, InOrderIs
<1>4. Kept = [k \in 1 .. c |-> queue[f[k]]]
  BY <1>3 DEF Kept, Picked
<1> HIDE DEF f, c
<1>5. \A a \in 1 .. c : f[a] \in DOMAIN queue /\ f[a] \in Nat /\ ~Blocked(Kind(queue[f[a]]))
  BY <1>1, <1>3
<1>6. Kept \in Seq(Ids)
  BY <1>1, <1>3, <1>4, <1>5
<1>7. Range(Kept) \subseteq {i \in Range(queue) : ~Blocked(Kind(i))}
  BY <1>4, <1>5 DEF Range
<1>8. ASSUME NEW a \in 1 .. c, NEW b \in 1 .. c, Kept[a] = Kept[b]
      PROVE  a = b
  <2>1. f[a] = f[b]
    BY <1>4, <1>5, <1>8 DEF Distinct
  <2>2. ~(a < b) /\ ~(b < a)
    BY <1>3, <1>5, <2>1
  <2>3. QED BY <1>3, <2>2
<1>9. Distinct(Kept)
  BY <1>4, <1>8 DEF Distinct
<1>10. QED BY <1>6, <1>7, <1>9

(* A request joins the queue.                                               *)
LEMMA QueueJoined ==
  ASSUME queue \in Seq(Ids), Distinct(queue), NEW i \in Ids, i \notin Range(queue), NEW kind
  PROVE  /\ Enqueue(i, kind) \in Seq(Ids) /\ Distinct(Enqueue(i, kind))
         /\ Range(Enqueue(i, kind)) \subseteq Range(queue) \cup {i}
<1> DEFINE lower == {n \in DOMAIN queue : Priority(kind) < Priority(Kind(queue[n]))}
           L == Len(queue)
<1>1. L \in Nat /\ DOMAIN queue = 1 .. L /\ \A n \in 1 .. L : queue[n] \in Ids /\ queue[n] # i
  BY DEF Range
<1>2. CASE lower = {}
  <2>1. Enqueue(i, kind) = Append(queue, i)
    BY <1>2 DEF Enqueue
  <2>2. /\ Append(queue, i) \in Seq(Ids) /\ DOMAIN Append(queue, i) = 1 .. L + 1
        /\ \A n \in 1 .. L + 1 : Append(queue, i)[n] = IF n = L + 1 THEN i ELSE queue[n]
    OBVIOUS
  <2> DEFINE q == Append(queue, i)
  <2> HIDE DEF q
  <2>3. q \in Seq(Ids) /\ DOMAIN q = 1 .. L + 1 /\ \A n \in 1 .. L + 1 : q[n] = IF n = L + 1 THEN i ELSE queue[n]
    BY <2>2 DEF q
  <2>4. \A n \in 1 .. L + 1 : n # L + 1 => n \in 1 .. L
    BY <1>1
  <2>5. Distinct(q)
    BY <1>1, <2>3, <2>4 DEF Distinct
  <2>6. Range(q) \subseteq Range(queue) \cup {i}
    BY <1>1, <2>3, <2>4 DEF Range
  <2>7. QED BY <2>1, <2>3, <2>5, <2>6 DEF q
<1>3. CASE lower # {}
  <2>1. lower \in SUBSET Nat
    BY <1>1
  <2>2. PICK low \in lower : \A m \in lower : low <= m
    BY <1>3, <2>1, LowestExists
  <2> DEFINE at == Min(lower)
  <2>3. at \in lower
    BY <2>2 DEF Min
  <2>4. at \in 1 .. L
    BY <1>1, <2>3
  <2> HIDE DEF at, lower
  <2> DEFINE before == SubSeq(queue, 1, at - 1)
             after == SubSeq(queue, at, L)
             q == InsertAt(queue, at, i)
  <2>5. Enqueue(i, kind) = q
    BY <1>3 DEF Enqueue, at, lower
  <2>6. /\ before \in Seq(Ids) /\ Len(before) = at - 1
        /\ \A n \in 1 .. at - 1 : before[n] = queue[n]
    <3>1. \A n \in 1 .. at - 1 : queue[n] \in Ids
      BY <1>1, <2>4
    <3>2. 1 \in Int /\ at - 1 \in Int /\ (~(1 <= at - 1) => at - 1 = 0)
      BY <2>4
    <3>3. \A n \in 1 .. at - 1 : 1 + n - 1 = n
      OBVIOUS
    <3>4. 1 .. (at - 1) - 1 + 1 = 1 .. at - 1 /\ (at - 1) - 1 + 1 = at - 1
      BY <2>4
    <3>5. QED BY <3>1, <3>2, <3>3, <3>4, SubSeqProperties
  <2>7. /\ after \in Seq(Ids) /\ Len(after) = L - at + 1
        /\ \A n \in 1 .. L - at + 1 : after[n] = queue[at + n - 1]
    <3>1. \A n \in at .. L : queue[n] \in Ids
      BY <1>1, <2>4
    <3>2. QED BY <1>1, <2>4, <3>1, SubSeqProperties
  <2> HIDE DEF before, after
  <2>8. /\ before \o <<i>> \in Seq(Ids) /\ Len(before \o <<i>>) = at
        /\ \A n \in 1 .. at : (before \o <<i>>)[n] = IF n < at THEN queue[n] ELSE i
    <3>1. <<i>> \in Seq(Ids) /\ Len(<<i>>) = 1 /\ <<i>>[1] = i
      OBVIOUS
    <3> DEFINE one == <<i>>
    <3> HIDE DEF one
    <3>2. /\ before \o one \in Seq(Ids) /\ Len(before \o one) = (at - 1) + 1
          /\ \A n \in 1 .. (at - 1) + 1 : (before \o one)[n] =
                 IF n <= at - 1 THEN before[n] ELSE one[n - (at - 1)]
      BY <2>6, <3>1, ConcatProperties DEF one
    <3>3. QED BY <2>4, <2>6, <3>1, <3>2 DEF one
  <2> DEFINE head == before \o <<i>>
  <2> HIDE DEF head
  <2>9. /\ q \in Seq(Ids) /\ Len(q) = L + 1
        /\ \A n \in 1 .. L + 1 : q[n] = IF n < at THEN queue[n] ELSE IF n = at THEN i ELSE queue[n - 1]
    <3>1. q = head \o after
      BY DEF InsertAt, head, before, after, at
    <3>2. /\ head \in Seq(Ids) /\ Len(head) = at
          /\ \A n \in 1 .. at : head[n] = IF n < at THEN queue[n] ELSE i
      BY <2>8 DEF head
    <3>3. /\ head \o after \in Seq(Ids) /\ Len(head \o after) = at + (L - at + 1)
          /\ \A n \in 1 .. at + (L - at + 1) : (head \o after)[n] =
                 IF n <= at THEN head[n] ELSE after[n - at]
      BY <2>7, <3>2, ConcatProperties
    <3>4. at + (L - at + 1) = L + 1
      BY <1>1, <2>4
    <3>5. ASSUME NEW n \in 1 .. L + 1
          PROVE  q[n] = IF n < at THEN queue[n] ELSE IF n = at THEN i ELSE queue[n - 1]
      <4>1. CASE n <= at
        BY <2>4, <3>1, <3>2, <3>3, <3>4, <4>1
      <4>2. CASE ~(n <= at)
        <5>1. n - at \in 1 .. L - at + 1 /\ at + (n - at) - 1 = n - 1
          BY <1>1, <2>4, <4>2
        <5>2. QED BY <1>1, <2>4, <2>7, <3>1, <3>3, <3>4, <4>2, <5>1
      <4>3. QED BY <4>1, <4>2
    <3>6. QED BY <3>1, <3>3, <3>4, <3>5
  <2> HIDE DEF q
  <2>10. DOMAIN q = 1 .. L + 1
    BY <2>9
  <2>11. \A n \in 1 .. L + 1 : \/ n < at /\ n \in 1 .. L
                               \/ n = at
                               \/ n > at /\ n - 1 \in 1 .. L /\ n - 1 >= at
    BY <1>1, <2>4
  <2>12. Range(q) \subseteq Range(queue) \cup {i}
    <3>1. ASSUME NEW n \in 1 .. L + 1
          PROVE  q[n] \in Range(queue) \cup {i}
      <4>1. CASE n < at
        BY <1>1, <2>4, <2>9, <2>11, <4>1 DEF Range
      <4>2. CASE n = at
        BY <2>4, <2>9, <4>2
      <4>3. CASE n > at
        BY <1>1, <2>4, <2>9, <2>11, <4>3 DEF Range
      <4>4. QED BY <2>4, <4>1, <4>2, <4>3
    <3>2. QED BY <2>10, <3>1 DEF Range
  <2>13. ASSUME NEW m \in 1 .. L + 1, NEW n \in 1 .. L + 1, q[m] = q[n]
         PROVE  m = n
    <3> DEFINE Old(k) == IF k < at THEN k ELSE k - 1
    <3>1. \A k \in {m, n} : k # at => Old(k) \in 1 .. L /\ q[k] = queue[Old(k)]
      <4>1. ASSUME NEW k \in {m, n}, k < at
            PROVE  Old(k) \in 1 .. L /\ q[k] = queue[Old(k)]
        BY <2>4, <2>9, <2>11, <4>1
      <4>2. ASSUME NEW k \in {m, n}, k > at
            PROVE  Old(k) \in 1 .. L /\ q[k] = queue[Old(k)]
        BY <2>4, <2>9, <2>11, <4>2
      <4>3. QED BY <2>4, <4>1, <4>2
    <3>2. (m = at) = (n = at)
      BY <1>1, <2>4, <2>9, <2>13, <3>1
    <3>3. CASE m # at
      <4>1. Old(m) = Old(n)
        BY <1>1, <2>13, <3>1, <3>2, <3>3 DEF Distinct
      <4>2. QED BY <2>4, <3>2, <3>3, <4>1
    <3>4. QED BY <3>2, <3>3
  <2>14. Distinct(q)
    BY <2>10, <2>13 DEF Distinct
  <2>15. QED BY <2>5, <2>9, <2>12, <2>14
<1>4. QED BY <1>2, <1>3

(* Commands in the hands of the service: not yet run, or run and to be      *)
(* finished by an event.                                                    *)
Waiting    == Range(queue) \cup ({cur} \ {NoId})
Unfinished == owing \cup pulls \cup (IdsOf(Sessions) \ {NoId})

LifeTypes ==
  /\ queue \in Seq(Ids) /\ Distinct(queue) /\ cur \notin Range(queue)
  /\ step \in {"Open", "Run", "Pump"} /\ cur \in Ids \cup {NoId}
  /\ pulls \subseteq Ids /\ air \subseteq Requests
  /\ reports \in [Ids -> Nat] /\ forgotten \subseteq Ids /\ halfSent \subseteq Ids
  /\ radioOps \in Nat /\ loopOn \in BOOLEAN
  /\ \A k \in Sessions : sess[k].active => sess[k].id # NoId

(* A command is in one place, and the place is one for its kind.            *)
OnePlace ==
  /\ \A i \in Waiting : Kind(i) \in Kinds /\ i \notin Unfinished
  /\ \A i \in owing : Kind(i) \in {"Pair", "Unpair"}
  /\ \A i \in pulls : Kind(i) = "Pull"
  /\ \A k \in Sessions : sess[k].id # NoId => Kind(sess[k].id) = k

(* None that is in one has been reported, but a session that failed in the  *)
(* middle of its start may have been.                                       *)
Unreported ==
  /\ \A i \in Ids : Kind(i) = "New" \/ i \in Waiting \cup owing \cup pulls => reports[i] = 0
  /\ \A k \in Sessions : sess[k].id # NoId => reports[sess[k].id] = 0 \/ sess[k].id \in halfSent
  /\ AtMostOneTerminal

LifeInv == LifeTypes /\ OnePlace /\ Unreported

(* A step that moves no command to a new place and reports those in S takes *)
(* them from their places.                                                  *)
LEMMA Reporting ==
  ASSUME PendingType, LifeInv, PendingType', NEW S,
         reports' = Count(S), issued' = issued, halfSent \subseteq halfSent',
         Waiting' \subseteq Waiting \ S, owing' \subseteq owing \ S, pulls' \subseteq pulls \ S,
         \A k \in Sessions : sess'[k].id \in {NoId, sess[k].id},
         \A k \in Sessions : sess'[k].id \in S => sess'[k].id \in halfSent' \cup {NoId},
         S \subseteq Waiting \cup Unfinished
  PROVE  OnePlace' /\ Unreported'
<1>1. \A i \in Ids : Kind(i)' = Kind(i)
  BY DEF Kind
<1>2. \A k \in Sessions : sess[k].id \in Ids \cup {NoId} /\ sess'[k].id \in Ids \cup {NoId}
  BY DEF PendingType, SessionRecords
<1>3. Waiting \subseteq Ids /\ owing \subseteq Ids /\ pulls \subseteq Ids
  <2>1. Range(queue) \subseteq Ids
    BY DEF LifeInv, LifeTypes, Range
  <2>2. QED BY <2>1 DEF LifeInv, LifeTypes, PendingType, Waiting
<1>4. Unfinished' \subseteq Unfinished
  BY <1>2 DEF Unfinished, IdsOf
<1>5. OnePlace'
  <2>1. \A i \in Waiting' : Kind(i)' \in Kinds /\ i \notin Unfinished'
    BY <1>1, <1>3, <1>4 DEF LifeInv, OnePlace
  <2>2. \A i \in owing' : Kind(i)' \in {"Pair", "Unpair"}
    BY <1>1, <1>3 DEF LifeInv, OnePlace
  <2>3. \A i \in pulls' : Kind(i)' = "Pull"
    BY <1>1, <1>3 DEF LifeInv, OnePlace
  <2>4. ASSUME NEW k \in Sessions, sess'[k].id # NoId
        PROVE  (Kind(sess[k].id) = k)'
    <3>1. sess'[k].id = sess[k].id /\ sess[k].id \in Ids
      BY <1>2, <2>4
    <3>2. QED BY <1>1, <2>4, <3>1 DEF LifeInv, OnePlace, Kind
  <2>5. QED BY <2>1, <2>2, <2>3, <2>4 DEF OnePlace
<1>6. \A i \in Ids : reports'[i] = reports[i] + (IF i \in S THEN 1 ELSE 0)
  BY DEF Count
<1>7. \A i \in Ids : reports[i] \in Nat
  BY DEF LifeInv, LifeTypes
<1>8. ASSUME NEW i \in Ids, i \in S
      PROVE  reports[i] = 0 \/ i \in halfSent'
  <2>1. CASE i \in Waiting \cup owing \cup pulls
    BY <2>1 DEF LifeInv, Unreported
  <2>2. CASE i \in IdsOf(Sessions) \ {NoId}
    BY <2>2 DEF LifeInv, Unreported, IdsOf
  <2>3. QED BY <1>8, <2>1, <2>2 DEF Unfinished
<1>9. ASSUME NEW i \in Ids, Kind(i) = "New"
      PROVE  i \notin S
  <2>1. i \notin Waiting
    BY <1>9 DEF LifeInv, OnePlace, Kinds, Sessions, Targeted
  <2>2. i \notin owing \cup pulls
    BY <1>9 DEF LifeInv, OnePlace
  <2>3. i \notin IdsOf(Sessions) \ {NoId}
    BY <1>9 DEF LifeInv, OnePlace, IdsOf, Sessions
  <2>4. QED BY <2>1, <2>2, <2>3 DEF Unfinished
<1>10. ASSUME NEW i \in Ids, Kind(i)' = "New" \/ i \in Waiting' \cup owing' \cup pulls'
       PROVE  reports'[i] = 0
  <2>1. i \notin S /\ (Kind(i) = "New" \/ i \in Waiting \cup owing \cup pulls)
    BY <1>1, <1>9, <1>10
  <2>2. reports[i] = 0
    BY <2>1 DEF LifeInv, Unreported
  <2>3. QED BY <1>6, <2>1, <2>2
<1>11. ASSUME NEW k \in Sessions, sess'[k].id # NoId
       PROVE  reports'[sess'[k].id] = 0 \/ sess'[k].id \in halfSent'
  <2>1. sess'[k].id = sess[k].id /\ sess[k].id \in Ids
    BY <1>2, <1>11
  <2>2. reports[sess[k].id] = 0 \/ sess[k].id \in halfSent
    BY <1>11, <2>1 DEF LifeInv, Unreported
  <2>3. sess[k].id \in S => sess[k].id \in halfSent'
    BY <1>11, <2>1
  <2>4. QED BY <1>6, <2>1, <2>2, <2>3
<1>12. ASSUME NEW i \in Ids, reports'[i] > 1
       PROVE  i \in halfSent'
  <2>1. CASE i \in S
    BY <1>6, <1>7, <1>8, <1>12, <2>1
  <2>2. CASE i \notin S
    <3>1. reports[i] > 1
      BY <1>6, <1>7, <1>12, <2>2
    <3>2. QED BY <3>1 DEF LifeInv, Unreported, AtMostOneTerminal
  <2>3. QED BY <2>1, <2>2
<1>13. Unreported'
  BY <1>10, <1>11, <1>12 DEF Unreported, AtMostOneTerminal
<1>14. QED BY <1>5, <1>13

-----------------------------------------------------------------------------
(* The places exclude each other.                                           *)
LEMMA Places ==
  ASSUME PendingType, LifeInv
  PROVE  /\ Waiting \subseteq Ids /\ NoId \notin Ids
         /\ Waiting \cap owing = {} /\ Waiting \cap pulls = {} /\ owing \cap pulls = {}
         /\ owing \subseteq Ids /\ pulls \subseteq Ids
         /\ \A k \in Sessions : /\ sess[k].id \in Ids \cup {NoId}
                                /\ sess[k].id \notin Waiting \cup owing \cup pulls
         /\ \A k, l \in Sessions : sess[k].id = sess[l].id /\ sess[k].id # NoId => k = l
<1>1. NoId \notin Ids
  BY DEF Ids, NoId
<1>2. Waiting \subseteq Ids
  <2>1. Range(queue) \subseteq Ids
    BY DEF LifeInv, LifeTypes, Range
  <2>2. QED BY <2>1 DEF LifeInv, LifeTypes, Waiting
<1>3. owing \subseteq Ids /\ pulls \subseteq Ids
  BY DEF PendingType, LifeInv, LifeTypes
<1>4. \A k \in Sessions : sess[k].id \in Ids \cup {NoId}
  BY DEF PendingType, SessionRecords
<1>5. \A i \in Waiting : i \notin Unfinished
  BY DEF LifeInv, OnePlace
<1>6. owing \cap pulls = {}
  BY DEF LifeInv, OnePlace
<1>7. \A k \in Sessions : sess[k].id # NoId => Kind(sess[k].id) = k
  BY DEF LifeInv, OnePlace
<1>8. ASSUME NEW k \in Sessions
      PROVE  sess[k].id \notin Waiting \cup owing \cup pulls
  <2>1. CASE sess[k].id = NoId
    BY <1>1, <1>2, <1>3, <2>1
  <2>2. CASE sess[k].id # NoId
    <3>1. sess[k].id \in Unfinished
      BY <2>2 DEF Unfinished, IdsOf
    <3>2. Kind(sess[k].id) \notin {"Pair", "Unpair", "Pull"}
      BY <1>7, <2>2 DEF Sessions
    <3>3. sess[k].id \notin owing \cup pulls
      BY <3>2 DEF LifeInv, OnePlace
    <3>4. QED BY <1>5, <3>1, <3>3
  <2>3. QED BY <2>1, <2>2
<1>9. QED BY <1>1, <1>2, <1>3, <1>4, <1>5, <1>6, <1>7, <1>8 DEF Unfinished

(* Nothing is reported and nothing gets a new place.                        *)
LEMMA Leaving ==
  ASSUME PendingType, LifeInv, PendingType',
         reports' = reports, issued' = issued, halfSent' = halfSent,
         Waiting' \subseteq Waiting, owing' \subseteq owing, pulls' \subseteq pulls,
         \A k \in Sessions : sess'[k].id \in {NoId, sess[k].id}
  PROVE  OnePlace' /\ Unreported'
<1>1. Count({}) = reports
  <2>1. reports \in [Ids -> Nat]
    BY DEF LifeInv, LifeTypes
  <2>2. \A i \in Ids : reports[i] + 0 = reports[i]
    BY <2>1
  <2>3. QED BY <2>1, <2>2 DEF Count
<1>2. QED
  BY <1>1, Reporting

(* A submitted command waits, or was turned away.                           *)
LEMMA LifeSubmit ==
  ASSUME PendingType, LifeInv, PendingType', NEW i \in Ids, NEW c \in Commands, Submit(i, c)
  PROVE  LifeInv'
<1>1. Kind(i) = "New" /\ reports[i] = 0
  BY DEF Submit, LifeInv, Unreported
<1>2. i \notin Waiting
  BY <1>1 DEF LifeInv, OnePlace, Kinds, Sessions, Targeted
<1>3. i \notin owing \cup pulls
  BY <1>1 DEF LifeInv, OnePlace
<1>4. \A k \in Sessions : sess[k].id # i
  <2>1. i # NoId
    BY DEF Ids, NoId
  <2>2. QED BY <1>1, <2>1 DEF LifeInv, OnePlace, Sessions
<1>5. i \notin Range(queue) /\ i # cur
  <2>1. i # NoId
    BY DEF Ids, NoId
  <2>2. QED BY <1>2, <2>1 DEF Waiting
<1>6. UNCHANGED <<cur, step, owing, pulls, air, sess, reports, forgotten, halfSent, radioOps, loopOn>>
  BY DEF Submit, tickVars, trackVars, radioVars, historyVars
<1>7. PICK d \in Commands \cup {Refused} :
        /\ issued' = [issued EXCEPT ![i] = d]
        /\ \/ d = Refused /\ queue' = queue
           \/ d \in Commands /\ queue' = Enqueue(i, d.kind)
  BY DEF Submit
<1>8. \A j \in Ids : j # i => Kind(j)' = Kind(j)
  BY <1>7 DEF Kind, PendingType
<1>9. Kind(i)' = d.kind
  BY <1>7 DEF Kind, PendingType
<1>10. d \in Commands => d.kind \in Kinds
  BY DEF Commands, Kinds
<1>11. /\ queue' \in Seq(Ids) /\ Distinct(queue')
       /\ Range(queue') \subseteq Range(queue) \cup {i}
       /\ d = Refused => queue' = queue
  <2>1. CASE d = Refused /\ queue' = queue
    BY <2>1 DEF LifeInv, LifeTypes
  <2>2. CASE d \in Commands /\ queue' = Enqueue(i, d.kind)
    <3>1. d # Refused
      BY <2>2 DEF Commands, Refused, Kinds, Sessions, Targeted
    <3>2. queue \in Seq(Ids) /\ Distinct(queue)
      BY DEF LifeInv, LifeTypes
    <3>3. QED BY <1>5, <2>2, <3>1, <3>2, QueueJoined
  <2>3. QED BY <1>7, <2>1, <2>2
<1>12. LifeTypes'
  BY <1>5, <1>6, <1>11 DEF LifeInv, LifeTypes, Distinct
<1>13. Waiting' \subseteq Waiting \cup {i} /\ (d = Refused => Waiting' = Waiting) /\ Unfinished' = Unfinished
  BY <1>6, <1>11 DEF Waiting, Unfinished, IdsOf
<1>14. i \notin Unfinished
  BY <1>3, <1>4 DEF Unfinished, IdsOf
<1>15. Waiting \subseteq Ids /\ owing \subseteq Ids /\ pulls \subseteq Ids
       /\ \A k \in Sessions : sess[k].id \in Ids \cup {NoId}
  BY Places
<1>16. OnePlace'
  <2>1. ASSUME NEW j \in Waiting'
        PROVE  Kind(j)' \in Kinds /\ j \notin Unfinished'
    <3>1. CASE j = i
      <4>1. d # Refused
        BY <1>2, <1>13, <2>1, <3>1
      <4>2. QED BY <1>9, <1>10, <1>13, <1>14, <3>1, <4>1
    <3>2. CASE j # i
      BY <1>8, <1>13, <1>15, <3>2 DEF LifeInv, OnePlace
    <3>3. QED BY <3>1, <3>2
  <2>2. (\A j \in owing : Kind(j) \in {"Pair", "Unpair"})' /\ (\A j \in pulls : Kind(j) = "Pull")'
    BY <1>3, <1>6, <1>8, <1>15 DEF LifeInv, OnePlace
  <2>3. ASSUME NEW k \in Sessions, sess'[k].id # NoId
        PROVE  (Kind(sess[k].id) = k)'
    <3>1. sess[k].id \in Ids /\ sess[k].id # i /\ sess' = sess
      BY <1>4, <1>6, <1>15, <2>3
    <3>2. Kind(sess[k].id) = k
      BY <1>6, <2>3 DEF LifeInv, OnePlace
    <3>3. QED BY <1>8, <3>1, <3>2 DEF Kind
  <2>4. QED BY <2>1, <2>2, <2>3 DEF OnePlace
<1>17. Unreported'
  <2>1. ASSUME NEW j \in Ids, Kind(j)' = "New" \/ j \in Waiting' \cup owing' \cup pulls'
        PROVE  reports'[j] = 0
    <3>1. CASE j = i
      BY <1>1, <1>6, <3>1
    <3>2. CASE j # i
      BY <1>6, <1>8, <1>13, <2>1, <3>2 DEF LifeInv, Unreported
    <3>3. QED BY <3>1, <3>2
  <2>2. QED BY <1>6, <2>1 DEF LifeInv, Unreported, AtMostOneTerminal
<1>18. QED BY <1>12, <1>16, <1>17 DEF LifeInv

-----------------------------------------------------------------------------
(* The tick takes the first request: it still waits.                        *)
LEMMA LifePop ==
  ASSUME PendingType, LifeInv, PendingType', NEW late \in SUBSET pulls, Pop(late)
  PROVE  LifeInv'
<1>1. queue \in Seq(Ids) /\ queue # << >> /\ Distinct(queue)
  BY DEF Pop, LifeInv, LifeTypes
<1>2. cur' = Head(queue) /\ queue' = Tail(queue)
  BY DEF Pop
<1>3. /\ Head(queue) = queue[1] /\ Head(queue) \in Ids /\ 1 \in DOMAIN queue
      /\ Tail(queue) \in Seq(Ids)
      /\ \A n \in DOMAIN Tail(queue) : n \in Nat /\ n >= 1 /\ n + 1 \in DOMAIN queue
                                       /\ Tail(queue)[n] = queue[n + 1]
  BY <1>1
<1>4. Distinct(queue')
  <2>1. ASSUME NEW m \in DOMAIN queue', NEW n \in DOMAIN queue', queue'[m] = queue'[n]
        PROVE  m = n
    <3>1. m + 1 = n + 1
      BY <1>1, <1>2, <1>3, <2>1 DEF Distinct
    <3>2. QED BY <1>2, <1>3, <3>1
  <2>2. QED BY <2>1 DEF Distinct
<1>5. cur' \notin Range(queue') /\ cur' \in Range(queue) /\ Range(queue') \subseteq Range(queue)
  <2>1. \A n \in DOMAIN queue' : queue'[n] # cur' /\ queue'[n] \in Range(queue)
    <3>1. \A n \in DOMAIN queue' : n + 1 # 1
      BY <1>2, <1>3
    <3>2. QED BY <1>1, <1>2, <1>3, <3>1 DEF Distinct, Range
  <2>2. QED BY <1>2, <1>3, <2>1 DEF Range
<1>6. Waiting' \subseteq Waiting
  BY <1>5 DEF Waiting, LifeInv, LifeTypes, Ids, NoId, Range
<1>7. UNCHANGED <<issued, owing, air, sess, reports, halfSent, radioOps, loopOn>> /\ step' = "Run"
      /\ pulls' \subseteq pulls /\ forgotten' \subseteq forgotten \cup pulls
  BY DEF Pop, Prune, radioVars
<1>8. LifeTypes'
  BY <1>2, <1>3, <1>4, <1>5, <1>7 DEF LifeInv, LifeTypes
<1>9. OnePlace' /\ Unreported'
  BY <1>6, <1>7, Leaving
<1>10. QED BY <1>8, <1>9 DEF LifeInv

(* A command that ends in the tick leaves.                                  *)
LEMMA LifeEndsNow ==
  ASSUME PendingType, LifeInv, PendingType', NEW i \in Ids, cur = i, EndsNow(i),
         UNCHANGED <<issued, queue, halfSent>>, owing' \subseteq owing, pulls' \subseteq pulls,
         \A k \in Sessions : sess'[k].id \in {NoId, sess[k].id}
  PROVE  OnePlace' /\ Unreported'
<1>1. i \in Waiting
  BY DEF Waiting, Ids, NoId
<1>2. Waiting' \subseteq Waiting \ {i}
  BY DEF Waiting, EndsNow, Executed, LifeInv, LifeTypes
<1>3. reports' = Count({i})
  BY DEF EndsNow
<1>4. i \notin owing \cup pulls /\ \A k \in Sessions : sess[k].id # i
  BY <1>1, Places
<1>5. NoId # i
  BY DEF Ids, NoId
<1>6. QED BY <1>1, <1>2, <1>3, <1>4, <1>5, Reporting

(* A command that ends later moves to the place for its kind; one whose     *)
(* session fails in the middle of its start is reported and keeps the id.   *)
LEMMA LifeMoves ==
  ASSUME PendingType, LifeInv, PendingType', NEW i \in Ids, cur = i, cur' = NoId,
         UNCHANGED <<issued, queue>>, halfSent \subseteq halfSent',
         owing' \subseteq owing \cup {i}, i \in owing' => Kind(i) \in {"Pair", "Unpair"},
         pulls' \subseteq pulls \cup {i}, i \in pulls' => Kind(i) = "Pull",
         \A k \in Sessions : sess'[k].id \in {NoId, sess[k].id, i} /\ (sess'[k].id = i => Kind(i) = k),
         \/ reports' = reports
         \/ reports' = Count({i}) /\ i \in halfSent' /\ i \notin owing' \cup pulls'
  PROVE  OnePlace' /\ Unreported'
<1>1. i \in Waiting /\ i # NoId
  BY DEF Waiting, Ids, NoId
<1>2. Waiting' \subseteq Waiting \ {i}
  BY DEF Waiting, LifeInv, LifeTypes
<1>3. i \notin owing \cup pulls /\ (\A k \in Sessions : sess[k].id # i) /\ Kind(i) \in Kinds /\ reports[i] = 0
  BY <1>1, Places DEF LifeInv, OnePlace, Unreported
<1>4. \A j \in Ids : Kind(j)' = Kind(j)
  BY DEF Kind
<1>5. Waiting \subseteq Ids /\ owing \subseteq Ids /\ pulls \subseteq Ids
      /\ \A k \in Sessions : sess[k].id \in Ids \cup {NoId}
  BY Places
<1>6. \A j \in Ids : j # i => reports'[j] = reports[j]
  <2>1. \A j \in Ids : reports[j] \in Nat
    BY DEF LifeInv, LifeTypes
  <2>2. QED BY <2>1 DEF Count
<1>7. reports'[i] = 0 \/ (i \in halfSent' /\ i \notin owing' \cup pulls')
  BY <1>3
<1>8. OnePlace'
  <2>1. ASSUME NEW j \in Waiting'
        PROVE  Kind(j)' \in Kinds /\ j \notin Unfinished'
    <3>1. j \in Waiting /\ j # i /\ j \in Ids
      BY <1>2, <1>5
    <3>2. Kind(j) \in Kinds /\ j \notin Unfinished
      BY <3>1 DEF LifeInv, OnePlace
    <3>3. \A k \in Sessions : sess'[k].id = j => sess[k].id = j \/ j = NoId
      BY <3>1
    <3>4. QED BY <1>4, <3>1, <3>2, <3>3 DEF Unfinished, IdsOf
  <2>2. (\A j \in owing : Kind(j) \in {"Pair", "Unpair"})'
    BY <1>4, <1>5 DEF LifeInv, OnePlace
  <2>3. (\A j \in pulls : Kind(j) = "Pull")'
    BY <1>4, <1>5 DEF LifeInv, OnePlace
  <2>4. ASSUME NEW k \in Sessions, sess'[k].id # NoId
        PROVE  (Kind(sess[k].id) = k)'
    <3>1. CASE sess'[k].id = i
      BY <1>4, <3>1 DEF Kind
    <3>2. CASE sess'[k].id # i
      <4>1. sess'[k].id = sess[k].id /\ sess[k].id \in Ids /\ sess[k].id # NoId
        BY <1>5, <2>4, <3>2
      <4>2. Kind(sess[k].id) = k
        BY <4>1 DEF LifeInv, OnePlace
      <4>3. QED BY <1>4, <4>1, <4>2 DEF Kind
    <3>3. QED BY <3>1, <3>2
  <2>5. QED BY <2>1, <2>2, <2>3, <2>4 DEF OnePlace
<1>9. Unreported'
  <2>1. ASSUME NEW j \in Ids, Kind(j)' = "New" \/ j \in Waiting' \cup owing' \cup pulls'
        PROVE  reports'[j] = 0
    <3>1. CASE j = i
      <4>1. Kind(j)' # "New"
        BY <1>3, <1>4, <3>1 DEF Kinds, Sessions, Targeted
      <4>2. j \in owing' \cup pulls'
        BY <1>2, <2>1, <3>1, <4>1
      <4>3. QED BY <1>7, <3>1, <4>2
    <3>2. CASE j # i
      <4>1. Kind(j) = "New" \/ j \in Waiting \cup owing \cup pulls
        BY <1>2, <1>4, <2>1, <3>2
      <4>2. QED BY <1>6, <3>2, <4>1 DEF LifeInv, Unreported
    <3>3. QED BY <3>1, <3>2
  <2>2. ASSUME NEW k \in Sessions, sess'[k].id # NoId
        PROVE  reports'[sess'[k].id] = 0 \/ sess'[k].id \in halfSent'
    <3>1. CASE sess'[k].id = i
      BY <1>7, <3>1
    <3>2. CASE sess'[k].id # i
      <4>1. sess'[k].id = sess[k].id /\ sess[k].id \in Ids
        BY <1>5, <2>2, <3>2
      <4>2. reports[sess[k].id] = 0 \/ sess[k].id \in halfSent
        BY <2>2, <4>1 DEF LifeInv, Unreported
      <4>3. QED BY <1>6, <3>2, <4>1, <4>2
    <3>3. QED BY <3>1, <3>2
  <2>3. ASSUME NEW j \in Ids, reports'[j] > 1
        PROVE  j \in halfSent'
    <3>1. CASE j = i
      BY <1>7, <2>3, <3>1
    <3>2. CASE j # i
      BY <1>6, <2>3, <3>2 DEF LifeInv, Unreported, AtMostOneTerminal
    <3>3. QED BY <3>1, <3>2
  <2>4. QED BY <2>1, <2>2, <2>3 DEF Unreported, AtMostOneTerminal
<1>10. QED BY <1>8, <1>9

(* A correlation id is a number.                                            *)
LEMMA RankIsNumber ==
  ASSUME NEW T \in SUBSET Peers, NEW p \in Peers
  PROVE  Rank(T, p) \in Nat
<1> DEFINE R == {q \in T : Place(q) <= Place(p)}
<1>1. IsFiniteSet(Peers) /\ R \in SUBSET Peers
  BY Order
<1> HIDE DEF R
<1>2. Cardinality(R) \in Nat
  BY <1>1, FS_Subset, FS_CardinalityType
<1>3. QED BY <1>2 DEF R, Rank

(* What a run leaves of the types.                                          *)
LEMMA RunTypes ==
  ASSUME LifeTypes, cur' = NoId, step' = "Pump", UNCHANGED <<queue, radioOps>>,
         pulls' \subseteq Ids, air' \subseteq Requests, reports' \in [Ids -> Nat],
         forgotten' \subseteq Ids, halfSent' \subseteq Ids, loopOn' \in BOOLEAN,
         \A k \in Sessions : sess'[k].active => sess'[k].id # NoId
  PROVE  LifeTypes'
<1>1. \A n \in DOMAIN queue : queue[n] \in Ids
  BY DEF LifeTypes
<1>2. NoId \notin Range(queue)
  BY <1>1 DEF Range, Ids, NoId
<1>3. (queue \in Seq(Ids) /\ Distinct(queue) /\ cur \notin Range(queue))'
  BY <1>2 DEF LifeTypes
<1>4. (step \in {"Open", "Run", "Pump"} /\ cur \in Ids \cup {NoId} /\ radioOps \in Nat)'
  BY DEF LifeTypes
<1>5. QED BY <1>3, <1>4 DEF LifeTypes

LEMMA LifeRunSession ==
  ASSUME PendingType, LifeInv, PendingType', NEW i \in Ids, RunSession(i)
  PROVE  LifeInv'
<1> DEFINE k == Kind(i)
           started == [NoSession EXCEPT !.id = i, !.targets = paired]
<1>1. /\ cur = i /\ cur' = NoId /\ step' = "Pump" /\ k \in Sessions
      /\ UNCHANGED <<issued, queue, owing, pulls, forgotten, radioOps>>
  BY DEF RunSession, Runs, EndsNow, EndsLater, Executed, radioVars
<1>2. \A n \in Nat : Sends(i, paired, n) \subseteq Requests
  <2>1. \A p \in paired : p \in Peers /\ Corr(i, paired, p) \in Nat
    BY RankIsNumber DEF PendingType, Corr, Ids
  <2>2. ASSUME NEW n \in Nat, NEW m \in Sends(i, paired, n)
        PROVE  m \in Requests
    BY <2>1 DEF Sends, Requests
  <2>3. QED BY <2>2
<1>3. Cardinality(paired) \in Nat
  BY Order, FS_Subset, FS_CardinalityType DEF PendingType
<1>4. started.id = i /\ [started EXCEPT !.active = TRUE].id = i
      /\ NoSession.id = NoId /\ ~NoSession.active /\ ~started.active /\ i # NoId
  BY DEF NoSession, Ids, NoId
<1>5. sess \in [Sessions -> SessionRecords]
  BY DEF PendingType
<1> HIDE DEF started
<1>6. CASE /\ sess' = [sess EXCEPT ![k] = NoSession]
           /\ loopOn' = (k = "Chain" \/ loopOn)
           /\ EndsNow(i) /\ UNCHANGED <<air, halfSent>>
  <2>1. \A l \in Sessions : sess'[l].id \in {NoId, sess[l].id} /\ (sess'[l].active => sess[l].active /\ sess'[l] = sess[l])
    BY <1>1, <1>4, <1>5, <1>6
  <2>2. reports' \in [Ids -> Nat]
    BY <1>6 DEF EndsNow, Count, LifeInv, LifeTypes
  <2>3. loopOn' \in BOOLEAN
    BY <1>6
  <2>4. LifeTypes'
    <3>1. \A l \in Sessions : sess'[l].active => sess'[l].id # NoId
      BY <2>1 DEF LifeInv, LifeTypes
    <3>2. pulls' \subseteq Ids /\ air' \subseteq Requests /\ forgotten' \subseteq Ids /\ halfSent' \subseteq Ids
      BY <1>1, <1>6 DEF LifeInv, LifeTypes
    <3>3. QED BY <1>1, <2>2, <2>3, <3>1, <3>2, RunTypes DEF LifeInv
  <2>5. QED BY <1>1, <1>6, <2>1, <2>4, LifeEndsNow DEF LifeInv
<1>7. CASE /\ air' = air \cup Sends(i, paired, Cardinality(paired))
           /\ sess' = [sess EXCEPT ![k] = [started EXCEPT !.active = TRUE]]
           /\ EndsLater(i) /\ UNCHANGED <<loopOn, halfSent>>
  <2>1. \A l \in Sessions : /\ sess'[l].id \in {NoId, sess[l].id, i} /\ (sess'[l].id = i => Kind(i) = l)
                            /\ (sess'[l].active => sess'[l].id # NoId)
    <3>1. \A l \in Sessions : sess[l].id # i
      BY <1>1, <1>4, Places DEF Waiting
    <3>2. QED BY <1>1, <1>4, <1>5, <1>7, <3>1 DEF LifeInv, LifeTypes
  <2>2. reports' = reports
    BY <1>7 DEF EndsLater
  <2>3. air' \subseteq Requests
    BY <1>2, <1>3, <1>7 DEF LifeInv, LifeTypes
  <2>4. LifeTypes'
    <3>1. /\ pulls' \subseteq Ids /\ forgotten' \subseteq Ids /\ halfSent' \subseteq Ids
          /\ reports' \in [Ids -> Nat] /\ loopOn' \in BOOLEAN
      BY <1>1, <1>7, <2>2 DEF LifeInv, LifeTypes
    <3>2. QED BY <1>1, <2>1, <2>3, <3>1, RunTypes DEF LifeInv
  <2>5. i \notin owing \cup pulls
    BY <1>1, <1>4, Places DEF Waiting
  <2>6. OnePlace' /\ Unreported'
    BY <1>1, <1>7, <2>1, <2>2, <2>5, LifeMoves
  <2>7. QED BY <2>4, <2>6 DEF LifeInv
<1>8. ASSUME NEW n \in 0 .. Cardinality(paired) - 1,
             air' = air \cup Sends(i, paired, n),
             sess' = [sess EXCEPT ![k] = started],
             halfSent' = halfSent \cup {i},
             EndsNow(i), UNCHANGED loopOn
      PROVE  LifeInv'
  <2>1. \A l \in Sessions : /\ sess'[l].id \in {NoId, sess[l].id, i} /\ (sess'[l].id = i => Kind(i) = l)
                            /\ (sess'[l].active => sess'[l].id # NoId)
    <3>1. \A l \in Sessions : sess[l].id # i
      BY <1>1, <1>4, Places DEF Waiting
    <3>2. QED BY <1>1, <1>4, <1>5, <1>8, <3>1 DEF LifeInv, LifeTypes
  <2>2. reports' = Count({i})
    BY <1>8 DEF EndsNow
  <2>3. reports' \in [Ids -> Nat]
    BY <2>2 DEF Count, LifeInv, LifeTypes
  <2>4. air' \subseteq Requests
    BY <1>2, <1>3, <1>8 DEF LifeInv, LifeTypes
  <2>5. LifeTypes'
    <3>1. /\ pulls' \subseteq Ids /\ forgotten' \subseteq Ids /\ halfSent' \subseteq Ids
          /\ loopOn' \in BOOLEAN
      BY <1>1, <1>8 DEF LifeInv, LifeTypes
    <3>2. QED BY <1>1, <2>1, <2>3, <2>4, <3>1, RunTypes DEF LifeInv
  <2>6. i \notin owing \cup pulls
    BY <1>1, <1>4, Places DEF Waiting
  <2>7. OnePlace' /\ Unreported'
    BY <1>1, <1>8, <2>1, <2>2, <2>6, LifeMoves
  <2>8. QED BY <2>5, <2>7 DEF LifeInv
<1>9. QED
  BY <1>6, <1>7, <1>8, Zenon DEF RunSession, started

-----------------------------------------------------------------------------
LEMMA Counted ==
  ASSUME LifeTypes, NEW S
  PROVE  Count(S) \in [Ids -> Nat]
BY DEF LifeTypes, Count

LEMMA LifeRun ==
  ASSUME PendingType, LifeInv, PendingType', NEW i \in Ids, Run(i)
  PROVE  LifeInv'
<1>1. CASE RunAtOnce(i) \/ RunLiveMonitor(i) \/ RunRemove(i)
  <2>1. /\ cur = i /\ EndsNow(i) /\ cur' = NoId /\ step' = "Pump" /\ reports' = Count({i})
        /\ UNCHANGED <<issued, queue, owing, pulls, air, sess, halfSent, radioOps, loopOn>>
    BY <1>1 DEF RunAtOnce, RunLiveMonitor, RunRemove, Runs, EndsNow, Executed, trackVars,
                radioVars, historyVars
  <2>2. forgotten' \subseteq Ids
    BY <1>1 DEF RunAtOnce, RunLiveMonitor, RunRemove, historyVars, LifeInv, LifeTypes, PendingType
  <2>3. LifeTypes'
    <3>1. reports' \in [Ids -> Nat]
      BY <2>1, Counted DEF LifeInv
    <3>2. /\ pulls' \subseteq Ids /\ air' \subseteq Requests /\ halfSent' \subseteq Ids /\ loopOn' \in BOOLEAN
          /\ \A k \in Sessions : sess'[k].active => sess'[k].id # NoId
      BY <2>1 DEF LifeInv, LifeTypes
    <3>3. QED BY <2>1, <2>2, <3>1, <3>2, RunTypes DEF LifeInv
  <2>4. OnePlace' /\ Unreported'
    BY <2>1, LifeEndsNow
  <2>5. QED BY <2>3, <2>4 DEF LifeInv
<1>2. CASE RunPairing(i) \/ RunPull(i)
  <2>1. /\ cur = i /\ cur' = NoId /\ step' = "Pump" /\ reports' = reports
        /\ UNCHANGED <<issued, queue, sess, halfSent, radioOps, loopOn, forgotten>>
    BY <1>2 DEF RunPairing, RunPull, Runs, EndsLater, Executed, radioVars, historyVars
  <2>2. /\ owing' \subseteq owing \cup {i} /\ pulls' \subseteq pulls \cup {i}
        /\ i \notin owing \cup pulls
        /\ \A k \in Sessions : sess[k].id # i
    BY <1>2, <2>1, Places DEF RunPairing, RunPull, Waiting
  <2>3. i \in owing' => Kind(i) \in {"Pair", "Unpair"}
    BY <1>2, <2>2 DEF RunPairing, RunPull, Runs
  <2>4. i \in pulls' => Kind(i) = "Pull"
    BY <1>2, <2>2 DEF RunPairing, RunPull, Runs
  <2>5. air' \subseteq Requests
    <3>1. CASE RunPairing(i)
      BY <3>1 DEF RunPairing, LifeInv, LifeTypes
    <3>2. CASE RunPull(i)
      <4>1. Target(i) \in Peers
        BY <3>2, TargetIsPeer DEF RunPull, Runs, Targeted
      <4>2. [peer |-> Target(i), corr |-> i, owner |-> i] \in Requests
        BY <4>1 DEF Requests, Ids
      <4>3. QED BY <3>2, <4>2 DEF RunPull, LifeInv, LifeTypes
    <3>3. QED BY <1>2, <3>1, <3>2
  <2>6. LifeTypes'
    <3>1. /\ pulls' \subseteq Ids /\ forgotten' \subseteq Ids /\ halfSent' \subseteq Ids
          /\ reports' \in [Ids -> Nat] /\ loopOn' \in BOOLEAN
          /\ \A k \in Sessions : sess'[k].active => sess'[k].id # NoId
      BY <2>1, <2>2 DEF LifeInv, LifeTypes
    <3>2. QED BY <2>1, <2>5, <3>1, RunTypes DEF LifeInv
  <2>7. \A k \in Sessions : sess'[k].id \in {NoId, sess[k].id, i} /\ (sess'[k].id = i => Kind(i) = k)
    BY <2>1, <2>2
  <2>8. OnePlace' /\ Unreported'
    BY <2>1, <2>2, <2>3, <2>4, <2>7, LifeMoves
  <2>9. QED BY <2>6, <2>8 DEF LifeInv
<1>3. CASE RunSession(i)
  BY <1>3, LifeRunSession
<1>4. QED BY <1>1, <1>2, <1>3 DEF Run

(* The sessions that end in a pump are reported.                            *)
LEMMA LifePump ==
  ASSUME PendingType, LifeInv, PendingType', NEW late \in SUBSET Active, PumpSessions(late),
         UNCHANGED <<issued, queue, cur, owing, air, halfSent, radioOps>>,
         step' \in {"Open", "Run", "Pump"}, pulls' \subseteq pulls, forgotten' \subseteq forgotten \cup pulls
  PROVE  LifeInv'
<1> DEFINE done == late \cup {k \in Active : Complete(k)}
           S == IdsOf(done)
<1>1. done \in SUBSET Sessions /\ \A k \in done : sess[k].active /\ sess[k].id # NoId
  BY DEF Active, LifeInv, LifeTypes
<1>2. sess' = Cleared(done) /\ reports' = Count(S)
      /\ loopOn' = IF "Chain" \in done THEN "Chain" \notin late ELSE loopOn
  BY DEF PumpSessions
<1>3. \A k \in done : sess'[k] = NoSession
  BY <1>1, <1>2 DEF Cleared
<1>4. \A k \in Sessions \ done : sess'[k] = sess[k]
  BY <1>1, <1>2 DEF Cleared
<1> HIDE DEF done
<1>5. S \subseteq Unfinished
  BY <1>1 DEF Unfinished, IdsOf
<1>6. \A i \in S : i \notin Waiting \cup owing \cup pulls
  BY <1>1, Places DEF IdsOf
<1>7. \A k \in Sessions : sess'[k].id \in {NoId, sess[k].id}
  BY <1>3, <1>4 DEF NoSession
<1>8. \A k \in Sessions : sess'[k].id \in S => sess'[k].id = NoId
  <2>1. ASSUME NEW k \in Sessions \ done, sess[k].id \in S, sess[k].id # NoId
        PROVE  FALSE
    BY <1>1, <2>1, Places DEF IdsOf
  <2>2. QED BY <1>3, <1>4, <2>1 DEF NoSession
<1>9. Waiting' = Waiting
  BY DEF Waiting
<1> HIDE DEF S
<1>10. OnePlace' /\ Unreported'
  BY <1>2, <1>5, <1>6, <1>7, <1>8, <1>9, Reporting
<1>11. reports' \in [Ids -> Nat]
  BY <1>2, Counted DEF LifeInv
<1>12. loopOn' \in BOOLEAN
  BY <1>2 DEF LifeInv, LifeTypes
<1>13. \A k \in Sessions : sess'[k].active => sess'[k].id # NoId
  BY <1>3, <1>4 DEF NoSession, LifeInv, LifeTypes
<1>14. LifeTypes'
  BY <1>11, <1>12, <1>13 DEF LifeInv, LifeTypes, Distinct, Range
<1>15. QED BY <1>10, <1>14 DEF LifeInv

(* An exchange that ends reports its command, a response its pull.          *)
LEMMA LifeEvents ==
  ASSUME PendingType, LifeInv, PendingType',
         \/ \E ok \in BOOLEAN : ExchangeEnds(ok)
         \/ \E m \in air : Respond(m)
  PROVE  LifeInv'
<1>1. ASSUME NEW ok \in BOOLEAN, ExchangeEnds(ok)
      PROVE  LifeInv'
  <2> DEFINE S == owing \cap {engine.id}
  <2>1. /\ owing' = owing \ S /\ reports' = Count(S)
        /\ UNCHANGED <<issued, queue, cur, step, pulls, air, sess, radioOps, loopOn, forgotten, halfSent>>
    BY <1>1 DEF ExchangeEnds, Consumed, tickVars, radioVars, historyVars
  <2>2. S \subseteq Unfinished /\ \A i \in S : i \notin Waiting \cup pulls /\ \A k \in Sessions : sess[k].id # i
    BY Places DEF Unfinished
  <2>3. Waiting' = Waiting
    BY <2>1 DEF Waiting
  <2> HIDE DEF S
  <2>4. OnePlace' /\ Unreported'
    BY <2>1, <2>2, <2>3, Reporting
  <2>5. reports' \in [Ids -> Nat]
    BY <2>1, Counted DEF LifeInv
  <2>6. LifeTypes'
    BY <2>1, <2>5 DEF LifeInv, LifeTypes, Distinct, Range
  <2>7. QED BY <2>4, <2>6 DEF LifeInv
<1>2. ASSUME NEW m \in air, Respond(m)
      PROVE  LifeInv'
  <2> DEFINE S == Answers(m)
  <2>1. /\ pulls' = pulls \ S /\ reports' = Count(S) /\ air' \subseteq air
        /\ UNCHANGED <<issued, queue, cur, step, owing, radioOps, loopOn, forgotten, halfSent>>
    BY <1>2 DEF Respond, tickVars, radioVars, historyVars
  <2>2. S \subseteq Unfinished /\ \A i \in S : i \notin Waiting \cup owing /\ \A k \in Sessions : sess[k].id # i
    BY Places DEF Unfinished, Answers
  <2>3. Waiting' = Waiting
    BY <2>1 DEF Waiting
  <2> HIDE DEF S
  <2>4. \A k \in Sessions : sess'[k].id = sess[k].id /\ sess'[k].active = sess[k].active
    <3>1. sess' = [k \in Sessions |->
       IF ~sess[k].active THEN sess[k]
       ELSE [sess[k] EXCEPT !.acked = @ \cup AckedBy(k, m)]]
      BY <1>2 DEF Respond
    <3>2. \A k \in Sessions : sess[k] \in SessionRecords
      BY DEF PendingType
    <3>3. QED BY <3>1, <3>2 DEF SessionRecords
  <2>5. OnePlace' /\ Unreported'
    BY <2>1, <2>2, <2>3, <2>4, Reporting
  <2>6. reports' \in [Ids -> Nat]
    BY <2>1, Counted DEF LifeInv
  <2>7. LifeTypes'
    BY <2>1, <2>4, <2>6 DEF LifeInv, LifeTypes, Distinct, Range
  <2>8. QED BY <2>5, <2>7 DEF LifeInv
<1>3. QED BY <1>1, <1>2

(* The transition operations.                                               *)
LEMMA LifeCleared ==
  ASSUME PendingType, LifeInv, PendingType', ClearQueues, radioOps' = radioOps + 1, loopOn' \in BOOLEAN,
         UNCHANGED <<issued, tickVars, air, reports, halfSent>>
  PROVE  LifeInv'
<1>1. \A k \in Sessions : sess'[k] = NoSession
  BY DEF ClearQueues, Cleared
<1>2. queue' = << >> /\ owing' = {} /\ pulls' = {} /\ UNCHANGED <<cur, step>>
  BY DEF ClearQueues, tickVars
<1>3. Waiting' \subseteq Waiting
  BY <1>2 DEF Waiting, Range
<1>4. OnePlace' /\ Unreported'
  BY <1>1, <1>2, <1>3, Leaving DEF NoSession
<1>5. Range(queue) \subseteq Ids
  BY DEF LifeInv, LifeTypes, Range
<1>6. IdsOf(Active) \subseteq Ids
  BY Places DEF IdsOf, Active, LifeInv, LifeTypes
<1>7. forgotten' \subseteq Ids
  BY <1>5, <1>6, Places DEF ClearQueues, Unanswered, LifeInv, LifeTypes
<1>8. (queue \in Seq(Ids) /\ Distinct(queue) /\ cur \notin Range(queue))'
  BY <1>2 DEF Distinct, Range
<1>9. LifeTypes'
  BY <1>1, <1>2, <1>7, <1>8 DEF LifeInv, LifeTypes, NoSession
<1>10. QED BY <1>4, <1>9 DEF LifeInv

LEMMA LifeBegin ==
  ASSUME PendingType, LifeInv, PendingType', BeginRadioTransition
  PROVE  LifeInv'
<1> DEFINE blocked == {i \in Range(queue) : Blocked(Kind(i))}
           S == blocked \cup owing \cup IdsOf(Stoppable)
<1>1. /\ reports' = Count(S) /\ queue' = Kept /\ owing' = {} /\ sess' = Cleared(Stoppable)
      /\ loopOn' = IF "Chain" \in Stoppable THEN FALSE ELSE loopOn
      /\ radioOps' = radioOps + 1
      /\ UNCHANGED <<issued, cur, step, pulls, air, forgotten, halfSent>>
  BY DEF BeginRadioTransition, RadioOp, tickVars, historyVars
<1>2. /\ queue' \in Seq(Ids) /\ Distinct(queue')
      /\ Range(queue') \subseteq {i \in Range(queue) : ~Blocked(Kind(i))}
  BY <1>1, KeptQueue DEF LifeInv, LifeTypes
<1>3. \A k \in Stoppable : sess[k].id # NoId
  BY DEF Stoppable, LifeInv, LifeTypes
<1>4. \A k \in Sessions : sess'[k].id = NoId /\ ~sess'[k].active
  <2>1. \A k \in Stoppable : sess'[k] = NoSession
    BY <1>1 DEF Cleared, Stoppable
  <2>2. \A k \in Sessions \ Stoppable : sess'[k] = sess[k] /\ sess[k].id = NoId /\ ~sess[k].active
    BY <1>1 DEF Cleared, Stoppable
  <2>3. QED BY <2>1, <2>2 DEF NoSession
<1>5. S \subseteq Waiting \cup Unfinished
  <2>1. blocked \subseteq Waiting
    BY DEF LifeInv, LifeTypes, Waiting, Range, Ids, NoId
  <2>2. IdsOf(Stoppable) \subseteq Unfinished
    BY <1>3 DEF Unfinished, IdsOf, Stoppable
  <2>3. QED BY <2>1, <2>2 DEF Unfinished
<1>6. cur \notin S \/ cur = NoId
  <2>1. cur # NoId => cur \in Waiting /\ cur \notin Range(queue)
    BY DEF Waiting, LifeInv, LifeTypes
  <2>2. QED BY <2>1, Places DEF IdsOf, Stoppable
<1>7. \A i \in pulls : i \notin S
  BY Places DEF IdsOf, Stoppable, Waiting
<1>8. \A i \in Range(queue') : i \notin S
  <2>1. \A i \in Range(queue) : i \in Waiting
    BY DEF LifeInv, LifeTypes, Waiting, Range, Ids, NoId
  <2>2. QED BY <1>2, <2>1, Places DEF IdsOf, Stoppable
<1> HIDE DEF S, blocked
<1>9. Waiting' \subseteq Waiting \ S
  BY <1>1, <1>2, <1>6, <1>8 DEF Waiting
<1>10. OnePlace' /\ Unreported'
  BY <1>1, <1>4, <1>5, <1>7, <1>9, Reporting
<1>11. reports' \in [Ids -> Nat]
  BY <1>1, Counted DEF LifeInv
<1>12. cur' \notin Range(queue')
  BY <1>1, <1>2 DEF LifeInv, LifeTypes
<1>13. (/\ step \in {"Open", "Run", "Pump"} /\ cur \in Ids \cup {NoId}
        /\ pulls \subseteq Ids /\ air \subseteq Requests /\ forgotten \subseteq Ids
        /\ halfSent \subseteq Ids /\ radioOps \in Nat)'
  BY <1>1 DEF LifeInv, LifeTypes
<1>14. loopOn' \in BOOLEAN
  BY <1>1 DEF LifeInv, LifeTypes
<1>15. LifeTypes'
  BY <1>2, <1>4, <1>11, <1>12, <1>13, <1>14 DEF LifeTypes
<1>16. QED BY <1>10, <1>15 DEF LifeInv

LEMMA LifeSame ==
  ASSUME PendingType, LifeInv, PendingType',
         UNCHANGED <<issued, queue, cur, step, owing, pulls, air, sess, loopOn, reports, forgotten, halfSent>>,
         radioOps' \in Nat
  PROVE  LifeInv'
<1>1. Waiting' = Waiting
  BY DEF Waiting
<1>2. OnePlace' /\ Unreported'
  BY <1>1, Leaving
<1>3. (queue \in Seq(Ids) /\ Distinct(queue) /\ cur \notin Range(queue))'
  BY DEF LifeInv, LifeTypes
<1>4. LifeTypes'
  BY <1>3 DEF LifeInv, LifeTypes
<1>5. QED BY <1>2, <1>4 DEF LifeInv

LEMMA LifeRadio ==
  ASSUME PendingType, LifeInv, PendingType',
         \/ BeginRadioTransition \/ EndRadioTransition \/ HardDeinitRadio
         \/ \E ok \in BOOLEAN : HardReinitRadio(ok)
  PROVE  LifeInv'
<1>1. CASE EndRadioTransition
  BY <1>1, LifeSame DEF EndRadioTransition, tickVars, trackVars, historyVars, LifeInv, LifeTypes
<1>2. CASE HardDeinitRadio
  <2>1. loopOn' \in BOOLEAN
    BY <1>2 DEF HardDeinitRadio, LifeInv, LifeTypes
  <2>2. QED BY <1>2, <2>1, LifeCleared DEF HardDeinitRadio, RadioOp
<1>3. ASSUME NEW ok \in BOOLEAN, HardReinitRadio(ok)
      PROVE  LifeInv'
  <2>1. radioOps' = radioOps + 1 /\ UNCHANGED <<issued, tickVars, air, loopOn, reports, halfSent>>
    BY <1>3 DEF HardReinitRadio, RadioOp
  <2>2. CASE ok
    <3>1. ClearQueues
      BY <1>3, <2>2 DEF HardReinitRadio
    <3>2. QED BY <2>1, <3>1, LifeCleared DEF LifeInv, LifeTypes
  <2>3. CASE ~ok
    <3>1. UNCHANGED <<queue, owing, pulls, sess, forgotten>>
      BY <1>3, <2>3 DEF HardReinitRadio
    <3>2. QED BY <2>1, <3>1, LifeSame DEF LifeInv, LifeTypes, tickVars
  <2>4. QED BY <2>2, <2>3
<1>4. QED BY <1>1, <1>2, <1>3, LifeBegin

LEMMA LifeStep ==
  ASSUME PendingType, LifeInv, PendingType', [Next]_vars
  PROVE  LifeInv'
<1>1. ASSUME NEW late \in SUBSET Active, Pump(late)
      PROVE  LifeInv'
  BY <1>1, LifePump DEF Pump, trackVars, radioVars, historyVars
<1>2. ASSUME NEW latePulls \in SUBSET pulls, NEW late \in SUBSET Active, IdleTick(latePulls, late)
      PROVE  LifeInv'
  <2>1. /\ PumpSessions(late) /\ pulls' \subseteq pulls /\ forgotten' \subseteq forgotten \cup pulls
        /\ UNCHANGED <<issued, queue, cur, step, owing, air, halfSent, radioOps>>
    BY <1>2 DEF IdleTick, Prune, tickVars, radioVars
  <2>2. step' \in {"Open", "Run", "Pump"}
    BY <2>1 DEF LifeInv, LifeTypes
  <2>3. QED BY <2>1, <2>2, LifePump
<1>3. CASE UNCHANGED vars
  BY <1>3, LifeSame DEF vars, tickVars, trackVars, radioVars, historyVars, LifeInv, LifeTypes
<1>4. QED
  BY <1>1, <1>2, <1>3, LifeSubmit, LifePop, LifeRun, LifeEvents, LifeRadio DEF Next

LEMMA LifeAlways == Spec => [](PendingInv /\ LifeInv)
<1>1. Init => LifeInv
  <2>1. ASSUME Init
        PROVE  LifeTypes
    <3>1. queue \in Seq(Ids) /\ Distinct(queue) /\ cur \notin Range(queue)
      BY <2>1 DEF Init, Distinct, Range
    <3>2. reports \in [Ids -> Nat]
      BY <2>1 DEF Init
    <3>3. QED BY <2>1, <3>1, <3>2 DEF Init, LifeTypes, NoSession
  <2>2. ASSUME Init
        PROVE  OnePlace /\ Unreported
    BY <2>2 DEF Init, OnePlace, Unreported, AtMostOneTerminal, NoSession, Waiting, Range
  <2>3. QED BY <2>1, <2>2 DEF LifeInv
<1>2. PendingInv /\ LifeInv /\ PendingInv' /\ [Next]_vars => LifeInv'
  BY LifeStep DEF PendingInv
<1>3. QED BY <1>1, <1>2, PendingAlways, PTL DEF Spec

(* Whatever ends a command - its own tick, its exchange, its session's      *)
(* acknowledgements or timeout, its pull's response, a transition that      *)
(* cancels it - no second end follows: a command is in one place at a time  *)
(* and leaves it when it is reported.  The exception is the session whose   *)
(* start failed after its id was set.                                       *)
THEOREM OneTerminalEach == Spec => []AtMostOneTerminal
<1>1. LifeInv => AtMostOneTerminal
  BY DEF LifeInv, Unreported
<1>2. QED BY <1>1, LifeAlways, PTL

(* The queue, the tables, the sessions and the radio state keep their types.*)
LEMMA LiveAlways == Spec => []LiveInv
<1>1. Init => LiveInv
  BY DEF Init, LiveInv
<1>2. LiveInv /\ [Next]_vars => LiveInv'
  BY LiveStep
<1>3. QED BY <1>1, <1>2, PTL DEF Spec

THEOREM CommandTypeCorrect == Spec => []TypeOK
<1>1. PendingInv /\ LifeInv /\ LiveInv => TypeOK
  BY DEF PendingInv, PendingType, LifeInv, LifeTypes, LiveInv, TypeOK, SessionRecords
<1>2. QED BY <1>1, LifeAlways, LiveAlways, PTL
=============================================================================
