---------------------------- MODULE StreamProofs ----------------------------
(***************************************************************************)
(* What a master has under way with its slaves: the stream a slave reports  *)
(* is the one it was told to (TelemetryPush), for any masters, metrics,     *)
(* intervals and limits; and a master and a slave change channel together   *)
(* (ChannelSwitch), for any slaves and channels, any size of the queues and *)
(* any number of switches and mishaps.                                      *)
(***************************************************************************)
EXTENDS TelemetryPush, ChannelSwitch, TLAPS

(* A push session, whatever it says.                                        *)
Sessions == [stream : Streams, owner : Masters \cup {NoMaster}, fails : 0 .. FailMax - 1,
             backoff : 0 .. Backoff, wait : [Keys -> 0 .. Interval],
             since : [Keys -> 0 .. Gap], last : [Keys -> 0 .. NoValue]]

StreamTypes ==
  /\ active \in Masters \cup {NoMaster} /\ session \in Sessions
  /\ blob \in [Masters -> Streams] /\ answered \in [Masters -> Streams]
  /\ value \in [Keys -> 0 .. MaxValue]

(* What is stored is what the masters were told; the session is the stored  *)
(* stream of the active master and belongs to it; without a master nothing  *)
(* runs, so that the next one finds nothing of another.                     *)
StreamHeld ==
  ~upset => /\ blob = answered
            /\ active # NoMaster => /\ session.stream = answered[active]
                                    /\ session.stream.on => session.owner = active
            /\ active = NoMaster => session.stream = NoStream

StreamInv == StreamTypes /\ StreamHeld

-----------------------------------------------------------------------------
LEMMA StreamFacts ==
  /\ NoStream \in Streams /\ ~NoStream.on
  /\ \A s \in Streams : ~s.on => s = NoStream
  /\ \A c \in Configs, p \in BOOLEAN : Stream(c, p) \in Streams
  /\ \A s \in Streams, p \in BOOLEAN : s.on => [s EXCEPT !.paused = p] \in Streams
<1>1. NoStream \in Streams /\ ~NoStream.on
  BY DEF Streams, NoStream
<1>2. ASSUME NEW s \in Streams, ~s.on  PROVE s = NoStream
  BY <1>2 DEF Streams, Stream
<1>3. ASSUME NEW s \in Streams, NEW p \in BOOLEAN, s.on  PROVE [s EXCEPT !.paused = p] \in Streams
  <2>1. PICK c \in Configs, q \in BOOLEAN : s = Stream(c, q)
    BY <1>1, <1>3 DEF Streams
  <2>2. s = [on |-> TRUE, paused |-> q, config |-> c]
    BY <2>1 DEF Stream
  <2>3. [s EXCEPT !.paused = p] = [on |-> TRUE, paused |-> p, config |-> c]
    <3>1. [s EXCEPT !.paused = p] \in [on : {TRUE}, paused : {p}, config : {c}]
      BY <2>2
    <3>2. ASSUME NEW r \in [on : {TRUE}, paused : {p}, config : {c}]
          PROVE  r = [on |-> TRUE, paused |-> p, config |-> c]
      OBVIOUS
    <3>3. QED BY <3>1, <3>2
  <2>4. Stream(c, p) \in Streams
    BY DEF Streams
  <2>5. QED BY <2>3, <2>4 DEF Stream
<1>4. QED BY <1>1, <1>2, <1>3 DEF Streams

LEMMA FreshSession ==
  ASSUME NEW s \in Streams, NEW m \in Masters \cup {NoMaster}
  PROVE  Fresh(s, m) \in Sessions /\ Fresh(s, m).stream = s /\ Fresh(s, m).owner = m
BY StreamSizes DEF Fresh, Sessions, NoValue

LEMMA RestoredSession ==
  ASSUME blob \in [Masters -> Streams], NEW m \in Masters
  PROVE  /\ StreamRestored(m) \in Sessions /\ StreamRestored(m).stream = blob[m]
         /\ StreamRestored(m).stream.on => StreamRestored(m).owner = m
<1>1. blob[m] \in Streams
  OBVIOUS
<1>2. CASE blob[m] = NoStream
  <2>1. StreamRestored(m) = Fresh(NoStream, NoMaster)
    BY <1>2 DEF StreamRestored, NoTelemetry
  <2>2. QED BY <1>2, <2>1, StreamFacts, FreshSession
<1>3. CASE blob[m] # NoStream
  BY <1>1, <1>3, FreshSession DEF StreamRestored
<1>4. QED BY <1>2, <1>3

(* A tick keeps the stream and its owner.                                   *)
LEMMA TickKeepsStream ==
  ASSUME NEW s \in Sessions, value \in [Keys -> 0 .. MaxValue]
  PROVE  /\ Aged(s) \in Sessions /\ Aged(s).stream = s.stream /\ Aged(s).owner = s.owner
         /\ AfterReport(s) \in Sessions /\ AfterReport(s).stream = s.stream /\ AfterReport(s).owner = s.owner
         /\ AfterRefusal(s) \in Sessions /\ AfterRefusal(s).stream = s.stream /\ AfterRefusal(s).owner = s.owner
<1> USE StreamSizes
<1>1. Aged(s) \in Sessions /\ Aged(s).stream = s.stream /\ Aged(s).owner = s.owner
  <2>1. Dec(s.backoff) \in 0 .. Backoff
    BY DEF Sessions, Dec
  <2>2. [k \in Keys |-> Dec(s.wait[k])] \in [Keys -> 0 .. Interval]
    <3>1. \A k \in Keys : s.wait[k] \in 0 .. Interval
      BY DEF Sessions
    <3>2. QED BY <3>1 DEF Dec
  <2>3. [k \in Keys |-> IF s.since[k] < Gap THEN s.since[k] + 1 ELSE Gap] \in [Keys -> 0 .. Gap]
    <3>1. \A k \in Keys : s.since[k] \in 0 .. Gap
      BY DEF Sessions
    <3>2. QED BY <3>1
  <2>4. QED BY <2>1, <2>2, <2>3 DEF Aged, Sessions
<1>2. AfterReport(s) \in Sessions /\ AfterReport(s).stream = s.stream /\ AfterReport(s).owner = s.owner
  <2> DEFINE on == Enabled(s.stream.config)
  <2>1. [k \in Keys |-> IF k \in on /\ Mode(s, k) # "OnChange" THEN Interval ELSE s.wait[k]] \in [Keys -> 0 .. Interval]
    BY DEF Sessions
  <2>2. [k \in Keys |-> IF k \in on THEN value[k] ELSE s.last[k]] \in [Keys -> 0 .. NoValue]
    BY DEF Sessions, NoValue
  <2>3. [k \in Keys |-> IF k \in SendsReport(s) THEN 0 ELSE s.since[k]] \in [Keys -> 0 .. Gap]
    BY DEF Sessions
  <2>4. 0 \in 0 .. FailMax - 1 /\ 0 \in 0 .. Backoff
    OBVIOUS
  <2> HIDE DEF on
  <2>5. QED BY <2>1, <2>2, <2>3, <2>4 DEF AfterReport, Sessions, on
<1>3. AfterRefusal(s) \in Sessions /\ AfterRefusal(s).stream = s.stream /\ AfterRefusal(s).owner = s.owner
  <2>1. CASE s.fails + 1 >= FailMax
    <3>1. 0 \in 0 .. FailMax - 1 /\ Backoff \in 0 .. Backoff
      OBVIOUS
    <3>2. QED BY <2>1, <3>1 DEF AfterRefusal, Sessions
  <2>2. CASE ~(s.fails + 1 >= FailMax)
    <3>1. s.fails + 1 \in 0 .. FailMax - 1
      BY <2>2 DEF Sessions
    <3>2. QED BY <2>2, <3>1 DEF AfterRefusal, Sessions
  <2>3. QED BY <2>1, <2>2
<1>4. QED BY <1>1, <1>2, <1>3

LEMMA StreamInitial == StreamInit => StreamInv
BY StreamFacts, FreshSession, NobodyIsNoMaster, StreamSizes DEF StreamInit, StreamInv, StreamTypes, StreamHeld, NoTelemetry

LEMMA StreamStep == StreamInv /\ [StreamNext]_streamVars => StreamInv'
<1> SUFFICES ASSUME StreamInv, [StreamNext]_streamVars  PROVE StreamInv'
  OBVIOUS
<1> USE NobodyIsNoMaster DEF StreamInv, StreamTypes
<1>0. NoTelemetry \in Sessions /\ NoTelemetry.stream = NoStream
  BY StreamFacts, FreshSession DEF NoTelemetry
<1>1. ASSUME NEW m \in Masters, NEW c \in Configs, NEW stored \in BOOLEAN, StreamStart(m, c, stored)  PROVE StreamInv'
  <2>1. CASE stored
    <3>1. session' \in Sessions /\ session'.stream = Stream(c, FALSE) /\ session'.owner = m /\ Stream(c, FALSE) \in Streams
      <4>1. Stream(c, FALSE) \in Streams
        BY StreamFacts
      <4>2. session' = Fresh(Stream(c, FALSE), m)
        BY <1>1, <2>1 DEF StreamStart
      <4>3. QED BY <4>1, <4>2, FreshSession
    <3>2. StreamTypes'
      BY <1>1, <2>1, <3>1 DEF StreamStart
    <3>3. StreamHeld'
      BY <1>1, <2>1, <3>1 DEF StreamStart, StreamHeld, Admitted
    <3>4. QED BY <3>2, <3>3
  <2>2. CASE ~stored
    BY <1>0, <1>1, <2>2 DEF StreamStart, StreamHeld
  <2>3. QED BY <2>1, <2>2
<1>2. ASSUME NEW m \in Masters, NEW p \in BOOLEAN, NEW stored \in BOOLEAN, SetPaused(m, p, stored)  PROVE StreamInv'
  <2>1. session.stream \in Streams /\ session.stream.on
    BY <1>2 DEF SetPaused, Sessions
  <2>2. session' \in Sessions /\ session'.stream = [session.stream EXCEPT !.paused = p] /\ session'.owner = session.owner
    BY <1>2, <2>1, StreamFacts DEF SetPaused, Sessions
  <2>3. session'.stream \in Streams
    BY <2>2 DEF Sessions
  <2>4. StreamTypes'
    BY <1>2, <2>2, <2>3 DEF SetPaused
  <2>5. StreamHeld'
    BY <1>2, <2>1, <2>2, <2>3 DEF SetPaused, StreamHeld, Admitted
  <2>6. QED BY <2>4, <2>5
<1>3. ASSUME NEW m \in Masters, NEW stored \in BOOLEAN, Stop(m, stored)  PROVE StreamInv'
  <2>1. StreamTypes'
    BY <1>0, <1>3, StreamFacts DEF Stop
  <2>2. StreamHeld'
    BY <1>0, <1>3, StreamFacts DEF Stop, StreamHeld, Admitted
  <2>3. QED BY <2>1, <2>2
<1>4. ASSUME NEW m \in Masters, Unpaired(m)  PROVE StreamInv'
  <2>1. StreamTypes'
    BY <1>0, <1>4, StreamFacts DEF Unpaired
  <2>2. StreamHeld'
    BY <1>0, <1>4, StreamFacts DEF Unpaired, StreamHeld
  <2>3. QED BY <2>1, <2>2
<1>5. ASSUME NEW m \in Masters, NEW ok \in BOOLEAN, Activate(m, ok)  PROVE StreamInv'
  <2>1. blob' \in [Masters -> Streams] /\ blob'[m] = blob[m] /\ active # m
    BY <1>5, StreamFacts DEF Activate
  <2>2. CASE ok
    <3>1. session' \in Sessions /\ session'.stream.on /\ session' # session => session'.owner = m
      BY <1>5, <2>2, RestoredSession DEF Activate
    <3>2. StreamTypes'
      BY <1>5, <2>1, <2>2, <3>1, RestoredSession DEF Activate
    <3>3. ASSUME ~upset'  PROVE session'.stream = blob'[m] /\ (session'.stream.on => session'.owner = m)
      <4>1. CASE blob[m] = NoStream /\ session.owner # active
        <5>1. session' = session /\ session.stream \in Streams
          BY <1>5, <2>2, <4>1 DEF Activate, Sessions
        <5>2. session.stream = NoStream
          BY <1>5, <2>2, <3>3, <4>1, <5>1, StreamFacts DEF Activate, StreamHeld
        <5>3. QED BY <2>1, <4>1, <5>1, <5>2, StreamFacts
      <4>2. CASE ~(blob[m] = NoStream /\ session.owner # active)
        BY <1>5, <2>1, <2>2, <4>2, RestoredSession DEF Activate
      <4>3. QED BY <4>1, <4>2
    <3>4. QED BY <1>5, <2>1, <2>2, <3>2, <3>3 DEF Activate, StreamHeld
  <2>3. CASE ~ok
    BY <1>0, <1>5, <2>1, <2>3 DEF Activate, StreamHeld
  <2>4. QED BY <2>2, <2>3
<1>6. CASE StreamRestart
  <2>1. CASE active' = NoMaster
    BY <1>0, <1>6, <2>1 DEF StreamRestart, StreamHeld
  <2>2. CASE active' # NoMaster
    <3>1. active' \in Masters /\ session' = StreamRestored(active')
      BY <1>6, <2>2 DEF StreamRestart
    <3>2. session' \in Sessions /\ session'.stream = blob[active'] /\ (session'.stream.on => session'.owner = active')
      BY <3>1, RestoredSession
    <3>3. QED BY <1>6, <2>2, <3>1, <3>2 DEF StreamRestart, StreamHeld
  <2>3. QED BY <2>1, <2>2
<1>7. CASE StreamTick
  <2>1. session' \in Sessions /\ session'.stream = session.stream /\ session'.owner = session.owner
    BY <1>7, TickKeepsStream DEF StreamTick, Report, ReportRefused, NothingDue
  <2>2. UNCHANGED <<active, blob, value, answered, upset>>
    BY <1>7 DEF StreamTick, Report, ReportRefused, NothingDue
  <2>3. QED BY <2>1, <2>2 DEF StreamHeld
<1>8. ASSUME NEW k \in Keys, NEW v \in 0 .. MaxValue, ValueChanges(k, v)  PROVE StreamInv'
  BY <1>8 DEF ValueChanges, StreamHeld
<1>9. CASE UNCHANGED streamVars
  BY <1>9 DEF streamVars, StreamHeld
<1>10. QED
  BY <1>1, <1>2, <1>3, <1>4, <1>5, <1>6, <1>7, <1>8, <1>9 DEF StreamNext, Control

(* The stream that runs is the one the active master was told it has.       *)
THEOREM StreamIsAsTold == StreamSpec => []StreamAsTold
<1>1. StreamInv => StreamAsTold
  BY DEF StreamInv, StreamTypes, StreamHeld, StreamAsTold
<1>2. QED BY StreamInitial, StreamStep, <1>1, PTL DEF StreamSpec

(* The bound on the commands, and the history.                              *)
StreamCounted == busy \in 0 .. MaxBusy
StreamFlagged == upset \in BOOLEAN

LEMMA StreamCounts ==
  /\ StreamInit => StreamCounted /\ StreamFlagged
  /\ StreamCounted /\ [StreamNext]_streamVars => StreamCounted'
  /\ StreamFlagged /\ [StreamNext]_streamVars => StreamFlagged'
<1>1. StreamInit => StreamCounted
  BY StreamSizes DEF StreamInit, StreamCounted
<1>2. StreamInit => StreamFlagged
  BY DEF StreamInit, StreamFlagged
<1>3. ASSUME StreamCounted, [StreamNext]_streamVars  PROVE StreamCounted'
  <2>1. busy' = busy \/ StreamCommands
    BY <1>3 DEF StreamNext, Control, StreamStart, SetPaused, Stop, Unpaired, Activate, StreamRestart, StreamTick,
                Report, ReportRefused, NothingDue, ValueChanges, streamVars
  <2>2. QED BY <1>3, <2>1, StreamSizes DEF StreamCommands, StreamCounted
<1>4. ASSUME StreamFlagged, [StreamNext]_streamVars  PROVE StreamFlagged'
  BY <1>4 DEF StreamFlagged, StreamNext, Control, StreamStart, SetPaused, Stop, Unpaired, Activate, StreamRestart, StreamTick,
              Report, ReportRefused, NothingDue, ValueChanges, streamVars
<1>5. QED BY <1>1, <1>2, <1>3, <1>4

(* Every variable of the telemetry stream keeps its type.                   *)
THEOREM StreamTypeCorrect == StreamSpec => []StreamTypeOK
<1>1. StreamInv /\ StreamCounted /\ StreamFlagged => StreamTypeOK
  BY DEF StreamInv, StreamTypes, StreamTypeOK, StreamCounted, StreamFlagged, Sessions
<1>2. QED BY StreamInitial, StreamStep, StreamCounts, <1>1, PTL DEF StreamSpec

-----------------------------------------------------------------------------
(* A switch of channel.                                                     *)
Engines == [mode : Modes, want : Channels \cup {0}, corr : {0} \cup SwitchIds, peer : Devices]

SwitchTypes ==
  /\ engine \in [Devices -> Engines] /\ radio \in [Devices -> Channels] /\ boot \in [Devices -> Channels]
  /\ masterRecord \in [Members -> Channels \cup {0}] /\ slaveRecord \in [Members -> Channels \cup {0}]
  /\ heard \in [Devices -> Seq(ControlFrames)] /\ \A d \in Devices : Len(heard[d]) <= RxMax
  /\ switches \in 0 .. MaxSwitches /\ apart \subseteq Members

Switching == engine[Boss].mode # "Idle"

(* Only prepares reach a slave, in the order of their ids, each with an id  *)
(* of its own; only answers reach the master.                               *)
Prepares(q, done, sent) ==
  /\ \A i \in DOMAIN q : q[i].kind = "Prepare" /\ q[i].want \in Channels /\ done < q[i].corr /\ q[i].corr <= sent
  /\ \A i, j \in DOMAIN q : i < j => q[i].corr < q[j].corr
AnswersTo(q, sent) == \A i \in DOMAIN q : q[i].from \in Members /\ q[i].kind # "Prepare" /\ q[i].corr <= sent

Numbered ==
  /\ \A d \in Devices : engine[d].corr <= switches /\ (engine[d].mode # "Idle" => engine[d].want \in Channels /\ engine[d].corr # 0)
  /\ Switching => engine[Boss].corr = switches
  /\ \A s \in Members : engine[s].mode \in {"Idle", "SlavePrepared"} /\ Prepares(heard[s], engine[s].corr, switches)
  /\ AnswersTo(heard[Boss], switches)

(* Whatever a slave has of the switch under way says what the master wants. *)
WantsAgree ==
  Switching => \A s \in Members :
    /\ \A i \in DOMAIN heard[s] :
         heard[s][i].corr = switches => heard[s][i].want = engine[Boss].want /\ engine[Boss].peer = s
    /\ engine[s].mode = "SlavePrepared" /\ engine[s].corr = switches =>
         engine[s].want = engine[Boss].want /\ engine[Boss].peer = s

(* The last answer to the switch under way came from the slave it is for,   *)
(* which kept the channel and has nothing else to do.                       *)
LastAnswers ==
  Switching => \A i \in DOMAIN heard[Boss] :
    heard[Boss][i].kind = "CommitAck" /\ heard[Boss][i].corr = switches =>
      LET s == heard[Boss][i].from
      IN  /\ s = engine[Boss].peer /\ slaveRecord[s] = engine[Boss].want
          /\ engine[s].mode = "Idle" /\ heard[s] = << >>
          /\ s \notin apart => radio[s] = engine[Boss].want /\ radio[Boss] = engine[Boss].want

Together ==
  \A s \in Members \ apart :
    IF Switching THEN engine[Boss].peer = s
    ELSE engine[s].mode = "Idle" /\ radio[s] = radio[Boss] /\ heard[s] = << >>

SwitchInv == SwitchTypes /\ Numbered /\ WantsAgree /\ LastAnswers /\ Together

Push(q, f) == Append(IF Len(q) < RxMax THEN q ELSE Tail(q), f)

-----------------------------------------------------------------------------
(* A queue without its first frame keeps the others in their order.         *)
LEMMA QueueTail ==
  ASSUME NEW q \in Seq(ControlFrames), q # << >>
  PROVE  /\ Tail(q) \in Seq(ControlFrames) /\ Len(Tail(q)) = Len(q) - 1 /\ Len(q) \in Nat
         /\ Head(q) = q[1] /\ Head(q) \in ControlFrames /\ 1 \in DOMAIN q
         /\ \A i \in DOMAIN Tail(q) : i \in Nat /\ i >= 1 /\ i + 1 \in DOMAIN q /\ Tail(q)[i] = q[i + 1]
OBVIOUS

(* A queue that takes one more frame has it last, and a full one loses its  *)
(* first.                                                                   *)
LEMMA QueuePush ==
  ASSUME NEW q \in Seq(ControlFrames), Len(q) <= RxMax, NEW f \in ControlFrames
  PROVE  /\ Push(q, f) \in Seq(ControlFrames) /\ Len(Push(q, f)) <= RxMax
         /\ \E k \in {0, 1} : \A i \in DOMAIN Push(q, f) :
              /\ i \in 1 .. Len(Push(q, f))
              /\ \/ i = Len(Push(q, f)) /\ Push(q, f)[i] = f
                 \/ i < Len(Push(q, f)) /\ i + k \in DOMAIN q /\ Push(q, f)[i] = q[i + k]
<1>1. CASE Len(q) < RxMax
  <2>1. Push(q, f) = Append(q, f)
    BY <1>1 DEF Push
  <2>2. /\ Push(q, f) \in Seq(ControlFrames) /\ Len(Push(q, f)) <= RxMax
        /\ \A i \in DOMAIN Push(q, f) :
              /\ i \in 1 .. Len(Push(q, f))
              /\ \/ i = Len(Push(q, f)) /\ Push(q, f)[i] = f
                 \/ i < Len(Push(q, f)) /\ i + 0 \in DOMAIN q /\ Push(q, f)[i] = q[i + 0]
    BY <1>1, <2>1, SwitchSizes
  <2>3. QED BY <2>2
<1>2. CASE ~(Len(q) < RxMax)
  <2>1. Push(q, f) = Append(Tail(q), f) /\ q # << >> /\ Len(q) = RxMax
    BY <1>2, SwitchSizes DEF Push
  <2>2. /\ Tail(q) \in Seq(ControlFrames) /\ Len(Tail(q)) = RxMax - 1
        /\ \A i \in DOMAIN Tail(q) : i + 1 \in DOMAIN q /\ Tail(q)[i] = q[i + 1]
    BY <2>1, QueueTail
  <2> DEFINE rest == Tail(q)
  <2> HIDE DEF rest
  <2>3. /\ Append(rest, f) \in Seq(ControlFrames) /\ Len(Append(rest, f)) = RxMax
        /\ \A i \in DOMAIN Append(rest, f) :
              /\ i \in 1 .. RxMax
              /\ \/ i = RxMax /\ Append(rest, f)[i] = f
                 \/ i < RxMax /\ i + 1 \in DOMAIN q /\ Append(rest, f)[i] = q[i + 1]
    BY <2>2, SwitchSizes DEF rest
  <2>4. QED BY <2>1, <2>3 DEF rest
<1>3. QED BY <1>1, <1>2

LEMMA PreparesTail ==
  ASSUME NEW q \in Seq(ControlFrames), q # << >>, NEW done \in Nat, NEW sent \in Nat, Prepares(q, done, sent)
  PROVE  /\ Prepares(Tail(q), done, sent) /\ Prepares(Tail(q), Head(q).corr, sent)
         /\ Head(q).corr \in Nat /\ done < Head(q).corr /\ Head(q).corr <= sent /\ Head(q).want \in Channels
         /\ \A i \in DOMAIN Tail(q) : \E j \in DOMAIN q : Tail(q)[i] = q[j]
<1>1. \A i \in DOMAIN q : q[i].corr \in Nat
  <2>1. \A i \in DOMAIN q : q[i] \in ControlFrames
    OBVIOUS
  <2>2. QED BY <2>1, SwitchSizes DEF ControlFrames, SwitchIds
<1>2. QED BY <1>1, QueueTail DEF Prepares

LEMMA PreparesPush ==
  ASSUME NEW q \in Seq(ControlFrames), Len(q) <= RxMax, NEW done \in Nat, NEW sent \in Nat, done <= sent,
         Prepares(q, done, sent), NEW f \in ControlFrames, f.kind = "Prepare", f.want \in Channels, f.corr = sent + 1
  PROVE  Prepares(Push(q, f), done, sent + 1)
<1> DEFINE r == Push(q, f)
<1>1. PICK k \in {0, 1} : \A i \in DOMAIN r :
              /\ i \in 1 .. Len(r)
              /\ \/ i = Len(r) /\ r[i] = f
                 \/ i < Len(r) /\ i + k \in DOMAIN q /\ r[i] = q[i + k]
  BY QueuePush
<1>2. r \in Seq(ControlFrames) /\ Len(r) \in Nat
  BY QueuePush
<1>3. \A i \in DOMAIN q : q[i].corr \in Nat
  <2>1. \A i \in DOMAIN q : q[i] \in ControlFrames
    OBVIOUS
  <2>2. QED BY <2>1, SwitchSizes DEF ControlFrames, SwitchIds
<1> HIDE DEF r
<1>4. ASSUME NEW i \in DOMAIN r
      PROVE  r[i].kind = "Prepare" /\ r[i].want \in Channels /\ done < r[i].corr /\ r[i].corr <= sent + 1
  BY <1>1, <1>3 DEF Prepares
<1>5. ASSUME NEW i \in DOMAIN r, NEW j \in DOMAIN r, i < j  PROVE r[i].corr < r[j].corr
  <2>1. i \in 1 .. Len(r) /\ j \in 1 .. Len(r) /\ i < Len(r) /\ i + k \in DOMAIN q /\ r[i] = q[i + k]
    BY <1>1, <1>2, <1>5
  <2>2. CASE r[j] = f
    BY <1>3, <2>1, <2>2 DEF Prepares
  <2>3. CASE j + k \in DOMAIN q /\ r[j] = q[j + k]
    BY <1>5, <2>1, <2>3 DEF Prepares
  <2>4. QED BY <1>1, <2>2, <2>3
<1>6. QED BY <1>4, <1>5 DEF Prepares, r

LEMMA AnswersTail ==
  ASSUME NEW q \in Seq(ControlFrames), q # << >>, NEW sent, AnswersTo(q, sent)
  PROVE  AnswersTo(Tail(q), sent) /\ \A i \in DOMAIN Tail(q) : \E j \in DOMAIN q : Tail(q)[i] = q[j]
BY QueueTail DEF AnswersTo

LEMMA PushedFrom ==
  ASSUME NEW q \in Seq(ControlFrames), Len(q) <= RxMax, NEW f \in ControlFrames
  PROVE  \A i \in DOMAIN Push(q, f) : Push(q, f)[i] = f \/ \E j \in DOMAIN q : Push(q, f)[i] = q[j]
BY QueuePush

LEMMA AnswersPush ==
  ASSUME NEW q \in Seq(ControlFrames), Len(q) <= RxMax, NEW sent, AnswersTo(q, sent),
         NEW f \in ControlFrames, f.kind # "Prepare", f.from \in Members, f.corr <= sent
  PROVE  /\ AnswersTo(Push(q, f), sent)
         /\ \A i \in DOMAIN Push(q, f) : Push(q, f)[i] = f \/ \E j \in DOMAIN q : Push(q, f)[i] = q[j]
<1>1. \A i \in DOMAIN Push(q, f) : Push(q, f)[i] = f \/ \E j \in DOMAIN q : Push(q, f)[i] = q[j]
  BY PushedFrom
<1>2. QED BY <1>1 DEF AnswersTo

(* A queue that changes leaves the others as they are.                      *)
LEMMA QueueSet ==
  ASSUME NEW h \in [Devices -> Seq(ControlFrames)], \A e \in Devices : Len(h[e]) <= RxMax,
         NEW d \in Devices, NEW q \in Seq(ControlFrames), Len(q) <= RxMax
  PROVE  /\ [h EXCEPT ![d] = q] \in [Devices -> Seq(ControlFrames)] /\ \A e \in Devices : Len([h EXCEPT ![d] = q][e]) <= RxMax
         /\ [h EXCEPT ![d] = q][d] = q /\ \A e \in Devices : e # d => [h EXCEPT ![d] = q][e] = h[e]
<1> DEFINE new == [h EXCEPT ![d] = q]
<1>1. new \in [Devices -> Seq(ControlFrames)] /\ new[d] = q /\ \A e \in Devices : e # d => new[e] = h[e]
  OBVIOUS
<1>2. ASSUME NEW e \in Devices  PROVE Len(new[e]) <= RxMax
  BY <1>1
<1>3. QED BY <1>1, <1>2

(* An answer is heard on the channel its sender uses, or the sender may be  *)
(* apart from now on.                                                       *)
LEMMA AnswerSends ==
  ASSUME SwitchTypes, NEW queues \in [Devices -> Seq(ControlFrames)], \A d \in Devices : Len(queues[d]) <= RxMax,
         NEW f \in ControlFrames, f.from \in Members, AnswerSent(queues, f)
  PROVE  /\ heard' \in [Devices -> Seq(ControlFrames)] /\ \A d \in Devices : Len(heard'[d]) <= RxMax
         /\ apart \subseteq apart' /\ apart' \subseteq Members
         /\ \A s \in Members : heard'[s] = queues[s]
         /\ \/ heard'[Boss] = queues[Boss] /\ f.from \in apart'
            \/ heard'[Boss] = Push(queues[Boss], f) /\ radio[Boss] = radio'[f.from]
<1>1. Boss \in Devices /\ Boss \notin Members /\ Members \subseteq Devices
  BY SwitchSizes DEF Devices
<1>2. apart \subseteq apart' /\ apart' \subseteq Members
  BY DEF AnswerSent, Mishap, Smoothly, SwitchTypes
<1>3. CASE heard' = queues /\ Mishap({f.from})
  BY <1>1, <1>2, <1>3 DEF Mishap
<1>4. CASE radio[Boss] = radio'[f.from] /\ heard' = Queued(queues, Boss, f)
  <2>1. heard' = [queues EXCEPT ![Boss] = Push(queues[Boss], f)]
    BY <1>1, <1>4 DEF Queued, Push
  <2>2. Push(queues[Boss], f) \in Seq(ControlFrames) /\ Len(Push(queues[Boss], f)) <= RxMax
    BY <1>1, QueuePush
  <2>3. QED BY <1>1, <1>2, <1>4, <2>1, <2>2
<1>5. QED BY <1>3, <1>4 DEF AnswerSent

(* What follows from the types alone.                                       *)
LEMMA EngineFacts ==
  ASSUME SwitchTypes
  PROVE  /\ Boss \in Devices /\ Boss \notin Members /\ Members \subseteq Devices /\ 0 \notin Channels /\ Home \in Channels
         /\ switches \in Nat
         /\ \A d \in Devices : /\ engine[d] \in Engines /\ engine[d].corr \in Nat /\ engine[d].peer \in Devices
                               /\ heard[d] \in Seq(ControlFrames) /\ radio[d] \in Channels
                               /\ Idled(d) \in [Devices -> Engines] /\ Idled(d)[d].mode = "Idle"
                               /\ Idled(d)[d].corr = engine[d].corr /\ Idled(d)[d].want = engine[d].want
                               /\ \A e \in Devices : e # d => Idled(d)[e] = engine[e]
<1>1. Boss \in Devices /\ Boss \notin Members /\ Members \subseteq Devices /\ 0 \notin Channels /\ Home \in Channels /\ switches \in Nat
  BY SwitchSizes DEF Devices, SwitchTypes
<1>2. ASSUME NEW d \in Devices
      PROVE  /\ engine[d] \in Engines /\ engine[d].corr \in Nat /\ engine[d].peer \in Devices
             /\ heard[d] \in Seq(ControlFrames) /\ radio[d] \in Channels
  <2>1. engine[d] \in Engines /\ heard[d] \in Seq(ControlFrames) /\ radio[d] \in Channels
    BY DEF SwitchTypes
  <2>2. QED BY <2>1, SwitchSizes DEF Engines, SwitchIds
<1>3. ASSUME NEW d \in Devices
      PROVE  /\ Idled(d) \in [Devices -> Engines] /\ Idled(d)[d].mode = "Idle"
             /\ Idled(d)[d].corr = engine[d].corr /\ Idled(d)[d].want = engine[d].want
             /\ \A e \in Devices : e # d => Idled(d)[e] = engine[e]
  <2>1. "Idle" \in Modes
    BY DEF Modes
  <2>2. [engine[d] EXCEPT !.mode = "Idle"] \in Engines
    BY <1>2, <2>1 DEF Engines
  <2>3. Idled(d) = [engine EXCEPT ![d] = [engine[d] EXCEPT !.mode = "Idle"]]
    BY DEF Idled
  <2>4. Idled(d)[d] = [engine[d] EXCEPT !.mode = "Idle"]
    BY <2>3 DEF SwitchTypes
  <2>5. Idled(d)[d].mode = "Idle" /\ Idled(d)[d].corr = engine[d].corr /\ Idled(d)[d].want = engine[d].want
    BY <1>2, <2>4 DEF Engines
  <2>6. QED BY <2>2, <2>3, <2>5 DEF SwitchTypes
<1>4. QED BY <1>1, <1>2, <1>3

LEMMA SwitchInitial == SwitchInit => SwitchInv
<1> SUFFICES ASSUME SwitchInit  PROVE SwitchInv
  OBVIOUS
<1>1. Boss \in Devices /\ Members \subseteq Devices /\ Home \in Channels
  BY SwitchSizes DEF Devices
<1>2. Resting \in Engines /\ Resting.mode = "Idle" /\ Resting.corr = 0
  BY <1>1 DEF Resting, Engines, Modes
<1>3. << >> \in Seq(ControlFrames) /\ Len(<< >>) = 0 /\ DOMAIN << >> = {}
  OBVIOUS
<1>4. \A d \in Devices : engine[d] = Resting /\ heard[d] = << >> /\ radio[d] = Home
  BY DEF SwitchInit
<1>5. SwitchTypes
  BY <1>1, <1>2, <1>3, SwitchSizes DEF SwitchInit, SwitchTypes
<1>6. Numbered
  <2>1. switches = 0
    BY DEF SwitchInit
  <2>2. QED BY <1>1, <1>2, <1>3, <1>4, <2>1 DEF Numbered, Switching, Prepares, AnswersTo
<1>7. ~Switching
  BY <1>1, <1>2, <1>4 DEF Switching
<1>8. QED BY <1>1, <1>2, <1>4, <1>5, <1>6, <1>7 DEF SwitchInv, WantsAgree, LastAnswers, Together

LEMMA RequestKeeps ==
  ASSUME SwitchInv, NEW s \in Members, NEW c \in Channels, RequestChannelSwitch(s, c)
  PROVE  SwitchInv'
<1> DEFINE new == [mode |-> "MasterWaitAck", want |-> c, corr |-> switches', peer |-> s]
           f == ControlFrame(Boss, "Prepare", c, switches')
<1>0. SwitchTypes /\ s # Boss /\ s \in Devices
  BY EngineFacts DEF SwitchInv
<1> USE EngineFacts
<1>1. /\ switches' = switches + 1 /\ switches' \in SwitchIds /\ ~Switching
      /\ engine' = [engine EXCEPT ![Boss] = new]
      /\ apart' = (IF Settled(s) THEN {} ELSE apart) \cup (Members \ {s})
      /\ UNCHANGED <<radio, boot, masterRecord, slaveRecord>>
  <2>1. switches \in Nat /\ switches < MaxSwitches /\ MaxSwitches \in Nat /\ switches' = switches + 1
    BY <1>0, SwitchSizes DEF RequestChannelSwitch
  <2>2. switches' \in SwitchIds
    BY <2>1 DEF SwitchIds
  <2>3. QED BY <2>1, <2>2 DEF RequestChannelSwitch, Switching
<1>2. new \in Engines /\ new.mode = "MasterWaitAck" /\ new.want = c /\ new.corr = switches + 1 /\ new.peer = s
  BY <1>0, <1>1 DEF Engines, Modes
<1>3. f \in ControlFrames /\ f.kind = "Prepare" /\ f.want = c /\ f.corr = switches + 1
  BY <1>0, <1>1 DEF ControlFrame, ControlFrames
<1>4. heard' = heard \/ heard' = [heard EXCEPT ![s] = Push(heard[s], f)]
  BY <1>0 DEF RequestChannelSwitch, Queued, Push
<1> HIDE DEF new, f
<1>5. /\ engine'[Boss] = new /\ \A m \in Members : engine'[m] = engine[m] /\ m # Boss
      /\ heard'[Boss] = heard[Boss]
      /\ \A m \in Members : heard'[m] = heard[m] \/ (m = s /\ heard'[m] = Push(heard[m], f))
  BY <1>0, <1>1, <1>4 DEF SwitchTypes
<1>6. Push(heard[s], f) \in Seq(ControlFrames) /\ Len(Push(heard[s], f)) <= RxMax
  BY <1>0, <1>3, QueuePush DEF SwitchTypes
<1>7. SwitchTypes'
  <2>1. engine' \in [Devices -> Engines]
    BY <1>0, <1>1, <1>2 DEF SwitchTypes
  <2>2. heard' \in [Devices -> Seq(ControlFrames)] /\ \A d \in Devices : Len(heard'[d]) <= RxMax
    <3>1. heard \in [Devices -> Seq(ControlFrames)] /\ \A d \in Devices : Len(heard[d]) <= RxMax
      BY <1>0 DEF SwitchTypes
    <3>2. CASE heard' = heard
      BY <3>1, <3>2
    <3>3. CASE heard' = [heard EXCEPT ![s] = Push(heard[s], f)]
      BY <1>0, <1>6, <3>1, <3>3, QueueSet
    <3>4. QED BY <1>4, <3>2, <3>3
  <2>3. switches' \in 0 .. MaxSwitches
    BY <1>1, SwitchSizes DEF SwitchIds
  <2>4. QED BY <1>0, <1>1, <2>1, <2>2, <2>3 DEF SwitchTypes
<1>8. ASSUME NEW m \in Members
      PROVE  /\ Prepares(heard'[m], engine'[m].corr, switches')
             /\ \A i \in DOMAIN heard'[m] : heard'[m][i].corr = switches' => m = s /\ heard'[m][i] = f
  <2>1. Prepares(heard[m], engine[m].corr, switches) /\ engine[m].corr <= switches
    BY <1>0 DEF SwitchInv, Numbered
  <2>2. \A i \in DOMAIN heard[m] : heard[m][i].corr \in Nat /\ heard[m][i].corr <= switches
    <3>1. \A i \in DOMAIN heard[m] : heard[m][i] \in ControlFrames
      BY <1>0 
    <3>2. QED BY <2>1, <3>1, SwitchSizes DEF Prepares, ControlFrames, SwitchIds
  <2>3. CASE heard'[m] = heard[m]
    BY <1>0, <1>1, <1>5, <2>1, <2>2, <2>3 DEF Prepares
  <2>4. CASE m = s /\ heard'[m] = Push(heard[m], f)
    <3>1. Prepares(heard'[m], engine'[m].corr, switches')
      BY <1>0, <1>1, <1>3, <1>5, <2>1, <2>4, PreparesPush DEF SwitchTypes
    <3>2. \A i \in DOMAIN heard'[m] : heard'[m][i] = f \/ \E j \in DOMAIN heard[m] : heard'[m][i] = heard[m][j]
      BY <1>0, <1>3, <2>4, PushedFrom DEF SwitchTypes
    <3>3. QED BY <1>0, <1>1, <2>2, <2>4, <3>1, <3>2
  <2>5. QED BY <1>5, <2>3, <2>4
<1>9. Switching'
  BY <1>2, <1>5 DEF Switching
<1>10. \A i \in DOMAIN heard[Boss] : heard[Boss][i].corr \in Nat /\ heard[Boss][i].corr <= switches
  <2>1. \A i \in DOMAIN heard[Boss] : heard[Boss][i] \in ControlFrames
    BY <1>0
  <2>2. QED BY <2>1, SwitchSizes DEF SwitchInv, Numbered, AnswersTo, ControlFrames, SwitchIds
<1>11. Numbered'
  <2>1. ASSUME NEW d \in Devices
        PROVE  engine'[d].corr <= switches' /\ (engine'[d].mode # "Idle" => engine'[d].want \in Channels /\ engine'[d].corr # 0)
    <3>1. CASE d = Boss
      BY <1>0, <1>1, <1>2, <1>5, <3>1
    <3>2. CASE d \in Members
      BY <1>0, <1>1, <1>5, <3>2 DEF SwitchInv, Numbered
    <3>3. QED BY <3>1, <3>2 DEF Devices
  <2>2. \A m \in Members : engine'[m].mode \in {"Idle", "SlavePrepared"}
    BY <1>5 DEF SwitchInv, Numbered
  <2>3. AnswersTo(heard'[Boss], switches')
    BY <1>0, <1>1, <1>5, <1>10 DEF SwitchInv, Numbered, AnswersTo
  <2>4. engine'[Boss].corr = switches'
    BY <1>1, <1>2, <1>5
  <2>5. QED BY <1>8, <2>1, <2>2, <2>3, <2>4 DEF Numbered
<1>12. WantsAgree'
  <2>1. \A m \in Members : engine'[m].corr # switches'
    BY <1>0, <1>1, <1>5 DEF SwitchInv, Numbered
  <2>2. QED BY <1>2, <1>3, <1>5, <1>8, <2>1 DEF WantsAgree
<1>13. LastAnswers'
  BY <1>0, <1>1, <1>5, <1>10 DEF LastAnswers
<1>14. Together'
  BY <1>1, <1>2, <1>5, <1>9 DEF Together
<1>15. QED BY <1>7, <1>11, <1>12, <1>13, <1>14 DEF SwitchInv

(* The first frame of a device's queue, and the queue without it.           *)
LEMMA TakenQueues ==
  ASSUME SwitchTypes, NEW d \in Devices, heard[d] # << >>
  PROVE  /\ Taken(d) \in [Devices -> Seq(ControlFrames)] /\ \A e \in Devices : Len(Taken(d)[e]) <= RxMax
         /\ Taken(d)[d] = Tail(heard[d]) /\ \A e \in Devices : e # d => Taken(d)[e] = heard[e]
         /\ Head(heard[d]) \in ControlFrames /\ 1 \in DOMAIN heard[d] /\ Head(heard[d]) = heard[d][1]
<1>1. heard \in [Devices -> Seq(ControlFrames)] /\ \A e \in Devices : Len(heard[e]) <= RxMax
  BY DEF SwitchTypes
<1>2. /\ Tail(heard[d]) \in Seq(ControlFrames) /\ Len(Tail(heard[d])) <= RxMax
      /\ Head(heard[d]) \in ControlFrames /\ 1 \in DOMAIN heard[d] /\ Head(heard[d]) = heard[d][1]
  BY <1>1, QueueTail, SwitchSizes
<1>3. Taken(d) = [heard EXCEPT ![d] = Tail(heard[d])]
  BY DEF Taken
<1>4. QED BY <1>1, <1>2, <1>3, QueueSet

LEMMA PrepareKeeps ==
  ASSUME SwitchInv, NEW s \in Members, OnChannelSwitchPrepare(s)
  PROVE  SwitchInv'
<1> DEFINE f == Head(heard[s])
           new == [mode |-> "SlavePrepared", want |-> f.want, corr |-> f.corr, peer |-> f.from]
           ack == ControlFrame(s, "Ack", 0, f.corr)
<1>0. SwitchTypes /\ heard[s] # << >> /\ UNCHANGED <<radio, boot, masterRecord, slaveRecord, switches>>
      /\ heard[s] \in Seq(ControlFrames) /\ heard[Boss] \in Seq(ControlFrames) /\ Len(heard[Boss]) <= RxMax
      /\ s # Boss /\ s \in Devices /\ Boss \in Devices /\ Members \subseteq Devices /\ Boss \notin Members
      /\ switches \in Nat /\ engine[s].corr \in Nat /\ 0 \notin Channels
  BY EngineFacts DEF SwitchInv, SwitchTypes, OnChannelSwitchPrepare
<1>1. /\ f \in ControlFrames /\ f = heard[s][1] /\ 1 \in DOMAIN heard[s]
      /\ f.corr \in SwitchIds /\ f.corr \in Nat /\ f.corr # 0 /\ engine[s].corr < f.corr /\ f.corr <= switches /\ f.want \in Channels
      /\ Prepares(Tail(heard[s]), engine[s].corr, switches) /\ Prepares(Tail(heard[s]), f.corr, switches)
      /\ \A i \in DOMAIN Tail(heard[s]) : \E j \in DOMAIN heard[s] : Tail(heard[s])[i] = heard[s][j]
  <2>1. Prepares(heard[s], engine[s].corr, switches)
    BY DEF SwitchInv, Numbered
  <2>2. f \in ControlFrames /\ f = heard[s][1] /\ 1 \in DOMAIN heard[s]
    BY <1>0, TakenQueues
  <2>3. f.corr \in SwitchIds
    BY <2>2 DEF ControlFrames
  <2>4. f.corr \in Nat /\ f.corr # 0
    BY <2>3, SwitchSizes DEF SwitchIds
  <2>5. QED BY <1>0, <2>1, <2>2, <2>3, <2>4, PreparesTail
<1>2. new \in Engines /\ new.mode = "SlavePrepared" /\ new.want = f.want /\ new.corr = f.corr
  BY <1>1 DEF Engines, Modes, ControlFrames
<1>3. ack \in ControlFrames /\ ack.kind = "Ack" /\ ack.from = s /\ ack.corr = f.corr
  BY <1>0, <1>1 DEF ControlFrame, ControlFrames
<1>4. \/ engine' = [engine EXCEPT ![s] = new] /\ AnswerSent(Taken(s), ack)
      \/ engine' = engine /\ heard' = Taken(s) /\ apart' = apart
  BY DEF OnChannelSwitchPrepare, Take, Smoothly
<1> HIDE DEF f, new, ack
<1>5. /\ engine' \in [Devices -> Engines] /\ \A d \in Devices : d # s => engine'[d] = engine[d]
      /\ engine'[s] = new \/ engine'[s] = engine[s]
  BY <1>0, <1>2, <1>4 DEF SwitchTypes
<1>6. /\ heard' \in [Devices -> Seq(ControlFrames)] /\ \A d \in Devices : Len(heard'[d]) <= RxMax
      /\ apart \subseteq apart' /\ apart' \subseteq Members
      /\ heard'[s] = Tail(heard[s]) /\ \A m \in Members : m # s => heard'[m] = heard[m]
      /\ heard'[Boss] = heard[Boss] \/ heard'[Boss] = Push(heard[Boss], ack)
  <2>1. CASE AnswerSent(Taken(s), ack)
    BY <1>0, <1>3, <2>1, TakenQueues, AnswerSends
  <2>2. CASE heard' = Taken(s) /\ apart' = apart
    BY <1>0, <2>2, TakenQueues DEF SwitchTypes
  <2>3. QED BY <1>4, <2>1, <2>2
<1>7. SwitchTypes'
  BY <1>0, <1>5, <1>6 DEF SwitchTypes
<1>8. engine'[Boss] = engine[Boss] /\ (Switching' <=> Switching)
  BY <1>0, <1>5 DEF Switching
<1>9. AnswersTo(heard'[Boss], switches') /\ \A i \in DOMAIN heard'[Boss] :
          heard'[Boss][i].kind = "CommitAck" => \E j \in DOMAIN heard[Boss] : heard'[Boss][i] = heard[Boss][j]
  <2>1. AnswersTo(heard[Boss], switches)
    BY DEF SwitchInv, Numbered
  <2>2. CASE heard'[Boss] = heard[Boss]
    BY <1>0, <2>1, <2>2
  <2>3. CASE heard'[Boss] = Push(heard[Boss], ack)
    BY <1>0, <1>1, <1>3, <2>1, <2>3, AnswersPush
  <2>4. QED BY <1>6, <2>2, <2>3
<1>10. Numbered'
  <2>1. ASSUME NEW d \in Devices
        PROVE  engine'[d].corr <= switches' /\ (engine'[d].mode # "Idle" => engine'[d].want \in Channels /\ engine'[d].corr # 0)
    BY <1>0, <1>1, <1>2, <1>5 DEF SwitchInv, Numbered
  <2>2. ASSUME NEW m \in Members
        PROVE  engine'[m].mode \in {"Idle", "SlavePrepared"} /\ Prepares(heard'[m], engine'[m].corr, switches')
    <3>1. engine[m].mode \in {"Idle", "SlavePrepared"} /\ Prepares(heard[m], engine[m].corr, switches)
      BY DEF SwitchInv, Numbered
    <3>2. CASE m = s
      BY <1>0, <1>1, <1>2, <1>5, <1>6, <3>1, <3>2
    <3>3. CASE m # s
      BY <1>0, <1>5, <1>6, <3>1, <3>3
    <3>4. QED BY <3>2, <3>3
  <2>3. QED BY <1>0, <1>8, <1>9, <2>1, <2>2 DEF SwitchInv, Numbered
<1>11. WantsAgree'
  <2>1. SUFFICES ASSUME Switching, NEW m \in Members
                 PROVE  /\ \A i \in DOMAIN heard'[m] :
                             heard'[m][i].corr = switches => heard'[m][i].want = engine[Boss].want /\ engine[Boss].peer = m
                        /\ engine'[m].mode = "SlavePrepared" /\ engine'[m].corr = switches =>
                             engine'[m].want = engine[Boss].want /\ engine[Boss].peer = m
    BY <1>0, <1>8 DEF WantsAgree
  <2>2. /\ \A i \in DOMAIN heard[m] :
             heard[m][i].corr = switches => heard[m][i].want = engine[Boss].want /\ engine[Boss].peer = m
        /\ engine[m].mode = "SlavePrepared" /\ engine[m].corr = switches =>
             engine[m].want = engine[Boss].want /\ engine[Boss].peer = m
    BY <2>1 DEF SwitchInv, WantsAgree
  <2>3. CASE m = s
    <3>1. \A i \in DOMAIN heard'[m] : \E j \in DOMAIN heard[m] : heard'[m][i] = heard[m][j]
      <4>1. heard'[m] = Tail(heard[s]) /\ heard[m] = heard[s]
        BY <1>6, <2>3
      <4>2. QED BY <1>1, <4>1
    <3>2. f.corr = switches => f.want = engine[Boss].want /\ engine[Boss].peer = m
      BY <1>1, <2>2, <2>3
    <3>3. QED BY <1>2, <1>5, <2>2, <2>3, <3>1, <3>2
  <2>4. CASE m # s
    BY <1>0, <1>5, <1>6, <2>2, <2>4
  <2>5. QED BY <2>3, <2>4
<1>12. LastAnswers'
  <2>1. SUFFICES ASSUME Switching, NEW i \in DOMAIN heard'[Boss],
                        heard'[Boss][i].kind = "CommitAck", heard'[Boss][i].corr = switches,
                        NEW m, m = heard'[Boss][i].from
                 PROVE  /\ m = engine[Boss].peer /\ slaveRecord[m] = engine[Boss].want
                        /\ engine'[m].mode = "Idle" /\ heard'[m] = << >>
                        /\ m \notin apart' => radio[m] = engine[Boss].want /\ radio[Boss] = engine[Boss].want
    BY <1>0, <1>8 DEF LastAnswers
  <2>2. PICK j \in DOMAIN heard[Boss] : heard'[Boss][i] = heard[Boss][j]
    BY <1>9, <2>1
  <2>3. /\ m = engine[Boss].peer /\ slaveRecord[m] = engine[Boss].want
        /\ engine[m].mode = "Idle" /\ heard[m] = << >> /\ m \in Members
        /\ m \notin apart => radio[m] = engine[Boss].want /\ radio[Boss] = engine[Boss].want
    BY <2>1, <2>2 DEF SwitchInv, LastAnswers, Numbered, AnswersTo
  <2>4. m # s
    BY <1>0, <2>3
  <2>5. QED BY <1>0, <1>5, <1>6, <2>3, <2>4
<1>13. Together'
  <2>1. SUFFICES ASSUME NEW m \in Members \ apart'
                 PROVE  IF Switching THEN engine[Boss].peer = m
                        ELSE engine'[m].mode = "Idle" /\ radio[m] = radio[Boss] /\ heard'[m] = << >>
    BY <1>0, <1>8 DEF Together
  <2>2. IF Switching THEN engine[Boss].peer = m
        ELSE engine[m].mode = "Idle" /\ radio[m] = radio[Boss] /\ heard[m] = << >>
    BY <1>6, <2>1 DEF SwitchInv, Together
  <2>3. QED BY <1>0, <1>5, <1>6, <2>2
<1>14. QED BY <1>7, <1>10, <1>11, <1>12, <1>13 DEF SwitchInv

(* A device that gives up, its transport where it was or already moved.     *)
LEMMA GivingUpKeeps ==
  ASSUME SwitchInv, NEW d \in Devices, engine[d].mode # "Idle", engine' = Idled(d),
         radio' \in {radio, [radio EXCEPT ![d] = engine[d].want]},
         apart' = apart \cup ({d, engine[d].peer} \cap Members),
         UNCHANGED <<boot, masterRecord, slaveRecord, heard, switches>>
  PROVE  SwitchInv'
<1>1. /\ SwitchTypes /\ Boss \in Devices /\ Boss \notin Members /\ Members \subseteq Devices
      /\ engine' \in [Devices -> Engines] /\ engine'[d].mode = "Idle" /\ engine'[d].corr = engine[d].corr
      /\ \A e \in Devices : e # d => engine'[e] = engine[e]
  BY EngineFacts DEF SwitchInv
<1>2. engine[d].want \in Channels
  BY DEF SwitchInv, Numbered
<1>3. radio' \in [Devices -> Channels] /\ \A e \in Devices : e # d => radio'[e] = radio[e]
  BY <1>1, <1>2 DEF SwitchTypes
<1>4. SwitchTypes'
  BY <1>1, <1>3 DEF SwitchTypes
<1>5. \A e \in Devices : engine'[e].corr = engine[e].corr /\ (engine'[e].mode # "Idle" => engine'[e] = engine[e])
  BY <1>1
<1>6. Numbered'
  BY <1>1, <1>5 DEF SwitchInv, Numbered, Switching
<1>7. CASE d = Boss
  <2>1. ~Switching' /\ Switching
    BY <1>1, <1>7 DEF Switching
  <2>2. \A m \in Members \ apart : engine[Boss].peer = m
    BY <2>1 DEF SwitchInv, Together
  <2>3. apart' = Members
    BY <1>1, <1>7, <2>2 DEF SwitchTypes
  <2>4. QED BY <1>4, <1>6, <2>1, <2>3 DEF SwitchInv, WantsAgree, LastAnswers, Together
<1>8. CASE d # Boss
  <2>1. engine'[Boss] = engine[Boss] /\ radio'[Boss] = radio[Boss] /\ (Switching' <=> Switching) /\ d \in Members
    BY <1>1, <1>3, <1>8 DEF Switching, Devices
  <2>2. WantsAgree'
    BY <1>1, <1>5, <2>1 DEF SwitchInv, WantsAgree
  <2>3. LastAnswers'
    <3>1. SUFFICES ASSUME Switching, NEW i \in DOMAIN heard[Boss],
                          heard[Boss][i].kind = "CommitAck", heard[Boss][i].corr = switches,
                          NEW m, m = heard[Boss][i].from
                   PROVE  /\ m = engine[Boss].peer /\ slaveRecord[m] = engine[Boss].want
                          /\ engine'[m].mode = "Idle" /\ heard[m] = << >>
                          /\ m \notin apart' => radio'[m] = engine[Boss].want /\ radio[Boss] = engine[Boss].want
      BY <2>1 DEF LastAnswers
    <3>2. /\ m = engine[Boss].peer /\ slaveRecord[m] = engine[Boss].want
          /\ engine[m].mode = "Idle" /\ heard[m] = << >> /\ m \in Members
          /\ m \notin apart => radio[m] = engine[Boss].want /\ radio[Boss] = engine[Boss].want
      BY <3>1 DEF SwitchInv, LastAnswers, Numbered, AnswersTo
    <3>3. m # d
      BY <3>2
    <3>4. QED BY <1>1, <1>3, <3>2, <3>3
  <2>4. Together'
    <3>1. ASSUME NEW m \in Members \ apart'
          PROVE  m \notin apart /\ engine'[m] = engine[m] /\ radio'[m] = radio[m]
      BY <1>1, <1>3, <2>1
    <3>2. QED BY <2>1, <3>1 DEF SwitchInv, Together
  <2>5. QED BY <1>4, <1>6, <2>2, <2>3, <2>4 DEF SwitchInv
<1>9. QED BY <1>7, <1>8

LEMMA RestartKeeps ==
  ASSUME SwitchInv, NEW d \in Devices, Restart(d)
  PROVE  SwitchInv'
<1>1. /\ SwitchTypes /\ Boss \in Devices /\ Boss \notin Members /\ Members \subseteq Devices /\ Home \in Channels
      /\ switches \in Nat
  BY EngineFacts DEF SwitchInv
<1>2. /\ engine' = [engine EXCEPT ![d] = Resting] /\ heard' = [heard EXCEPT ![d] = << >>]
      /\ apart' = apart \cup IF d = Boss THEN Members ELSE {d}
      /\ UNCHANGED <<masterRecord, slaveRecord, switches>>
  BY DEF Restart, Mishap
<1>3. PICK c \in {boot[d], Home} : radio' = [radio EXCEPT ![d] = c] /\ boot' = [boot EXCEPT ![d] = c]
  BY DEF Restart
<1>4. c \in Channels
  BY <1>1 DEF SwitchTypes
<1>5. radio' \in [Devices -> Channels] /\ boot' \in [Devices -> Channels] /\ \A e \in Devices : e # d => radio'[e] = radio[e]
  BY <1>1, <1>3, <1>4 DEF SwitchTypes
<1>6. Resting \in Engines /\ Resting.mode = "Idle" /\ Resting.corr = 0
  BY <1>1 DEF Resting, Engines, Modes
<1>7. engine' \in [Devices -> Engines] /\ engine'[d] = Resting /\ \A e \in Devices : e # d => engine'[e] = engine[e]
  BY <1>1, <1>2, <1>6 DEF SwitchTypes
<1>8. /\ heard' \in [Devices -> Seq(ControlFrames)] /\ \A e \in Devices : Len(heard'[e]) <= RxMax
      /\ heard'[d] = << >> /\ \A e \in Devices : e # d => heard'[e] = heard[e]
  <2>1. << >> \in Seq(ControlFrames) /\ Len(<< >>) <= RxMax
    BY SwitchSizes
  <2>2. QED BY <1>1, <1>2, <2>1, QueueSet DEF SwitchTypes
<1>9. apart' \subseteq Members
  BY <1>1, <1>2 DEF SwitchTypes, Devices
<1>10. SwitchTypes'
  BY <1>1, <1>2, <1>5, <1>7, <1>8, <1>9 DEF SwitchTypes
<1>11. DOMAIN << >> = {}
  OBVIOUS
<1>12. Numbered'
  <2>1. \A e \in Devices : engine'[e].corr <= switches /\ (engine'[e].mode # "Idle" => engine'[e].want \in Channels /\ engine'[e].corr # 0)
    BY <1>1, <1>6, <1>7 DEF SwitchInv, Numbered
  <2>2. Switching' => engine'[Boss].corr = switches
    BY <1>1, <1>6, <1>7 DEF SwitchInv, Numbered, Switching
  <2>3. ASSUME NEW m \in Members
        PROVE  engine'[m].mode \in {"Idle", "SlavePrepared"} /\ Prepares(heard'[m], engine'[m].corr, switches)
    <3>1. engine[m].mode \in {"Idle", "SlavePrepared"} /\ Prepares(heard[m], engine[m].corr, switches)
      BY DEF SwitchInv, Numbered
    <3>2. CASE m = d
      BY <1>6, <1>7, <1>8, <1>11, <3>2 DEF Prepares
    <3>3. CASE m # d
      BY <1>1, <1>7, <1>8, <3>1, <3>3
    <3>4. QED BY <3>2, <3>3
  <2>4. AnswersTo(heard'[Boss], switches)
    BY <1>1, <1>8, <1>11 DEF AnswersTo, SwitchInv, Numbered
  <2>5. QED BY <1>2, <2>1, <2>2, <2>3, <2>4 DEF Numbered
<1>13. CASE d = Boss
  <2>1. ~Switching' /\ apart' = Members
    BY <1>1, <1>2, <1>6, <1>7, <1>13 DEF Switching, SwitchTypes
  <2>2. QED BY <1>10, <1>12, <2>1 DEF SwitchInv, WantsAgree, LastAnswers, Together
<1>14. CASE d # Boss
  <2>1. /\ engine'[Boss] = engine[Boss] /\ radio'[Boss] = radio[Boss] /\ heard'[Boss] = heard[Boss]
        /\ (Switching' <=> Switching) /\ apart' = apart \cup {d} /\ d \in Members
    BY <1>1, <1>2, <1>5, <1>7, <1>8, <1>14 DEF Switching, Devices
  <2>2. WantsAgree'
    <3>1. ASSUME NEW m \in Members
          PROVE  /\ engine'[m].mode # "Idle" => engine'[m] = engine[m]
                 /\ heard'[m] = heard[m] \/ heard'[m] = << >>
      BY <1>1, <1>6, <1>7, <1>8
    <3>2. QED BY <1>2, <1>11, <2>1, <3>1 DEF SwitchInv, WantsAgree
  <2>3. LastAnswers'
    <3>1. SUFFICES ASSUME Switching, NEW i \in DOMAIN heard[Boss],
                          heard[Boss][i].kind = "CommitAck", heard[Boss][i].corr = switches,
                          NEW m, m = heard[Boss][i].from
                   PROVE  /\ m = engine[Boss].peer /\ slaveRecord[m] = engine[Boss].want
                          /\ engine'[m].mode = "Idle" /\ heard'[m] = << >>
                          /\ m \notin apart' => radio'[m] = engine[Boss].want /\ radio[Boss] = engine[Boss].want
      BY <1>2, <2>1 DEF LastAnswers
    <3>2. /\ m = engine[Boss].peer /\ slaveRecord[m] = engine[Boss].want
          /\ engine[m].mode = "Idle" /\ heard[m] = << >> /\ m \in Members
          /\ m \notin apart => radio[m] = engine[Boss].want /\ radio[Boss] = engine[Boss].want
      BY <3>1 DEF SwitchInv, LastAnswers, Numbered, AnswersTo
    <3>3. CASE m = d
      BY <1>6, <1>7, <1>8, <2>1, <3>2, <3>3
    <3>4. CASE m # d
      BY <1>1, <1>5, <1>7, <1>8, <2>1, <3>2, <3>4
    <3>5. QED BY <3>3, <3>4
  <2>4. Together'
    <3>1. ASSUME NEW m \in Members \ apart'
          PROVE  m \notin apart /\ engine'[m] = engine[m] /\ radio'[m] = radio[m] /\ heard'[m] = heard[m]
      BY <1>1, <1>5, <1>7, <1>8, <2>1
    <3>2. QED BY <2>1, <3>1 DEF SwitchInv, Together
  <2>5. QED BY <1>10, <1>12, <2>2, <2>3, <2>4 DEF SwitchInv
<1>15. QED BY <1>13, <1>14

(* An answer leaves the master's queue, which may move its engine on.       *)
LEMMA AckKeeps ==
  ASSUME SwitchInv, OnChannelSwitchAck
  PROVE  SwitchInv'
<1>1. /\ SwitchTypes /\ Boss \in Devices /\ Boss \notin Members /\ Members \subseteq Devices
      /\ heard[Boss] # << >> /\ heard' = Taken(Boss)
      /\ UNCHANGED <<radio, boot, masterRecord, slaveRecord, switches, apart>>
  BY EngineFacts DEF SwitchInv, OnChannelSwitchAck, Take, counters
<1>2. /\ heard' \in [Devices -> Seq(ControlFrames)] /\ \A e \in Devices : Len(heard'[e]) <= RxMax
      /\ heard'[Boss] = Tail(heard[Boss]) /\ \A m \in Members : heard'[m] = heard[m]
  BY <1>1, TakenQueues
<1>3. AnswersTo(heard'[Boss], switches) /\ \A i \in DOMAIN heard'[Boss] : \E j \in DOMAIN heard[Boss] : heard'[Boss][i] = heard[Boss][j]
  BY <1>1, <1>2, AnswersTail DEF SwitchInv, Numbered, SwitchTypes
<1>4. /\ engine' \in [Devices -> Engines] /\ \A m \in Members : engine'[m] = engine[m]
      /\ engine'[Boss].want = engine[Boss].want /\ engine'[Boss].corr = engine[Boss].corr /\ engine'[Boss].peer = engine[Boss].peer
      /\ (Switching' <=> Switching)
  <2>1. CASE engine' = engine
    BY <1>1, <2>1 DEF SwitchTypes, Switching
  <2>2. CASE engine[Boss].mode = "MasterWaitAck" /\ engine' = [engine EXCEPT ![Boss].mode = "MasterWaitCommit"]
    <3>1. "MasterWaitCommit" \in Modes /\ engine[Boss] \in Engines
      BY <1>1 DEF Modes, SwitchTypes
    <3>2. engine'[Boss] = [engine[Boss] EXCEPT !.mode = "MasterWaitCommit"] /\ engine'[Boss] \in Engines
      BY <1>1, <2>2, <3>1 DEF SwitchTypes, Engines
    <3>3. /\ engine'[Boss].mode = "MasterWaitCommit" /\ engine'[Boss].want = engine[Boss].want
          /\ engine'[Boss].corr = engine[Boss].corr /\ engine'[Boss].peer = engine[Boss].peer
      BY <3>1, <3>2 DEF Engines
    <3>4. QED BY <1>1, <2>2, <3>2, <3>3 DEF SwitchTypes, Switching
  <2>3. QED BY <2>1, <2>2 DEF OnChannelSwitchAck, Awaits
<1>5. SwitchTypes'
  BY <1>1, <1>2, <1>4 DEF SwitchTypes
<1>6. Numbered'
  <2>1. ASSUME NEW d \in Devices
        PROVE  engine'[d].corr <= switches /\ (engine'[d].mode # "Idle" => engine'[d].want \in Channels /\ engine'[d].corr # 0)
    <3>1. CASE d = Boss
      BY <1>1, <1>4, <3>1 DEF SwitchInv, Numbered, Switching
    <3>2. CASE d \in Members
      BY <1>1, <1>4, <3>2 DEF SwitchInv, Numbered
    <3>3. QED BY <3>1, <3>2 DEF Devices
  <2>2. QED BY <1>1, <1>2, <1>3, <1>4, <2>1 DEF SwitchInv, Numbered
<1>7. WantsAgree'
  BY <1>1, <1>2, <1>4 DEF SwitchInv, WantsAgree
<1>8. LastAnswers'
  <2>1. SUFFICES ASSUME Switching, NEW i \in DOMAIN heard'[Boss],
                        heard'[Boss][i].kind = "CommitAck", heard'[Boss][i].corr = switches,
                        NEW m, m = heard'[Boss][i].from
                 PROVE  /\ m = engine[Boss].peer /\ slaveRecord[m] = engine[Boss].want
                        /\ engine'[m].mode = "Idle" /\ heard'[m] = << >>
                        /\ m \notin apart => radio[m] = engine[Boss].want /\ radio[Boss] = engine[Boss].want
    BY <1>1, <1>4 DEF LastAnswers
  <2>2. PICK j \in DOMAIN heard[Boss] : heard'[Boss][i] = heard[Boss][j]
    BY <1>3
  <2>3. /\ m = engine[Boss].peer /\ slaveRecord[m] = engine[Boss].want
        /\ engine[m].mode = "Idle" /\ heard[m] = << >> /\ m \in Members
        /\ m \notin apart => radio[m] = engine[Boss].want /\ radio[Boss] = engine[Boss].want
    BY <2>1, <2>2 DEF SwitchInv, LastAnswers, Numbered, AnswersTo
  <2>4. QED BY <1>2, <1>4, <2>3
<1>9. Together'
  BY <1>1, <1>2, <1>4 DEF SwitchInv, Together
<1>10. QED BY <1>5, <1>6, <1>7, <1>8, <1>9 DEF SwitchInv

(* The last answer: the master keeps the channel, and so has the slave.     *)
LEMMA CommitAckKeeps ==
  ASSUME SwitchInv, OnChannelSwitchCommitAck
  PROVE  /\ SwitchInv'
         /\ \A s \in Members : masterRecord'[s] # masterRecord[s] => slaveRecord[s] = masterRecord'[s]
<1> DEFINE f == Head(heard[Boss])
<1>1. /\ SwitchTypes /\ Boss \in Devices /\ Boss \notin Members /\ Members \subseteq Devices
      /\ heard[Boss] # << >> /\ heard' = Taken(Boss) /\ f.kind = "CommitAck"
      /\ UNCHANGED <<radio, slaveRecord, switches, apart>>
  BY EngineFacts DEF SwitchInv, OnChannelSwitchCommitAck, Take, counters
<1>2. /\ heard' \in [Devices -> Seq(ControlFrames)] /\ \A e \in Devices : Len(heard'[e]) <= RxMax
      /\ heard'[Boss] = Tail(heard[Boss]) /\ \A m \in Members : heard'[m] = heard[m]
      /\ 1 \in DOMAIN heard[Boss] /\ f = heard[Boss][1]
  BY <1>1, TakenQueues
<1>3. AnswersTo(heard'[Boss], switches) /\ \A i \in DOMAIN heard'[Boss] : \E j \in DOMAIN heard[Boss] : heard'[Boss][i] = heard[Boss][j]
  BY <1>1, <1>2, AnswersTail DEF SwitchInv, Numbered, SwitchTypes
<1>4. CASE ~Awaits("MasterWaitCommit", f)
  <2>1. UNCHANGED <<masterRecord, boot, engine>>
    BY <1>4 DEF OnChannelSwitchCommitAck
  <2>2. SwitchTypes' /\ (Switching' <=> Switching)
    BY <1>1, <1>2, <2>1 DEF SwitchTypes, Switching
  <2>3. Numbered'
    BY <1>1, <1>2, <1>3, <2>1, <2>2 DEF SwitchInv, Numbered
  <2>4. WantsAgree'
    BY <1>1, <1>2, <2>1, <2>2 DEF SwitchInv, WantsAgree
  <2>5. LastAnswers'
    <3>1. SUFFICES ASSUME Switching, NEW i \in DOMAIN heard'[Boss],
                          heard'[Boss][i].kind = "CommitAck", heard'[Boss][i].corr = switches,
                          NEW m, m = heard'[Boss][i].from
                   PROVE  /\ m = engine[Boss].peer /\ slaveRecord[m] = engine[Boss].want
                          /\ engine[m].mode = "Idle" /\ heard'[m] = << >>
                          /\ m \notin apart => radio[m] = engine[Boss].want /\ radio[Boss] = engine[Boss].want
      BY <1>1, <2>1, <2>2 DEF LastAnswers
    <3>2. PICK j \in DOMAIN heard[Boss] : heard'[Boss][i] = heard[Boss][j]
      BY <1>3
    <3>3. /\ m = engine[Boss].peer /\ slaveRecord[m] = engine[Boss].want
          /\ engine[m].mode = "Idle" /\ heard[m] = << >> /\ m \in Members
          /\ m \notin apart => radio[m] = engine[Boss].want /\ radio[Boss] = engine[Boss].want
      BY <3>1, <3>2 DEF SwitchInv, LastAnswers, Numbered, AnswersTo
    <3>4. QED BY <1>2, <3>3
  <2>6. Together'
    BY <1>1, <1>2, <2>1, <2>2 DEF SwitchInv, Together
  <2>7. QED BY <2>1, <2>2, <2>3, <2>4, <2>5, <2>6 DEF SwitchInv
<1>5. CASE Awaits("MasterWaitCommit", f)
  <2> DEFINE m == f.from
  <2>1. /\ Switching /\ engine' = Idled(Boss)
        /\ masterRecord' = [masterRecord EXCEPT ![m] = engine[Boss].want]
        /\ boot' = [boot EXCEPT ![Boss] = engine[Boss].want]
    BY <1>5 DEF OnChannelSwitchCommitAck, Awaits, Switching
  <2>2. f.corr = switches
    BY <1>5, <2>1 DEF Awaits, SwitchInv, Numbered
  <2>3. /\ m = engine[Boss].peer /\ slaveRecord[m] = engine[Boss].want /\ m \in Members
        /\ engine[m].mode = "Idle" /\ heard[m] = << >>
        /\ m \notin apart => radio[m] = engine[Boss].want /\ radio[Boss] = engine[Boss].want
    BY <1>1, <1>2, <2>1, <2>2 DEF SwitchInv, LastAnswers, Numbered, AnswersTo
  <2> HIDE DEF m, f
  <2>4. engine[Boss].want \in Channels
    BY <1>1, <2>1 DEF SwitchInv, Numbered, Switching
  <2>5. /\ engine' \in [Devices -> Engines] /\ engine'[Boss].mode = "Idle" /\ engine'[Boss].corr = engine[Boss].corr
        /\ \A s \in Members : engine'[s] = engine[s]
    BY <1>1, <2>1, EngineFacts
  <2>6. ~Switching'
    BY <2>5 DEF Switching
  <2>7. SwitchTypes'
    BY <1>1, <1>2, <2>1, <2>4, <2>5 DEF SwitchTypes
  <2>8. Numbered'
    <3>1. ASSUME NEW d \in Devices
          PROVE  engine'[d].corr <= switches /\ (engine'[d].mode # "Idle" => engine'[d].want \in Channels /\ engine'[d].corr # 0)
      <4>1. CASE d = Boss
        BY <2>5, <4>1 DEF SwitchInv, Numbered
      <4>2. CASE d \in Members
        BY <2>5, <4>2 DEF SwitchInv, Numbered
      <4>3. QED BY <4>1, <4>2 DEF Devices
    <3>2. QED BY <1>1, <1>2, <1>3, <2>5, <2>6, <3>1 DEF SwitchInv, Numbered
  <2>9. Together'
    <3>1. ASSUME NEW s \in Members \ apart  PROVE s = m
      BY <2>1, <2>3 DEF SwitchInv, Together
    <3>2. QED BY <1>1, <1>2, <2>3, <2>5, <2>6, <3>1 DEF Together
  <2>10. \A s \in Members : masterRecord'[s] # masterRecord[s] => slaveRecord[s] = masterRecord'[s]
    BY <1>1, <2>1, <2>3 DEF SwitchTypes
  <2>11. QED BY <2>6, <2>7, <2>8, <2>9, <2>10 DEF SwitchInv, WantsAgree, LastAnswers
<1>6. QED BY <1>4, <1>5

(* The slave moves, keeps the channel and answers on it.                    *)
LEMMA MovedKeeps ==
  ASSUME SwitchInv, NEW s \in Members, engine[s].mode = "SlavePrepared",
         radio' = [radio EXCEPT ![s] = engine[s].want], boot' = [boot EXCEPT ![s] = engine[s].want],
         slaveRecord' = [slaveRecord EXCEPT ![s] = engine[s].want], engine' = Idled(s),
         AnswerSent(heard, ControlFrame(s, "CommitAck", 0, engine[s].corr)),
         UNCHANGED <<masterRecord, switches>>
  PROVE  SwitchInv'
<1> DEFINE c == engine[s].want
           last == ControlFrame(s, "CommitAck", 0, engine[s].corr)
<1>1. /\ SwitchTypes /\ Boss \in Devices /\ Boss \notin Members /\ Members \subseteq Devices /\ s \in Devices /\ s # Boss
      /\ engine' \in [Devices -> Engines] /\ engine'[s].mode = "Idle" /\ engine'[s].corr = engine[s].corr
      /\ \A e \in Devices : e # s => engine'[e] = engine[e]
      /\ switches \in Nat /\ engine[s] \in Engines
  BY EngineFacts DEF SwitchInv
<1>2. c \in Channels /\ engine[s].corr <= switches /\ Prepares(heard[s], engine[s].corr, switches)
  BY <1>1 DEF SwitchInv, Numbered
<1>3. AnswerSent(heard, last) /\ heard \in [Devices -> Seq(ControlFrames)] /\ \A d \in Devices : Len(heard[d]) <= RxMax
  BY <1>1 DEF SwitchTypes
<1>4. last \in ControlFrames /\ last.kind = "CommitAck" /\ last.from = s /\ last.corr = engine[s].corr
  <2>1. engine[s].corr \in SwitchIds
    BY <1>1 DEF SwitchInv, Numbered, Engines
  <2>2. QED BY <1>1, <2>1 DEF ControlFrame, ControlFrames
<1> HIDE DEF c, last
<1>5. radio' \in [Devices -> Channels] /\ boot' \in [Devices -> Channels] /\ slaveRecord' \in [Members -> Channels \cup {0}]
      /\ radio'[s] = c /\ slaveRecord'[s] = c /\ \A e \in Devices : e # s => radio'[e] = radio[e]
      /\ \A m \in Members : m # s => slaveRecord'[m] = slaveRecord[m]
  BY <1>1, <1>2 DEF SwitchTypes, c
<1>6. /\ heard' \in [Devices -> Seq(ControlFrames)] /\ \A d \in Devices : Len(heard'[d]) <= RxMax
      /\ apart \subseteq apart' /\ apart' \subseteq Members
      /\ \A m \in Members : heard'[m] = heard[m]
      /\ \/ heard'[Boss] = heard[Boss] /\ s \in apart'
         \/ heard'[Boss] = Push(heard[Boss], last) /\ radio[Boss] = c
  BY <1>1, <1>3, <1>4, <1>5, AnswerSends
<1>7. SwitchTypes'
  BY <1>1, <1>5, <1>6 DEF SwitchTypes
<1>8. engine'[Boss] = engine[Boss] /\ radio'[Boss] = radio[Boss] /\ (Switching' <=> Switching)
  BY <1>1, <1>5 DEF Switching
<1>9. /\ AnswersTo(heard'[Boss], switches)
      /\ \A i \in DOMAIN heard'[Boss] :
           \/ heard'[Boss][i] = last /\ (s \notin apart' => radio[Boss] = c)
           \/ \E j \in DOMAIN heard[Boss] : heard'[Boss][i] = heard[Boss][j]
  <2>1. AnswersTo(heard[Boss], switches) /\ heard[Boss] \in Seq(ControlFrames) /\ Len(heard[Boss]) <= RxMax
    BY <1>1, <1>3 DEF SwitchInv, Numbered
  <2>2. CASE heard'[Boss] = heard[Boss]
    BY <2>1, <2>2
  <2>3. CASE heard'[Boss] = Push(heard[Boss], last) /\ radio[Boss] = c
    BY <1>2, <1>4, <2>1, <2>3, AnswersPush
  <2>4. QED BY <1>6, <2>2, <2>3
<1>10. Numbered'
  <2>1. \A e \in Devices : engine'[e].corr = engine[e].corr /\ (engine'[e].mode # "Idle" => engine'[e] = engine[e])
    BY <1>1
  <2>2. QED BY <1>1, <1>6, <1>8, <1>9, <2>1 DEF SwitchInv, Numbered
<1>11. WantsAgree'
  <2>1. ASSUME NEW m \in Members, engine'[m].mode = "SlavePrepared"  PROVE engine'[m] = engine[m]
    BY <1>1, <2>1
  <2>2. SUFFICES ASSUME Switching, NEW m \in Members
                 PROVE  /\ \A i \in DOMAIN heard[m] :
                             heard[m][i].corr = switches => heard[m][i].want = engine[Boss].want /\ engine[Boss].peer = m
                        /\ engine'[m].mode = "SlavePrepared" /\ engine'[m].corr = switches =>
                             engine'[m].want = engine[Boss].want /\ engine[Boss].peer = m
    BY <1>6, <1>8 DEF WantsAgree
  <2>3. QED BY <2>1, <2>2 DEF SwitchInv, WantsAgree
<1>12. LastAnswers'
  <2>1. SUFFICES ASSUME Switching, NEW i \in DOMAIN heard'[Boss],
                        heard'[Boss][i].kind = "CommitAck", heard'[Boss][i].corr = switches,
                        NEW m, m = heard'[Boss][i].from
                 PROVE  /\ m = engine[Boss].peer /\ slaveRecord'[m] = engine[Boss].want
                        /\ engine'[m].mode = "Idle" /\ heard'[m] = << >>
                        /\ m \notin apart' => radio'[m] = engine[Boss].want /\ radio[Boss] = engine[Boss].want
    BY <1>8 DEF LastAnswers
  <2>2. CASE heard'[Boss][i] = last /\ (s \notin apart' => radio[Boss] = c)
    <3>1. m = s /\ engine[s].corr = switches
      BY <1>4, <2>1, <2>2
    <3>2. c = engine[Boss].want /\ engine[Boss].peer = s
      BY <1>1, <2>1, <3>1 DEF SwitchInv, WantsAgree, c
    <3>3. heard[s] = << >>
      <4>1. heard[s] \in Seq(ControlFrames)
        BY <1>1, <1>3
      <4>2. ASSUME heard[s] # << >>  PROVE FALSE
        BY <1>1, <1>2, <3>1, <4>1, <4>2, PreparesTail
      <4>3. QED BY <4>2
    <3>4. QED BY <1>1, <1>5, <1>6, <2>2, <3>1, <3>2, <3>3
  <2>3. CASE \E j \in DOMAIN heard[Boss] : heard'[Boss][i] = heard[Boss][j]
    <3>1. PICK j \in DOMAIN heard[Boss] : heard'[Boss][i] = heard[Boss][j]
      BY <2>3
    <3>2. /\ m = engine[Boss].peer /\ slaveRecord[m] = engine[Boss].want
          /\ engine[m].mode = "Idle" /\ heard[m] = << >> /\ m \in Members
          /\ m \notin apart => radio[m] = engine[Boss].want /\ radio[Boss] = engine[Boss].want
      BY <2>1, <3>1 DEF SwitchInv, LastAnswers, Numbered, AnswersTo
    <3>3. m # s
      BY <3>2
    <3>4. QED BY <1>1, <1>5, <1>6, <3>2, <3>3
  <2>4. QED BY <1>9, <2>2, <2>3
<1>13. Together'
  <2>1. SUFFICES ASSUME NEW m \in Members \ apart'
                 PROVE  IF Switching THEN engine[Boss].peer = m
                        ELSE engine'[m].mode = "Idle" /\ radio'[m] = radio[Boss] /\ heard'[m] = << >>
    BY <1>8 DEF Together
  <2>2. IF Switching THEN engine[Boss].peer = m
        ELSE engine[m].mode = "Idle" /\ radio[m] = radio[Boss] /\ heard[m] = << >>
    BY <1>6, <2>1 DEF SwitchInv, Together
  <2>3. ~Switching => m # s
    BY <2>2
  <2>4. QED BY <1>1, <1>5, <1>6, <2>2, <2>3
<1>14. QED BY <1>1, <1>7, <1>10, <1>11, <1>12, <1>13 DEF SwitchInv

(* The master's radio goes where the switch wants it, or where all are sent.*)
LEMMA MasterMovesKeeps ==
  ASSUME SwitchInv, NEW c \in Channels, radio' = [radio EXCEPT ![Boss] = c],
         \/ Switching /\ c = engine[Boss].want /\ apart' = apart
         \/ apart' = apart \cup Members,
         boot' \in [Devices -> Channels], masterRecord' \in [Members -> Channels \cup {0}],
         UNCHANGED <<engine, slaveRecord, heard, switches>>
  PROVE  SwitchInv'
<1>1. SwitchTypes /\ Boss \in Devices /\ Boss \notin Members /\ Members \subseteq Devices
  BY EngineFacts DEF SwitchInv
<1>2. radio' \in [Devices -> Channels] /\ radio'[Boss] = c /\ \A m \in Members : radio'[m] = radio[m]
  BY <1>1 DEF SwitchTypes
<1>3. SwitchTypes'
  BY <1>1, <1>2 DEF SwitchTypes
<1>4. Numbered' /\ WantsAgree' /\ (Switching' <=> Switching)
  BY DEF SwitchInv, Numbered, WantsAgree, Switching
<1>5. \A i \in DOMAIN heard[Boss] : heard[Boss][i].from \in Members
  BY DEF SwitchInv, Numbered, AnswersTo
<1>6. LastAnswers' /\ Together'
  BY <1>1, <1>2, <1>4, <1>5 DEF SwitchInv, LastAnswers, Together
<1>7. QED BY <1>3, <1>4, <1>6 DEF SwitchInv

LEMMA SwitchStep == SwitchInv /\ [SwitchNext]_switchVars => SwitchInv'
<1> SUFFICES ASSUME SwitchInv, [SwitchNext]_switchVars  PROVE SwitchInv'
  OBVIOUS
<1>0. Boss \in Devices /\ Members \subseteq Devices
  BY EngineFacts DEF SwitchInv
<1>1. ASSUME NEW s \in Members, NEW c \in Channels, RequestChannelSwitch(s, c)  PROVE SwitchInv'
  BY <1>1, RequestKeeps
<1>2. ASSUME NEW s \in Members, OnChannelSwitchPrepare(s)  PROVE SwitchInv'
  BY <1>2, PrepareKeeps
<1>3. ASSUME NEW d \in Devices, engine[d].mode # "Idle", SetChannelFails(d)  PROVE SwitchInv'
  <2>1. /\ engine' = Idled(d) /\ radio' \in {radio, [radio EXCEPT ![d] = engine[d].want]}
        /\ apart' = apart \cup ({d, engine[d].peer} \cap Members)
        /\ UNCHANGED <<boot, masterRecord, slaveRecord, heard, switches>>
    BY <1>3 DEF SetChannelFails, Mishap
  <2>2. QED BY <1>3, <2>1, GivingUpKeeps
<1>4. ASSUME NEW s \in Members, SlaveMoves(s)  PROVE SwitchInv'
  <2>1. engine[s].mode = "SlavePrepared"
    BY <1>4 DEF SlaveMoves
  <2>2. CASE SetChannelFails(s)
    BY <1>0, <1>3, <2>1, <2>2
  <2>3. CASE ~SetChannelFails(s)
    BY <1>4, <2>1, <2>3, MovedKeeps DEF SlaveMoves
  <2>4. QED BY <2>2, <2>3
<1>5. CASE OnChannelSwitchAck
  BY <1>5, AckKeeps
<1>6. CASE OnChannelSwitchCommitAck
  BY <1>6, CommitAckKeeps
<1>7. CASE MasterMoves
  <2>1. engine[Boss].mode = "MasterWaitCommit" /\ Switching
    BY <1>7 DEF MasterMoves, Switching
  <2>2. CASE SetChannelFails(Boss)
    BY <1>0, <1>3, <2>1, <2>2
  <2>3. CASE ~SetChannelFails(Boss)
    <3>1. /\ radio' = [radio EXCEPT ![Boss] = engine[Boss].want]
          /\ UNCHANGED <<engine, boot, masterRecord, slaveRecord, heard, switches, apart>>
      BY <1>7, <2>3 DEF MasterMoves, counters
    <3>2. /\ engine[Boss].want \in Channels
          /\ boot \in [Devices -> Channels] /\ masterRecord \in [Members -> Channels \cup {0}]
      BY <1>0, <2>1 DEF SwitchInv, SwitchTypes, Numbered
    <3>3. QED BY <2>1, <3>1, <3>2, MasterMovesKeeps
  <2>4. QED BY <2>2, <2>3
<1>8. ASSUME NEW d \in Devices, Lapses(d)  PROVE SwitchInv'
  <2>1. /\ engine[d].mode # "Idle" /\ engine' = Idled(d) /\ radio' = radio
        /\ apart' = apart \cup ({d, engine[d].peer} \cap Members)
        /\ UNCHANGED <<boot, masterRecord, slaveRecord, heard, switches>>
    BY <1>8 DEF Lapses, Mishap
  <2>2. QED BY <2>1, GivingUpKeeps
<1>9. ASSUME NEW d \in Devices, Restart(d)  PROVE SwitchInv'
  BY <1>9, RestartKeeps
<1>10. ASSUME NEW c \in Channels, ApplyRuntimeChannelToAllPeers(c)  PROVE SwitchInv'
  <2>1. boot \in [Devices -> Channels] /\ masterRecord \in [Members -> Channels \cup {0}]
    BY DEF SwitchInv, SwitchTypes
  <2>2. boot' \in [Devices -> Channels] /\ masterRecord' \in [Members -> Channels \cup {0}]
    BY <1>10, <2>1 DEF ApplyRuntimeChannelToAllPeers
  <2>3. /\ radio' = [radio EXCEPT ![Boss] = c] /\ apart' = apart \cup Members
        /\ UNCHANGED <<engine, slaveRecord, heard, switches>>
    BY <1>10 DEF ApplyRuntimeChannelToAllPeers, Mishap
  <2>4. QED BY <2>2, <2>3, MasterMovesKeeps
<1>11. CASE UNCHANGED switchVars
  BY <1>11 DEF switchVars, SwitchInv, SwitchTypes, Numbered, Switching, WantsAgree, LastAnswers, Together
<1>12. QED
  BY <1>1, <1>2, <1>4, <1>5, <1>6, <1>7, <1>8, <1>9, <1>10, <1>11 DEF SwitchNext

(* A master and a slave that have no switch under way are on one channel,   *)
(* and the master keeps a channel for a slave only after the slave did.     *)
THEOREM SwitchesTogether == SwitchSpec => SwitchedTogether
<1>1. SwitchInv => \A s \in Members \ apart :
        engine[s].mode = "Idle" /\ engine[Boss].mode = "Idle" => radio[s] = radio[Boss]
  BY DEF SwitchInv, Together, Switching
<1>2. SwitchInv /\ [SwitchNext]_switchVars =>
        [\A s \in Members : masterRecord'[s] # masterRecord[s] /\ engine[Boss].mode # engine'[Boss].mode =>
           slaveRecord[s] = masterRecord'[s]]_switchVars
  <2>1. SUFFICES ASSUME SwitchInv, SwitchNext, NEW s \in Members,
                        masterRecord'[s] # masterRecord[s], engine[Boss].mode # engine'[Boss].mode
                 PROVE  slaveRecord[s] = masterRecord'[s]
    OBVIOUS
  <2>2. CASE OnChannelSwitchCommitAck
    BY <2>1, <2>2, CommitAckKeeps
  <2>3. CASE ~OnChannelSwitchCommitAck
    <3>1. masterRecord' = masterRecord \/ engine' = engine
      BY <2>1, <2>3 DEF SwitchNext, RequestChannelSwitch, OnChannelSwitchPrepare, SlaveMoves, OnChannelSwitchAck, MasterMoves,
                        Lapses, Restart, ApplyRuntimeChannelToAllPeers, SetChannelFails
    <3>2. QED BY <2>1, <3>1
  <2>4. QED BY <2>2, <2>3
<1>3. QED BY SwitchInitial, SwitchStep, <1>1, <1>2, PTL DEF SwitchSpec, SwitchedTogether

(* The bound on the mishaps.                                                *)
MishapsCounted == mishaps \in 0 .. MaxMishaps

LEMMA MishapCounts ==
  /\ SwitchInit => MishapsCounted
  /\ MishapsCounted /\ [SwitchNext]_switchVars => MishapsCounted'
<1>1. SwitchInit => MishapsCounted
  BY SwitchSizes DEF SwitchInit, MishapsCounted
<1>2. ASSUME MishapsCounted, [SwitchNext]_switchVars  PROVE MishapsCounted'
  <2>1. mishaps' = mishaps \/ (mishaps < MaxMishaps /\ mishaps' = mishaps + 1)
    BY <1>2 DEF SwitchNext, RequestChannelSwitch, OnChannelSwitchPrepare, SlaveMoves, OnChannelSwitchAck, OnChannelSwitchCommitAck,
                MasterMoves, Lapses, Restart, ApplyRuntimeChannelToAllPeers, SetChannelFails, AnswerSent, Mishap, Smoothly,
                counters, switchVars
  <2>2. QED BY <1>2, <2>1, SwitchSizes DEF MishapsCounted
<1>3. QED BY <1>1, <1>2

(* Every variable of a channel switch keeps its type.                       *)
THEOREM SwitchTypeCorrect == SwitchSpec => []SwitchTypeOK
<1>1. SwitchInv /\ MishapsCounted => SwitchTypeOK
  BY DEF SwitchInv, SwitchTypes, SwitchTypeOK, MishapsCounted, Engines
<1>2. QED BY SwitchInitial, SwitchStep, MishapCounts, <1>1, PTL DEF SwitchSpec
=============================================================================
