--------------------------- MODULE TelemetryPush ---------------------------
(***************************************************************************)
(* The telemetry stream of a slave: EspNowManager keeps one push session,   *)
(* which the active master starts, updates, pauses, resumes and stops,      *)
(* stores it in the pairing store, restores it with the paired link, and    *)
(* reports the metrics that are due on every tick.                          *)
(*                                                                         *)
(* A tick of the loop is the unit of time.                                  *)
(***************************************************************************)
EXTENDS Naturals, FiniteSets

CONSTANTS Masters,      \* masters the slave has a pair record with
          Keys,         \* telemetry metrics of the profile
          Configs,      \* streams a master may ask for: Keys -> Metric
          Interval, Gap,  \* periodic interval and minimum gap, in ticks
          Backoff,      \* ticks without a report after FailMax refused ones
          FailMax,      \* 5 in the code
          MaxValue,     \* values of a metric
          MaxBusy       \* bound: commands, peer switches, unpairs and restarts

(* A metric of a stream; a threshold of 0 stands for none.                  *)
Metric == [mode : {"Off", "Periodic", "OnChange", "Hybrid"}, threshold : 0 .. MaxValue]

Enabled(c) == {k \in Keys : c[k].mode # "Off"}

ASSUME StreamSizes == /\ {Interval, Gap, FailMax} \subseteq Nat \ {0}
                      /\ {Backoff, MaxValue, MaxBusy} \subseteq Nat
                      /\ Masters # {}
                      /\ Configs \subseteq [Keys -> Metric]

NoMaster == "nobody"
ASSUME NobodyIsNoMaster == NoMaster \notin Masters

VARIABLES
  active,   \* the paired peer
  session,  \* push_session_
  blob,     \* durable: the meta blob of slot 1 of every master
  value,    \* what the sensors say
  busy,     \* how much of MaxBusy is used up
  answered, \* history: the stream every master was last told it has
  upset     \* history: the store failed, or a switch of peers failed, or an
            \* unpair came from a master that is not the active one

streamVars == <<active, session, blob, value, busy, answered, upset>>

-----------------------------------------------------------------------------
NoStream == [on |-> FALSE, paused |-> FALSE, config |-> [k \in Keys |-> [mode |-> "Off", threshold |-> 0]]]
Stream(c, p) == [on |-> TRUE, paused |-> p, config |-> c]
Streams == {NoStream} \cup {Stream(c, p) : c \in Configs, p \in BOOLEAN}

NoValue == MaxValue + 1

(* A new session has every metric due after one interval and no value.      *)
Fresh(s, m) ==
  [stream |-> s, owner |-> m, fails |-> 0, backoff |-> 0,
   wait |-> [k \in Keys |-> Interval], since |-> [k \in Keys |-> 0],
   last |-> [k \in Keys |-> NoValue]]

NoTelemetry == Fresh(NoStream, NoMaster)

(* Fault: the pause is not restored.                                        *)
StreamRestoredRunning(m) == IF blob[m] = NoStream THEN NoTelemetry ELSE Fresh([blob[m] EXCEPT !.paused = FALSE], m)

(* restoreTelemetryPushConfig.                                              *)
StreamRestored(m) == IF blob[m] = NoStream THEN NoTelemetry ELSE Fresh(blob[m], m)

StreamInit ==
  /\ active \in Masters /\ session = NoTelemetry
  /\ blob = [m \in Masters |-> NoStream] /\ answered = blob
  /\ value = [k \in Keys |-> 0] /\ busy = 0 /\ upset = FALSE

StreamCommands == busy < MaxBusy /\ busy' = busy + 1

-----------------------------------------------------------------------------
(* handleTelemetryPushControl.                                              *)

Admitted(m) == active = m /\ session.owner \in {NoMaster, m}

(* Start and Update: the session is replaced, then stored; one that cannot  *)
(* be stored is dropped.                                                    *)
StreamStart(m, c, stored) ==
  /\ StreamCommands /\ Admitted(m) /\ Enabled(c) # {}
  /\ IF stored
     THEN /\ session' = Fresh(Stream(c, FALSE), m)
          /\ blob' = [blob EXCEPT ![m] = Stream(c, FALSE)]
          /\ answered' = [answered EXCEPT ![m] = Stream(c, FALSE)]
     ELSE session' = NoTelemetry /\ UNCHANGED <<blob, answered>>
  /\ upset' = (upset \/ ~stored)
  /\ UNCHANGED <<active, value>>

(* Pause and Resume: the flag stays as set when it cannot be stored.        *)
SetPaused(m, p, stored) ==
  /\ StreamCommands /\ Admitted(m) /\ session.stream.on
  /\ session' = [session EXCEPT !.stream.paused = p]
  /\ IF stored
     THEN /\ blob' = [blob EXCEPT ![m] = session'.stream]
          /\ answered' = [answered EXCEPT ![m] = session'.stream]
     ELSE UNCHANGED <<blob, answered>>
  /\ upset' = (upset \/ ~stored)
  /\ UNCHANGED <<active, value>>

(* Stop: the session goes first, then the blob; nothing stored is no error. *)
Stop(m, stored) ==
  /\ StreamCommands /\ Admitted(m)
  /\ session' = NoTelemetry
  /\ IF stored \/ blob[m] = NoStream
     THEN /\ blob' = [blob EXCEPT ![m] = NoStream]
          /\ answered' = [answered EXCEPT ![m] = NoStream] /\ UNCHANGED upset
     ELSE upset' = TRUE /\ UNCHANGED <<blob, answered>>
  /\ UNCHANGED <<active, value>>

-----------------------------------------------------------------------------
(* What happens to the link.                                                *)

(* activatePairedPeer: the stream of the old peer is cleared before the new *)
(* link is restored.  When that fails the old stream cannot be restored:    *)
(* its blob is gone.                                                        *)
Activate(m, ok) ==
  /\ StreamCommands /\ active # m
  /\ blob' = IF active = NoMaster THEN blob ELSE [blob EXCEPT ![active] = NoStream]
  /\ IF ok
     THEN /\ active' = m
          /\ session' = IF blob[m] = NoStream /\ session.owner # active THEN session ELSE StreamRestored(m)
          /\ answered' = blob' /\ UNCHANGED upset
     ELSE /\ session' = IF session.owner = active THEN NoTelemetry ELSE session
          /\ upset' = TRUE /\ UNCHANGED <<active, answered>>
  /\ UNCHANGED value

(* onRxUnpairRequest: the session goes whoever asks, the stored stream only *)
(* of the one who asks; the link goes when it is the active master.         *)
Unpaired(m) ==
  /\ StreamCommands
  /\ session' = NoTelemetry /\ blob' = [blob EXCEPT ![m] = NoStream]
  /\ answered' = [answered EXCEPT ![m] = NoStream]
  /\ active' = IF active = m THEN NoMaster ELSE active
  /\ upset' = (upset \/ active # m)
  /\ UNCHANGED value

(* A restart restores the link and the stream of one of the stored pairs    *)
(* (module PairStore says which), if one is left.                           *)
StreamRestart ==
  /\ StreamCommands
  /\ active' \in Masters \cup {NoMaster}
  /\ session' = IF active' = NoMaster THEN NoTelemetry ELSE StreamRestored(active')
  /\ upset' = (upset /\ blob # answered)
  /\ UNCHANGED <<blob, value, answered>>

-----------------------------------------------------------------------------
(* tickTelemetryPush.                                                       *)

Dec(n) == IF n = 0 THEN 0 ELSE n - 1

(* Fault: a backoff is compared the wrong way round and never ends.         *)
AgedStuck(s) == [s EXCEPT !.wait = [k \in Keys |-> Dec(@[k])],
                          !.since = [k \in Keys |-> IF @[k] < Gap THEN @[k] + 1 ELSE Gap]]

(* The clock of the session advances.                                       *)
Aged(s) == [s EXCEPT !.backoff = Dec(@),
                     !.wait = [k \in Keys |-> Dec(@[k])],
                     !.since = [k \in Keys |-> IF @[k] < Gap THEN @[k] + 1 ELSE Gap]]

Mode(s, k) == s.stream.config[k].mode

PeriodDue(s, k) == Mode(s, k) \in {"Periodic", "Hybrid"} /\ s.wait[k] = 0

(* A change counts once the metric has a last value and the gap is over.    *)
ChangeDue(s, k) == Mode(s, k) \in {"OnChange", "Hybrid"} /\ s.last[k] # NoValue /\ s.since[k] >= Gap

Distance(a, b) == IF a > b THEN a - b ELSE b - a

SendsReport(s) == {k \in Enabled(s.stream.config) :
               \/ PeriodDue(s, k)
               \/ ChangeDue(s, k) /\ Distance(value[k], s.last[k]) >= s.stream.config[k].threshold}

Telemetering(s) == active # NoMaster /\ s.stream.on /\ ~s.stream.paused /\ s.owner # NoMaster

AfterRefusal(s) == IF s.fails + 1 >= FailMax
                   THEN [s EXCEPT !.fails = 0, !.backoff = Backoff]
                   ELSE [s EXCEPT !.fails = @ + 1]

(* A report re-arms every enabled metric: its next interval, and the value  *)
(* it is compared with, whether or not the report carried it.               *)
AfterReport(s) ==
  LET on == Enabled(s.stream.config)
  IN [s EXCEPT !.fails = 0, !.backoff = 0,
        !.wait = [k \in Keys |-> IF k \in on /\ Mode(s, k) # "OnChange" THEN Interval ELSE @[k]],
        !.last = [k \in Keys |-> IF k \in on THEN value[k] ELSE @[k]],
        !.since = [k \in Keys |-> IF k \in SendsReport(s) THEN 0 ELSE @[k]]]

Due == Telemetering(Aged(session)) /\ Aged(session).backoff = 0 /\ SendsReport(Aged(session)) # {}

Report ==
  /\ Due /\ session' = AfterReport(Aged(session))
  /\ UNCHANGED <<active, blob, value, busy, answered, upset>>

(* The radio refuses the report.                                            *)
ReportRefused ==
  /\ Due /\ session' = AfterRefusal(Aged(session))
  /\ UNCHANGED <<active, blob, value, busy, answered, upset>>

NothingDue ==
  /\ ~Due /\ session' = Aged(session)
  /\ UNCHANGED <<active, blob, value, busy, answered, upset>>

ValueChanges(k, v) ==
  /\ value[k] # v /\ value' = [value EXCEPT ![k] = v]
  /\ UNCHANGED <<active, session, blob, busy, answered, upset>>

Control ==
  \E m \in Masters, stored \in BOOLEAN :
    \/ \E c \in Configs : StreamStart(m, c, stored)
    \/ \E p \in BOOLEAN : SetPaused(m, p, stored)
    \/ Stop(m, stored)

StreamTick == Report \/ ReportRefused \/ NothingDue

StreamNext ==
  \/ Control
  \/ \E m \in Masters : Unpaired(m) \/ \E ok \in BOOLEAN : Activate(m, ok)
  \/ StreamRestart \/ StreamTick
  \/ \E k \in Keys, v \in 0 .. MaxValue : ValueChanges(k, v)

StreamSpec == StreamInit /\ [][StreamNext]_streamVars

(* The loop keeps ticking, and the radio takes a report once in a while.    *)
StreamFairSpec == StreamSpec /\ WF_streamVars(StreamTick) /\ SF_streamVars(Report)

-----------------------------------------------------------------------------
StreamTypeOK ==
  /\ active \in Masters \cup {NoMaster}
  /\ session \in [stream : Streams, owner : Masters \cup {NoMaster}, fails : 0 .. FailMax - 1,
                  backoff : 0 .. Backoff, wait : [Keys -> 0 .. Interval],
                  since : [Keys -> 0 .. Gap], last : [Keys -> 0 .. NoValue]]
  /\ blob \in [Masters -> Streams] /\ answered \in [Masters -> Streams]
  /\ value \in [Keys -> 0 .. MaxValue] /\ busy \in 0 .. MaxBusy /\ upset \in BOOLEAN

(* The stream that runs is the one the active master was last told it has,  *)
(* through restarts and switches of peers, while the store works and no     *)
(* switch fails and only the active master unpairs.                         *)
StreamAsTold ==
  ~upset /\ active # NoMaster =>
    /\ session.stream = answered[active] /\ blob[active] = answered[active]
    /\ session.stream.on => session.owner = active

(* A stream with a periodic metric keeps reporting: refused reports cost a  *)
(* pause, never the stream.                                                 *)
Periodic == Telemetering(session) /\ \E k \in Keys : Mode(session, k) \in {"Periodic", "Hybrid"}

StreamFlows == <>[]Periodic => []<><<Report>>_streamVars
=============================================================================
