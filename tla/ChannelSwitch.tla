---------------------------- MODULE ChannelSwitch ----------------------------
(***************************************************************************)
(* The channel a master and its slaves use.  PairingEngine moves the master *)
(* and one slave together: the master sends a prepare, the slave answers,   *)
(* each moves when its own clock says so, and the slave's last answer, sent *)
(* once and on the new channel, lets the master keep it.  The service moves *)
(* the master alone once every slave accepted a setting (ChannelSyncAll).   *)
(*                                                                         *)
(* A frame is heard by a device whose radio is on the channel it is sent    *)
(* on.  The effective time is the master's; a slave compares it with its    *)
(* own clock, so it may move, or give up, at any time.                      *)
(***************************************************************************)
EXTENDS Naturals, Sequences

CONSTANTS Members,      \* the slaves of one master
          Channels,     \* channels in use; 0 stands for no record
          Home,         \* ManagerConfig::channel
          RxMax,        \* control queue of a device
          MaxSwitches,  \* bound: switches asked for
          MaxMishaps    \* bound: failures, lapses, restarts and lost frames

Boss    == "boss"
Devices == {Boss} \cup Members
SwitchIds == 1 .. MaxSwitches
Modes   == {"Idle", "MasterWaitAck", "MasterWaitCommit", "SlavePrepared"}

ASSUME SwitchSizes == /\ 0 \notin Channels /\ Home \in Channels /\ Boss \notin Members
                      /\ RxMax \in Nat \ {0} /\ {MaxSwitches, MaxMishaps} \subseteq Nat

VARIABLES
  engine,     \* channel_state_, pending_channel_, channel_corr_id_ and peer_mac_ of each device
  radio,      \* channel each transport is on
  boot,       \* channel the device's hook was told last
  masterRecord,     \* the master's channel record for each slave
  slaveRecord,\* each slave's channel record
  heard,      \* control frames in the queue of each device
  switches, mishaps,
  apart       \* history: what may have left the master and a slave apart

switchVars == <<engine, radio, boot, masterRecord, slaveRecord, heard, switches, mishaps, apart>>
counters   == <<switches, mishaps, apart>>

Resting == [mode |-> "Idle", want |-> 0, corr |-> 0, peer |-> Boss]
ControlFrames ==
  [kind : {"Prepare", "Ack", "CommitAck"}, from : Devices, want : Channels \cup {0}, corr : SwitchIds]
ControlFrame(d, kind, want, corr) == [kind |-> kind, from |-> d, want |-> want, corr |-> corr]

Mishap(whose) ==
  /\ mishaps < MaxMishaps /\ mishaps' = mishaps + 1
  /\ apart' = apart \cup whose
Smoothly == UNCHANGED <<mishaps, apart>>

(* An answer to the master: heard on the channel its sender uses, or lost;  *)
(* a full queue drops its oldest frame.                                     *)
Queued(queues, d, f) ==
  [queues EXCEPT ![d] = Append(IF Len(@) < RxMax THEN @ ELSE Tail(@), f)]
AnswerSent(queues, f) ==
  \/ /\ radio[Boss] = radio'[f.from] /\ heard' = Queued(queues, Boss, f)
     /\ IF Len(queues[Boss]) = RxMax THEN Mishap(Members) ELSE Smoothly
  \/ heard' = queues /\ Mishap({f.from})

-----------------------------------------------------------------------------
Settled(s) == radio[s] = radio[Boss] /\ engine[s].mode = "Idle" /\ heard[s] = << >>

(* requestChannelSwitch; the caller gives every switch an id of its own.    *)
RequestChannelSwitch(s, c) ==
  /\ switches < MaxSwitches /\ engine[Boss].mode = "Idle"
  /\ switches' = switches + 1
  /\ engine' = [engine EXCEPT ![Boss] = [mode |-> "MasterWaitAck", want |-> c,
                                         corr |-> switches', peer |-> s]]
  /\ \/ radio[s] = radio[Boss] /\ UNCHANGED mishaps
        /\ heard' = Queued(heard, s, ControlFrame(Boss, "Prepare", c, switches'))
     \/ heard' = heard /\ mishaps < MaxMishaps /\ mishaps' = mishaps + 1
  /\ apart' = (IF Settled(s) THEN {} ELSE apart) \cup (Members \ {s})
  /\ UNCHANGED <<radio, boot, masterRecord, slaveRecord>>

Taken(d) == [heard EXCEPT ![d] = Tail(@)]
Take(d)  == heard[d] # << >> /\ heard' = Taken(d)

(* onChannelSwitchPrepare: whatever the slave had prepared is replaced.     *)
OnChannelSwitchPrepare(s) ==
  /\ heard[s] # << >> /\ Head(heard[s]).kind = "Prepare" /\ UNCHANGED radio
  /\ LET f == Head(heard[s]) IN
     \/ /\ engine' = [engine EXCEPT ![s] = [mode |-> "SlavePrepared", want |-> f.want,
                                            corr |-> f.corr, peer |-> f.from]]
        /\ AnswerSent(Taken(s), ControlFrame(s, "Ack", 0, f.corr))
     \/ UNCHANGED engine /\ Take(s) /\ Smoothly            \* the hook says no
  /\ UNCHANGED <<boot, masterRecord, slaveRecord, switches>>

(* Fault: the correlation id of an answer is not compared.                  *)
AwaitsAnyId(mode, f) == engine[Boss].mode = mode

(* onChannelSwitchAck and onChannelSwitchCommitAck compare the correlation  *)
(* id, not the sender.                                                      *)
Awaits(mode, f) == engine[Boss].mode = mode /\ engine[Boss].corr = f.corr

OnChannelSwitchAck ==
  /\ Take(Boss) /\ Head(heard[Boss]).kind = "Ack"
  /\ engine' = IF Awaits("MasterWaitAck", Head(heard[Boss]))
                 THEN [engine EXCEPT ![Boss].mode = "MasterWaitCommit"] ELSE engine
  /\ UNCHANGED <<radio, boot, masterRecord, slaveRecord, counters>>

Idled(d) == [engine EXCEPT ![d].mode = "Idle"]

OnChannelSwitchCommitAck ==
  /\ Take(Boss) /\ Head(heard[Boss]).kind = "CommitAck"
  /\ LET f == Head(heard[Boss]) IN
     IF Awaits("MasterWaitCommit", f)
       THEN /\ masterRecord' = [masterRecord EXCEPT ![f.from] = engine[Boss].want]
            /\ boot' = [boot EXCEPT ![Boss] = engine[Boss].want]
            /\ engine' = Idled(Boss)
       ELSE UNCHANGED <<masterRecord, boot, engine>>
  /\ UNCHANGED <<radio, slaveRecord, counters>>

(* tick: the deadline is looked at before the effective time.               *)
Lapses(d) ==
  /\ engine[d].mode # "Idle" /\ engine' = Idled(d)
  /\ Mishap({d, engine[d].peer} \cap Members)
  /\ UNCHANGED <<radio, boot, masterRecord, slaveRecord, heard, switches>>

(* setChannel moves the radio first and adds its peers again afterwards;    *)
(* either may fail.                                                         *)
SetChannelFails(d) ==
  /\ radio' \in {radio, [radio EXCEPT ![d] = engine[d].want]}
  /\ engine' = Idled(d) /\ Mishap({d, engine[d].peer} \cap Members)
  /\ UNCHANGED <<boot, masterRecord, slaveRecord, heard, switches>>

SlaveMoves(s) ==
  /\ engine[s].mode = "SlavePrepared"
  /\ \/ SetChannelFails(s)
     \/ LET c == engine[s].want IN
        /\ radio' = [radio EXCEPT ![s] = c] /\ boot' = [boot EXCEPT ![s] = c]
        /\ slaveRecord' = [slaveRecord EXCEPT ![s] = c]
        /\ engine' = Idled(s)
        /\ AnswerSent(heard, ControlFrame(s, "CommitAck", 0, engine[s].corr))
        /\ UNCHANGED <<masterRecord, switches>>

(* The master's radio is set again at every tick until the last answer.     *)
MasterMoves ==
  /\ engine[Boss].mode = "MasterWaitCommit"
  /\ \/ SetChannelFails(Boss)
     \/ /\ radio' = [radio EXCEPT ![Boss] = engine[Boss].want]
        /\ UNCHANGED <<engine, boot, masterRecord, slaveRecord, heard, counters>>

(* applyRuntimeChannelToAllPeers, once every slave took the setting.        *)
ApplyRuntimeChannelToAllPeers(c) ==
  /\ Mishap(Members)
  /\ radio' = [radio EXCEPT ![Boss] = c]
  /\ \/ boot' = [boot EXCEPT ![Boss] = c] /\ masterRecord' = [s \in Members |-> c]
     \/ UNCHANGED <<boot, masterRecord>>
  /\ UNCHANGED <<engine, slaveRecord, heard, switches>>

(* A device starts on the channel its hook kept, or on the configured one.  *)
Restart(d) ==
  /\ Mishap(IF d = Boss THEN Members ELSE {d})
  /\ \E c \in {boot[d], Home} : radio' = [radio EXCEPT ![d] = c] /\ boot' = [boot EXCEPT ![d] = c]
  /\ engine' = [engine EXCEPT ![d] = Resting] /\ heard' = [heard EXCEPT ![d] = << >>]
  /\ UNCHANGED <<masterRecord, slaveRecord, switches>>

SwitchInit ==
  /\ engine = [d \in Devices |-> Resting]
  /\ radio = [d \in Devices |-> Home] /\ boot = [d \in Devices |-> Home]
  /\ masterRecord = [s \in Members |-> 0] /\ slaveRecord = masterRecord /\ heard = [d \in Devices |-> << >>]
  /\ switches = 0 /\ mishaps = 0 /\ apart = {}

SwitchNext ==
  \/ \E s \in Members, c \in Channels : RequestChannelSwitch(s, c)
  \/ \E s \in Members : OnChannelSwitchPrepare(s) \/ SlaveMoves(s)
  \/ OnChannelSwitchAck \/ OnChannelSwitchCommitAck \/ MasterMoves
  \/ \E d \in Devices : Lapses(d) \/ Restart(d)
  \/ \E c \in Channels : ApplyRuntimeChannelToAllPeers(c)

SwitchSpec == SwitchInit /\ [][SwitchNext]_switchVars

-----------------------------------------------------------------------------
(* Every variable has its type.                                             *)
SwitchTypeOK ==
  /\ engine \in [Devices -> [mode : Modes, want : Channels \cup {0}, corr : {0} \cup SwitchIds,
                             peer : Devices]]
  /\ radio \in [Devices -> Channels] /\ boot \in [Devices -> Channels]
  /\ {masterRecord, slaveRecord} \subseteq [Members -> Channels \cup {0}]
  /\ \A d \in Devices : heard[d] \in Seq(ControlFrames) /\ Len(heard[d]) <= RxMax
  /\ switches \in 0 .. MaxSwitches /\ mishaps \in 0 .. MaxMishaps /\ apart \subseteq Members

(* A master and a slave that have no switch under way are on one channel,   *)
(* unless, since they began their last switch together, a frame was lost, a *)
(* deadline passed, a transport failed, a device restarted, or the master   *)
(* moved for another slave or for all.  And the master keeps a channel for  *)
(* a slave only after the slave kept it: the last answer it takes for its   *)
(* switch is the answer to that switch.                                     *)
SwitchedTogether ==
  /\ [](\A s \in Members \ apart :
          engine[s].mode = "Idle" /\ engine[Boss].mode = "Idle" => radio[s] = radio[Boss])
  /\ [][\A s \in Members : masterRecord'[s] # masterRecord[s] /\ engine[Boss].mode # engine'[Boss].mode =>
          slaveRecord[s] = masterRecord'[s]]_switchVars
=============================================================================
