---------------------------- MODULE ServiceProofs ----------------------------
(***************************************************************************)
(* Proofs about the management service of a master and what a frontend is   *)
(* told: the commands that are answered later (CommandTable), and the cache *)
(* of settings and paired slaves with its blocking calls (SettingsCache).   *)
(***************************************************************************)
EXTENDS CommandTable, SettingsCache, FiniteSetTheorems, SequenceTheorems, TLAPS

-----------------------------------------------------------------------------
(* Commands that are answered later: which job or list holds which command. *)

JobCommands == [exchange |-> Exchanges, sync |-> {"ChannelSyncAll"}, loop |-> {"ChainLoopControlSet"},
                push |-> {"OtaPushStart"}, update |-> {"OtaUpdateStart"}]
PullCommands == Pulled \cup Archive \cup Topology

Waiting == pulls \cup deferred
AllRecords == Waiting \cup JobsOf(Jobs)

(* A source numbers its requests, so a number stands for one request.       *)
Numbered ==
  /\ \A r \in AllRecords : r.id.no <= given[r.id.src]
  /\ \A i \in left : i.no <= given[i.src]
OneEach ==
  \A r, s \in AllRecords : r.id.src = s.id.src /\ r.id.no = s.id.no => r = s

(* Each record is kept where its command belongs.                           *)
KindsOK ==
  /\ \A r \in Waiting : r.id.cmd \in PullCommands
  /\ \A j \in Jobs : \A r \in job[j] : r.id.cmd \in JobCommands[j]

(* A record is kept twice only for a commit that was given again after the  *)
(* stage it waits for was gone.                                             *)
TwiceIsRetold == \A r \in pulls \cap deferred : r.id \in retold

(* There is one session of a kind, and the exchange is with a slave.        *)
SingleJobs ==
  /\ \A j \in Jobs : \A r, s \in job[j] : r = s
  /\ \A r \in job["exchange"] : r.peer \in Slaves

TableInv ==
  TableTypeOK /\ Numbered /\ OneEach /\ KindsOK /\ TwiceIsRetold /\ SingleJobs /\ OpenIsOwed

-----------------------------------------------------------------------------
LEMMA KindsDiffer ==
  /\ PullCommands \cap AsyncTerminal = {}
  /\ \A j \in Jobs : JobCommands[j] \subseteq AsyncTerminal
  /\ \A j, k \in Jobs : j # k => JobCommands[j] \cap JobCommands[k] = {}
<1>1. PullCommands \cap AsyncTerminal = {}
  BY DEF PullCommands, Pulled, PlainPulls, ParsedPulls, PlainWrites, ParsedWrites, Archive,
         ArchiveReads, ArchiveWrites, Topology, AsyncTerminal, Exchanges
<1>2. \A j \in Jobs : JobCommands[j] \subseteq AsyncTerminal
  BY DEF Jobs, JobCommands, AsyncTerminal, Exchanges
<1>3. \A j, k \in Jobs : j # k => JobCommands[j] \cap JobCommands[k] = {}
  BY DEF Jobs, JobCommands, Exchanges
<1> QED BY <1>1, <1>2, <1>3

(* The commands that are answered with a status that is not final, and are  *)
(* not left open for it.                                                    *)
LEMMA HandedOver ==
  (MasterCritical \cup SlaveCritical \cup Push \cup Transfer \cup {"CommTestRun"}) \cap AsyncTerminal = {}
BY DEF MasterCritical, SlaveCritical, Push, PushMutations, Transfer, AsyncTerminal, Exchanges

LEMMA RequestMade ==
  ASSUME NEW q \in Requests
  PROVE  /\ Id(q) \in CommandIds /\ Record(q) \in Records /\ Record(q).id = Id(q)
         /\ Id(q).src = q.src /\ Id(q).no = q.no /\ Id(q).cmd = q.cmd
         /\ q.src \in Sources /\ q.no \in 1 .. MaxNumber /\ q.no \in Nat
BY TableSizes DEF Requests, Id, Record, CommandIds, Records

(* A request that is given: a new one, or one that is open.                 *)
New(q)      == q.no = given[q.src] + 1 /\ given' = [given EXCEPT ![q.src] = q.no]
Repeated(q) == Id(q) \in left /\ Record(q) \in Waiting /\ UNCHANGED given

LEMMA GivenGrows ==
  ASSUME TableInv, NEW q \in Requests, New(q) \/ Repeated(q)
  PROVE  /\ given' \in [Sources -> 0 .. MaxNumber]
         /\ \A s \in Sources : given[s] <= given'[s]
         /\ q.no <= given'[q.src]
<1>1. given \in [Sources -> 0 .. MaxNumber] /\ MaxNumber \in Nat
  BY TableSizes DEF TableInv, TableTypeOK
<1>2. q.src \in Sources /\ q.no \in 1 .. MaxNumber
  BY RequestMade
<1>3. CASE New(q)
  BY <1>1, <1>2, <1>3 DEF New
<1>4. CASE Repeated(q)
  <2>1. Record(q).id.no <= given[Record(q).id.src]
    BY <1>4 DEF TableInv, Numbered, AllRecords, Repeated
  <2> QED BY <1>1, <1>2, <1>4, <2>1, RequestMade DEF Repeated
<1> QED BY <1>3, <1>4

(* A new request has no record, and is not open.                            *)
LEMMA NewIsUnknown ==
  ASSUME TableInv, NEW q \in Requests, New(q)
  PROVE  /\ Id(q) \notin left
         /\ \A r \in AllRecords : ~(r.id.src = q.src /\ r.id.no = q.no)
         /\ q.no > given[q.src]
<1>1. given \in [Sources -> 0 .. MaxNumber] /\ MaxNumber \in Nat
  BY TableSizes DEF TableInv, TableTypeOK
<1>2. q.src \in Sources /\ q.no \in 1 .. MaxNumber /\ Id(q).src = q.src /\ Id(q).no = q.no
  BY RequestMade
<1>3. given[q.src] \in Nat /\ q.no = given[q.src] + 1
  BY <1>1, <1>2 DEF New
<1>4. ~(q.no <= given[q.src]) /\ q.no > given[q.src]
  BY <1>3
<1> QED BY <1>2, <1>4 DEF TableInv, Numbered

LEMMA RecordTypes ==
  ASSUME TableInv
  PROVE  /\ AllRecords \subseteq Records /\ left \subseteq CommandIds
         /\ \A r \in AllRecords : r.id.src \in Sources /\ r.id.no \in Nat
         /\ \A i \in left : i.src \in Sources /\ i.no \in Nat
         /\ \A s \in Sources : given[s] \in Nat
BY TableSizes DEF TableInv, TableTypeOK, AllRecords, Waiting, JobsOf, Records, CommandIds

(* Numbers stay below those given while the records are among the old ones. *)
LEMMA StillNumbered ==
  ASSUME TableInv, NEW g, \A s \in Sources : g[s] \in Nat /\ given[s] <= g[s]
  PROVE  /\ \A r \in AllRecords : r.id.no <= g[r.id.src]
         /\ \A i \in left : i.no <= g[i.src]
<1>1. ASSUME NEW r \in AllRecords
      PROVE  r.id.no <= g[r.id.src]
  <2>1. r.id.no <= given[r.id.src] /\ r.id.src \in Sources /\ r.id.no \in Nat
    BY RecordTypes DEF TableInv, Numbered
  <2>2. given[r.id.src] \in Nat /\ given[r.id.src] <= g[r.id.src] /\ g[r.id.src] \in Nat
    BY <2>1, RecordTypes
  <2> QED BY <2>1, <2>2
<1>2. ASSUME NEW i \in left
      PROVE  i.no <= g[i.src]
  <2>1. i.no <= given[i.src] /\ i.src \in Sources /\ i.no \in Nat
    BY RecordTypes DEF TableInv, Numbered
  <2>2. given[i.src] \in Nat /\ given[i.src] <= g[i.src] /\ g[i.src] \in Nat
    BY <2>1, RecordTypes
  <2> QED BY <2>1, <2>2
<1> QED BY <1>1, <1>2

-----------------------------------------------------------------------------
(* tick() answers a request and keeps no new record for it.                 *)
LEMMA AnswerKeeps ==
  ASSUME TableInv, NEW q \in Requests, New(q) \/ Repeated(q), NEW st, Settle(q, st),
         st = "OkDeferred" => q.cmd \notin AsyncTerminal, UNCHANGED <<recordVars, dropped, quiesced, radioUse>>,
         paired' \subseteq Slaves, scanning' \in BOOLEAN
  PROVE  TableInv'
<1>1. /\ Id(q) \in CommandIds /\ Record(q).id = Id(q)
      /\ Id(q).src = q.src /\ Id(q).no = q.no /\ Id(q).cmd = q.cmd
  BY RequestMade
<1>2. UNCHANGED <<pulls, deferred, job, AllRecords, Waiting>>
  BY DEF recordVars, AllRecords, Waiting, JobsOf
<1>3. PendingFor(q)' <=> \E r \in Waiting : r.id.src = q.src /\ r.id.no = q.no
  BY <1>2 DEF PendingFor, Waiting
<1>4. \/ New(q) /\ left' = left /\ retold' = retold
      \/ Repeated(q) /\ left' = left /\ retold' \in {retold, retold \cup {Id(q)}}
      \/ Repeated(q) /\ left' = left \ {Id(q)} /\ retold' = retold \cup {Id(q)}
  <2>1. CASE New(q)
    <3>1. ~PendingFor(q)' /\ Id(q) \notin left
      BY <2>1, <1>3, NewIsUnknown DEF AllRecords
    <3>2. ~LeftOpen(q, st)
      BY <3>1 DEF LeftOpen
    <3> QED BY <2>1, <3>1, <3>2 DEF Settle
  <2>2. CASE Repeated(q)
    BY <2>2 DEF Settle, Repeated
  <2> QED BY <2>1, <2>2
<1>5. left' \subseteq left /\ retold \subseteq retold' /\ left \subseteq left' \cup retold'
      /\ retold' \subseteq CommandIds
  BY <1>1, <1>4 DEF TableInv, TableTypeOK
<1>6. TableTypeOK'
  BY <1>2, <1>5, GivenGrows DEF TableInv, TableTypeOK
<1>7. Numbered'
  <2>1. \A s \in Sources : given'[s] \in Nat /\ given[s] <= given'[s]
    BY GivenGrows, TableSizes
  <2> QED BY <1>2, <1>5, <2>1, StillNumbered DEF Numbered
<1>8. OneEach' /\ KindsOK' /\ TwiceIsRetold' /\ SingleJobs'
  BY <1>2, <1>5 DEF TableInv, OneEach, KindsOK, TwiceIsRetold, SingleJobs
<1>9. OpenIsOwed'
  <2> DEFINE owed == IdsOf(pulls \cup deferred \cup JobsOf(Jobs))
  <2>1. owed' = owed /\ dropped' = dropped
    BY <1>2 DEF JobsOf, IdsOf
  <2>2. left \ dropped \subseteq owed /\ owed \subseteq left \cup retold
    BY DEF TableInv, OpenIsOwed
  <2> HIDE DEF owed
  <2>3. left' \ dropped' \subseteq owed' /\ owed' \subseteq left' \cup retold'
    BY <1>5, <2>1, <2>2
  <2> QED BY <2>3 DEF OpenIsOwed, owed
<1> QED BY <1>6, <1>7, <1>8, <1>9 DEF TableInv

(* A new request gets the record of a session or of an exchange.            *)
LEMMA OpenKeeps ==
  ASSUME TableInv, NEW q \in Requests, New(q) \/ Repeated(q), NEW j \in Jobs, Open(j, q),
         q.cmd \in JobCommands[j], j = "exchange" => q.peer \in Slaves
  PROVE  TableInv'
<1> DEFINE r == Record(q)
           i == Id(q)
<1>1. /\ i \in CommandIds /\ r \in Records /\ r.id = i
      /\ i.src = q.src /\ i.no = q.no /\ i.cmd = q.cmd /\ q.src \in Sources
  BY RequestMade
<1>2. q.cmd \in AsyncTerminal /\ q.cmd \notin PullCommands
  BY KindsDiffer
<1>3. New(q)
  BY <1>1, <1>2 DEF Repeated, TableInv, KindsOK
<1>4. i \notin left /\ \A s \in AllRecords : ~(s.id.src = q.src /\ s.id.no = q.no)
  BY <1>3, NewIsUnknown
<1> HIDE DEF r, i
<1>5. /\ job[j] = {} /\ job' = [job EXCEPT ![j] = {r}]
      /\ UNCHANGED <<pulls, deferred, linkVars, dropped>> /\ Settle(q, "OkDeferred")
  BY DEF Open, NoJob, r
<1>6. left' = left \cup {i} /\ retold' = retold
  BY <1>2, <1>4, <1>5 DEF Settle, LeftOpen, i
<1>7. DOMAIN job = Jobs
  BY DEF TableInv, TableTypeOK
<1>8. DOMAIN job' = Jobs /\ job'[j] = {r} /\ \A k \in Jobs : k # j => job'[k] = job[k]
  BY <1>5, <1>7
<1>9. JobsOf(Jobs)' = JobsOf(Jobs) \cup {r}
  BY <1>5, <1>8 DEF JobsOf
<1>10. AllRecords' = AllRecords \cup {r} /\ Waiting' = Waiting
  BY <1>5, <1>9 DEF AllRecords, Waiting
<1>11. TableTypeOK'
  <2>1. Cardinality({r}) <= 1
    <3>1. Cardinality({r}) = 1
      BY FS_Singleton
    <3> QED BY <3>1
  <2>2. \A k \in Jobs : job'[k] \subseteq Records /\ Cardinality(job'[k]) <= 1
    BY <1>1, <1>8, <2>1 DEF TableInv, TableTypeOK
  <2> QED BY <1>1, <1>5, <1>6, <1>8, <2>2, GivenGrows DEF TableInv, TableTypeOK, linkVars
<1>12. Numbered'
  <2>1. \A s \in Sources : given'[s] \in Nat /\ given[s] <= given'[s]
    BY GivenGrows, TableSizes
  <2>2. q.no <= given'[q.src]
    BY GivenGrows
  <2> QED BY <1>1, <1>6, <1>10, <2>1, <2>2, StillNumbered DEF Numbered
<1>13. OneEach'
  BY <1>1, <1>4, <1>10 DEF TableInv, OneEach
<1>14. KindsOK' /\ TwiceIsRetold' /\ SingleJobs'
  <2>1. KindsOK' /\ TwiceIsRetold'
    BY <1>1, <1>5, <1>6, <1>8, <1>10 DEF TableInv, KindsOK, TwiceIsRetold
  <2>2. r.peer = q.peer /\ "exchange" \in Jobs
    BY DEF r, Record, Jobs
  <2>3. SingleJobs'
    BY <1>8, <2>2 DEF TableInv, SingleJobs
  <2> QED BY <2>1, <2>3
<1>15. OpenIsOwed'
  <2> DEFINE owed == IdsOf(pulls \cup deferred \cup JobsOf(Jobs))
  <2>1. owed' = owed \cup {i} /\ dropped' = dropped
    BY <1>1, <1>5, <1>9 DEF IdsOf
  <2>2. left \ dropped \subseteq owed /\ owed \subseteq left \cup retold
    BY DEF TableInv, OpenIsOwed
  <2> HIDE DEF owed
  <2>3. left' \ dropped' \subseteq owed' /\ owed' \subseteq left' \cup retold'
    BY <1>6, <2>1, <2>2
  <2> QED BY <2>3 DEF OpenIsOwed, owed
<1> QED BY <1>11, <1>12, <1>13, <1>14, <1>15 DEF TableInv

(* A pull is sent, or a commit waits for its stage.                         *)
LEMMA PullKept ==
  ASSUME TableInv, NEW q \in Requests, New(q) \/ Repeated(q), q.cmd \in PullCommands,
         \/ pulls' = pulls \cup {Record(q)} /\ UNCHANGED deferred
         \/ deferred' = deferred \cup {Record(q)} /\ UNCHANGED pulls /\ Record(q) \notin pulls,
         UNCHANGED <<job, linkVars, dropped>>, Settle(q, "OkDeferred")
  PROVE  TableInv'
<1> DEFINE r == Record(q)
           i == Id(q)
<1>1. /\ i \in CommandIds /\ r \in Records /\ r.id = i
      /\ i.src = q.src /\ i.no = q.no /\ i.cmd = q.cmd /\ q.src \in Sources
  BY RequestMade
<1>2. r \in (pulls \cup deferred)'
  OBVIOUS
<1>3. PendingFor(q)'
  BY <1>1, <1>2 DEF PendingFor
<1>4. LeftOpen(q, "OkDeferred")
  BY <1>3 DEF LeftOpen
<1>5. New(q) => i \notin left /\ \A s \in AllRecords : ~(s.id.src = q.src /\ s.id.no = q.no)
  BY NewIsUnknown
<1>6. Repeated(q) => r \in Waiting /\ i \in left
  BY DEF Repeated
<1> HIDE DEF r, i
<1>7. left' = left \cup {i} /\ retold \subseteq retold' /\ retold' \subseteq retold \cup {i}
  BY <1>4 DEF Settle, i
<1>8. JobsOf(Jobs)' = JobsOf(Jobs)
  BY DEF JobsOf
<1>9. AllRecords' = AllRecords \cup {r} /\ Waiting' = Waiting \cup {r}
  BY <1>8 DEF AllRecords, Waiting, r
<1>10. TableTypeOK'
  <2>1. pulls' \subseteq Records /\ deferred' \subseteq Records
    BY <1>1 DEF TableInv, TableTypeOK, r
  <2> QED BY <1>1, <1>7, <2>1, GivenGrows DEF TableInv, TableTypeOK, linkVars
<1>11. Numbered'
  <2>1. \A s \in Sources : given'[s] \in Nat /\ given[s] <= given'[s]
    BY GivenGrows, TableSizes
  <2>2. q.no <= given'[q.src]
    BY GivenGrows
  <2> QED BY <1>1, <1>7, <1>9, <2>1, <2>2, StillNumbered DEF Numbered
<1>12. OneEach'
  <2>1. CASE New(q)
    BY <1>1, <1>5, <1>9, <2>1 DEF TableInv, OneEach
  <2>2. CASE Repeated(q)
    BY <1>6, <1>9, <2>2 DEF TableInv, OneEach, AllRecords
  <2> QED BY <2>1, <2>2
<1>13. KindsOK' /\ TwiceIsRetold' /\ SingleJobs'
  <2>1. KindsOK' /\ SingleJobs'
    BY <1>1, <1>9 DEF TableInv, KindsOK, SingleJobs
  <2>2. r \in deferred /\ r \notin pulls => i \in retold'
    <3>1. r \in deferred => i \in left
      BY <1>1, <1>5, <1>6 DEF AllRecords, Waiting
    <3> QED BY <3>1 DEF Settle, r, i
  <2>3. r \in pulls \cap deferred => i \in retold'
    BY <1>1, <1>7 DEF TableInv, TwiceIsRetold
  <2>4. ASSUME NEW s \in (pulls \cap deferred)'
        PROVE  s.id \in retold'
    <3>1. CASE s = r
      BY <1>1, <2>2, <2>3, <2>4, <3>1 DEF r
    <3>2. CASE s # r
      BY <1>7, <2>4, <3>2 DEF TableInv, TwiceIsRetold, r
    <3> QED BY <3>1, <3>2
  <2> QED BY <2>1, <2>4 DEF TwiceIsRetold
<1>14. OpenIsOwed'
  <2> DEFINE owed == IdsOf(pulls \cup deferred \cup JobsOf(Jobs))
  <2>1. owed' = owed \cup {i} /\ dropped' = dropped
    BY <1>1, <1>8, <1>9 DEF IdsOf, AllRecords, Waiting
  <2>2. left \ dropped \subseteq owed /\ owed \subseteq left \cup retold
    BY DEF TableInv, OpenIsOwed
  <2> HIDE DEF owed
  <2>3. left' \ dropped' \subseteq owed' /\ owed' \subseteq left' \cup retold'
    BY <1>7, <2>1, <2>2
  <2> QED BY <2>3 DEF OpenIsOwed, owed
<1> QED BY <1>10, <1>11, <1>12, <1>13, <1>14 DEF TableInv

LEMMA RunAnswerKeeps ==
  ASSUME TableInv, NEW q \in Requests, New(q) \/ Repeated(q), NEW S, Answer(q, S),
         "OkDeferred" \in S => q.cmd \notin AsyncTerminal
  PROVE  TableInv'
<1>1. PICK st \in S : Settle(q, st)
  BY DEF Answer
<1>2. /\ UNCHANGED <<recordVars, dropped, quiesced, radioUse>>
      /\ paired' \subseteq Slaves /\ scanning' \in BOOLEAN
  BY DEF Answer, linkVars, TableInv, TableTypeOK
<1> QED BY <1>1, <1>2, AnswerKeeps

LEMMA RunPullKeeps ==
  ASSUME TableInv, NEW q \in Requests, New(q) \/ Repeated(q), RunPull(q)
  PROVE  TableInv'
<1>1. q.cmd \in PullCommands /\ q.cmd \notin AsyncTerminal
  BY KindsDiffer DEF RunPull, PullCommands
<1>2. ASSUME NEW S, Answer(q, S)
      PROVE  TableInv'
  BY <1>1, <1>2, RunAnswerKeeps
<1>3. ASSUME ~(Tracked(q) /\ Twins(q) # {}), UNCHANGED <<job, linkVars, dropped>>,
             IF q.cmd = "TopologyCommit" /\ StagePending(q.peer)
               THEN deferred' = deferred \cup {Record(q)} /\ UNCHANGED pulls
               ELSE /\ pulls' = IF Tracked(q) THEN pulls \cup {Record(q)} ELSE pulls
                    /\ UNCHANGED deferred,
             Settle(q, IF Mutation(q.cmd) \/ Tracked(q) THEN "OkDeferred" ELSE "Ok")
      PROVE  TableInv'
  <2>1. CASE q.cmd = "TopologyCommit" /\ StagePending(q.peer)
    <3>1. Tracked(q)
      BY <2>1 DEF Tracked
    <3>2. Record(q) \notin pulls
      <4>1. /\ Record(q).id.cmd = "TopologyCommit" /\ Record(q).id.no = q.no
            /\ Record(q).peer = q.peer
        BY <2>1 DEF Record, Id
      <4> QED BY <1>3, <3>1, <4>1 DEF Twins
    <3> QED BY <1>1, <1>3, <2>1, <3>1, <3>2, PullKept
  <2>2. CASE ~(q.cmd = "TopologyCommit" /\ StagePending(q.peer)) /\ Tracked(q)
    BY <1>1, <1>3, <2>2, PullKept
  <2>3. CASE ~(q.cmd = "TopologyCommit" /\ StagePending(q.peer)) /\ ~Tracked(q)
    <3>1. UNCHANGED <<recordVars, dropped, quiesced, radioUse>>
      BY <1>3, <2>3 DEF recordVars, linkVars
    <3>2. paired' \subseteq Slaves /\ scanning' \in BOOLEAN
      BY <1>3 DEF linkVars, TableInv, TableTypeOK
    <3> QED BY <1>1, <1>3, <3>1, <3>2, AnswerKeeps
  <2> QED BY <2>1, <2>2, <2>3
<1>4. \/ \E S : Answer(q, S)
      \/ /\ ~(Tracked(q) /\ Twins(q) # {})
         /\ UNCHANGED <<job, linkVars, dropped>>
         /\ IF q.cmd = "TopologyCommit" /\ StagePending(q.peer)
               THEN deferred' = deferred \cup {Record(q)} /\ UNCHANGED pulls
               ELSE /\ pulls' = IF Tracked(q) THEN pulls \cup {Record(q)} ELSE pulls
                    /\ UNCHANGED deferred
         /\ Settle(q, IF Mutation(q.cmd) \/ Tracked(q) THEN "OkDeferred" ELSE "Ok")
  BY DEF RunPull, Pull
<1> QED BY <1>2, <1>3, <1>4

-----------------------------------------------------------------------------
(* Sessions and exchanges end: some jobs stop, and are told or dropped.     *)
LEMMA JobsStop ==
  ASSUME TableInv, NEW S \in SUBSET Jobs, job' = Stopped(S)
  PROVE  /\ DOMAIN job' = Jobs /\ \A j \in Jobs : job'[j] \subseteq Records /\ Cardinality(job'[j]) <= 1
         /\ JobsOf(Jobs)' \subseteq JobsOf(Jobs)
         /\ JobsOf(Jobs) \subseteq JobsOf(Jobs)' \cup JobsOf(S)
         /\ \A r \in JobsOf(Jobs)', s \in JobsOf(S) : r # s /\ r.id # s.id
         /\ \A r \in Waiting, s \in JobsOf(S) : r # s /\ r.id # s.id
         /\ \A j \in Jobs : job'[j] \subseteq job[j]
<1>1. DOMAIN job' = Jobs /\ \A j \in Jobs : job'[j] = IF j \in S THEN {} ELSE job[j]
  BY DEF Stopped, NoJob
<1>2. \A j \in Jobs : job'[j] \subseteq Records /\ Cardinality(job'[j]) <= 1
  <2>1. Cardinality({}) = 0
    BY FS_EmptySet
  <2>2. Cardinality({}) <= 1
    BY <2>1
  <2> QED BY <1>1, <2>2 DEF TableInv, TableTypeOK
<1>3. /\ JobsOf(Jobs)' \subseteq JobsOf(Jobs)
      /\ JobsOf(Jobs) \subseteq JobsOf(Jobs)' \cup JobsOf(S)
  BY <1>1 DEF JobsOf
<1>4. ASSUME NEW r \in JobsOf(Jobs)', NEW s \in JobsOf(S)
      PROVE  r # s /\ r.id # s.id
  <2>1. PICK j \in Jobs : r \in job'[j]
    BY DEF JobsOf
  <2>2. PICK k \in S : s \in job[k]
    BY DEF JobsOf
  <2>3. r \in job[j] /\ j # k /\ k \in Jobs
    BY <1>1, <2>1, <2>2
  <2>4. r.id.cmd \in JobCommands[j] /\ s.id.cmd \in JobCommands[k]
    BY <2>2, <2>3 DEF TableInv, KindsOK
  <2>5. r.id.cmd # s.id.cmd
    BY <2>3, <2>4, KindsDiffer
  <2> QED BY <2>5
<1>5. ASSUME NEW r \in Waiting, NEW s \in JobsOf(S)
      PROVE  r # s /\ r.id # s.id
  <2>1. PICK k \in S : s \in job[k]
    BY DEF JobsOf
  <2>2. r.id.cmd \in PullCommands /\ s.id.cmd \in AsyncTerminal
    BY <2>1, KindsDiffer DEF TableInv, KindsOK
  <2>3. r.id.cmd # s.id.cmd
    BY <2>2, KindsDiffer
  <2> QED BY <2>3
<1> QED BY <1>1, <1>2, <1>3, <1>4, <1>5

(* Records go; their commands are reported, dropped or told again.          *)
LEMMA RecordsGo ==
  ASSUME TableInv, (pulls \cup deferred)' \subseteq Waiting,
         \A r \in (pulls \cap deferred)' : r \in pulls \cap deferred,
         DOMAIN job' = Jobs, \A j \in Jobs : job'[j] \subseteq job[j] /\ Cardinality(job'[j]) <= 1,
         left' \subseteq left, dropped \subseteq dropped', dropped' \subseteq CommandIds,
         given' \in [Sources -> 0 .. MaxNumber], \A s \in Sources : given[s] <= given'[s],
         UNCHANGED retold,
         paired' \subseteq Slaves, scanning' \in BOOLEAN, quiesced' \in BOOLEAN, radioUse' \in 0 .. MaxRadio,
         \A r \in AllRecords \ AllRecords' : r.id \notin left' \/ r.id \in dropped'
                                           \/ \E s \in AllRecords' : s.id = r.id,
         \A r \in AllRecords' : r.id \in left => r.id \in left' \cup retold
  PROVE  TableInv'
<1>1. JobsOf(Jobs)' \subseteq JobsOf(Jobs)
  BY DEF JobsOf
<1>2. AllRecords' \subseteq AllRecords
  BY <1>1 DEF AllRecords, Waiting
<1>3. TableTypeOK'
  <2>1. pulls' \subseteq Records /\ deferred' \subseteq Records
    BY DEF TableInv, TableTypeOK, Waiting
  <2>2. \A j \in Jobs : job'[j] \subseteq Records
    BY DEF TableInv, TableTypeOK
  <2> QED BY <2>1, <2>2 DEF TableInv, TableTypeOK
<1>4. Numbered'
  <2>1. \A s \in Sources : given'[s] \in Nat /\ given[s] <= given'[s]
    BY TableSizes
  <2> QED BY <1>2, <2>1, StillNumbered DEF Numbered
<1>5. OneEach'
  BY <1>2 DEF TableInv, OneEach
<1>6. KindsOK' /\ TwiceIsRetold' /\ SingleJobs'
  <2>1. "exchange" \in Jobs
    BY DEF Jobs
  <2> QED BY <2>1 DEF TableInv, KindsOK, Waiting, TwiceIsRetold, SingleJobs
<1>7. OpenIsOwed'
  <2>1. ASSUME NEW i \in left' \ dropped'
        PROVE  \E s \in AllRecords' : s.id = i
    <3>1. PICK r \in AllRecords : r.id = i
      BY <2>1 DEF TableInv, OpenIsOwed, IdsOf, AllRecords, Waiting
    <3> QED BY <2>1, <3>1
  <2>2. ASSUME NEW r \in AllRecords'
        PROVE  r.id \in left' \cup retold'
    <3>1. r.id \in left \cup retold
      BY <1>2 DEF TableInv, OpenIsOwed, IdsOf, AllRecords, Waiting
    <3> QED BY <2>2, <3>1
  <2> QED BY <2>1, <2>2 DEF OpenIsOwed, IdsOf, AllRecords, Waiting
<1> QED BY <1>3, <1>4, <1>5, <1>6, <1>7 DEF TableInv

LEMMA Unasked ==
  ASSUME TableInv, UNCHANGED given
  PROVE  given' \in [Sources -> 0 .. MaxNumber] /\ \A s \in Sources : given[s] <= given'[s]
BY TableSizes DEF TableInv, TableTypeOK

(* Some jobs are over, and each of their commands is reported or dropped.   *)
LEMMA JobsEnd ==
  ASSUME TableInv, NEW S \in SUBSET Jobs, job' = Stopped(S), UNCHANGED <<pulls, deferred>>,
         left' = left \ IdsOf(JobsOf(S)), UNCHANGED <<dropped, retold>>,
         given' \in [Sources -> 0 .. MaxNumber], \A s \in Sources : given[s] <= given'[s],
         paired' \subseteq Slaves, scanning' \in BOOLEAN, quiesced' \in BOOLEAN, radioUse' \in 0 .. MaxRadio
  PROVE  TableInv'
<1>1. /\ DOMAIN job' = Jobs /\ \A j \in Jobs : job'[j] \subseteq job[j] /\ Cardinality(job'[j]) <= 1
      /\ JobsOf(Jobs) \subseteq JobsOf(Jobs)' \cup JobsOf(S)
      /\ \A r \in JobsOf(Jobs)' \cup Waiting, s \in JobsOf(S) : r.id # s.id
  BY JobsStop
<1>2. Waiting' = Waiting
  BY DEF Waiting
<1>3. \A r \in AllRecords \ AllRecords' : r.id \notin left'
  <2>1. \A r \in AllRecords \ AllRecords' : r \in JobsOf(S)
    BY <1>1, <1>2 DEF AllRecords
  <2> QED BY <2>1 DEF IdsOf
<1>4. \A r \in AllRecords' : r.id \in left => r.id \in left' \cup retold
  BY <1>1, <1>2 DEF AllRecords, IdsOf
<1>5. /\ (pulls \cup deferred)' \subseteq Waiting
      /\ \A r \in (pulls \cap deferred)' : r \in pulls \cap deferred
  BY DEF Waiting
<1>6. left' \subseteq left /\ dropped' \subseteq CommandIds
  BY DEF TableInv, TableTypeOK
<1> QED BY <1>1, <1>3, <1>4, <1>5, <1>6, RecordsGo

-----------------------------------------------------------------------------
LEMMA TickKeeps ==
  ASSUME TableInv, NEW q \in Requests, Tick(q)
  PROVE  TableInv'
<1>1. New(q) \/ Repeated(q)
  BY DEF Tick, New, Repeated, Waiting
<1>2. ASSUME NEW S, Answer(q, S), "OkDeferred" \in S => q.cmd \notin AsyncTerminal
      PROVE  TableInv'
  BY <1>1, <1>2, RunAnswerKeeps
<1>3. "OkDeferred" \notin Final /\ "OkDeferred" \notin {"Failed"} /\ "OkDeferred" \notin {"Ok"}
      /\ "OkDeferred" \notin {"Ok", "Failed"}
  BY DEF Final
<1>4. CASE Denied(q)
  BY <1>2, <1>3, <1>4 DEF Tick, Run
<1>5. CASE RunRead(q) \/ RunLocalWrite(q) \/ RunLocalTopology(q) \/ RunArchive(q)
  BY <1>2, <1>3, <1>5 DEF RunRead, RunLocalWrite, RunLocalTopology, RunArchive
<1>6. CASE RunMasterCritical(q) \/ RunSlaveCritical(q) \/ RunPush(q) \/ RunTransfer(q) \/ RunCommTest(q)
  <2>1. q.cmd \notin AsyncTerminal
    BY <1>6, HandedOver DEF RunMasterCritical, RunSlaveCritical, RunPush, RunTransfer, RunCommTest
  <2>2. \E S : Answer(q, S)
    BY <1>6 DEF RunMasterCritical, RunSlaveCritical, RunPush, RunTransfer, RunCommTest, Frame
  <2> QED BY <1>2, <2>1, <2>2
<1>7. CASE RunRemove(q)
  <2>1. CASE Answer(q, {"Failed"})
    BY <1>2, <1>3, <2>1
  <2>2. CASE /\ paired' = paired \ {q.peer}
             /\ UNCHANGED <<recordVars, scanning, quiesced, radioUse, dropped>> /\ Settle(q, "Ok")
    <3>1. paired' \subseteq Slaves /\ scanning' \in BOOLEAN
      BY <2>2 DEF TableInv, TableTypeOK
    <3>2. UNCHANGED <<recordVars, dropped, quiesced, radioUse>> /\ Settle(q, "Ok")
      BY <2>2
    <3> QED BY <1>1, <3>1, <3>2, AnswerKeeps
  <2> QED BY <1>7, <2>1, <2>2 DEF RunRemove
<1>8. CASE RunDiscovery(q)
  <2>1. PICK st \in Final : Settle(q, st)
    BY <1>8 DEF RunDiscovery
  <2>2. paired' \subseteq Slaves /\ scanning' \in BOOLEAN
    BY <1>8 DEF RunDiscovery, TableInv, TableTypeOK
  <2>3. UNCHANGED <<recordVars, dropped, quiesced, radioUse>> /\ Settle(q, st)
    BY <1>8, <2>1 DEF RunDiscovery
  <2>4. st # "OkDeferred"
    BY <1>3
  <2> QED BY <1>1, <2>2, <2>3, <2>4, AnswerKeeps
<1>9. CASE RunExchange(q)
  <2>1. \/ \E S \in SUBSET {"Ok", "Failed"} : Answer(q, S)
        \/ Open("exchange", q) /\ q.cmd \in Exchanges /\ q.peer \in Slaves
    BY <1>9 DEF RunExchange, Resolved, TableInv, TableTypeOK, Requests
  <2>2. "exchange" \in Jobs /\ JobCommands["exchange"] = Exchanges
    BY DEF Jobs, JobCommands
  <2> QED BY <1>1, <1>2, <1>3, <2>1, <2>2, OpenKeeps
<1>10. CASE RunChannelSync(q)
  <2>1. Answer(q, {"Failed"}) \/ (Open("sync", q) /\ q.cmd = "ChannelSyncAll")
    BY <1>10 DEF RunChannelSync
  <2>2. "sync" \in Jobs /\ "ChannelSyncAll" \in JobCommands["sync"]
    BY DEF Jobs, JobCommands
  <2> QED BY <1>1, <1>2, <1>3, <2>1, <2>2, OpenKeeps
<1>11. CASE RunChainLoop(q)
  <2>1. (\E S \in SUBSET Final : Answer(q, S)) \/ (Open("loop", q) /\ q.cmd = "ChainLoopControlSet")
    BY <1>11 DEF RunChainLoop, Final
  <2>2. "loop" \in Jobs /\ "ChainLoopControlSet" \in JobCommands["loop"]
    BY DEF Jobs, JobCommands
  <2> QED BY <1>1, <1>2, <1>3, <2>1, <2>2, OpenKeeps
<1>12. CASE RunPull(q)
  BY <1>1, <1>12, RunPullKeeps
<1>13. CASE RunOtaPush(q)
  <2>1. Answer(q, {"Failed"}) \/ (Open("push", q) /\ q.cmd = "OtaPushStart")
    BY <1>13 DEF RunOtaPush
  <2>2. "push" \in Jobs /\ "OtaPushStart" \in JobCommands["push"]
    BY DEF Jobs, JobCommands
  <2> QED BY <1>1, <1>2, <1>3, <2>1, <2>2, OpenKeeps
<1>14. CASE RunOtaUpdate(q)
  <2>1. Answer(q, {"Failed"}) \/ (Open("update", q) /\ q.cmd = "OtaUpdateStart")
    BY <1>14 DEF RunOtaUpdate
  <2>2. "update" \in Jobs /\ "OtaUpdateStart" \in JobCommands["update"]
    BY DEF Jobs, JobCommands
  <2> QED BY <1>1, <1>2, <1>3, <2>1, <2>2, OpenKeeps
<1>15. CASE RunAbort(q)
  <2>1. {"push", "update"} \in SUBSET Jobs
    BY DEF Jobs
  <2>2. /\ job' = Stopped({"push", "update"}) /\ UNCHANGED <<pulls, deferred>>
        /\ left' = left \ IdsOf(JobsOf({"push", "update"})) /\ UNCHANGED <<dropped, retold>>
    BY <1>15 DEF RunAbort
  <2>3. /\ paired' \subseteq Slaves /\ scanning' \in BOOLEAN /\ quiesced' \in BOOLEAN
        /\ radioUse' \in 0 .. MaxRadio
    BY <1>15 DEF RunAbort, linkVars, TableInv, TableTypeOK
  <2> QED BY <1>1, <2>1, <2>2, <2>3, GivenGrows, JobsEnd
<1>16. \/ Denied(q) \/ RunRead(q) \/ RunLocalWrite(q) \/ RunLocalTopology(q) \/ RunArchive(q)
       \/ RunMasterCritical(q) \/ RunSlaveCritical(q) \/ RunPush(q) \/ RunTransfer(q)
       \/ RunCommTest(q) \/ RunRemove(q) \/ RunDiscovery(q) \/ RunExchange(q)
       \/ RunChannelSync(q) \/ RunChainLoop(q) \/ RunPull(q)
       \/ RunOtaPush(q) \/ RunOtaUpdate(q) \/ RunAbort(q)
  BY DEF Tick, Run
<1> QED BY <1>4, <1>5, <1>6, <1>7, <1>8, <1>9, <1>10, <1>11, <1>12, <1>13, <1>14, <1>15, <1>16

-----------------------------------------------------------------------------
(* The records end one at a time.                                           *)
LEMMA WaitingEnds ==
  ASSUME TableInv, NEW r \in pulls,
         PullAnswered(r) \/ PullLapses(r)
  PROVE  TableInv'
<1>1. UNCHANGED <<job, given, linkVars, retold>>
  BY DEF PullAnswered, PullLapses
<1>2. \A j \in Jobs : job'[j] \subseteq job[j] /\ Cardinality(job'[j]) <= 1
  BY <1>1 DEF TableInv, TableTypeOK
<1>3. DOMAIN job' = Jobs /\ JobsOf(Jobs)' = JobsOf(Jobs)
  BY <1>1 DEF TableInv, TableTypeOK, JobsOf
<1>4. /\ paired' \subseteq Slaves /\ scanning' \in BOOLEAN /\ quiesced' \in BOOLEAN
      /\ radioUse' \in 0 .. MaxRadio
  BY <1>1 DEF linkVars, TableInv, TableTypeOK
<1>5. r \in AllRecords /\ r.id \in CommandIds
  <2>1. r \in Records
    BY DEF TableInv, TableTypeOK
  <2> QED BY <2>1 DEF AllRecords, Waiting, Records
<1>6. CASE PullLapses(r)
  <2>1. /\ pulls' = pulls \ {r} /\ dropped' = dropped \cup {r.id}
        /\ UNCHANGED <<deferred, left>>
    BY <1>6 DEF PullLapses
  <2>2. \A s \in AllRecords \ AllRecords' : s.id \in dropped'
    BY <1>3, <2>1 DEF AllRecords, Waiting
  <2>3. left' \subseteq left /\ dropped' \subseteq CommandIds /\ dropped \subseteq dropped'
    BY <1>5, <2>1 DEF TableInv, TableTypeOK
  <2>4. /\ (pulls \cup deferred)' \subseteq Waiting
        /\ \A s \in (pulls \cap deferred)' : s \in pulls \cap deferred
    BY <2>1 DEF Waiting
  <2>5. \A s \in AllRecords' : s.id \in left => s.id \in left' \cup retold
    BY <2>1
  <2> QED BY <1>1, <1>2, <1>3, <1>4, <2>2, <2>3, <2>4, <2>5, Unasked, RecordsGo
<1>7. CASE PullAnswered(r)
  <2> DEFINE held == {w \in deferred : r.id.cmd = "TopologyStageSet" /\ w.peer = r.peer}
  <2>1. PICK sent \in SUBSET held : /\ pulls' = (pulls \ {r}) \cup sent
                                  /\ deferred' = deferred \ held
                                  /\ left' = left \ IdsOf({r} \cup (held \ sent))
    BY <1>7 DEF PullAnswered
  <2>2. held \subseteq deferred /\ sent \subseteq held
    OBVIOUS
  <2> HIDE DEF held
  <2>3. dropped' = dropped
    BY <1>7 DEF PullAnswered
  <2>4. \A s \in AllRecords \ AllRecords' : s.id \notin left'
    <3>1. \A s \in AllRecords \ AllRecords' : s \in {r} \cup (held \ sent)
      BY <1>3, <2>1, <2>2 DEF AllRecords, Waiting
    <3> QED BY <2>1, <3>1 DEF IdsOf
  <2>5. /\ (pulls \cup deferred)' \subseteq Waiting
        /\ \A s \in (pulls \cap deferred)' : s \in pulls \cap deferred
    BY <2>1, <2>2 DEF Waiting
  <2>6. ASSUME NEW s \in AllRecords', s.id \in left, s.id \notin left'
        PROVE  s.id \in retold
    <3>1. PICK t \in {r} \cup (held \ sent) : t.id = s.id
      BY <2>1, <2>6 DEF IdsOf
    <3>2. t \in AllRecords /\ t \in Waiting
      BY <2>2 DEF AllRecords, Waiting
    <3>3. s \in AllRecords
      BY <1>3, <2>1, <2>2 DEF AllRecords, Waiting
    <3>4. s = t
      BY <3>1, <3>2, <3>3 DEF TableInv, OneEach
    <3>5. t \notin JobsOf(Jobs)
      BY <3>2, KindsDiffer DEF TableInv, KindsOK, JobsOf
    <3>6. t \in pulls' \/ t \in deferred'
      BY <1>3, <2>6, <3>4, <3>5 DEF AllRecords, Waiting
    <3>7. t \in pulls \cap deferred
      BY <2>1, <2>2, <3>6
    <3> QED BY <3>4, <3>7 DEF TableInv, TwiceIsRetold
  <2>7. left' \subseteq left /\ dropped' \subseteq CommandIds
    BY <2>1, <2>3 DEF TableInv, TableTypeOK
  <2> QED BY <1>1, <1>2, <1>3, <1>4, <2>3, <2>4, <2>5, <2>6, <2>7, Unasked, RecordsGo
<1> QED BY <1>6, <1>7

LEMMA CommitTimesOut ==
  ASSUME TableInv, NEW w \in deferred, WaitTimesOut(w)
  PROVE  TableInv'
<1>1. /\ UNCHANGED <<job, given, pulls, linkVars, retold, dropped>>
      /\ deferred' = deferred \ {w} /\ left' = left \ {w.id}
  BY DEF WaitTimesOut
<1>2. \A j \in Jobs : job'[j] \subseteq job[j] /\ Cardinality(job'[j]) <= 1
  BY <1>1 DEF TableInv, TableTypeOK
<1>3. DOMAIN job' = Jobs /\ JobsOf(Jobs)' = JobsOf(Jobs)
  BY <1>1 DEF TableInv, TableTypeOK, JobsOf
<1>4. /\ paired' \subseteq Slaves /\ scanning' \in BOOLEAN /\ quiesced' \in BOOLEAN
      /\ radioUse' \in 0 .. MaxRadio /\ left' \subseteq left /\ dropped' \subseteq CommandIds
  BY <1>1 DEF linkVars, TableInv, TableTypeOK
<1>5. \A s \in AllRecords \ AllRecords' : s.id \notin left'
  BY <1>1, <1>3 DEF AllRecords, Waiting
<1>6. /\ (pulls \cup deferred)' \subseteq Waiting
      /\ \A s \in (pulls \cap deferred)' : s \in pulls \cap deferred
  BY <1>1 DEF Waiting
<1>7. ASSUME NEW s \in AllRecords', s.id \in left, s.id \notin left'
      PROVE  s.id \in retold
  <2>1. s.id = w.id /\ s \in AllRecords /\ w \in AllRecords /\ w \in Waiting
    BY <1>1, <1>3, <1>7 DEF AllRecords, Waiting
  <2>2. s = w
    BY <2>1 DEF TableInv, OneEach
  <2>3. w \notin JobsOf(Jobs)
    BY <2>1, KindsDiffer DEF TableInv, KindsOK, JobsOf
  <2>4. w \in pulls
    BY <1>1, <1>3, <1>7, <2>2, <2>3 DEF AllRecords, Waiting
  <2> QED BY <2>2, <2>4 DEF TableInv, TwiceIsRetold
<1> QED BY <1>1, <1>2, <1>3, <1>4, <1>5, <1>6, <1>7, Unasked, RecordsGo

LEMMA SessionOver ==
  ASSUME TableInv, NEW j \in Jobs, SessionEnds(j)
  PROVE  TableInv'
<1>1. JobsOf({j}) = job[j]
  BY DEF JobsOf
<1>2. /\ job' = Stopped({j}) /\ UNCHANGED <<pulls, deferred>>
      /\ left' = left \ IdsOf(JobsOf({j})) /\ UNCHANGED <<given, dropped, retold>>
  BY <1>1 DEF SessionEnds
<1>3. /\ paired' \subseteq Slaves /\ scanning' \in BOOLEAN /\ quiesced' \in BOOLEAN
      /\ radioUse' \in 0 .. MaxRadio
  BY DEF SessionEnds, linkVars, TableInv, TableTypeOK
<1> QED BY <1>2, <1>3, Unasked, JobsEnd

LEMMA ExchangeOver ==
  ASSUME TableInv, NEW r \in job["exchange"], ExchangeEnds(r)
  PROVE  TableInv'
<1>1. "exchange" \in Jobs /\ {"exchange"} \in SUBSET Jobs
  BY DEF Jobs
<1>2. job["exchange"] = {r}
  BY <1>1 DEF TableInv, SingleJobs
<1>3. JobsOf({"exchange"}) = {r}
  BY <1>2 DEF JobsOf
<1>4. /\ job' = Stopped({"exchange"}) /\ UNCHANGED <<pulls, deferred>>
      /\ left' = left \ IdsOf(JobsOf({"exchange"})) /\ UNCHANGED <<given, dropped, retold>>
  BY <1>3 DEF ExchangeEnds, IdsOf
<1>5. r.peer \in Slaves
  BY DEF TableInv, SingleJobs
<1>6. /\ paired' \subseteq Slaves /\ scanning' \in BOOLEAN /\ quiesced' \in BOOLEAN
      /\ radioUse' \in 0 .. MaxRadio
  BY <1>5 DEF ExchangeEnds, TableInv, TableTypeOK
<1> QED BY <1>1, <1>4, <1>6, Unasked, JobsEnd

-----------------------------------------------------------------------------
(* The radio stops, and with it every session.                              *)
LEMMA RadioStops ==
  ASSUME TableInv, NEW keep \in BOOLEAN, radioUse < MaxRadio, Quiesce(keep)
  PROVE  TableInv'
<1>1. /\ job' = Stopped(Jobs) /\ left' = left \ IdsOf(JobsOf(Jobs))
      /\ UNCHANGED <<given, paired, retold>>
      /\ quiesced' = TRUE /\ scanning' = FALSE /\ radioUse' = radioUse + 1
  BY DEF Quiesce
<1>2. /\ paired' \subseteq Slaves /\ scanning' \in BOOLEAN /\ quiesced' \in BOOLEAN
      /\ radioUse' \in 0 .. MaxRadio
  <2>1. radioUse \in 0 .. MaxRadio /\ MaxRadio \in Nat
    BY TableSizes DEF TableInv, TableTypeOK
  <2>2. radioUse' \in 0 .. MaxRadio
    BY <1>1, <2>1
  <2> QED BY <1>1, <2>2 DEF TableInv, TableTypeOK
<1>3. Jobs \in SUBSET Jobs
  OBVIOUS
<1>4. CASE keep
  <2>1. UNCHANGED <<pulls, deferred, dropped>>
    BY <1>4 DEF Quiesce
  <2> QED BY <1>1, <1>2, <1>3, <2>1, Unasked, JobsEnd
<1>5. CASE ~keep
  <2>1. pulls' = {} /\ deferred' = {} /\ dropped' = dropped \cup IdsOf(Waiting)
    BY <1>5 DEF Quiesce, Waiting
  <2>2. /\ DOMAIN job' = Jobs /\ \A j \in Jobs : job'[j] \subseteq job[j] /\ Cardinality(job'[j]) <= 1
        /\ \A j \in Jobs : job'[j] = {}
    BY <1>1, <1>3, JobsStop DEF Stopped, NoJob
  <2>3. AllRecords' = {}
    BY <2>1, <2>2 DEF AllRecords, Waiting, JobsOf
  <2>4. \A r \in AllRecords : r.id \notin left' \/ r.id \in dropped'
    BY <1>1, <2>1 DEF AllRecords, IdsOf
  <2>5. left' \subseteq left /\ dropped' \subseteq CommandIds
    <3>1. IdsOf(Waiting) \subseteq CommandIds
      BY RecordTypes DEF IdsOf, AllRecords, Records
    <3> QED BY <1>1, <2>1, <3>1 DEF TableInv, TableTypeOK
  <2>6. /\ (pulls \cup deferred)' \subseteq Waiting
        /\ \A s \in (pulls \cap deferred)' : s \in pulls \cap deferred
    BY <2>1
  <2> QED BY <1>1, <1>2, <2>1, <2>2, <2>3, <2>4, <2>5, <2>6, Unasked, RecordsGo
<1> QED BY <1>4, <1>5

LEMMA RadioRestarts ==
  ASSUME TableInv, HardReinitRadio
  PROVE  TableInv'
<1> DEFINE lost == {"exchange", "sync", "loop"}
<1>1. /\ job' = Stopped(lost) /\ pulls' = {} /\ deferred' = {} /\ UNCHANGED left
      /\ dropped' = dropped \cup IdsOf(Waiting \cup JobsOf(lost))
      /\ UNCHANGED <<given, paired, retold>>
      /\ quiesced' = FALSE /\ scanning' = FALSE /\ radioUse < MaxRadio /\ radioUse' = radioUse + 1
  BY DEF HardReinitRadio, Waiting
<1>2. /\ paired' \subseteq Slaves /\ scanning' \in BOOLEAN /\ quiesced' \in BOOLEAN
      /\ radioUse' \in 0 .. MaxRadio
  <2>1. radioUse \in 0 .. MaxRadio /\ MaxRadio \in Nat
    BY TableSizes DEF TableInv, TableTypeOK
  <2>2. radioUse' \in 0 .. MaxRadio
    BY <1>1, <2>1
  <2> QED BY <1>1, <2>2 DEF TableInv, TableTypeOK
<1>3. lost \in SUBSET Jobs
  BY DEF Jobs
<1> HIDE DEF lost
<1>4. /\ DOMAIN job' = Jobs /\ \A j \in Jobs : job'[j] \subseteq job[j] /\ Cardinality(job'[j]) <= 1
      /\ JobsOf(Jobs) \subseteq JobsOf(Jobs)' \cup JobsOf(lost)
  BY <1>1, <1>3, JobsStop
<1>5. \A r \in AllRecords \ AllRecords' : r.id \in dropped'
  <2>1. \A r \in AllRecords \ AllRecords' : r \in Waiting \cup JobsOf(lost)
    BY <1>4 DEF AllRecords
  <2> QED BY <1>1, <2>1 DEF IdsOf
<1>6. left' \subseteq left /\ dropped' \subseteq CommandIds /\ dropped \subseteq dropped'
  <2>1. JobsOf(lost) \subseteq AllRecords /\ Waiting \subseteq AllRecords
    BY <1>3 DEF JobsOf, AllRecords
  <2>2. IdsOf(Waiting \cup JobsOf(lost)) \subseteq CommandIds
    BY <2>1, RecordTypes DEF IdsOf, Records
  <2> QED BY <1>1, <2>2 DEF TableInv, TableTypeOK
<1>7. /\ (pulls \cup deferred)' \subseteq Waiting
      /\ \A s \in (pulls \cap deferred)' : s \in pulls \cap deferred
  BY <1>1
<1>8. \A r \in AllRecords' : r.id \in left => r.id \in left' \cup retold
  BY <1>1
<1> QED BY <1>1, <1>2, <1>4, <1>5, <1>6, <1>7, <1>8, Unasked, RecordsGo

(* Steps that touch no record.                                              *)
LEMMA RecordsStay ==
  ASSUME TableInv, UNCHANGED <<given, recordVars, left, dropped, retold>>,
         paired' \subseteq Slaves, scanning' \in BOOLEAN, quiesced' \in BOOLEAN, radioUse' \in 0 .. MaxRadio
  PROVE  TableInv'
<1>1. TableTypeOK'
  BY DEF TableInv, TableTypeOK, recordVars
<1>2. Numbered' /\ OneEach' /\ KindsOK' /\ TwiceIsRetold' /\ SingleJobs' /\ OpenIsOwed'
  BY DEF TableInv, Numbered, OneEach, KindsOK, TwiceIsRetold, SingleJobs, OpenIsOwed, IdsOf,
         recordVars, AllRecords, Waiting, JobsOf
<1> QED BY <1>1, <1>2 DEF TableInv

LEMMA TableInvInit == TableInit => TableInv
<1> SUFFICES ASSUME TableInit PROVE TableInv
  OBVIOUS
<1>1. /\ pulls = {} /\ deferred = {} /\ left = {} /\ dropped = {} /\ retold = {}
      /\ job = [j \in Jobs |-> {}]
  BY DEF TableInit, NoJob
<1>2. AllRecords = {} /\ Waiting = {}
  BY <1>1 DEF AllRecords, Waiting, JobsOf
<1>3. TableTypeOK
  <2>1. Cardinality({}) = 0
    BY FS_EmptySet
  <2>2. Cardinality({}) <= 1
    BY <2>1
  <2>3. \A j \in Jobs : job[j] \subseteq Records /\ Cardinality(job[j]) <= 1
    BY <1>1, <2>2
  <2>4. given \in [Sources -> 0 .. MaxNumber] /\ radioUse \in 0 .. MaxRadio
    BY TableSizes DEF TableInit
  <2> QED BY <1>1, <2>3, <2>4 DEF TableTypeOK, TableInit
<1>4. Numbered /\ OneEach /\ TwiceIsRetold
  BY <1>1, <1>2 DEF Numbered, OneEach, TwiceIsRetold
<1>5. KindsOK /\ SingleJobs
  BY <1>1, <1>2 DEF KindsOK, SingleJobs, Jobs
<1>6. OpenIsOwed
  BY <1>1 DEF OpenIsOwed, IdsOf, JobsOf
<1> QED BY <1>3, <1>4, <1>5, <1>6 DEF TableInv

LEMMA TableStepKeeps ==
  ASSUME TableInv, TableNext
  PROVE  TableInv'
<1>1. CASE \E q \in Requests : Tick(q)
  BY <1>1, TickKeeps
<1>2. CASE \E r \in pulls : PullAnswered(r) \/ PullLapses(r)
  BY <1>2, WaitingEnds
<1>3. CASE \E w \in deferred : WaitTimesOut(w)
  BY <1>3, CommitTimesOut
<1>4. CASE \E j \in Jobs : SessionEnds(j)
  BY <1>4, SessionOver
<1>5. CASE \E r \in job["exchange"] : ExchangeEnds(r)
  BY <1>5, ExchangeOver
<1>6. CASE DiscoveryEnds \/ EndRadioTransition
  <2>1. UNCHANGED <<given, recordVars, left, dropped, retold>>
    BY <1>6 DEF DiscoveryEnds, EndRadioTransition
  <2>2. paired' \subseteq Slaves /\ scanning' \in BOOLEAN /\ quiesced' \in BOOLEAN
        /\ radioUse' \in 0 .. MaxRadio
    BY <1>6 DEF DiscoveryEnds, EndRadioTransition, TableInv, TableTypeOK
  <2> QED BY <2>1, <2>2, RecordsStay
<1>7. CASE BeginRadioTransition
  BY <1>7, RadioStops DEF BeginRadioTransition
<1>8. CASE HardDeinitRadio
  BY <1>8, RadioStops DEF HardDeinitRadio
<1>9. CASE HardReinitRadio
  BY <1>9, RadioRestarts
<1>10. CASE ReinitFails
  <2>1. radioUse \in 0 .. MaxRadio /\ MaxRadio \in Nat
    BY TableSizes DEF TableInv, TableTypeOK
  <2>2. radioUse' \in 0 .. MaxRadio
    BY <1>10, <2>1 DEF ReinitFails
  <2>3. UNCHANGED <<given, recordVars, left, dropped, retold>>
    BY <1>10 DEF ReinitFails
  <2>4. paired' \subseteq Slaves /\ scanning' \in BOOLEAN /\ quiesced' \in BOOLEAN
    BY <1>10 DEF ReinitFails, TableInv, TableTypeOK
  <2> QED BY <2>2, <2>3, <2>4, RecordsStay
<1> QED BY <1>1, <1>2, <1>3, <1>4, <1>5, <1>6, <1>7, <1>8, <1>9, <1>10 DEF TableNext, TableSteps

LEMMA TableInvKept == TableInv /\ [TableNext]_tableVars => TableInv'
<1> SUFFICES ASSUME TableInv, [TableNext]_tableVars PROVE TableInv'
  OBVIOUS
<1>1. CASE TableNext
  BY <1>1, TableStepKeeps
<1>2. CASE UNCHANGED tableVars
  <2>1. UNCHANGED <<given, recordVars, linkVars, left, dropped, retold>>
    BY <1>2 DEF tableVars
  <2>2. /\ paired' \subseteq Slaves /\ scanning' \in BOOLEAN /\ quiesced' \in BOOLEAN
        /\ radioUse' \in 0 .. MaxRadio
    BY <2>1 DEF linkVars, TableInv, TableTypeOK
  <2> QED BY <2>1, <2>2, RecordsStay
<1> QED BY <1>1, <1>2

(* A number of a source stands for one command, each command waits where    *)
(* its kind belongs, twice only when it was repeated, and what is left open *)
(* has its record, whatever handleRequest, the responses and prune do.      *)
THEOREM TableInvHolds == TableSpec => []TableInv
BY TableInvInit, TableInvKept, PTL DEF TableSpec

(* The records of pulls, deferred commits and sessions, and the link state  *)
(* that admits commands, keep their types.                                  *)
THEOREM TableTypeCorrect == TableSpec => []TableTypeOK
<1>1. TableInv => TableTypeOK
  BY DEF TableInv
<1> QED BY <1>1, TableInvHolds, PTL

(* Every command that handleRequest leaves open is kept by a pull, a        *)
(* deferred commit or a session that will report its end, unless its record *)
(* was dropped without one; and no record will report a command whose end   *)
(* was reported, unless it was repeated and did not join its pull.          *)
THEOREM NothingForgotten == TableSpec => []OpenIsOwed
<1>1. TableInv => OpenIsOwed
  BY DEF TableInv
<1> QED BY <1>1, TableInvHolds, PTL

-----------------------------------------------------------------------------
(* The cache of a frontend: types of what is under way and of what is known.*)

Ops       == {"Bundle", "Get", "Set"}
QueryType == [req : Nat, op : Ops, id : Settings, value : Versions]
ReplyType == [req : Nat, op : Ops, cursor : Nat, items : Parts, done : BOOLEAN, good : BOOLEAN]
LetterType == [node : Servants, req : Nat, op : Ops, cursor : Nat, items : Parts, done : BOOLEAN,
               status : {"Ok", "Deferred", "Fail"}]
ListType  == [op : {"List"}, peers : SUBSET Servants]
NoticeType == [node : Servants, what : {"Paired", "Gone"}]
PullType  == [node : Servants, req : Nat, op : Ops, got : SUBSET Settings, last : BOOLEAN]
EntryType == [vals : Parts, whole : {"Empty", "Partial", "Full"}]
Nodes     == Servants \cup {Idle.node}
CallType  == [op : {"None", "Refresh", "Snapshot", "Write", "Read", "Sync"}, node : Nodes, req : Nat,
              id : Settings, value : Versions, fresh : BOOLEAN, answer : {"Wait", "Ok", "Fail"},
              read : Parts, agrees : BOOLEAN]
ReturnType == [what : {"Nothing", "Fresh", "Cached", "Confirmed", "Written"}, node : Nodes,
               vals : Parts, id : Settings, value : Versions]

LEMMA PartIs ==
  ASSUME NEW f, NEW S \in SUBSET Settings, f \in [S -> Versions]
  PROVE  f \in Parts /\ DOMAIN f = S
BY DEF Parts

LEMMA PartHas ==
  ASSUME NEW f \in Parts
  PROVE  /\ DOMAIN f \subseteq Settings /\ f = [i \in DOMAIN f |-> f[i]]
         /\ \A i \in DOMAIN f : f[i] \in Versions
BY DEF Parts

LEMMA NoPartIs == NoPart \in Parts /\ DOMAIN NoPart = {}
<1>1. NoPart \in [{} -> Versions] /\ DOMAIN NoPart = {}
  BY DEF NoPart
<1> QED BY <1>1, PartIs

LEMMA Joined ==
  ASSUME NEW f \in Parts, NEW g \in Parts,
         NEW h, h = [i \in DOMAIN f \cup DOMAIN g |-> IF i \in DOMAIN f THEN f[i] ELSE g[i]]
  PROVE  h \in Parts
<1>1. h \in [DOMAIN f \cup DOMAIN g -> Versions]
  BY PartHas
<1>2. DOMAIN f \cup DOMAIN g \in SUBSET Settings
  BY PartHas
<1> QED BY <1>1, <1>2, PartIs

LEMMA IngestedIs ==
  ASSUME NEW e \in EntryType, NEW m \in LetterType
  PROVE  LET x == Ingested(e, m)
             opening == m.op = "Bundle" /\ m.cursor = 0
         IN  /\ x \in EntryType
             /\ DOMAIN x.vals = DOMAIN m.items \cup (IF opening THEN {} ELSE DOMAIN e.vals)
             /\ \A i \in DOMAIN m.items : x.vals[i] = m.items[i]
             /\ ~opening => \A i \in DOMAIN e.vals \ DOMAIN m.items : x.vals[i] = e.vals[i]
             /\ (e.whole = "Full" => DOMAIN e.vals = Settings) =>
                   (x.whole = "Full" => DOMAIN x.vals = Settings)
<1> DEFINE opening == m.op = "Bundle" /\ m.cursor = 0
           base == IF opening THEN NoPart ELSE e.vals
           vals == [i \in DOMAIN m.items \cup DOMAIN base |->
                      IF i \in DOMAIN m.items THEN m.items[i] ELSE base[i]]
           whole == CASE m.op = "Get" -> IF e.whole = "Empty" THEN "Partial" ELSE e.whole
                      [] m.op # "Get" /\ m.done /\ DOMAIN vals = Settings -> "Full"
                      [] OTHER -> "Partial"
<1>1. Ingested(e, m) = [vals |-> vals, whole |-> whole]
  BY DEF Ingested
<1>2. e.vals \in Parts /\ m.items \in Parts /\ e.whole \in {"Empty", "Partial", "Full"}
      /\ m.op \in Ops /\ m.done \in BOOLEAN
  BY DEF EntryType, LetterType
<1>3. base \in Parts
  BY <1>2, NoPartIs
<1>4. DOMAIN base = IF opening THEN {} ELSE DOMAIN e.vals
  BY NoPartIs
<1>5. vals \in Parts
  BY <1>2, <1>3, Joined
<1>6. DOMAIN vals = DOMAIN m.items \cup DOMAIN base
  OBVIOUS
<1>7. whole \in {"Empty", "Partial", "Full"}
  BY <1>2
<1>8. /\ \A i \in DOMAIN m.items : vals[i] = m.items[i]
      /\ ~opening => \A i \in DOMAIN e.vals \ DOMAIN m.items : vals[i] = e.vals[i]
  OBVIOUS
<1>9. (e.whole = "Full" => DOMAIN e.vals = Settings) => (whole = "Full" => DOMAIN vals = Settings)
  <2>1. CASE m.op = "Get"
    <3>1. ~opening /\ (whole = "Full" => e.whole = "Full")
      BY <2>1
    <3>2. DOMAIN m.items \subseteq Settings
      BY <1>2, PartHas
    <3> QED BY <1>4, <1>6, <3>1, <3>2
  <2>2. CASE m.op # "Get"
    BY <2>2
  <2> QED BY <2>1, <2>2
<1> HIDE DEF vals, whole, base
<1> QED BY <1>1, <1>4, <1>5, <1>6, <1>7, <1>8, <1>9 DEF EntryType

LEMMA Sizes ==
  /\ Total \in Nat \ {0} /\ PageSize \in Nat \ {0} /\ MaxPulls \in Nat /\ MaxWork \in Nat
  /\ FrameFits \in [Servants -> Nat \ {0}] /\ 0 \in Versions /\ 0 \in Settings
  /\ (Total + PageSize - 1) \div PageSize \in Nat
<1>1. Total \in Nat \ {0} /\ PageSize \in Nat \ {0} /\ MaxPulls \in Nat /\ MaxWork \in Nat
  BY CacheSizes
<1>2. 0 \in Settings
  BY <1>1 DEF Settings
<1>3. \A a \in Nat, b \in Nat \ {0} : a \div b \in Nat
  OBVIOUS
<1>4. Total + PageSize - 1 \in Nat
  BY <1>1
<1> QED BY <1>1, <1>2, <1>3, <1>4, CacheSizes

LEMMA PageStart == \A a \in Nat, b \in Nat : a * b \in Nat
OBVIOUS

LEMMA PageIs ==
  ASSUME stored \in [Servants -> [Settings -> Versions]],
         NEW n \in Servants, NEW q \in QueryType, NEW c \in Nat
  PROVE  /\ PageAt(n, q, c) \in ReplyType
         /\ PageAt(n, q, c).req = q.req /\ PageAt(n, q, c).op = q.op
         /\ PageAt(n, q, c).cursor = c /\ PageAt(n, q, c).good
         /\ 0 \in DOMAIN PageAt(n, q, c).items => c = 0
         /\ \A i \in DOMAIN PageAt(n, q, c).items : PageAt(n, q, c).items[i] = stored[n][i]
<1> DEFINE S == {c + PageSize, c + FrameFits[n], Total}
           end == Min(S)
           items == [i \in c .. end - 1 |-> stored[n][i]]
<1>1. Total \in Nat /\ PageSize \in Nat /\ FrameFits[n] \in Nat
  BY Sizes
<1>2. \E x \in S : \A y \in S : x <= y
  BY <1>1
<1>3. end \in S /\ \A y \in S : end <= y
  BY <1>2 DEF Min
<1>4. end <= Total /\ end \in Nat
  BY <1>1, <1>3
<1>5. c .. end - 1 \in SUBSET Settings /\ (0 \in c .. end - 1 => c = 0)
  BY <1>1, <1>4 DEF Settings
<1>6. items \in [c .. end - 1 -> Versions]
  BY <1>5
<1>7. items \in Parts /\ DOMAIN items = c .. end - 1
  BY <1>5, <1>6, PartIs
<1>8. PageAt(n, q, c) = Reply(q, c, items, end = Total, TRUE)
  BY DEF PageAt
<1>9. \A i \in DOMAIN items : items[i] = stored[n][i]
  OBVIOUS
<1> HIDE DEF items, end
<1> QED BY <1>5, <1>7, <1>8, <1>9 DEF Reply, ReplyType, QueryType

LEMMA PagesAre ==
  ASSUME stored \in [Servants -> [Settings -> Versions]],
         NEW n \in Servants, NEW q \in QueryType
  PROVE  /\ BundlePages(n, q) \in Seq(ReplyType)
         /\ \A k \in DOMAIN BundlePages(n, q) :
              \E c \in Nat : BundlePages(n, q)[k] = PageAt(n, q, c)
<1> DEFINE M == (Total + PageSize - 1) \div PageSize
<1>1. M \in Nat
  BY Sizes
<1>2. \A k \in 1 .. M : (k - 1) * PageSize \in Nat
  <2>1. \A k \in 1 .. M : k - 1 \in Nat
    BY <1>1
  <2> QED BY <2>1, PageStart, Sizes
<1> HIDE DEF M
<1>3. BundlePages(n, q) = [k \in 1 .. M |-> PageAt(n, q, (k - 1) * PageSize)]
  BY DEF BundlePages, M
<1>4. \A k \in 1 .. M : PageAt(n, q, (k - 1) * PageSize) \in ReplyType
  BY <1>2, PageIs
<1>5. BundlePages(n, q) \in [1 .. M -> ReplyType]
  BY <1>3, <1>4
<1>6. Len(BundlePages(n, q)) = M /\ BundlePages(n, q) \in Seq(ReplyType)
  BY <1>1, <1>5, SeqDef, LenProperties
<1> QED BY <1>2, <1>3, <1>6

-----------------------------------------------------------------------------
(* The invariant.                                                           *)

CacheTypes ==
  /\ stored \in [Servants -> [Settings -> Versions]]
  /\ enrolled \subseteq Servants /\ listed \subseteq Servants
  /\ queries \in [Servants -> Seq(QueryType)] /\ replies \in [Servants -> Seq(ReplyType)]
  /\ awaited \subseteq PullType
  /\ letters \in Seq(LetterType \cup ListType) /\ notices \in Seq(NoticeType)
  /\ known \in [Servants -> EntryType]
  /\ running \in CallType /\ (running.op # "None" => running.node \in Servants)
  /\ returned \in ReturnType
  /\ since \in [Servants -> [Settings -> SUBSET Versions]]
  /\ pullsUsed \in 0 .. MaxPulls
  /\ edits \in 0 .. MaxWork /\ ties \in 0 .. MaxWork /\ upsets \in 0 .. MaxWork

KindOf == [None |-> "None", Refresh |-> "Bundle", Snapshot |-> "Bundle", Sync |-> "Bundle",
           Write |-> "Set", Read |-> "Get"]

(* A request has one slave and one kind, and the blocking call waits for a  *)
(* request of its own.                                                      *)
Own(n, req, op) ==
  /\ req \in 1 .. pullsUsed
  /\ \A p \in awaited : p.req = req => p.op = op
  /\ req = running.req => n = running.node /\ op = KindOf[running.op]
Seen1(n, items) == \A i \in DOMAIN items : items[i] \in since[n][i]

QueryOK(n, q) ==
  Own(n, q.req, q.op) /\ (q.req = running.req /\ q.op = "Get" => q.id = running.id)
ReplyOK(n, m) ==
  /\ Own(n, m.req, m.op) /\ Seen1(n, m.items)
  /\ m.op = "Bundle" /\ 0 \in DOMAIN m.items => m.cursor = 0
  /\ m.req = running.req /\ m.op = "Get" /\ m.good => DOMAIN m.items = {running.id}
LetterOK(m) ==
  /\ m.req \in 1 .. pullsUsed /\ Seen1(m.node, m.items)
  /\ m.req = running.req => m.node = running.node /\ m.op = KindOf[running.op]
  /\ m.req = running.req /\ m.op = "Get" /\ m.status = "Ok" => DOMAIN m.items = {running.id}

QueriesOK == \A n \in Servants : \A q \in Range(queries[n]) : QueryOK(n, q)
RepliesOK == \A n \in Servants : \A m \in Range(replies[n]) : ReplyOK(n, m)
LettersOK == \A m \in Range(letters) : m.op # "List" => LetterOK(m)
AwaitedOK ==
  /\ \A p \in awaited : p.req \in 1 .. pullsUsed
                      /\ (p.req = running.req => p.node = running.node /\ p.op = KindOf[running.op])
  /\ \A p, r \in awaited : p.req = r.req => p = r
Messages == QueriesOK /\ RepliesOK /\ LettersOK /\ AwaitedOK

(* What is shown of a slave is of this time, or will be: the first page of  *)
(* the bundle that is being collected clears what was shown before.         *)
Clean(n)      == \A i \in DOMAIN known[n].vals : known[n].vals[i] \in since[n][i]
Opening(n, m) == m.op = "Bundle" /\ m.node = n /\ m.cursor = 0 /\ m.status # "Fail"
AwaitedClean ==
  \A p \in awaited : p.op = "Bundle" /\ 0 \in p.got =>
    Clean(p.node) \/ \E k \in DOMAIN letters : Opening(p.node, letters[k])
LettersClean ==
  \A k \in DOMAIN letters, n \in Servants :
    letters[k].op = "Bundle" /\ letters[k].status = "Ok" /\ letters[k].node = n =>
      Clean(n) \/ \E j \in 1 .. k : Opening(n, letters[j])
CallClean ==
  \A n \in Servants :
    n = running.node /\ running.op \in {"Refresh", "Snapshot"} /\ running.answer = "Ok" => Clean(n)
WillBeClean == ~lossy => AwaitedClean /\ LettersClean /\ CallClean

StoredIsSeen == \A n \in Servants, i \in Settings : stored[n][i] \in since[n][i]
WholeIsAll == \A n \in Servants : known[n].whole = "Full" => DOMAIN known[n].vals = Settings

(* What the call knows, and what it told.                                   *)
CallOK ==
  /\ running.req \in 0 .. pullsUsed
  /\ running.op = "Read" /\ running.answer = "Ok" =>
       /\ DOMAIN running.read = {running.id}
       /\ running.read[running.id] \in since[running.node][running.id]
  /\ running.agrees => /\ running.op \in {"Read", "Sync"}
                       /\ running.value \in since[running.node][running.id]
ToldOK ==
  /\ returned.what = "Nothing" \/ returned.node \in Servants
  /\ returned.what = "Fresh" /\ ~lossy =>
       DOMAIN returned.vals = Settings /\ Seen1(returned.node, returned.vals)
  /\ returned.what = "Confirmed" => returned.value \in since[returned.node][returned.id]

(* Who is paired: the last event under way tells, else the last list.       *)
Silent(n) == \A k \in DOMAIN notices : notices[k].node # n
NoticesTell ==
  \A k \in DOMAIN notices :
    (\A j \in DOMAIN notices : j > k => notices[j].node # notices[k].node) =>
      (notices[k].what = "Paired" <=> notices[k].node \in enrolled)
ListsTell ==
  \A k \in DOMAIN letters :
    letters[k].op = "List" /\ (\A j \in DOMAIN letters : j > k => letters[j].op # "List") =>
      \A n \in Servants : Silent(n) => (n \in letters[k].peers <=> n \in enrolled)
ListedTells ==
  (\A k \in DOMAIN letters : letters[k].op # "List") =>
    \A n \in Servants : Silent(n) => (n \in listed <=> n \in enrolled)
PairsTold == ~lossy /\ ~crossed => NoticesTell /\ ListsTell /\ ListedTells

CacheInv ==
  /\ CacheTypes /\ StoredIsSeen /\ Messages /\ WillBeClean /\ WholeIsAll /\ CallOK /\ ToldOK
  /\ PairsTold

-----------------------------------------------------------------------------
(* Sequences.                                                               *)
LEMMA Appended ==
  ASSUME NEW S, NEW q \in Seq(S), NEW x \in S
  PROVE  /\ Append(q, x) \in Seq(S) /\ Len(q) \in Nat /\ DOMAIN q = 1 .. Len(q)
         /\ DOMAIN Append(q, x) = 1 .. Len(q) + 1
         /\ Append(q, x)[Len(q) + 1] = x /\ \A k \in DOMAIN q : Append(q, x)[k] = q[k]
         /\ \A k \in DOMAIN Append(q, x) : k \in DOMAIN q \/ k = Len(q) + 1
         /\ Range(Append(q, x)) = Range(q) \cup {x}
<1>1. /\ Append(q, x) \in Seq(S) /\ Len(q) \in Nat /\ DOMAIN q = 1 .. Len(q)
      /\ DOMAIN Append(q, x) = 1 .. Len(q) + 1
      /\ Append(q, x)[Len(q) + 1] = x /\ \A k \in DOMAIN q : Append(q, x)[k] = q[k]
  OBVIOUS
<1>2. /\ \A k \in DOMAIN Append(q, x) : k \in DOMAIN q \/ k = Len(q) + 1
      /\ \A k \in DOMAIN q : k \in DOMAIN Append(q, x)
      /\ Len(q) + 1 \in DOMAIN Append(q, x)
  BY <1>1
<1> QED BY <1>1, <1>2 DEF Range

LEMMA Dropped ==
  ASSUME NEW S, NEW q \in Seq(S), q # << >>
  PROVE  /\ Tail(q) \in Seq(S) /\ Head(q) = q[1] /\ 1 \in DOMAIN q /\ Head(q) \in S
         /\ DOMAIN q = 1 .. Len(q) /\ Len(q) \in Nat \ {0}
         /\ DOMAIN Tail(q) = 1 .. Len(q) - 1 /\ \A k \in DOMAIN Tail(q) : Tail(q)[k] = q[k + 1]
         /\ Range(Tail(q)) \subseteq Range(q) /\ Head(q) \in Range(q)
<1>1. Len(q) \in Nat \ {0} /\ DOMAIN q = 1 .. Len(q)
  OBVIOUS
<1>2. Tail(q) \in Seq(S) /\ DOMAIN Tail(q) = 1 .. Len(q) - 1
      /\ \A k \in DOMAIN Tail(q) : Tail(q)[k] = q[k + 1]
  BY <1>1
<1>3. Range(Tail(q)) \subseteq Range(q)
  <2>1. ASSUME NEW k \in DOMAIN Tail(q)
        PROVE  k + 1 \in DOMAIN q /\ Tail(q)[k] = q[k + 1]
    BY <1>1, <1>2
  <2> QED BY <2>1 DEF Range
<1>4. Head(q) = q[1] /\ Head(q) \in S /\ 1 \in DOMAIN q
  BY <1>1
<1> QED BY <1>1, <1>2, <1>3, <1>4 DEF Range

LEMMA Joins ==
  ASSUME NEW S, NEW q \in Seq(S), NEW r \in Seq(S)
  PROVE  q \o r \in Seq(S) /\ Range(q \o r) \subseteq Range(q) \cup Range(r)
<1>1. Len(q) \in Nat /\ Len(r) \in Nat /\ DOMAIN q = 1 .. Len(q) /\ DOMAIN r = 1 .. Len(r)
  OBVIOUS
<1>2. /\ q \o r \in Seq(S) /\ DOMAIN (q \o r) = 1 .. Len(q) + Len(r)
      /\ \A k \in 1 .. Len(q) : (q \o r)[k] = q[k]
      /\ \A k \in Len(q) + 1 .. Len(q) + Len(r) : (q \o r)[k] = r[k - Len(q)]
  OBVIOUS
<1>3. ASSUME NEW k \in DOMAIN (q \o r), k \notin DOMAIN q
      PROVE  k - Len(q) \in DOMAIN r /\ (q \o r)[k] = r[k - Len(q)]
  BY <1>1, <1>2, <1>3
<1> QED BY <1>1, <1>2, <1>3 DEF Range

LEMMA Begun ==
  ASSUME NEW S, NEW r \in Seq(S), NEW k \in 0 .. Len(r) - 1
  PROVE  SubSeq(r, 1, k) \in Seq(S) /\ Range(SubSeq(r, 1, k)) \subseteq Range(r)
<1>1. Len(r) \in Nat /\ DOMAIN r = 1 .. Len(r)
  OBVIOUS
<1>2. SubSeq(r, 1, k) \in Seq(S) /\ DOMAIN SubSeq(r, 1, k) = 1 .. k
      /\ \A j \in 1 .. k : SubSeq(r, 1, k)[j] = r[j]
  BY <1>1
<1>3. \A j \in 1 .. k : j \in DOMAIN r
  BY <1>1
<1> QED BY <1>2, <1>3 DEF Range

LEMMA OneIs ==
  ASSUME NEW S, NEW x \in S
  PROVE  <<x>> \in Seq(S) /\ Range(<<x>>) = {x}
<1>1. <<x>> \in Seq(S)
  OBVIOUS
<1>2. DOMAIN <<x>> = {1} /\ <<x>>[1] = x
  OBVIOUS
<1> HIDE DEF Range
<1>3. Range(<<x>>) = {<<x>>[k] : k \in {1}}
  BY <1>2 DEF Range
<1> QED BY <1>1, <1>2, <1>3

LEMMA RangeTyped ==
  ASSUME NEW S, NEW q \in Seq(S)
  PROVE  Range(q) \subseteq S /\ (q = << >> => Range(q) = {}) /\ (Range(q) = {} => q = << >>)
<1>1. Len(q) \in Nat /\ DOMAIN q = 1 .. Len(q) /\ \A k \in 1 .. Len(q) : q[k] \in S
  OBVIOUS
<1>2. Range(q) = {} => Len(q) = 0
  <2>1. Len(q) # 0 => 1 \in DOMAIN q
    BY <1>1
  <2> QED BY <2>1 DEF Range
<1>3. Len(q) = 0 => q = << >>
  OBVIOUS
<1>4. q = << >> => Range(q) = {}
  BY <1>1 DEF Range
<1> QED BY <1>1, <1>2, <1>3, <1>4 DEF Range

-----------------------------------------------------------------------------
(* Messages that stay or go.                                                *)
Grown == \A n \in Servants : NothingOf(n) \/ \A i \in Settings : since[n][i] \subseteq since'[n][i]
SameCall ==
  /\ running'.req = running.req /\ running'.node = running.node
  /\ running'.op = running.op /\ running'.id = running.id

LEMMA MessagesTyped ==
  ASSUME CacheTypes
  PROVE  /\ \A m \in Range(letters) : /\ m.op # "List" => m \in LetterType
                                      /\ m.op = "List" => m \in ListType
         /\ \A n \in Servants : Range(queries[n]) \subseteq QueryType
         /\ \A n \in Servants : Range(replies[n]) \subseteq ReplyType
<1>1. Range(letters) \subseteq LetterType \cup ListType
  BY RangeTyped DEF CacheTypes
<1>2. \A n \in Servants : queries[n] \in Seq(QueryType) /\ replies[n] \in Seq(ReplyType)
  BY DEF CacheTypes
<1>3. \A m \in LetterType : m.op # "List"
  BY DEF LetterType, Ops
<1>4. \A m \in ListType : m.op = "List"
  BY DEF ListType
<1> QED BY <1>1, <1>2, <1>3, <1>4, RangeTyped

LEMMA SomethingOf ==
  ASSUME CacheTypes, NEW n \in Servants
  PROVE  /\ \A m \in Range(queries[n]) : ~NothingOf(n)
         /\ \A m \in Range(replies[n]) : ~NothingOf(n)
         /\ \A m \in Range(letters) : m.op # "List" /\ m.node = n => ~NothingOf(n)
         /\ \A p \in awaited : p.node = n => ~NothingOf(n)
<1>1. queries[n] \in Seq(QueryType) /\ replies[n] \in Seq(ReplyType)
  BY DEF CacheTypes
<1>2. /\ \A m \in Range(queries[n]) : queries[n] # << >>
      /\ \A m \in Range(replies[n]) : replies[n] # << >>
  BY <1>1, RangeTyped
<1> QED BY <1>2 DEF NothingOf, Range

(* One message that was there before.                                       *)
LEMMA MessageStays ==
  ASSUME CacheInv, pullsUsed' \in Nat, pullsUsed <= pullsUsed', Grown,
         \A p \in awaited' : p.req > pullsUsed \/ \E r \in awaited : r.req = p.req /\ r.op = p.op,
         SameCall \/ running'.req = 0 \/ running'.req > pullsUsed
  PROVE  /\ \A n \in Servants : \A q \in Range(queries[n]) : QueryOK(n, q)'
         /\ \A n \in Servants : \A m \in Range(replies[n]) : ReplyOK(n, m)'
         /\ \A m \in Range(letters) : m.op # "List" => LetterOK(m)'
         /\ \A p \in awaited : /\ p.req \in 1 .. pullsUsed'
                               /\ p.req = running'.req => p.node = running'.node /\ p.op = KindOf[running'.op]
<1> USE DEF CacheInv, Messages
<1>1. CacheTypes /\ pullsUsed \in Nat
      /\ \A x \in 1 .. pullsUsed : x \in 1 .. pullsUsed' /\ x # 0 /\ ~(x > pullsUsed)
  BY Sizes DEF CacheTypes
<1>2. ASSUME NEW n \in Servants, NEW req, NEW op, Own(n, req, op)
      PROVE  Own(n, req, op)' /\ (req = running'.req => SameCall)
  BY <1>1, <1>2 DEF Own, SameCall
<1>3. ASSUME NEW n \in Servants, NEW items \in Parts, Seen1(n, items), ~NothingOf(n)
      PROVE  Seen1(n, items)'
  BY <1>3, PartHas DEF Seen1, Grown
<1>4. ASSUME NEW n \in Servants, NEW q \in Range(queries[n])
      PROVE  QueryOK(n, q)'
  <2>1. QueryOK(n, q)
    BY DEF QueriesOK
  <2> QED BY <1>2, <2>1 DEF QueryOK, SameCall
<1>5. ASSUME NEW n \in Servants, NEW m \in Range(replies[n])
      PROVE  ReplyOK(n, m)'
  <2>1. ReplyOK(n, m)
    BY DEF RepliesOK
  <2>2. m.items \in Parts /\ ~NothingOf(n)
    BY <1>1, MessagesTyped, SomethingOf DEF ReplyType
  <2>3. Own(n, m.req, m.op)' /\ (m.req = running'.req => SameCall)
    BY <1>2, <2>1 DEF ReplyOK
  <2>4. Seen1(n, m.items)'
    BY <1>3, <2>1, <2>2 DEF ReplyOK
  <2> QED BY <2>1, <2>3, <2>4 DEF ReplyOK, SameCall
<1>6. ASSUME NEW m \in Range(letters), m.op # "List"
      PROVE  LetterOK(m)'
  <2>1. LetterOK(m)
    BY <1>6 DEF LettersOK
  <2>2. m.items \in Parts /\ m.node \in Servants
    BY <1>1, <1>6, MessagesTyped DEF LetterType
  <2>3. ~NothingOf(m.node)
    BY <1>1, <1>6, <2>2, SomethingOf
  <2>4. Seen1(m.node, m.items)'
    BY <1>3, <2>1, <2>2, <2>3 DEF LetterOK
  <2> QED BY <1>1, <2>1, <2>4 DEF LetterOK, SameCall
<1>7. \A p \in awaited : /\ p.req \in 1 .. pullsUsed'
                         /\ p.req = running'.req => p.node = running'.node /\ p.op = KindOf[running'.op]
  BY <1>1 DEF AwaitedOK, SameCall
<1> QED BY <1>4, <1>5, <1>6, <1>7

LEMMA MessagesStay ==
  ASSUME CacheInv, pullsUsed' \in Nat, pullsUsed <= pullsUsed', Grown,
         \A n \in Servants : /\ Range(queries'[n]) \subseteq Range(queries[n])
                             /\ Range(replies'[n]) \subseteq Range(replies[n]),
         \A m \in Range(letters') : m \in Range(letters) \/ m.op = "List",
         awaited' \subseteq awaited, SameCall \/ running'.req = 0
  PROVE  Messages'
<1>1. QueriesOK'
  BY MessageStays DEF QueriesOK
<1>2. RepliesOK'
  BY MessageStays DEF RepliesOK
<1>3. LettersOK'
  BY MessageStays DEF LettersOK
<1>4. AwaitedOK'
  <2>1. \A p \in awaited : /\ p.req \in 1 .. pullsUsed'
                           /\ p.req = running'.req => p.node = running'.node /\ p.op = KindOf[running'.op]
    BY MessageStays
  <2>2. \A p, r \in awaited : p.req = r.req => p = r
    BY DEF AwaitedOK, CacheInv, Messages
  <2>3. \A p \in awaited' : p \in awaited
    OBVIOUS
  <2> QED BY <2>1, <2>2, <2>3, Zenon DEF AwaitedOK
<1> QED BY <1>1, <1>2, <1>3, <1>4 DEF Messages

(* A request is sent, for the call or for nobody.                           *)
LEMMA QuerySent ==
  ASSUME CacheInv, NEW n \in Servants, NEW op \in Ops, NEW i \in Settings, NEW v \in Versions,
         Query(n, op, i, v), Grown, UNCHANGED <<replies, letters>>,
         \/ SameCall
         \/ /\ running'.req = pullsUsed' /\ running'.node = n /\ KindOf[running'.op] = op
            /\ running'.id = i
  PROVE  Messages'
<1> USE DEF CacheInv, Messages
<1>q. PICK q : q = [req |-> pullsUsed + 1, op |-> op, id |-> i, value |-> v]
  OBVIOUS
<1>p. PICK p : p = AwaitedPull(n, pullsUsed + 1, op)
  OBVIOUS
<1>1. CacheTypes /\ pullsUsed \in Nat /\ pullsUsed' = pullsUsed + 1 /\ pullsUsed' \in Nat
      /\ pullsUsed <= pullsUsed' /\ pullsUsed' > pullsUsed
  BY Sizes DEF CacheTypes, Query
<1>2. /\ queries' = [queries EXCEPT ![n] = Append(@, q)] /\ awaited' = awaited \cup {p}
  BY <1>1, <1>q, <1>p DEF Query
<1>3. q \in QueryType /\ q.req = pullsUsed' /\ q.op = op /\ q.id = i
  BY <1>1, <1>q DEF QueryType
<1>4. p.req = pullsUsed' /\ p.node = n /\ p.op = op
  BY <1>1, <1>p DEF AwaitedPull
<1>5. /\ \A s \in Servants : \A x \in Range(queries[s]) : QueryOK(s, x)'
      /\ \A s \in Servants : \A m \in Range(replies[s]) : ReplyOK(s, m)'
      /\ \A m \in Range(letters) : m.op # "List" => LetterOK(m)'
      /\ \A x \in awaited : /\ x.req \in 1 .. pullsUsed'
                            /\ x.req = running'.req => x.node = running'.node /\ x.op = KindOf[running'.op]
  BY <1>1, <1>2, <1>4, MessageStays
<1>6. pullsUsed' = running'.req => n = running'.node /\ op = KindOf[running'.op] /\ i = running'.id
  <2>1. running.req \in 0 .. pullsUsed
    BY DEF CallOK
  <2>2. SameCall => running'.req # pullsUsed'
    BY <1>1, <2>1 DEF SameCall
  <2> QED BY <2>2
<1>7. QueryOK(n, q)'
  <2>1. \A x \in awaited' : x.req = pullsUsed' => x.op = op
    BY <1>1, <1>2, <1>4 DEF AwaitedOK
  <2>3. pullsUsed' \in 1 .. pullsUsed'
    BY <1>1
  <2> QED BY <1>3, <1>6, <2>1, <2>3 DEF QueryOK, Own
<1>8. QueriesOK'
  <2>1. ASSUME NEW s \in Servants, NEW x \in Range(queries'[s])
        PROVE  QueryOK(s, x)'
    <3>1. queries[s] \in Seq(QueryType)
      BY <1>1 DEF CacheTypes
    <3>2. CASE s = n
      <4>1. queries'[n] = Append(queries[n], q)
        BY <1>1, <1>2 DEF CacheTypes
      <4>2. x \in Range(queries[n]) \/ x = q
        BY <1>3, <2>1, <3>1, <3>2, <4>1, Appended
      <4> QED BY <1>5, <1>7, <3>2, <4>2
    <3>3. CASE s # n
      <4>1. queries'[s] = queries[s]
        BY <1>1, <1>2, <3>3 DEF CacheTypes
      <4> QED BY <1>5, <2>1, <4>1
    <3> QED BY <3>2, <3>3
  <2> QED BY <2>1 DEF QueriesOK
<1>9. RepliesOK' /\ LettersOK'
  BY <1>5 DEF RepliesOK, LettersOK
<1>10. AwaitedOK'
  <2>1. ASSUME NEW x \in awaited'
        PROVE  /\ x.req \in 1 .. pullsUsed'
               /\ x.req = running'.req => x.node = running'.node /\ x.op = KindOf[running'.op]
    <3>1. CASE x = p
      <4>1. pullsUsed' \in 1 .. pullsUsed'
        BY <1>1
      <4> QED BY <1>4, <1>6, <3>1, <4>1
    <3>2. CASE x \in awaited
      BY <1>5, <3>2, Zenon
    <3> QED BY <1>2, <2>1, <3>1, <3>2
  <2>2. ASSUME NEW x \in awaited', NEW r \in awaited', x.req = r.req
        PROVE  x = r
    <3>1. \A y \in awaited : y.req # pullsUsed'
      BY <1>1 DEF AwaitedOK
    <3> QED BY <1>2, <1>4, <2>2, <3>1 DEF AwaitedOK
  <2> QED BY <2>1, <2>2 DEF AwaitedOK
<1> QED BY <1>8, <1>9, <1>10

-----------------------------------------------------------------------------
(* What is shown, while no letter is read.                                  *)
SinceGrows == \A n \in Servants : \A i \in Settings : since[n][i] \subseteq since'[n][i]

LEMMA CleanStays ==
  ASSUME CacheInv, UNCHANGED letters, lossy' = lossy, Grown,
         \A n \in Servants : known'[n] = known[n] \/ known'[n] = Unknown,
         \A p \in awaited' : p \in awaited \/ p.got = {},
         \/ running'.answer # "Ok"
         \/ running'.op \notin {"Refresh", "Snapshot"}
         \/ running' = running /\ SinceGrows
  PROVE  WillBeClean'
<1> USE DEF CacheInv
<1>1. CacheTypes
  OBVIOUS
<1>2. ASSUME NEW n \in Servants, Clean(n), ~NothingOf(n) \/ SinceGrows
      PROVE  Clean(n)'
  <2>1. known[n].vals \in Parts
    BY <1>1 DEF CacheTypes, EntryType
  <2>2. DOMAIN Unknown.vals = {}
    BY NoPartIs DEF Unknown
  <2>3. \A i \in Settings : since[n][i] \subseteq since'[n][i]
    BY <1>2 DEF Grown, SinceGrows
  <2>4. DOMAIN known[n].vals \subseteq Settings
    BY <2>1, PartHas
  <2>5. CASE known'[n] = Unknown
    BY <2>2, <2>5 DEF Clean
  <2>6. CASE known'[n] = known[n]
    BY <1>2, <2>3, <2>4, <2>6 DEF Clean
  <2> QED BY <2>5, <2>6
<1> SUFFICES ASSUME ~lossy
             PROVE  AwaitedClean' /\ LettersClean' /\ CallClean'
  BY DEF WillBeClean
<1>3. AwaitedClean /\ LettersClean /\ CallClean
  BY DEF WillBeClean
<1>4. AwaitedClean'
  <2>1. ASSUME NEW p \in awaited', p.op = "Bundle", 0 \in p.got
        PROVE  Clean(p.node)' \/ \E k \in DOMAIN letters' : Opening(p.node, letters'[k])
    <3>1. p \in awaited
      BY <2>1
    <3>2. p.node \in Servants /\ ~NothingOf(p.node)
      BY <1>1, <3>1, SomethingOf DEF CacheTypes, PullType
    <3> QED BY <1>2, <1>3, <2>1, <3>1, <3>2 DEF AwaitedClean
  <2> QED BY <2>1 DEF AwaitedClean
<1>5. LettersClean'
  <2>1. ASSUME NEW k \in DOMAIN letters, NEW n \in Servants,
               letters[k].op = "Bundle", letters[k].status = "Ok", letters[k].node = n
        PROVE  Clean(n)' \/ \E j \in 1 .. k : Opening(n, letters[j])
    <3>1. ~NothingOf(n)
      BY <2>1 DEF NothingOf
    <3> QED BY <1>2, <1>3, <2>1, <3>1 DEF LettersClean
  <2> QED BY <2>1 DEF LettersClean
<1>6. CallClean'
  BY <1>2, <1>3 DEF CallClean
<1> QED BY <1>4, <1>5, <1>6

LEMMA PairsStay ==
  ASSUME CacheInv, UNCHANGED <<enrolled, listed, letters, notices, lossy, crossed>>
  PROVE  PairsTold'
BY DEF CacheInv, PairsTold, NoticesTell, ListsTell, ListedTells, Silent

LEMMA ToldStays ==
  ASSUME CacheInv, UNCHANGED returned, lossy => lossy', SinceGrows
  PROVE  ToldOK'
<1>1. returned \in ReturnType
  BY DEF CacheInv, CacheTypes
<1>2. returned.vals \in Parts /\ returned.id \in Settings
  BY <1>1 DEF ReturnType
<1>3. DOMAIN returned.vals \subseteq Settings
  BY <1>2, PartHas
<1> QED BY <1>2, <1>3 DEF CacheInv, ToldOK, Seen1, SinceGrows

LEMMA CallStays ==
  ASSUME CacheInv, UNCHANGED running, SinceGrows, pullsUsed <= pullsUsed', pullsUsed' \in Nat
  PROVE  CallOK'
<1>1. running \in CallType /\ (running.op # "None" => running.node \in Servants) /\ pullsUsed \in Nat
  BY Sizes DEF CacheInv, CacheTypes
<1>2. running.id \in Settings
  BY <1>1 DEF CallType
<1>3. CallOK
  BY DEF CacheInv
<1>4. running'.req \in 0 .. pullsUsed'
  BY <1>1, <1>3 DEF CallOK
<1>5. running.op \in {"Read", "Sync"} =>
        since[running.node][running.id] \subseteq since'[running.node][running.id]
  BY <1>1, <1>2 DEF SinceGrows
<1> QED BY <1>3, <1>4, <1>5 DEF CallOK

(* The slaves, the air and the service move; the adapter does not.          *)
LEMMA AdapterRests ==
  ASSUME CacheInv, UNCHANGED <<enrolled, letters, notices, adapter, lossy, crossed>>, SinceGrows,
         \A n \in Servants, i \in Settings : stored'[n][i] \in since'[n][i],
         pullsUsed <= pullsUsed', pullsUsed' \in Nat,
         \A p \in awaited' : p \in awaited \/ p.got = {}
  PROVE  /\ StoredIsSeen' /\ WillBeClean' /\ WholeIsAll' /\ CallOK' /\ ToldOK'
         /\ PairsTold'
<1>1. StoredIsSeen' /\ WholeIsAll'
  BY DEF StoredIsSeen, WholeIsAll, CacheInv, adapter
<1>2. WillBeClean'
  BY CleanStays DEF Grown, SinceGrows, adapter
<1>3. CallOK' /\ ToldOK' /\ PairsTold'
  BY CallStays, ToldStays, PairsStay DEF adapter
<1> QED BY <1>1, <1>2, <1>3

-----------------------------------------------------------------------------
(* The slave and the air.                                                   *)
LEMMA Worked ==
  ASSUME CacheTypes, HasWork
  PROVE  /\ pullsUsed + 1 \in Nat /\ edits + 1 \in 0 .. MaxWork /\ ties + 1 \in 0 .. MaxWork
         /\ upsets + 1 \in 0 .. MaxWork
BY Sizes DEF CacheTypes, HasWork

LEMMA Changed ==
  ASSUME CacheInv, NEW n \in Servants, NEW i \in Settings, NEW v \in Versions, Change(n, i, v)
  PROVE  /\ stored' \in [Servants -> [Settings -> Versions]]
         /\ since' \in [Servants -> [Settings -> SUBSET Versions]]
         /\ edits' \in 0 .. MaxWork /\ SinceGrows
         /\ \A m \in Servants, j \in Settings : stored'[m][j] \in since'[m][j]
<1>1. CacheTypes /\ StoredIsSeen
  BY DEF CacheInv
<1>2. /\ stored' = [stored EXCEPT ![n] = [stored[n] EXCEPT ![i] = v]]
      /\ since' = [since EXCEPT ![n] = [since[n] EXCEPT ![i] = since[n][i] \cup {v}]]
  BY <1>1 DEF Change, CacheTypes
<1>3. edits' \in 0 .. MaxWork
  BY <1>1, Worked DEF Change
<1>4. /\ stored' \in [Servants -> [Settings -> Versions]]
      /\ since' \in [Servants -> [Settings -> SUBSET Versions]]
  BY <1>1, <1>2 DEF CacheTypes
<1>5. \A m \in Servants, j \in Settings :
        /\ stored'[m][j] = IF m = n /\ j = i THEN v ELSE stored[m][j]
        /\ since'[m][j] = IF m = n /\ j = i THEN since[n][i] \cup {v} ELSE since[m][j]
  BY <1>1, <1>2 DEF CacheTypes
<1>6. SinceGrows /\ \A m \in Servants, j \in Settings : stored'[m][j] \in since'[m][j]
  BY <1>1, <1>5 DEF SinceGrows, StoredIsSeen
<1> QED BY <1>3, <1>4, <1>6

LEMMA EditKeeps ==
  ASSUME CacheInv, NEW n \in Servants, Edit(n)
  PROVE  CacheInv'
<1>1. PICK i \in Settings, v \in Versions : Change(n, i, v)
  BY DEF Edit
<1>2. UNCHANGED <<enrolled, queries, replies, awaited, letters, notices, adapter, known, listed, running, returned,
                  lossy, crossed, pullsUsed, ties, upsets>>
  BY DEF Edit, air, adapter
<1>3. CacheTypes'
  BY <1>1, <1>2, Changed DEF CacheInv, CacheTypes
<1>4. pullsUsed' \in Nat /\ pullsUsed <= pullsUsed'
  BY <1>2, Sizes DEF CacheInv, CacheTypes
<1>5. Messages'
  BY <1>1, <1>2, <1>4, Changed, MessagesStay DEF Grown, SinceGrows, SameCall
<1> QED BY <1>1, <1>2, <1>3, <1>4, <1>5, Changed, AdapterRests DEF CacheInv

LEMMA LostKeeps ==
  ASSUME CacheInv, NEW n \in Servants, LostOnAir(n)
  PROVE  CacheInv'
<1>1. CacheTypes
  BY DEF CacheInv
<1>2. UNCHANGED <<stored, enrolled, awaited, letters, notices, adapter, known, listed, running, returned, since,
                  lossy, crossed, pullsUsed, edits, ties>> /\ upsets' \in 0 .. MaxWork
  BY <1>1, Worked DEF LostOnAir, adapter, Upset
<1>3. queries[n] \in Seq(QueryType) /\ replies[n] \in Seq(ReplyType)
  BY <1>1 DEF CacheTypes
<1>4. \/ queries[n] # << >> /\ queries' = [queries EXCEPT ![n] = Tail(queries[n])] /\ replies' = replies
      \/ replies[n] # << >> /\ replies' = [replies EXCEPT ![n] = Tail(replies[n])] /\ queries' = queries
  BY <1>1 DEF LostOnAir, CacheTypes
<1>5. /\ queries' \in [Servants -> Seq(QueryType)] /\ replies' \in [Servants -> Seq(ReplyType)]
      /\ \A s \in Servants : /\ Range(queries'[s]) \subseteq Range(queries[s])
                             /\ Range(replies'[s]) \subseteq Range(replies[s])
  <2>1. CASE queries[n] # << >> /\ queries' = [queries EXCEPT ![n] = Tail(queries[n])] /\ replies' = replies
    <3>1. Tail(queries[n]) \in Seq(QueryType) /\ Range(Tail(queries[n])) \subseteq Range(queries[n])
      BY <1>3, <2>1, Dropped
    <3> QED BY <1>1, <2>1, <3>1 DEF CacheTypes
  <2>2. CASE replies[n] # << >> /\ replies' = [replies EXCEPT ![n] = Tail(replies[n])] /\ queries' = queries
    <3>1. Tail(replies[n]) \in Seq(ReplyType) /\ Range(Tail(replies[n])) \subseteq Range(replies[n])
      BY <1>3, <2>2, Dropped
    <3> QED BY <1>1, <2>2, <3>1 DEF CacheTypes
  <2> QED BY <1>4, <2>1, <2>2
<1>6. CacheTypes'
  BY <1>1, <1>2, <1>5 DEF CacheTypes
<1>7. pullsUsed' \in Nat /\ pullsUsed <= pullsUsed'
  BY <1>1, <1>2, Sizes DEF CacheTypes
<1>8. Messages'
  BY <1>2, <1>5, <1>7, MessagesStay DEF Grown, SameCall
<1>9. SinceGrows /\ \A m \in Servants, j \in Settings : stored'[m][j] \in since'[m][j]
  BY <1>2 DEF SinceGrows, CacheInv, StoredIsSeen
<1> QED BY <1>2, <1>6, <1>7, <1>8, <1>9, AdapterRests DEF CacheInv

LEMMA LapseKeeps ==
  ASSUME CacheInv, BundleLapses
  PROVE  CacheInv'
<1>1. CacheTypes
  BY DEF CacheInv
<1>2. UNCHANGED <<stored, enrolled, queries, replies, letters, notices, adapter, known, listed, running, returned,
                  since, lossy, crossed, pullsUsed, edits, ties>> /\ upsets' \in 0 .. MaxWork
  BY <1>1, Worked DEF BundleLapses, adapter, air, Upset
<1>3. awaited' \subseteq awaited
  BY DEF BundleLapses
<1>4. CacheTypes'
  BY <1>1, <1>2, <1>3 DEF CacheTypes
<1>5. pullsUsed' \in Nat /\ pullsUsed <= pullsUsed'
  BY <1>1, <1>2, Sizes DEF CacheTypes
<1>6. Messages'
  BY <1>2, <1>3, <1>5, MessagesStay DEF Grown, SameCall
<1>7. SinceGrows /\ \A m \in Servants, j \in Settings : stored'[m][j] \in since'[m][j]
  BY <1>2 DEF SinceGrows, CacheInv, StoredIsSeen
<1> QED BY <1>2, <1>3, <1>4, <1>5, <1>6, <1>7, AdapterRests DEF CacheInv

(* The slave answers.                                                       *)
LEMMA AnswersAre ==
  ASSUME CacheInv, NEW n \in Servants, queries[n] # << >>
  PROVE  LET q == Head(queries[n])
             Fit(m) == /\ m \in ReplyType /\ m.req = q.req /\ m.op = q.op
                       /\ \A i \in DOMAIN m.items : m.items[i] = stored[n][i]
                       /\ m.op = "Bundle" /\ 0 \in DOMAIN m.items => m.cursor = 0
                       /\ m.op = "Get" /\ m.good => DOMAIN m.items = {q.id}
         IN  /\ q \in Range(queries[n]) /\ q \in QueryType
             /\ q.op = "Bundle" => BundlePages(n, q) \in Seq(ReplyType) /\ \A m \in Range(BundlePages(n, q)) : Fit(m)
             /\ q.op = "Get" => LET s == Short(q, [i \in {q.id} |-> stored[n][i]])
                                IN  s \in Seq(ReplyType) /\ \A m \in Range(s) : Fit(m)
             /\ q.op = "Set" => Short(q, NoPart) \in Seq(ReplyType) /\ \A m \in Range(Short(q, NoPart)) : Fit(m)
             /\ Fit(Reply(q, 0, NoPart, TRUE, FALSE))
<1>1. CacheTypes /\ stored \in [Servants -> [Settings -> Versions]] /\ queries[n] \in Seq(QueryType)
  BY DEF CacheInv, CacheTypes
<1>q. PICK q : q = Head(queries[n])
  OBVIOUS
<1>2. q \in Range(queries[n]) /\ q \in QueryType
  BY <1>1, <1>q, Dropped
<1> DEFINE Fit(m) == /\ m \in ReplyType /\ m.req = q.req /\ m.op = q.op
                     /\ \A i \in DOMAIN m.items : m.items[i] = stored[n][i]
                     /\ m.op = "Bundle" /\ 0 \in DOMAIN m.items => m.cursor = 0
                     /\ m.op = "Get" /\ m.good => DOMAIN m.items = {q.id}
<1>3. q.op = "Bundle" => BundlePages(n, q) \in Seq(ReplyType) /\ \A m \in Range(BundlePages(n, q)) : Fit(m)
  <2>1. ASSUME NEW m \in Range(BundlePages(n, q)), q.op = "Bundle"
        PROVE  Fit(m)
    <3>1. PICK c \in Nat : m = PageAt(n, q, c)
      BY <1>1, <1>2, <2>1, PagesAre DEF Range
    <3> QED BY <1>1, <1>2, <2>1, <3>1, PageIs
  <2> QED BY <1>1, <1>2, <2>1, PagesAre
<1>5. Fit(Reply(q, 0, NoPart, TRUE, FALSE))
  BY <1>2, NoPartIs DEF Reply, ReplyType, QueryType
<1>6. q.op = "Set" => Short(q, NoPart) \in Seq(ReplyType) /\ \A m \in Range(Short(q, NoPart)) : Fit(m)
  <2>1. q.op = "Set" => Fit(Reply(q, 0, NoPart, TRUE, TRUE))
    BY <1>2, NoPartIs DEF Reply, ReplyType, QueryType
  <2>2. Short(q, NoPart) = <<Reply(q, 0, NoPart, TRUE, TRUE)>>
    BY DEF Short
  <2>3. Reply(q, 0, NoPart, TRUE, TRUE) \in ReplyType =>
          /\ Range(Short(q, NoPart)) = {Reply(q, 0, NoPart, TRUE, TRUE)}
          /\ Short(q, NoPart) \in Seq(ReplyType)
    BY <2>2, OneIs
  <2> QED BY <2>1, <2>3
<1>7. q.op = "Get" => LET s == Short(q, [i \in {q.id} |-> stored[n][i]])
                      IN  s \in Seq(ReplyType) /\ \A m \in Range(s) : Fit(m)
  <2> DEFINE items == [i \in {q.id} |-> stored[n][i]]
             m0 == Reply(q, 0, items, TRUE, TRUE)
  <2>1. {q.id} \in SUBSET Settings
    BY <1>2 DEF QueryType
  <2>2. items \in [{q.id} -> Versions]
    BY <1>1, <2>1
  <2>3. items \in Parts /\ DOMAIN items = {q.id} /\ \A i \in DOMAIN items : items[i] = stored[n][i]
    BY <2>1, <2>2, PartIs
  <2> HIDE DEF items
  <2>4. q.op = "Get" => Fit(m0)
    BY <1>2, <2>3 DEF Reply, ReplyType, QueryType
  <2>5. Short(q, items) = <<m0>>
    BY DEF Short
  <2>6. m0 \in ReplyType => Range(Short(q, items)) = {m0} /\ Short(q, items) \in Seq(ReplyType)
    BY <2>5, OneIs
  <2> HIDE DEF m0
  <2> QED BY <2>4, <2>6 DEF items
<1> QED BY <1>q, <1>2, <1>3, <1>5, <1>6, <1>7

LEMMA AnswersSent ==
  ASSUME CacheInv, NEW n \in Servants, NEW s \in Seq(ReplyType), AnswersGo(n, s)
  PROVE  /\ upsets' \in 0 .. MaxWork
         /\ \E r \in Seq(ReplyType) : /\ replies' = [replies EXCEPT ![n] = r]
                                      /\ Range(r) \subseteq Range(replies[n]) \cup Range(s)
<1>1. CacheTypes /\ replies[n] \in Seq(ReplyType)
  BY DEF CacheInv, CacheTypes
<1>2. upsets' \in 0 .. MaxWork
  BY <1>1, Worked DEF AnswersGo, Upset, CacheTypes
<1>3. CASE replies' = [replies EXCEPT ![n] = replies[n] \o s]
  BY <1>1, <1>3, <1>2, Joins
<1>4. ASSUME NEW k \in 0 .. Len(s) - 1, replies' = [replies EXCEPT ![n] = replies[n] \o SubSeq(s, 1, k)]
      PROVE  \E r \in Seq(ReplyType) : /\ replies' = [replies EXCEPT ![n] = r]
                                       /\ Range(r) \subseteq Range(replies[n]) \cup Range(s)
  <2>1. SubSeq(s, 1, k) \in Seq(ReplyType) /\ Range(SubSeq(s, 1, k)) \subseteq Range(s)
    BY <1>4, Begun
  <2>2. /\ replies[n] \o SubSeq(s, 1, k) \in Seq(ReplyType)
        /\ Range(replies[n] \o SubSeq(s, 1, k)) \subseteq Range(replies[n]) \cup Range(SubSeq(s, 1, k))
    BY <1>1, <2>1, Joins
  <2> QED BY <1>4, <2>1, <2>2
<1>5. \/ replies' = [replies EXCEPT ![n] = replies[n] \o s]
      \/ \E k \in 0 .. Len(s) - 1 : replies' = [replies EXCEPT ![n] = replies[n] \o SubSeq(s, 1, k)]
  BY <1>1 DEF AnswersGo, CacheTypes
<1> QED BY <1>2, <1>3, <1>4, <1>5

LEMMA QueryKeeps ==
  ASSUME CacheInv, NEW n \in Servants, HandleQuery(n)
  PROVE  CacheInv'
<1>1. CacheTypes /\ queries[n] \in Seq(QueryType) /\ replies[n] \in Seq(ReplyType) /\ queries[n] # << >>
  BY DEF CacheInv, CacheTypes, HandleQuery
<1>q. PICK q : q = Head(queries[n])
  OBVIOUS
<1>2. UNCHANGED <<enrolled, awaited, letters, notices, adapter, known, listed, running, returned, lossy, crossed,
                  pullsUsed, ties>>
  BY DEF HandleQuery, adapter
<1>3. queries' = [queries EXCEPT ![n] = Tail(queries[n])]
  BY <1>1 DEF HandleQuery, CacheTypes
<1>4. /\ q \in Range(queries[n]) /\ q \in QueryType /\ Tail(queries[n]) \in Seq(QueryType)
      /\ Range(Tail(queries[n])) \subseteq Range(queries[n])
  BY <1>1, <1>q, Dropped
<1>5. QueryOK(n, q)
  BY <1>4 DEF CacheInv, Messages, QueriesOK
<1> DEFINE Fit(m) == /\ m \in ReplyType /\ m.req = q.req /\ m.op = q.op
                     /\ \A i \in DOMAIN m.items : m.items[i] = stored[n][i]
                     /\ m.op = "Bundle" /\ 0 \in DOMAIN m.items => m.cursor = 0
                     /\ m.op = "Get" /\ m.good => DOMAIN m.items = {q.id}
<1> DEFINE short == Short(q, [i \in {q.id} |-> stored[n][i]])
           none  == Short(q, NoPart)
           err   == Reply(q, 0, NoPart, TRUE, FALSE)
<1>6. /\ q.op = "Bundle" => BundlePages(n, q) \in Seq(ReplyType) /\ \A m \in Range(BundlePages(n, q)) : Fit(m)
      /\ q.op = "Get" => short \in Seq(ReplyType) /\ \A m \in Range(short) : Fit(m)
      /\ q.op = "Set" => none \in Seq(ReplyType) /\ \A m \in Range(none) : Fit(m)
      /\ Fit(err)
  BY <1>1, <1>q, AnswersAre
<1>7. /\ \/ q.op = "Bundle" /\ AnswersGo(n, BundlePages(n, q))
         \/ q.op = "Get" /\ AnswersGo(n, short)
         \/ q.op = "Set" /\ AnswersGo(n, none)
         \/ AnswersError(n, q)
      /\ Change(n, q.id, q.value) \/ UNCHANGED <<stored, since, edits>>
  BY <1>q DEF HandleQuery
<1> HIDE DEF short, none, err, Fit
<1>8. /\ upsets' \in 0 .. MaxWork
      /\ \E r \in Seq(ReplyType) : /\ replies' = [replies EXCEPT ![n] = r]
                                   /\ \A m \in Range(r) : m \in Range(replies[n]) \/ Fit(m)
  <2>1. CASE AnswersError(n, q)
    <3>1. upsets' \in 0 .. MaxWork
      BY <1>1, <2>1, Worked DEF AnswersError, Upset
    <3>2. replies' = [replies EXCEPT ![n] = Append(replies[n], err)]
      BY <1>1, <2>1 DEF AnswersError, CacheTypes, err
    <3>3. err \in ReplyType
      BY <1>6 DEF Fit
    <3>4. Append(replies[n], err) \in Seq(ReplyType) /\ Range(Append(replies[n], err)) = Range(replies[n]) \cup {err}
      BY <1>1, <3>3, Appended
    <3> QED BY <1>6, <3>1, <3>2, <3>4
  <2>2. ASSUME NEW s \in Seq(ReplyType), AnswersGo(n, s), \A m \in Range(s) : Fit(m)
        PROVE  /\ upsets' \in 0 .. MaxWork
               /\ \E r \in Seq(ReplyType) : /\ replies' = [replies EXCEPT ![n] = r]
                                            /\ \A m \in Range(r) : m \in Range(replies[n]) \/ Fit(m)
    <3>1. /\ upsets' \in 0 .. MaxWork
          /\ \E r \in Seq(ReplyType) : /\ replies' = [replies EXCEPT ![n] = r]
                                       /\ Range(r) \subseteq Range(replies[n]) \cup Range(s)
      BY <2>2, AnswersSent
    <3> QED BY <2>2, <3>1
  <2> QED BY <1>6, <1>7, <2>1, <2>2
<1>9. PICK r \in Seq(ReplyType) : /\ replies' = [replies EXCEPT ![n] = r]
                                  /\ \A m \in Range(r) : m \in Range(replies[n]) \/ Fit(m)
  BY <1>8
<1>10. /\ stored' \in [Servants -> [Settings -> Versions]]
       /\ since' \in [Servants -> [Settings -> SUBSET Versions]]
       /\ edits' \in 0 .. MaxWork /\ SinceGrows
       /\ \A m \in Servants, j \in Settings : stored'[m][j] \in since'[m][j]
  <2>1. CASE Change(n, q.id, q.value)
    BY <1>4, <2>1, Changed DEF QueryType
  <2>2. CASE UNCHANGED <<stored, since, edits>>
    BY <1>1, <2>2 DEF CacheTypes, SinceGrows, CacheInv, StoredIsSeen
  <2> QED BY <1>7, <2>1, <2>2
<1>11. CacheTypes'
  <2>1. queries' \in [Servants -> Seq(QueryType)] /\ replies' \in [Servants -> Seq(ReplyType)]
    BY <1>1, <1>3, <1>4, <1>9 DEF CacheTypes
  <2> QED BY <1>1, <1>2, <1>8, <1>10, <2>1 DEF CacheTypes
<1>12. pullsUsed' \in Nat /\ pullsUsed <= pullsUsed' /\ Grown /\ SameCall
  BY <1>1, <1>2, <1>10, Sizes DEF CacheTypes, Grown, SinceGrows, SameCall
<1>13. /\ \A s \in Servants : \A x \in Range(queries[s]) : QueryOK(s, x)'
       /\ \A s \in Servants : \A m \in Range(replies[s]) : ReplyOK(s, m)'
       /\ \A m \in Range(letters) : m.op # "List" => LetterOK(m)'
  BY <1>2, <1>12, MessageStays
<1>14. ASSUME NEW m, Fit(m)
       PROVE  ReplyOK(n, m)'
  <2>1. m.items \in Parts /\ DOMAIN m.items \subseteq Settings
    BY <1>14, PartHas DEF Fit, ReplyType
  <2>2. Seen1(n, m.items)'
    BY <1>10, <1>14, <2>1 DEF Seen1, Fit, SinceGrows, CacheInv, StoredIsSeen
  <2>3. Own(n, m.req, m.op)'
    BY <1>2, <1>5, <1>14 DEF Own, QueryOK, Fit
  <2> QED BY <1>2, <1>5, <1>14, <2>2, <2>3 DEF ReplyOK, QueryOK, Fit
<1>15. Messages'
  <2>1. QueriesOK'
    <3>1. \A s \in Servants : Range(queries'[s]) \subseteq Range(queries[s])
      BY <1>1, <1>3, <1>4 DEF CacheTypes
    <3> QED BY <1>13, <3>1 DEF QueriesOK
  <2>2. RepliesOK'
    <3>1. ASSUME NEW s \in Servants, NEW m \in Range(replies'[s])
          PROVE  m \in Range(replies[s]) \/ (s = n /\ Fit(m))
      BY <1>1, <1>9, <3>1 DEF CacheTypes
    <3> QED BY <1>13, <1>14, <3>1 DEF RepliesOK
  <2>3. LettersOK'
    BY <1>2, <1>13 DEF LettersOK
  <2>4. AwaitedOK'
    BY <1>2 DEF CacheInv, Messages, AwaitedOK
  <2> QED BY <2>1, <2>2, <2>3, <2>4 DEF Messages
<1> QED BY <1>2, <1>10, <1>11, <1>12, <1>15, AdapterRests DEF CacheInv

(* A request that no call waits for.                                        *)
LEMMA QueryTyped ==
  ASSUME CacheTypes, NEW n \in Servants, NEW op \in Ops, NEW i \in Settings, NEW v \in Versions,
         Query(n, op, i, v)
  PROVE  /\ queries' \in [Servants -> Seq(QueryType)] /\ awaited' \subseteq PullType
         /\ pullsUsed' \in 0 .. MaxPulls /\ pullsUsed' \in Nat /\ pullsUsed' = pullsUsed + 1
         /\ pullsUsed <= pullsUsed' /\ \A p \in awaited' : p \in awaited \/ p.got = {}
<1>1. /\ pullsUsed \in Nat /\ pullsUsed' = pullsUsed + 1 /\ pullsUsed' \in 0 .. MaxPulls
      /\ pullsUsed' \in Nat /\ pullsUsed <= pullsUsed' /\ queries[n] \in Seq(QueryType)
  BY Sizes DEF CacheTypes, Query
<1>q. PICK q : q = [req |-> pullsUsed + 1, op |-> op, id |-> i, value |-> v]
  OBVIOUS
<1>p. PICK p : p = AwaitedPull(n, pullsUsed + 1, op)
  OBVIOUS
<1>2. /\ queries' = [queries EXCEPT ![n] = Append(queries[n], q)] /\ awaited' = awaited \cup {p}
  BY <1>1, <1>q, <1>p DEF Query, CacheTypes
<1>3. q \in QueryType /\ p \in PullType /\ p.got = {}
  BY <1>1, <1>q, <1>p DEF QueryType, PullType, AwaitedPull
<1>4. Append(queries[n], q) \in Seq(QueryType)
  BY <1>1, <1>3, Appended
<1> QED BY <1>1, <1>2, <1>3, <1>4 DEF CacheTypes

LEMMA RefreshLaterKeeps ==
  ASSUME CacheInv, NEW n \in Servants, RefreshLater(n)
  PROVE  CacheInv'
<1>1. CacheTypes /\ 0 \in Settings /\ 0 \in Versions
  BY Sizes DEF CacheInv
<1>2. PICK op \in Ops, i \in Settings, v \in Versions : Query(n, op, i, v)
  BY <1>1 DEF RefreshLater, Ops
<1>3. UNCHANGED <<stored, enrolled, replies, letters, notices, adapter, known, listed, running, returned, since,
                  lossy, crossed, edits, ties, upsets>>
  BY DEF RefreshLater, adapter
<1>4. CacheTypes'
  BY <1>1, <1>2, <1>3, QueryTyped DEF CacheTypes
<1>5. Messages'
  BY <1>2, <1>3, QuerySent DEF Grown, SameCall
<1>6. SinceGrows /\ \A m \in Servants, j \in Settings : stored'[m][j] \in since'[m][j]
  BY <1>3 DEF SinceGrows, CacheInv, StoredIsSeen
<1> QED BY <1>1, <1>2, <1>3, <1>4, <1>5, <1>6, QueryTyped, AdapterRests DEF CacheInv

-----------------------------------------------------------------------------
(* A letter is added.                                                       *)
LEMMA PairsListed ==
  ASSUME CacheInv, UNCHANGED <<enrolled, listed, notices, lossy, crossed>>,
         NEW x \in LetterType \cup ListType, letters' = Append(letters, x),
         x.op = "List" => x.peers = enrolled
  PROVE  PairsTold'
<1>1. letters \in Seq(LetterType \cup ListType)
  BY DEF CacheInv, CacheTypes
<1>2. /\ Len(letters) \in Nat /\ DOMAIN letters = 1 .. Len(letters)
      /\ DOMAIN letters' = 1 .. Len(letters) + 1
      /\ letters'[Len(letters) + 1] = x /\ \A k \in DOMAIN letters : letters'[k] = letters[k]
      /\ \A k \in DOMAIN letters' : k \in DOMAIN letters \/ k = Len(letters) + 1
  BY <1>1, Appended
<1>3. /\ \A k \in DOMAIN letters : k \in DOMAIN letters' /\ Len(letters) + 1 > k
      /\ Len(letters) + 1 \in DOMAIN letters'
  BY <1>2
<1> SUFFICES ASSUME ~lossy, ~crossed
             PROVE  NoticesTell' /\ ListsTell' /\ ListedTells'
  BY DEF PairsTold
<1>4. NoticesTell /\ ListsTell /\ ListedTells
  BY DEF CacheInv, PairsTold
<1>5. NoticesTell'
  BY <1>4 DEF NoticesTell
<1>6. ListsTell'
  <2>1. ASSUME NEW k \in DOMAIN letters', letters'[k].op = "List",
               \A j \in DOMAIN letters' : j > k => letters'[j].op # "List",
               NEW n \in Servants, Silent(n)
        PROVE  n \in letters'[k].peers <=> n \in enrolled
    <3>1. CASE k \in DOMAIN letters
      <4>1. letters[k].op = "List" /\ \A j \in DOMAIN letters : j > k => letters[j].op # "List"
        BY <1>2, <1>3, <2>1, <3>1
      <4>2. n \in letters[k].peers <=> n \in enrolled
        BY <1>4, <2>1, <3>1, <4>1 DEF ListsTell
      <4> QED BY <1>2, <3>1, <4>2
    <3>2. CASE k = Len(letters) + 1
      BY <1>2, <2>1, <3>2
    <3> QED BY <1>2, <3>1, <3>2
  <2> QED BY <2>1 DEF ListsTell, Silent
<1>7. ListedTells'
  BY <1>2, <1>3, <1>4 DEF ListedTells, Silent
<1> QED BY <1>5, <1>6, <1>7

LEMMA ListKeeps ==
  ASSUME CacheInv, ListAsked
  PROVE  CacheInv'
<1>1. CacheTypes
  BY DEF CacheInv
<1>2. UNCHANGED <<stored, enrolled, queries, replies, awaited, notices, adapter, known, listed, running, returned,
                  since, lossy, crossed, pullsUsed, edits, upsets>> /\ ties' \in 0 .. MaxWork
  BY <1>1, Worked DEF ListAsked, adapter, air
<1>x. PICK x : x = [op |-> "List", peers |-> enrolled]
  OBVIOUS
<1>3. letters' = Append(letters, x) /\ x \in ListType /\ x.op = "List" /\ x.peers = enrolled
  BY <1>1, <1>x DEF ListAsked, ListType, CacheTypes
<1>4. letters \in Seq(LetterType \cup ListType)
  BY <1>1 DEF CacheTypes
<1>5. /\ letters' \in Seq(LetterType \cup ListType) /\ Range(letters') = Range(letters) \cup {x}
      /\ Len(letters) \in Nat /\ DOMAIN letters = 1 .. Len(letters)
      /\ DOMAIN letters' = 1 .. Len(letters) + 1
      /\ letters'[Len(letters) + 1] = x /\ \A k \in DOMAIN letters : letters'[k] = letters[k]
      /\ \A k \in DOMAIN letters' : k \in DOMAIN letters \/ k = Len(letters) + 1
  BY <1>3, <1>4, Appended
<1>6. CacheTypes'
  BY <1>1, <1>2, <1>5 DEF CacheTypes
<1>7. pullsUsed' \in Nat /\ pullsUsed <= pullsUsed' /\ SinceGrows /\ Grown /\ SameCall
  BY <1>1, <1>2, Sizes DEF CacheTypes, Grown, SinceGrows, SameCall
<1>8. Messages'
  BY <1>2, <1>3, <1>5, <1>7, MessagesStay
<1>9. WillBeClean'
  <2> SUFFICES ASSUME ~lossy PROVE AwaitedClean' /\ LettersClean' /\ CallClean'
    BY <1>2 DEF WillBeClean
  <2>1. AwaitedClean /\ LettersClean /\ CallClean
    BY DEF CacheInv, WillBeClean
  <2>2. \A n \in Servants : Clean(n)' <=> Clean(n)
    BY <1>2 DEF Clean
  <2>3. \A k \in DOMAIN letters : k \in DOMAIN letters' /\ \A j \in 1 .. k : j \in DOMAIN letters
    BY <1>5
  <2>4. AwaitedClean'
    <3>1. \A p \in awaited : p.node \in Servants
      BY <1>1 DEF CacheTypes, PullType
    <3> QED BY <1>2, <1>5, <2>1, <2>2, <2>3, <3>1 DEF AwaitedClean
  <2>5. LettersClean'
    <3>1. x.op # "Bundle"
      BY <1>3
    <3> QED BY <1>5, <2>1, <2>2, <2>3, <3>1 DEF LettersClean
  <2>6. CallClean'
    BY <1>2, <2>1, <2>2 DEF CallClean
  <2> QED BY <2>4, <2>5, <2>6
<1>10. StoredIsSeen' /\ WholeIsAll'
  BY <1>2 DEF StoredIsSeen, WholeIsAll, CacheInv
<1>11. CallOK' /\ ToldOK'
  BY <1>2, <1>7, CallStays, ToldStays
<1>12. PairsTold'
  BY <1>2, <1>3, PairsListed
<1> QED BY <1>6, <1>8, <1>9, <1>10, <1>11, <1>12 DEF CacheInv

(* The service hears an answer.                                             *)
LEMMA ResponseKeeps ==
  ASSUME CacheInv, NEW n \in Servants, OnPullResponse(n)
  PROVE  CacheInv'
<1>1. /\ CacheTypes /\ replies[n] \in Seq(ReplyType) /\ replies[n] # << >>
      /\ letters \in Seq(LetterType \cup ListType)
  BY DEF CacheInv, CacheTypes, OnPullResponse
<1>2. UNCHANGED <<stored, enrolled, queries, notices, adapter, known, listed, running, returned, since,
                  lossy, crossed, pullsUsed, edits, ties, upsets>>
  BY DEF OnPullResponse, adapter, bounds
<1>m. PICK m : m = Head(replies[n])
  OBVIOUS
<1>3. /\ m \in ReplyType /\ m \in Range(replies[n]) /\ Tail(replies[n]) \in Seq(ReplyType)
      /\ Range(Tail(replies[n])) \subseteq Range(replies[n])
      /\ m.items \in Parts /\ DOMAIN m.items \subseteq Settings
  <2>1. /\ m \in ReplyType /\ m \in Range(replies[n]) /\ Tail(replies[n]) \in Seq(ReplyType)
        /\ Range(Tail(replies[n])) \subseteq Range(replies[n])
    BY <1>1, <1>m, Dropped
  <2>2. m.items \in Parts
    BY <2>1 DEF ReplyType
  <2> QED BY <2>1, <2>2, PartHas
<1>4. ReplyOK(n, m)
  BY <1>3 DEF CacheInv, Messages, RepliesOK
<1>5. replies' = [replies EXCEPT ![n] = Tail(replies[n])]
  BY <1>1 DEF OnPullResponse, CacheTypes
<1>a. PICK mine : mine = {p \in awaited : p.node = n /\ p.req = m.req}
  OBVIOUS
<1>w. PICK waits : waits = {Seen(p, m) : p \in {x \in mine : m.good /\ x.op = "Bundle" /\ ~Covered(Seen(x, m))}}
  OBVIOUS
<1>s. PICK status : status = IF ~m.good THEN "Fail" ELSE IF waits # {} THEN "Deferred" ELSE "Ok"
  OBVIOUS
<1>l. PICK l : l = Letter(n, m, status)
  OBVIOUS
<1>6. awaited' = (awaited \ mine) \cup waits
  BY <1>m, <1>a, <1>w DEF OnPullResponse
<1>7. letters' = IF mine = {} THEN letters ELSE Append(letters, l)
  BY <1>m, <1>a, <1>w, <1>s, <1>l DEF OnPullResponse
<1>8. /\ l \in LetterType /\ l.node = n /\ l.req = m.req /\ l.op = m.op /\ l.cursor = m.cursor
      /\ l.items = m.items /\ l.status = status /\ l.op # "List"
  BY <1>3, <1>s, <1>l DEF Letter, LetterType, ReplyType, Ops
<1>9. \A p \in mine : p \in awaited /\ p \in PullType /\ p.node = n /\ p.req = m.req /\ p.op = m.op
  BY <1>1, <1>4, <1>a DEF ReplyOK, Own, CacheTypes
<1>10. \A p \in PullType : /\ Seen(p, m) \in PullType /\ Seen(p, m).node = p.node
                           /\ Seen(p, m).req = p.req /\ Seen(p, m).op = p.op
                           /\ Seen(p, m).got = p.got \cup DOMAIN m.items
  BY <1>3 DEF PullType, Seen, ReplyType
<1>11. \A y \in waits : /\ y \in PullType /\ y.node = n /\ y.req = m.req /\ y.op = m.op /\ m.good
                        /\ \E p \in mine : y = Seen(p, m) /\ y.got = p.got \cup DOMAIN m.items
  BY <1>9, <1>10, <1>w
<1>12. /\ letters' \in Seq(LetterType \cup ListType) /\ Range(letters') \subseteq Range(letters) \cup {l}
       /\ Len(letters) \in Nat /\ DOMAIN letters = 1 .. Len(letters)
       /\ \A k \in DOMAIN letters : k \in DOMAIN letters' /\ letters'[k] = letters[k]
       /\ \A k \in DOMAIN letters : \A j \in 1 .. k : j \in DOMAIN letters
       /\ \A k \in DOMAIN letters' : \/ k \in DOMAIN letters
                                     \/ mine # {} /\ k = Len(letters) + 1 /\ letters'[k] = l
       /\ mine # {} => /\ Len(letters) + 1 \in DOMAIN letters' /\ letters'[Len(letters) + 1] = l
                       /\ Len(letters) + 1 \in 1 .. Len(letters) + 1
                       /\ \A j \in DOMAIN letters : j \in 1 .. Len(letters) + 1
  <2>1. CASE mine = {}
    <3>1. letters' = letters /\ Len(letters) \in Nat /\ DOMAIN letters = 1 .. Len(letters)
      BY <1>1, <1>7, <2>1
    <3>2. \A k \in DOMAIN letters : \A j \in 1 .. k : j \in DOMAIN letters
      BY <3>1
    <3> QED BY <1>1, <2>1, <3>1, <3>2
  <2>2. CASE mine # {}
    <3>1. letters' = Append(letters, l)
      BY <1>7, <2>2
    <3>2. /\ Append(letters, l) \in Seq(LetterType \cup ListType) /\ Len(letters) \in Nat
          /\ DOMAIN letters = 1 .. Len(letters)
          /\ DOMAIN Append(letters, l) = 1 .. Len(letters) + 1
          /\ Append(letters, l)[Len(letters) + 1] = l
          /\ \A k \in DOMAIN letters : Append(letters, l)[k] = letters[k]
          /\ \A k \in DOMAIN Append(letters, l) : k \in DOMAIN letters \/ k = Len(letters) + 1
          /\ Range(Append(letters, l)) = Range(letters) \cup {l}
      BY <1>1, <1>8, Appended
    <3>3. /\ \A k \in DOMAIN letters : k \in 1 .. Len(letters) + 1
          /\ Len(letters) + 1 \in 1 .. Len(letters) + 1
          /\ \A k \in DOMAIN letters : \A j \in 1 .. k : j \in DOMAIN letters
      BY <3>2
    <3>4. \A k \in DOMAIN letters : k \in DOMAIN letters'
      BY <3>1, <3>2, <3>3
    <3> QED BY <2>2, <3>1, <3>2, <3>3, <3>4
  <2> QED BY <2>1, <2>2
<1>13. CacheTypes'
  <2>1. replies' \in [Servants -> Seq(ReplyType)]
    BY <1>1, <1>3, <1>5 DEF CacheTypes
  <2>2. awaited' \subseteq PullType
    BY <1>1, <1>6, <1>11 DEF CacheTypes
  <2> QED BY <1>1, <1>2, <1>12, <2>1, <2>2 DEF CacheTypes
<1>14. pullsUsed' \in Nat /\ pullsUsed <= pullsUsed' /\ SinceGrows /\ Grown /\ SameCall
  BY <1>1, <1>2, Sizes DEF CacheTypes, Grown, SinceGrows, SameCall
<1>15. Messages'
  <2>1. \A p \in awaited' : \E r \in awaited : r.req = p.req /\ r.op = p.op
    BY <1>6, <1>9, <1>11
  <2>2. /\ \A s \in Servants : \A x \in Range(queries[s]) : QueryOK(s, x)'
        /\ \A s \in Servants : \A x \in Range(replies[s]) : ReplyOK(s, x)'
        /\ \A x \in Range(letters) : x.op # "List" => LetterOK(x)'
    BY <1>14, <2>1, MessageStays
  <2>3. QueriesOK'
    BY <1>2, <2>2 DEF QueriesOK
  <2>4. RepliesOK'
    <3>1. \A s \in Servants : Range(replies'[s]) \subseteq Range(replies[s])
      BY <1>1, <1>3, <1>5 DEF CacheTypes
    <3> QED BY <2>2, <3>1 DEF RepliesOK
  <2>5. LettersOK'
    <3>1. LetterOK(l)'
      <4>1. status = "Ok" => m.good
        BY <1>s
      <4> QED BY <1>2, <1>4, <1>8, <4>1 DEF LetterOK, ReplyOK, Own, Seen1
    <3> QED BY <1>12, <2>2, <3>1 DEF LettersOK
  <2>6. AwaitedOK'
    <3>1. ASSUME NEW p \in awaited'
          PROVE  /\ p.req \in 1 .. pullsUsed'
                 /\ p.req = running'.req => p.node = running'.node /\ p.op = KindOf[running'.op]
      <4>1. CASE p \in awaited
        BY <1>2, <4>1 DEF CacheInv, Messages, AwaitedOK
      <4>2. CASE p \in waits
        BY <1>2, <1>4, <1>11, <4>2 DEF ReplyOK, Own
      <4> QED BY <1>6, <3>1, <4>1, <4>2
    <3>2. ASSUME NEW p \in awaited', NEW r \in awaited', p.req = r.req
          PROVE  p = r
      <4>1. \A x, y \in awaited : x.req = y.req => x = y
        BY DEF CacheInv, Messages, AwaitedOK
      <4>2. \A x \in awaited \ mine, y \in waits : x.req # y.req
        BY <1>9, <1>11, <4>1
      <4>3. \A x, y \in waits : x = y
        BY <1>9, <1>11, <4>1
      <4> QED BY <1>6, <3>2, <4>1, <4>2, <4>3
    <3> QED BY <3>1, <3>2 DEF AwaitedOK
  <2> QED BY <2>3, <2>4, <2>5, <2>6 DEF Messages
<1>16. WillBeClean'
  <2> SUFFICES ASSUME ~lossy PROVE AwaitedClean' /\ LettersClean' /\ CallClean'
    BY <1>2 DEF WillBeClean
  <2>1. AwaitedClean /\ LettersClean /\ CallClean
    BY DEF CacheInv, WillBeClean
  <2>2. \A s \in Servants : Clean(s)' <=> Clean(s)
    BY <1>2 DEF Clean
  <2>3. ASSUME NEW p \in mine, m.op = "Bundle", m.good, 0 \in p.got \cup DOMAIN m.items
        PROVE  Clean(n) \/ (\E k \in DOMAIN letters : Opening(n, letters[k])) \/ Opening(n, l)
    <3>1. CASE 0 \in p.got
      BY <1>9, <2>1, <2>3, <3>1 DEF AwaitedClean
    <3>2. CASE 0 \in DOMAIN m.items
      <4>1. m.cursor = 0
        BY <1>4, <2>3, <3>2 DEF ReplyOK
      <4>2. status # "Fail"
        BY <1>s, <2>3
      <4> QED BY <1>8, <2>3, <4>1, <4>2 DEF Opening
    <3> QED BY <2>3, <3>1, <3>2
  <2>4. AwaitedClean'
    <3>1. ASSUME NEW p \in awaited', p.op = "Bundle", 0 \in p.got
          PROVE  Clean(p.node)' \/ \E k \in DOMAIN letters' : Opening(p.node, letters'[k])
      <4>1. CASE p \in awaited
        <5>1. p.node \in Servants
          BY <1>1, <4>1 DEF CacheTypes, PullType
        <5>2. Clean(p.node) \/ \E k \in DOMAIN letters : Opening(p.node, letters[k])
          BY <2>1, <3>1, <4>1 DEF AwaitedClean
        <5> QED BY <1>12, <2>2, <5>1, <5>2
      <4>2. CASE p \in waits
        <5>1. PICK x \in mine : p.got = x.got \cup DOMAIN m.items
          BY <1>11, <4>2
        <5>2. m.op = "Bundle" /\ m.good /\ p.node = n
          BY <1>11, <3>1, <4>2
        <5>3. Clean(n) \/ (\E k \in DOMAIN letters : Opening(n, letters[k])) \/ Opening(n, l)
          BY <2>3, <3>1, <5>1, <5>2
        <5> QED BY <1>12, <2>2, <5>1, <5>2, <5>3
      <4> QED BY <1>6, <3>1, <4>1, <4>2
    <3> QED BY <3>1 DEF AwaitedClean
  <2>5. LettersClean'
    <3>1. ASSUME NEW k \in DOMAIN letters', NEW s \in Servants,
                 letters'[k].op = "Bundle", letters'[k].status = "Ok", letters'[k].node = s
          PROVE  Clean(s)' \/ \E j \in 1 .. k : Opening(s, letters'[j])
      <4>1. CASE k \in DOMAIN letters
        <5>1. Clean(s) \/ \E j \in 1 .. k : Opening(s, letters[j])
          BY <1>12, <2>1, <3>1, <4>1 DEF LettersClean
        <5> QED BY <1>12, <2>2, <4>1, <5>1
      <4>2. CASE mine # {} /\ k = Len(letters) + 1 /\ letters'[k] = l
        <5>1. PICK p \in mine : TRUE
          BY <4>2
        <5>2. s = n /\ m.op = "Bundle" /\ status = "Ok"
          BY <1>8, <3>1, <4>2
        <5>3. m.good /\ waits = {}
          BY <1>s, <5>2
        <5>4. Covered(Seen(p, m))
          BY <1>9, <1>w, <5>2, <5>3
        <5>5. 0 \in p.got \cup DOMAIN m.items
          BY <1>9, <1>10, <5>4, Sizes DEF Covered
        <5>6. Clean(n) \/ (\E j \in DOMAIN letters : Opening(n, letters[j])) \/ Opening(n, l)
          BY <2>3, <5>2, <5>3, <5>5
        <5> QED BY <1>12, <2>2, <4>2, <5>2, <5>6
      <4> QED BY <1>12, <3>1, <4>1, <4>2
    <3> QED BY <3>1 DEF LettersClean
  <2>6. CallClean'
    BY <1>2, <2>1, <2>2 DEF CallClean
  <2> QED BY <2>4, <2>5, <2>6
<1>17. StoredIsSeen' /\ WholeIsAll'
  BY <1>2 DEF StoredIsSeen, WholeIsAll, CacheInv
<1>18. CallOK' /\ ToldOK'
  BY <1>2, <1>14, CallStays, ToldStays
<1>19. PairsTold'
  <2>1. CASE mine = {}
    BY <1>2, <1>7, <2>1, PairsStay
  <2>2. CASE mine # {}
    BY <1>2, <1>7, <1>8, <2>2, PairsListed
  <2> QED BY <2>1, <2>2
<1> QED BY <1>13, <1>15, <1>16, <1>17, <1>18, <1>19 DEF CacheInv

-----------------------------------------------------------------------------
(* Slaves are paired and removed; messages are lost on the way.             *)
LEMMA DroppedKeeps ==
  ASSUME CacheInv, DroppedInside
  PROVE  CacheInv'
<1>1. /\ CacheTypes /\ letters \in Seq(LetterType \cup ListType) /\ notices \in Seq(NoticeType)
  BY DEF CacheInv, CacheTypes
<1>2. UNCHANGED <<stored, enrolled, queries, replies, awaited, adapter, known, listed, running, returned, since,
                  crossed, pullsUsed, edits, ties>> /\ upsets' \in 0 .. MaxWork /\ lossy' = TRUE
  BY <1>1, Worked DEF DroppedInside, adapter, air, Upset
<1>3. /\ letters' \in Seq(LetterType \cup ListType) /\ Range(letters') \subseteq Range(letters)
      /\ notices' \in Seq(NoticeType)
  <2>1. CASE letters # << >> /\ letters' = Tail(letters) /\ notices' = notices
    BY <1>1, <2>1, Dropped
  <2>2. CASE notices # << >> /\ notices' = Tail(notices) /\ letters' = letters
    BY <1>1, <2>2, Dropped
  <2> QED BY <2>1, <2>2 DEF DroppedInside
<1>4. CacheTypes'
  BY <1>1, <1>2, <1>3 DEF CacheTypes
<1>5. pullsUsed' \in Nat /\ pullsUsed <= pullsUsed' /\ SinceGrows /\ Grown /\ SameCall
  BY <1>1, <1>2, Sizes DEF CacheTypes, Grown, SinceGrows, SameCall
<1>6. Messages'
  BY <1>2, <1>3, <1>5, MessagesStay
<1>7. WillBeClean' /\ PairsTold'
  BY <1>2 DEF WillBeClean, PairsTold
<1>8. StoredIsSeen' /\ WholeIsAll'
  BY <1>2 DEF StoredIsSeen, WholeIsAll, CacheInv
<1>9. CallOK' /\ ToldOK'
  BY <1>2, <1>5, CallStays, ToldStays
<1> QED BY <1>4, <1>6, <1>7, <1>8, <1>9 DEF CacheInv

LEMMA TieKeeps ==
  ASSUME CacheInv, TieChanges
  PROVE  CacheInv'
<1>1. CacheTypes /\ notices \in Seq(NoticeType)
  BY DEF CacheInv, CacheTypes
<1>2. UNCHANGED <<stored, queries, replies, awaited, letters, adapter, known, listed, running, returned, since,
                  lossy, crossed, pullsUsed, edits, upsets>> /\ ties' \in 0 .. MaxWork
  BY <1>1, Worked DEF TieChanges, adapter, air
<1>3. PICK n \in Servants, what \in {"Paired", "Gone"} :
        /\ notices' = Append(notices, [node |-> n, what |-> what])
        /\ enrolled' = IF what = "Paired" THEN enrolled \cup {n} ELSE enrolled \ {n}
  BY DEF TieChanges
<1>x. PICK x : x = [node |-> n, what |-> what]
  OBVIOUS
<1>4. x \in NoticeType /\ x.node = n /\ x.what = what
  BY <1>x DEF NoticeType
<1>5. /\ notices' \in Seq(NoticeType) /\ Len(notices) \in Nat /\ DOMAIN notices = 1 .. Len(notices)
      /\ DOMAIN notices' = 1 .. Len(notices) + 1
      /\ notices'[Len(notices) + 1] = x /\ \A k \in DOMAIN notices : notices'[k] = notices[k]
      /\ \A k \in DOMAIN notices' : k \in DOMAIN notices \/ k = Len(notices) + 1
  BY <1>1, <1>3, <1>x, <1>4, Appended
<1>6. /\ \A k \in DOMAIN notices : k \in DOMAIN notices' /\ Len(notices) + 1 > k
      /\ Len(notices) + 1 \in DOMAIN notices'
  BY <1>5
<1>7. enrolled' \subseteq Servants /\ (n \in enrolled' <=> what = "Paired")
      /\ \A s \in Servants : s # n => (s \in enrolled' <=> s \in enrolled)
  BY <1>1, <1>3 DEF CacheTypes
<1>8. CacheTypes'
  BY <1>1, <1>2, <1>5, <1>7 DEF CacheTypes
<1>9. pullsUsed' \in Nat /\ pullsUsed <= pullsUsed' /\ SinceGrows /\ Grown /\ SameCall
  BY <1>1, <1>2, Sizes DEF CacheTypes, Grown, SinceGrows, SameCall
<1>10. Messages'
  BY <1>2, <1>9, MessagesStay
<1>11. WillBeClean'
  BY <1>2, <1>9, CleanStays
<1>12. StoredIsSeen' /\ WholeIsAll'
  BY <1>2 DEF StoredIsSeen, WholeIsAll, CacheInv
<1>13. CallOK' /\ ToldOK'
  BY <1>2, <1>9, CallStays, ToldStays
<1>14. PairsTold'
  <2> SUFFICES ASSUME ~lossy, ~crossed PROVE NoticesTell' /\ ListsTell' /\ ListedTells'
    BY <1>2 DEF PairsTold
  <2>1. NoticesTell /\ ListsTell /\ ListedTells
    BY DEF CacheInv, PairsTold
  <2>2. ASSUME NEW s \in Servants, Silent(s)'
        PROVE  s # n /\ Silent(s)
    BY <1>4, <1>5, <1>6, <2>2 DEF Silent
  <2>3. NoticesTell'
    <3>1. ASSUME NEW k \in DOMAIN notices',
                 \A j \in DOMAIN notices' : j > k => notices'[j].node # notices'[k].node
          PROVE  notices'[k].what = "Paired" <=> notices'[k].node \in enrolled'
      <4>1. CASE k = Len(notices) + 1
        BY <1>4, <1>5, <1>7, <4>1
      <4>2. CASE k \in DOMAIN notices
        <5>1. \A j \in DOMAIN notices : j > k => notices[j].node # notices[k].node
          BY <1>5, <1>6, <3>1, <4>2
        <5>2. notices[k].what = "Paired" <=> notices[k].node \in enrolled
          BY <2>1, <4>2, <5>1 DEF NoticesTell
        <5>3. notices[k].node # n
          BY <1>4, <1>5, <1>6, <3>1, <4>2
        <5>5. notices[k] \in NoticeType
          BY <1>1, <1>5, <4>2
        <5>4. notices[k].node \in Servants
          BY <5>5 DEF NoticeType
        <5> QED BY <1>5, <1>7, <4>2, <5>2, <5>3, <5>4
      <4> QED BY <1>5, <4>1, <4>2
    <3> QED BY <3>1 DEF NoticesTell
  <2>4. ListsTell'
    <3>1. ASSUME NEW k \in DOMAIN letters, letters[k].op = "List",
                 \A j \in DOMAIN letters : j > k => letters[j].op # "List",
                 NEW s \in Servants, Silent(s)'
          PROVE  s \in letters[k].peers <=> s \in enrolled'
      BY <1>7, <2>1, <2>2, <3>1 DEF ListsTell
    <3> QED BY <1>2, <3>1 DEF ListsTell
  <2>5. ListedTells'
    <3>1. ASSUME \A k \in DOMAIN letters : letters[k].op # "List", NEW s \in Servants, Silent(s)'
          PROVE  s \in listed <=> s \in enrolled'
      BY <1>7, <2>1, <2>2, <3>1 DEF ListedTells
    <3> QED BY <1>2, <3>1 DEF ListedTells
  <2> QED BY <2>3, <2>4, <2>5
<1> QED BY <1>8, <1>10, <1>11, <1>12, <1>13, <1>14 DEF CacheInv

-----------------------------------------------------------------------------
(* The adapter reads a letter.                                              *)
LEMMA LetterRead ==
  ASSUME CacheInv, letters # << >>, letters' = Tail(letters)
  PROVE  LET m == letters[1]
         IN  /\ m = Head(letters) /\ m \in Range(letters) /\ m \in LetterType \cup ListType
             /\ letters' \in Seq(LetterType \cup ListType) /\ Range(letters') \subseteq Range(letters)
             /\ m.op # "List" => m \in LetterType /\ LetterOK(m)
             /\ m.op = "List" => m \in ListType
             /\ 1 \in DOMAIN letters
             /\ \A k \in DOMAIN letters' : k + 1 \in DOMAIN letters /\ letters'[k] = letters[k + 1] /\ k \in Nat /\ k + 1 > 1
             /\ \A k \in DOMAIN letters : k = 1 \/ (k - 1 \in DOMAIN letters' /\ letters'[k - 1] = letters[k] /\ k > 1)
             /\ \A k \in DOMAIN letters' : \A j \in 1 .. k + 1 : j = 1 \/ (j - 1 \in 1 .. k /\ letters'[j - 1] = letters[j])
             /\ \A k \in DOMAIN letters', j \in DOMAIN letters : j > k + 1 => j - 1 > k /\ j # 1
<1>1. CacheTypes /\ letters \in Seq(LetterType \cup ListType)
  BY DEF CacheInv, CacheTypes
<1>2. /\ Tail(letters) \in Seq(LetterType \cup ListType) /\ Head(letters) = letters[1] /\ 1 \in DOMAIN letters
      /\ Head(letters) \in LetterType \cup ListType
      /\ DOMAIN letters = 1 .. Len(letters) /\ Len(letters) \in Nat \ {0}
      /\ DOMAIN letters' = 1 .. Len(letters) - 1 /\ \A k \in DOMAIN letters' : letters'[k] = letters[k + 1]
      /\ Range(letters') \subseteq Range(letters) /\ Head(letters) \in Range(letters)
  BY <1>1, Dropped
<1>3. \A k \in DOMAIN letters' : k + 1 \in DOMAIN letters /\ k \in Nat /\ k + 1 > 1
  BY <1>2
<1>4. \A k \in DOMAIN letters : k = 1 \/ (k - 1 \in DOMAIN letters' /\ (k - 1) + 1 = k /\ k > 1)
  BY <1>2
<1>5. \A k \in DOMAIN letters' : \A j \in 1 .. k + 1 : j = 1 \/ (j - 1 \in 1 .. k /\ j \in DOMAIN letters)
  BY <1>2
<1>6. \A k \in DOMAIN letters', j \in DOMAIN letters : j > k + 1 => j - 1 > k /\ j # 1
  BY <1>2
<1>7. /\ letters[1].op # "List" => letters[1] \in LetterType /\ LetterOK(letters[1])
      /\ letters[1].op = "List" => letters[1] \in ListType
  BY <1>1, <1>2, MessagesTyped DEF CacheInv, Messages, LettersOK
<1> QED BY <1>2, <1>3, <1>4, <1>5, <1>6, <1>7

LEMMA LetterTakenIn ==
  ASSUME CacheInv, PollLetter
  PROVE  LET m == letters[1]
         IN  /\ known' \in [Servants -> EntryType]
             /\ \A n \in Servants : Clean(n) \/ Opening(n, m) => Clean(n)'
             /\ WholeIsAll' /\ listed' \subseteq Servants
             /\ m.op = "List" => listed' = m.peers /\ running' = running
             /\ m.op # "List" => listed' = listed /\ running' = Heeded(running, m)
<1>1. CacheTypes /\ letters # << >> /\ letters' = Tail(letters)
  BY DEF CacheInv, PollLetter
<1>m. PICK m : m = letters[1]
  OBVIOUS
<1>2. /\ m = Head(letters)
      /\ m.op # "List" => m \in LetterType /\ LetterOK(m)
      /\ m.op = "List" => m \in ListType
  BY <1>1, <1>m, LetterRead
<1>3. since' = since
  BY DEF PollLetter
<1>4. /\ m.op = "List" => /\ listed' = m.peers /\ running' = running
                          /\ known' = [n \in Servants |-> IF n \in m.peers THEN known[n] ELSE Unknown]
      /\ m.op # "List" => /\ listed' = listed /\ running' = Heeded(running, m)
                          /\ known' = IF m.op # "Set" /\ m.status # "Fail"
                                        THEN [known EXCEPT ![m.node] = Ingested(known[m.node], m)] ELSE known
  BY <1>1, <1>2 DEF PollLetter, CacheTypes
<1>5. known \in [Servants -> EntryType] /\ listed \subseteq Servants /\ Unknown \in EntryType
      /\ Unknown.whole = "Empty" /\ DOMAIN Unknown.vals = {}
  BY <1>1, NoPartIs DEF CacheTypes, EntryType, Unknown
<1>6. listed' \subseteq Servants
  BY <1>2, <1>4, <1>5 DEF ListType
<1>7. CASE m.op # "List" /\ m.op # "Set" /\ m.status # "Fail"
  <2>1. m \in LetterType /\ m.node \in Servants /\ m.items \in Parts /\ Seen1(m.node, m.items)
    BY <1>2, <1>7 DEF LetterType, LetterOK
  <2>2. known' = [known EXCEPT ![m.node] = Ingested(known[m.node], m)]
    BY <1>4, <1>7
  <2>e. PICK e : e = known[m.node]
    OBVIOUS
  <2>x. PICK x : x = Ingested(e, m)
    OBVIOUS
  <2>3. e \in EntryType /\ (e.whole = "Full" => DOMAIN e.vals = Settings)
    BY <1>5, <2>1, <2>e DEF CacheInv, WholeIsAll
  <2>4. LET opening == m.op = "Bundle" /\ m.cursor = 0
        IN  /\ x \in EntryType
            /\ DOMAIN x.vals = DOMAIN m.items \cup (IF opening THEN {} ELSE DOMAIN e.vals)
            /\ \A i \in DOMAIN m.items : x.vals[i] = m.items[i]
            /\ ~opening => \A i \in DOMAIN e.vals \ DOMAIN m.items : x.vals[i] = e.vals[i]
            /\ x.whole = "Full" => DOMAIN x.vals = Settings
    BY <2>1, <2>3, <2>x, IngestedIs
  <2>5. known' \in [Servants -> EntryType] /\ known'[m.node] = x
        /\ \A n \in Servants : n # m.node => known'[n] = known[n]
    BY <1>5, <2>1, <2>2, <2>4, <2>e, <2>x
  <2>6. WholeIsAll'
    BY <2>4, <2>5 DEF CacheInv, WholeIsAll
  <2>7. Clean(m.node) \/ Opening(m.node, m) => Clean(m.node)'
    BY <1>3, <2>1, <2>4, <2>5, <2>e DEF Clean, Seen1, Opening
  <2>8. \A n \in Servants : n # m.node => (Clean(n) => Clean(n)') /\ ~Opening(n, m)
    BY <1>3, <2>5 DEF Clean, Opening
  <2> QED BY <1>m, <1>4, <1>6, <2>5, <2>6, <2>7, <2>8
<1>8. CASE m.op = "List" \/ m.op = "Set" \/ m.status = "Fail"
  <2>1. \A n \in Servants : known'[n] = known[n] \/ known'[n] = Unknown
    BY <1>4, <1>5, <1>8
  <2>2. known' \in [Servants -> EntryType]
    BY <1>4, <1>5, <1>8
  <2>3. WholeIsAll'
    BY <1>5, <2>1 DEF CacheInv, WholeIsAll
  <2>4. \A n \in Servants : (Clean(n) => Clean(n)') /\ ~Opening(n, m)
    BY <1>3, <1>5, <1>8, <2>1 DEF Clean, Opening
  <2> QED BY <1>m, <1>4, <1>6, <2>2, <2>3, <2>4
<1> QED BY <1>7, <1>8

(* What the call learns of it.                                              *)
LEMMA CallHeeds ==
  ASSUME NEW c \in CallType, NEW m \in LetterType
  PROVE  LET d == Heeded(c, m)
         IN  /\ d \in CallType /\ d.req = c.req /\ d.node = c.node /\ d.op = c.op /\ d.id = c.id
             /\ d.value = c.value /\ d.agrees = c.agrees
             /\ \/ d.answer = c.answer /\ d.read = c.read
                \/ m.req = c.req /\ d.answer = m.status /\ d.read = m.items
<1>1. /\ m.status # "Deferred" => m.status \in {"Wait", "Ok", "Fail"}
      /\ m.items \in Parts /\ c.fresh \in BOOLEAN
  BY DEF LetterType, CallType
<1>f. PICK f : f = [c EXCEPT !.fresh = @ \/ (m.op # "Set" /\ m.status # "Fail" /\ m.node = c.node)]
  OBVIOUS
<1>2. /\ f \in CallType /\ f.req = c.req /\ f.node = c.node /\ f.op = c.op /\ f.id = c.id
      /\ f.value = c.value /\ f.agrees = c.agrees /\ f.answer = c.answer /\ f.read = c.read
  BY <1>1, <1>f DEF CallType
<1>3. Heeded(c, m) = IF m.req = c.req /\ c.answer = "Wait" /\ m.status # "Deferred"
                       THEN [f EXCEPT !.answer = m.status, !.read = m.items] ELSE f
  BY <1>f DEF Heeded
<1>4. CASE m.req = c.req /\ c.answer = "Wait" /\ m.status # "Deferred"
  <2>1. Heeded(c, m) = [f EXCEPT !.answer = m.status, !.read = m.items]
    BY <1>3, <1>4
  <2> QED BY <1>1, <1>2, <1>4, <2>1 DEF CallType
<1>5. CASE ~(m.req = c.req /\ c.answer = "Wait" /\ m.status # "Deferred")
  <2>1. Heeded(c, m) = f
    BY <1>3, <1>5
  <2> QED BY <1>2, <2>1
<1> QED BY <1>4, <1>5

LEMMA PollLetterKeeps ==
  ASSUME CacheInv, PollLetter
  PROVE  CacheInv'
<1>1. CacheTypes /\ letters # << >> /\ letters' = Tail(letters)
  BY DEF CacheInv, PollLetter
<1>m. PICK m : m = letters[1]
  OBVIOUS
<1>2. UNCHANGED <<stored, enrolled, queries, replies, awaited, notices, returned, since, lossy, crossed,
                  pullsUsed, edits, ties, upsets>>
  BY DEF PollLetter, air, bounds
<1>3. /\ letters' \in Seq(LetterType \cup ListType) /\ Range(letters') \subseteq Range(letters)
      /\ m.op # "List" => m \in LetterType /\ LetterOK(m)
      /\ 1 \in DOMAIN letters
      /\ \A k \in DOMAIN letters' : k + 1 \in DOMAIN letters /\ letters'[k] = letters[k + 1] /\ k \in Nat /\ k + 1 > 1
      /\ \A k \in DOMAIN letters : k = 1 \/ (k - 1 \in DOMAIN letters' /\ letters'[k - 1] = letters[k] /\ k > 1)
      /\ \A k \in DOMAIN letters' : \A j \in 1 .. k + 1 : j = 1 \/ (j - 1 \in 1 .. k /\ letters'[j - 1] = letters[j])
      /\ \A k \in DOMAIN letters', j \in DOMAIN letters : j > k + 1 => j - 1 > k /\ j # 1
  BY <1>1, <1>m, LetterRead
<1>4. /\ known' \in [Servants -> EntryType]
      /\ \A n \in Servants : Clean(n) \/ Opening(n, m) => Clean(n)'
      /\ WholeIsAll' /\ listed' \subseteq Servants
      /\ m.op = "List" => listed' = m.peers /\ running' = running
      /\ m.op # "List" => listed' = listed /\ running' = Heeded(running, m)
  BY <1>m, LetterTakenIn
<1>5. running \in CallType /\ (running.op # "None" => running.node \in Servants)
  BY <1>1 DEF CacheTypes
<1>6. /\ running' \in CallType /\ SameCall /\ running'.value = running.value /\ running'.agrees = running.agrees
      /\ \/ running'.answer = running.answer /\ running'.read = running.read
         \/ /\ m.op # "List" /\ m.req = running.req /\ running'.answer = m.status /\ running'.read = m.items
  <2>1. CASE m.op = "List"
    BY <1>4, <1>5, <2>1 DEF SameCall
  <2>2. CASE m.op # "List"
    BY <1>3, <1>4, <1>5, <2>2, CallHeeds DEF SameCall
  <2> QED BY <2>1, <2>2
<1>7. CacheTypes'
  BY <1>1, <1>2, <1>3, <1>4, <1>5, <1>6 DEF CacheTypes, SameCall
<1>8. pullsUsed' \in Nat /\ pullsUsed <= pullsUsed' /\ SinceGrows /\ Grown
  BY <1>1, <1>2, Sizes DEF CacheTypes, Grown, SinceGrows
<1>9. Messages'
  BY <1>2, <1>3, <1>6, <1>8, MessagesStay
<1>10. WillBeClean'
  <2> SUFFICES ASSUME ~lossy PROVE AwaitedClean' /\ LettersClean' /\ CallClean'
    BY <1>2 DEF WillBeClean
  <2>1. AwaitedClean /\ LettersClean /\ CallClean
    BY DEF CacheInv, WillBeClean
  <2>2. AwaitedClean'
    <3>1. ASSUME NEW p \in awaited, p.op = "Bundle", 0 \in p.got
          PROVE  Clean(p.node)' \/ \E k \in DOMAIN letters' : Opening(p.node, letters'[k])
      <4>1. p.node \in Servants
        BY <1>1 DEF CacheTypes, PullType
      <4>2. Clean(p.node) \/ \E k \in DOMAIN letters : Opening(p.node, letters[k])
        BY <2>1, <3>1 DEF AwaitedClean
      <4> QED BY <1>m, <1>3, <1>4, <4>1, <4>2
    <3> QED BY <1>2, <3>1 DEF AwaitedClean
  <2>3. LettersClean'
    <3>1. ASSUME NEW k \in DOMAIN letters', NEW n \in Servants,
                 letters'[k].op = "Bundle", letters'[k].status = "Ok", letters'[k].node = n
          PROVE  Clean(n)' \/ \E j \in 1 .. k : Opening(n, letters'[j])
      <4>1. Clean(n) \/ \E j \in 1 .. k + 1 : Opening(n, letters[j])
        BY <1>3, <2>1, <3>1 DEF LettersClean
      <4> QED BY <1>m, <1>3, <1>4, <4>1
    <3> QED BY <3>1 DEF LettersClean
  <2>4. CallClean'
    <3>1. ASSUME NEW n \in Servants, n = running'.node, running'.op \in {"Refresh", "Snapshot"},
                 running'.answer = "Ok"
          PROVE  Clean(n)'
      <4>1. CASE running'.answer = running.answer
        BY <1>4, <1>6, <2>1, <3>1, <4>1 DEF CallClean, SameCall
      <4>2. CASE m.op # "List" /\ m.req = running.req /\ running'.answer = m.status
        <5>1. m.node = n /\ m.op = "Bundle" /\ m.status = "Ok"
          BY <1>3, <1>6, <3>1, <4>2 DEF LetterOK, SameCall, KindOf
        <5>2. Clean(n) \/ \E j \in 1 .. 1 : Opening(n, letters[j])
          BY <1>m, <1>3, <2>1, <5>1 DEF LettersClean
        <5>3. Clean(n) \/ Opening(n, m)
          BY <1>m, <5>2
        <5> QED BY <1>4, <5>3
      <4> QED BY <1>6, <4>1, <4>2
    <3> QED BY <3>1 DEF CallClean
  <2> QED BY <2>2, <2>3, <2>4
<1>11. CallOK'
  <2>1. CallOK
    BY DEF CacheInv
  <2>2. ASSUME running'.op = "Read", running'.answer = "Ok"
        PROVE  /\ DOMAIN running'.read = {running'.id}
               /\ running'.read[running'.id] \in since[running'.node][running'.id]
    <3>1. CASE running'.answer = running.answer /\ running'.read = running.read
      BY <1>6, <2>1, <2>2, <3>1 DEF CallOK, SameCall
    <3>2. CASE m.op # "List" /\ m.req = running.req /\ running'.answer = m.status /\ running'.read = m.items
      <4>1. /\ m.node = running'.node /\ m.op = "Get" /\ m.status = "Ok"
        BY <1>3, <1>6, <2>2, <3>2 DEF LetterOK, SameCall, KindOf
      <4>2. DOMAIN m.items = {running'.id} /\ Seen1(running'.node, m.items)
        BY <1>3, <1>6, <3>2, <4>1 DEF LetterOK, SameCall
      <4> QED BY <3>2, <4>2 DEF Seen1
    <3> QED BY <1>6, <3>1, <3>2
  <2> QED BY <1>2, <1>6, <2>1, <2>2 DEF CallOK, SameCall
<1>12. StoredIsSeen' /\ ToldOK'
  BY <1>2, <1>8, ToldStays DEF StoredIsSeen, CacheInv
<1>13. PairsTold'
  <2> SUFFICES ASSUME ~lossy, ~crossed PROVE NoticesTell' /\ ListsTell' /\ ListedTells'
    BY <1>2 DEF PairsTold
  <2>1. NoticesTell /\ ListsTell /\ ListedTells
    BY DEF CacheInv, PairsTold
  <2>2. NoticesTell'
    BY <1>2, <2>1 DEF NoticesTell
  <2>3. ListsTell'
    <3>1. ASSUME NEW k \in DOMAIN letters', letters'[k].op = "List",
                 \A j \in DOMAIN letters' : j > k => letters'[j].op # "List",
                 NEW n \in Servants, Silent(n)
          PROVE  n \in letters'[k].peers <=> n \in enrolled
      <4>1. letters'[k] = letters[k + 1] /\ k + 1 \in DOMAIN letters
        BY <1>3
      <4>2. \A j \in DOMAIN letters : j > k + 1 => letters[j].op # "List"
        BY <1>3, <3>1
      <4> QED BY <2>1, <3>1, <4>1, <4>2 DEF ListsTell
    <3> QED BY <1>2, <3>1 DEF ListsTell, Silent
  <2>4. ListedTells'
    <3>1. ASSUME \A k \in DOMAIN letters' : letters'[k].op # "List", NEW n \in Servants, Silent(n)
          PROVE  n \in listed' <=> n \in enrolled
      <4>1. \A j \in DOMAIN letters : j > 1 => letters[j].op # "List"
        BY <1>3, <3>1
      <4>2. CASE m.op = "List"
        BY <1>m, <1>3, <1>4, <2>1, <3>1, <4>1, <4>2 DEF ListsTell
      <4>3. CASE m.op # "List"
        <5>1. \A j \in DOMAIN letters : letters[j].op # "List"
          BY <1>m, <1>3, <4>1, <4>3
        <5> QED BY <1>4, <2>1, <3>1, <4>3, <5>1 DEF ListedTells
      <4> QED BY <4>2, <4>3
    <3> QED BY <1>2, <3>1 DEF ListedTells, Silent
  <2> QED BY <2>2, <2>3, <2>4
<1> QED BY <1>4, <1>7, <1>9, <1>10, <1>11, <1>12, <1>13 DEF CacheInv

(* The adapter reads an event.                                              *)
LEMMA NoticeRead ==
  ASSUME CacheInv, notices # << >>, notices' = Tail(notices)
  PROVE  /\ notices[1] = Head(notices) /\ notices[1] \in NoticeType /\ 1 \in DOMAIN notices
         /\ notices' \in Seq(NoticeType)
         /\ \A k \in DOMAIN notices' : k + 1 \in DOMAIN notices /\ notices'[k] = notices[k + 1]
         /\ \A k \in DOMAIN notices : k = 1 \/ (k - 1 \in DOMAIN notices' /\ notices'[k - 1] = notices[k] /\ k > 1)
         /\ \A k \in DOMAIN notices', j \in DOMAIN notices : j > k + 1 => j - 1 > k /\ j # 1
<1>1. notices \in Seq(NoticeType)
  BY DEF CacheInv, CacheTypes
<1>2. /\ Tail(notices) \in Seq(NoticeType) /\ Head(notices) = notices[1] /\ 1 \in DOMAIN notices
      /\ Head(notices) \in NoticeType
      /\ DOMAIN notices = 1 .. Len(notices) /\ Len(notices) \in Nat \ {0}
      /\ DOMAIN notices' = 1 .. Len(notices) - 1 /\ \A k \in DOMAIN notices' : notices'[k] = notices[k + 1]
  BY <1>1, Dropped
<1>3. \A k \in DOMAIN notices' : k + 1 \in DOMAIN notices
  BY <1>2
<1>4. \A k \in DOMAIN notices : k = 1 \/ (k - 1 \in DOMAIN notices' /\ (k - 1) + 1 = k /\ k > 1)
  BY <1>2
<1>5. \A k \in DOMAIN notices', j \in DOMAIN notices : j > k + 1 => j - 1 > k /\ j # 1
  BY <1>2
<1> QED BY <1>2, <1>3, <1>4, <1>5

LEMMA PollNoticeKeeps ==
  ASSUME CacheInv, PollNotice
  PROVE  CacheInv'
<1>1. CacheTypes /\ notices # << >> /\ notices' = Tail(notices)
  BY DEF CacheInv, PollNotice
<1>e. PICK e : e = notices[1]
  OBVIOUS
<1>2. UNCHANGED <<stored, enrolled, replies, letters, running, returned, since, lossy, edits, ties, upsets>>
  BY DEF PollNotice
<1>3. /\ e = Head(notices) /\ e \in NoticeType /\ e.node \in Servants /\ 1 \in DOMAIN notices
      /\ notices' \in Seq(NoticeType)
      /\ \A k \in DOMAIN notices' : k + 1 \in DOMAIN notices /\ notices'[k] = notices[k + 1]
      /\ \A k \in DOMAIN notices : k = 1 \/ (k - 1 \in DOMAIN notices' /\ notices'[k - 1] = notices[k] /\ k > 1)
      /\ \A k \in DOMAIN notices', j \in DOMAIN notices : j > k + 1 => j - 1 > k /\ j # 1
  BY <1>1, <1>e, NoticeRead DEF NoticeType
<1>4. /\ e.what = "Gone" => listed' = listed \ {e.node} /\ known' = [known EXCEPT ![e.node] = Unknown]
      /\ e.what # "Gone" => listed' = listed \cup {e.node} /\ known' = known
      /\ Query(e.node, "Bundle", 0, 0) \/ NoQuery
      /\ crossed' = (crossed \/ \E k \in DOMAIN letters : letters[k].op = "List")
  BY <1>3 DEF PollNotice, NoQuery
<1>5. Unknown \in EntryType /\ Unknown.whole = "Empty"
  BY NoPartIs DEF EntryType, Unknown
<1>6. /\ known' \in [Servants -> EntryType] /\ listed' \subseteq Servants
      /\ \A n \in Servants : known'[n] = known[n] \/ known'[n] = Unknown
  BY <1>1, <1>3, <1>4, <1>5 DEF CacheTypes
<1>7. SinceGrows /\ Grown /\ SameCall
  BY <1>2 DEF SinceGrows, Grown, SameCall
<1>8. /\ queries' \in [Servants -> Seq(QueryType)] /\ awaited' \subseteq PullType
      /\ pullsUsed' \in 0 .. MaxPulls /\ pullsUsed' \in Nat /\ pullsUsed <= pullsUsed'
      /\ \A p \in awaited' : p \in awaited \/ p.got = {}
      /\ Messages'
  <2>1. CASE Query(e.node, "Bundle", 0, 0)
    <3>1. "Bundle" \in Ops /\ 0 \in Settings /\ 0 \in Versions
      BY Sizes DEF Ops
    <3>2. Messages'
      BY <1>2, <1>3, <1>7, <2>1, <3>1, QuerySent
    <3> QED BY <1>1, <1>3, <2>1, <3>1, <3>2, QueryTyped
  <2>2. CASE NoQuery
    <3>1. queries' = queries /\ awaited' = awaited /\ pullsUsed' = pullsUsed
      BY <2>2 DEF NoQuery
    <3>2. pullsUsed \in Nat /\ pullsUsed <= pullsUsed
      BY <1>1, Sizes DEF CacheTypes
    <3>3. Messages'
      BY <1>2, <1>7, <3>1, <3>2, MessagesStay
    <3> QED BY <1>1, <3>1, <3>2, <3>3 DEF CacheTypes
  <2> QED BY <1>4, <2>1, <2>2
<1>9. CacheTypes'
  BY <1>1, <1>2, <1>3, <1>6, <1>8 DEF CacheTypes
<1>10. WillBeClean'
  BY <1>2, <1>6, <1>7, <1>8, CleanStays
<1>11. StoredIsSeen' /\ WholeIsAll'
  BY <1>2, <1>5, <1>6 DEF StoredIsSeen, WholeIsAll, CacheInv
<1>12. CallOK' /\ ToldOK'
  BY <1>2, <1>7, <1>8, CallStays, ToldStays
<1>13. PairsTold'
  <2> SUFFICES ASSUME ~lossy, ~crossed' PROVE NoticesTell' /\ ListsTell' /\ ListedTells'
    BY <1>2 DEF PairsTold
  <2>1. /\ NoticesTell /\ ListedTells
        /\ \A k \in DOMAIN letters : letters[k].op # "List"
    BY <1>4 DEF CacheInv, PairsTold
  <2>2. NoticesTell'
    <3>1. ASSUME NEW k \in DOMAIN notices',
                 \A j \in DOMAIN notices' : j > k => notices'[j].node # notices'[k].node
          PROVE  notices'[k].what = "Paired" <=> notices'[k].node \in enrolled
      <4>1. notices'[k] = notices[k + 1] /\ k + 1 \in DOMAIN notices
        BY <1>3
      <4>2. \A j \in DOMAIN notices : j > k + 1 => notices[j].node # notices[k + 1].node
        BY <1>3, <3>1, <4>1
      <4> QED BY <2>1, <4>1, <4>2 DEF NoticesTell
    <3> QED BY <1>2, <3>1 DEF NoticesTell
  <2>3. ListsTell'
    BY <1>2, <2>1 DEF ListsTell
  <2>4. ListedTells'
    <3>1. ASSUME NEW n \in Servants, Silent(n)'
          PROVE  n \in listed' <=> n \in enrolled
      <4>1. \A j \in DOMAIN notices : j > 1 => notices[j].node # n
        BY <1>3, <3>1 DEF Silent
      <4>2. CASE n = e.node
        <5>1. e.what = "Paired" <=> n \in enrolled
          BY <1>e, <1>3, <2>1, <4>1, <4>2 DEF NoticesTell
        <5>2. e.what \in {"Paired", "Gone"}
          BY <1>3 DEF NoticeType
        <5> QED BY <1>4, <4>2, <5>1, <5>2
      <4>3. CASE n # e.node
        <5>1. Silent(n)
          BY <1>e, <1>3, <4>1, <4>3 DEF Silent
        <5>2. n \in listed <=> n \in enrolled
          BY <2>1, <5>1 DEF ListedTells
        <5> QED BY <1>4, <4>3, <5>2
      <4> QED BY <4>2, <4>3
    <3> QED BY <1>2, <3>1 DEF ListedTells
  <2> QED BY <2>2, <2>3, <2>4
<1> QED BY <1>8, <1>9, <1>10, <1>11, <1>12, <1>13 DEF CacheInv

-----------------------------------------------------------------------------
(* The blocking calls.                                                      *)
LEMMA CallMoves ==
  ASSUME CacheInv, Grown,
         UNCHANGED <<stored, enrolled, replies, letters, notices, known, listed, lossy, crossed, edits, ties>>,
         since' \in [Servants -> [Settings -> SUBSET Versions]], StoredIsSeen', ToldOK',
         running' \in CallType, running'.op # "None" => running'.node \in Servants,
         running'.answer # "Ok", returned' \in ReturnType, upsets' \in 0 .. MaxWork,
         running'.agrees => /\ running'.op \in {"Read", "Sync"}
                            /\ running'.value \in since'[running'.node][running'.id],
         \/ NoQuery /\ (SameCall \/ running'.req = 0)
         \/ \E v \in Versions : /\ Query(running'.node, KindOf[running'.op], running'.id, v)
                                /\ running'.op # "None" /\ running'.req = pullsUsed'
  PROVE  CacheInv'
<1>1. CacheTypes
  BY DEF CacheInv
<1>2. /\ queries' \in [Servants -> Seq(QueryType)] /\ awaited' \subseteq PullType
      /\ pullsUsed' \in 0 .. MaxPulls /\ running'.req \in 0 .. pullsUsed'
      /\ \A p \in awaited' : p \in awaited \/ p.got = {}
      /\ Messages'
  <2>1. CASE NoQuery /\ (SameCall \/ running'.req = 0)
    <3>1. queries' = queries /\ awaited' = awaited /\ pullsUsed' = pullsUsed
      BY <2>1 DEF NoQuery
    <3>2. pullsUsed \in Nat /\ pullsUsed <= pullsUsed /\ running.req \in 0 .. pullsUsed
      BY <1>1, Sizes DEF CacheTypes, CacheInv, CallOK
    <3>3. Messages'
      BY <2>1, <3>1, <3>2, MessagesStay
    <3>4. running'.req \in 0 .. pullsUsed'
      BY <2>1, <3>1, <3>2 DEF SameCall
    <3> QED BY <1>1, <3>1, <3>2, <3>3, <3>4 DEF CacheTypes
  <2>2. ASSUME NEW v \in Versions, Query(running'.node, KindOf[running'.op], running'.id, v),
               running'.op # "None", running'.req = pullsUsed'
        PROVE  <1>2!1 /\ <1>2!2 /\ <1>2!3 /\ <1>2!4
    <3> PICK n : n = running'.node
      OBVIOUS
    <3> PICK op : op = KindOf[running'.op]
      OBVIOUS
    <3> PICK i : i = running'.id
      OBVIOUS
    <3>1. n \in Servants /\ op \in Ops /\ i \in Settings
      BY <2>2 DEF CallType, Ops, KindOf
    <3>2. Query(n, op, i, v)
      BY <2>2
    <3>3. Messages'
      BY <2>2, <3>1, <3>2, QuerySent
    <3> QED BY <1>1, <2>2, <3>1, <3>2, <3>3, QueryTyped
  <2> QED BY <2>1, <2>2
<1>3. CacheTypes'
  BY <1>1, <1>2 DEF CacheTypes
<1>4. WillBeClean'
  BY <1>2, CleanStays
<1>5. WholeIsAll' /\ PairsTold'
  BY PairsStay DEF WholeIsAll, CacheInv
<1>6. CallOK'
  BY <1>2 DEF CallOK
<1> QED BY <1>2, <1>3, <1>4, <1>5, <1>6 DEF CacheInv

LEMMA RunsIs ==
  ASSUME CacheTypes, NEW c \in CallType, c.node \in Servants, NEW kind \in Ops,
         NEW op \in {"Refresh", "Snapshot", "Write", "Read", "Sync"}, KindOf[op] = kind, Runs(op, kind, c)
  PROVE  /\ running' \in CallType /\ running'.op = op /\ running'.node = c.node
         /\ running'.id = c.id /\ running'.value = c.value /\ running'.agrees = c.agrees
         /\ running'.answer # "Ok" /\ upsets' \in 0 .. MaxWork
         /\ \/ NoQuery /\ running'.req = 0
            \/ \E v \in Versions : /\ Query(running'.node, KindOf[running'.op], running'.id, v)
                                   /\ running'.op # "None" /\ running'.req = pullsUsed'
<1>1. CASE Query(c.node, kind, c.id, c.value) /\ UNCHANGED upsets
           /\ running' = [c EXCEPT !.op = op, !.req = pullsUsed', !.answer = "Wait"]
  <2>1. pullsUsed' \in Nat
    BY <1>1, Sizes DEF Query, CacheTypes
  <2>2. /\ running' \in CallType /\ running'.op = op /\ running'.node = c.node /\ running'.id = c.id
        /\ running'.value = c.value /\ running'.agrees = c.agrees /\ running'.answer # "Ok"
        /\ running'.req = pullsUsed'
    BY <1>1, <2>1 DEF CallType
  <2>3. c.value \in Versions /\ upsets' \in 0 .. MaxWork
    BY <1>1 DEF CallType, CacheTypes
  <2>4. Query(running'.node, KindOf[running'.op], running'.id, c.value)
    BY <1>1, <2>2
  <2> QED BY <2>2, <2>3, <2>4
<1>2. CASE Upset /\ NoQuery /\ running' = [c EXCEPT !.op = op, !.req = 0, !.answer = "Fail"]
  <2>1. upsets' \in 0 .. MaxWork
    BY <1>2, Worked DEF Upset
  <2>2. /\ running' \in CallType /\ running'.op = op /\ running'.node = c.node /\ running'.id = c.id
        /\ running'.value = c.value /\ running'.agrees = c.agrees /\ running'.answer # "Ok"
        /\ running'.req = 0
    BY <1>2 DEF CallType
  <2> QED BY <1>2, <2>1, <2>2
<1> QED BY <1>1, <1>2 DEF Runs

LEMMA Blanks ==
  /\ Idle \in CallType /\ Idle.op = "None" /\ Idle.req = 0 /\ Idle.answer = "Wait" /\ ~Idle.agrees
  /\ Nothing \in ReturnType /\ Nothing.what = "Nothing"
<1>1. 0 \in Settings /\ 0 \in Versions /\ NoPart \in Parts
  BY Sizes, NoPartIs
<1>x. PICK x : x = CHOOSE n \in Servants : TRUE
  OBVIOUS
<1>3. Idle = [op |-> "None", node |-> x, req |-> 0, id |-> 0, value |-> 0,
              fresh |-> FALSE, answer |-> "Wait", read |-> NoPart, agrees |-> FALSE]
  BY <1>x DEF Idle
<1>4. Idle.node = x /\ x \in Nodes
  BY <1>3 DEF Nodes
<1>5. Idle \in CallType
  BY <1>1, <1>3, <1>4 DEF CallType
<1>6. Nothing \in ReturnType /\ Nothing.what = "Nothing"
  BY <1>1, <1>4 DEF Nothing, ReturnType
<1> QED BY <1>3, <1>5, <1>6

(* A call begins.                                                           *)
LEMMA BeginsIs ==
  ASSUME CacheInv, NEW n \in Servants, Begins(n)
  PROVE  /\ Grown /\ since' \in [Servants -> [Settings -> SUBSET Versions]] /\ StoredIsSeen'
         /\ returned' \in ReturnType /\ ToldOK'
         /\ UNCHANGED <<stored, enrolled, replies, letters, notices, known, listed, lossy, crossed, edits, ties>>
<1>1. CacheTypes /\ StoredIsSeen
  BY DEF CacheInv
<1>2. /\ UNCHANGED <<stored, enrolled, replies, letters, notices, known, listed, lossy, crossed, edits, ties>>
      /\ returned' = Nothing /\ since' = Restarted(n)
  BY DEF Begins
<1>3. returned' \in ReturnType /\ ToldOK'
  BY <1>2, Blanks DEF ToldOK
<1>4. CASE NothingOf(n)
  <2>1. since' = [since EXCEPT ![n] = [i \in Settings |-> {stored[n][i]}]]
    BY <1>2, <1>4 DEF Restarted
  <2>2. [i \in Settings |-> {stored[n][i]}] \in [Settings -> SUBSET Versions]
    BY <1>1 DEF CacheTypes
  <2>3. /\ since' \in [Servants -> [Settings -> SUBSET Versions]]
        /\ \A i \in Settings : since'[n][i] = {stored[n][i]}
        /\ \A s \in Servants : s # n => since'[s] = since[s]
    BY <1>1, <2>1, <2>2 DEF CacheTypes
  <2>4. Grown
    BY <1>4, <2>3 DEF Grown
  <2>5. StoredIsSeen'
    BY <1>1, <1>2, <2>3 DEF StoredIsSeen
  <2> QED BY <1>2, <1>3, <2>3, <2>4, <2>5
<1>5. CASE ~NothingOf(n)
  <2>1. since' = since
    BY <1>2, <1>5 DEF Restarted
  <2>2. Grown /\ StoredIsSeen' /\ since' \in [Servants -> [Settings -> SUBSET Versions]]
    BY <1>1, <1>2, <2>1 DEF Grown, StoredIsSeen, CacheTypes
  <2> QED BY <1>2, <1>3, <2>2
<1> QED BY <1>4, <1>5

LEMMA BundleCallKeeps ==
  ASSUME CacheInv, NEW n \in Servants, BundleCall(n)
  PROVE  CacheInv'
<1>1. PICK op \in {"Refresh", "Snapshot"} : Runs(op, "Bundle", [Idle EXCEPT !.node = n])
  BY DEF BundleCall
<1>c. PICK c : c = [Idle EXCEPT !.node = n]
  OBVIOUS
<1>2. c \in CallType /\ c.node = n /\ ~c.agrees
  BY <1>c, Blanks DEF CallType, Nodes
<1>3. KindOf[op] = "Bundle" /\ "Bundle" \in Ops
  BY DEF KindOf, Ops
<1>4. Begins(n) /\ Runs(op, "Bundle", c) /\ CacheTypes
  BY <1>1, <1>c DEF BundleCall, CacheInv
<1> QED BY <1>2, <1>3, <1>4, BeginsIs, RunsIs, CallMoves

LEMMA BatchCallKeeps ==
  ASSUME CacheInv, NEW n \in Servants, BatchCall(n)
  PROVE  CacheInv'
<1>1. PICK i \in Settings, v \in Versions : Runs("Write", "Set", [Idle EXCEPT !.node = n, !.id = i, !.value = v])
  BY DEF BatchCall
<1>c. PICK c : c = [Idle EXCEPT !.node = n, !.id = i, !.value = v]
  OBVIOUS
<1>2. c \in CallType /\ c.node = n /\ ~c.agrees
  BY <1>c, Blanks DEF CallType, Nodes
<1>3. KindOf["Write"] = "Set" /\ "Set" \in Ops
  BY DEF KindOf, Ops
<1>4. Begins(n) /\ Runs("Write", "Set", c) /\ CacheTypes
  BY <1>1, <1>c DEF BatchCall, CacheInv
<1> QED BY <1>2, <1>3, <1>4, BeginsIs, RunsIs, CallMoves

(* A call goes on, or returns.                                              *)
LEMMA CallGoesOn ==
  ASSUME CacheInv, UNCHANGED <<stored, since>>
  PROVE  /\ Grown /\ SinceGrows /\ since' \in [Servants -> [Settings -> SUBSET Versions]] /\ StoredIsSeen'
         /\ CacheTypes /\ CallOK /\ upsets \in 0 .. MaxWork
         /\ running \in CallType /\ (running.op # "None" => running.node \in Servants)
         /\ returned \in ReturnType
BY DEF CacheInv, CacheTypes, Grown, SinceGrows, StoredIsSeen

LEMMA GivesUpKeeps ==
  ASSUME CacheInv, GivesUp
  PROVE  CacheInv'
<1>1. UNCHANGED <<stored, since, enrolled, replies, queries, awaited, letters, notices, known, listed, returned,
                  lossy, crossed, pullsUsed, edits, ties>>
      /\ running' = [running EXCEPT !.answer = "Fail"] /\ running.op # "None" /\ Upset
  BY DEF GivesUp, air
<1>2. /\ Grown /\ SinceGrows /\ since' \in [Servants -> [Settings -> SUBSET Versions]] /\ StoredIsSeen'
      /\ CacheTypes /\ CallOK /\ running \in CallType /\ running.node \in Servants /\ returned \in ReturnType
  BY <1>1, CallGoesOn
<1>3. /\ running' \in CallType /\ SameCall /\ running'.answer = "Fail"
      /\ running'.value = running.value /\ running'.agrees = running.agrees
  BY <1>1, <1>2 DEF CallType, SameCall
<1>4. upsets' \in 0 .. MaxWork
  BY <1>1, <1>2, Worked DEF Upset
<1>5. ToldOK'
  BY <1>1, <1>2, ToldStays
<1>6. running'.agrees => /\ running'.op \in {"Read", "Sync"}
                         /\ running'.value \in since'[running'.node][running'.id]
  BY <1>1, <1>2, <1>3 DEF CallOK, SameCall
<1>7. NoQuery
  BY <1>1 DEF NoQuery
<1> QED BY <1>1, <1>2, <1>3, <1>4, <1>5, <1>6, <1>7, CallMoves DEF SameCall

(* What is returned as refreshed is what is shown, and it is all.           *)
LEMMA ReturnKeeps ==
  ASSUME CacheInv, NEW op, Answered(op), NEW o \in ReturnType, Returns(o), o.node \in Servants,
         o.what = "Fresh" /\ ~lossy => DOMAIN o.vals = Settings /\ Seen1(o.node, o.vals),
         o.what = "Confirmed" => o.value \in since[o.node][o.id]
  PROVE  CacheInv'
<1>1. /\ UNCHANGED <<stored, enrolled, replies, letters, notices, known, listed, since, lossy, crossed, edits, ties>>
      /\ running' = Idle /\ returned' = o /\ NoQuery /\ UNCHANGED upsets
  BY DEF Answered, Returns
<1>2. /\ Grown /\ since' \in [Servants -> [Settings -> SUBSET Versions]] /\ StoredIsSeen'
      /\ upsets' \in 0 .. MaxWork
  BY <1>1, CallGoesOn
<1>3. ToldOK'
  BY <1>1 DEF ToldOK, Seen1
<1> QED BY <1>1, <1>2, <1>3, Blanks, CallMoves

LEMMA ShownKeeps ==
  ASSUME CacheInv, NEW op \in {"Refresh", "Snapshot"}, Answered(op), NEW ok \in BOOLEAN, ok => IsWhole,
         Returns(Shown(ok))
  PROVE  CacheInv'
<1>1. running.op = op /\ running \in CallType /\ running.node \in Servants /\ known \in [Servants -> EntryType]
  BY DEF Answered, CacheInv, CacheTypes
<1>o. PICK o : o = Shown(ok)
  OBVIOUS
<1>n. PICK n : n = running.node
  OBVIOUS
<1>2. known[n].vals \in Parts
  BY <1>1, <1>n DEF EntryType
<1>3. /\ o \in ReturnType /\ o.what = (IF ok THEN "Fresh" ELSE "Cached") /\ o.node = n
      /\ o.vals = known[n].vals
  BY <1>1, <1>2, <1>n, <1>o, Blanks DEF Shown, ReturnType, Nodes
<1>4. ASSUME ok, ~lossy
      PROVE  DOMAIN o.vals = Settings /\ Seen1(o.node, o.vals)
  <2>1. running.answer = "Ok" /\ known[n].whole = "Full"
    BY <1>4, <1>n DEF IsWhole
  <2>2. DOMAIN known[n].vals = Settings
    BY <1>1, <1>n, <2>1 DEF CacheInv, WholeIsAll
  <2>3. Clean(n)
    BY <1>1, <1>4, <1>n, <2>1 DEF CacheInv, WillBeClean, CallClean
  <2> QED BY <1>3, <2>2, <2>3 DEF Clean, Seen1
<1> QED BY <1>1, <1>3, <1>4, <1>n, <1>o, ReturnKeeps

LEMMA WrittenKeeps ==
  ASSUME CacheInv, NEW op \in {"Write", "Sync"}, Answered(op), NEW ok \in BOOLEAN,
         ok => running.agrees, Returns(Written(ok))
  PROVE  CacheInv'
<1>1. running.op = op /\ running \in CallType /\ running.node \in Servants /\ CallOK
  BY DEF Answered, CacheInv, CacheTypes
<1>o. PICK o : o = Written(ok)
  OBVIOUS
<1>2. /\ running.id \in Settings /\ running.value \in Versions
  BY <1>1 DEF CallType
<1>3. /\ o \in ReturnType /\ o.what = (IF ok THEN "Confirmed" ELSE "Written") /\ o.node = running.node
      /\ o.id = running.id /\ o.value = running.value
  BY <1>1, <1>2, <1>o, Blanks DEF Written, ReturnType, Nodes
<1>4. ok => o.value \in since[o.node][o.id]
  BY <1>1, <1>3 DEF CallOK
<1> QED BY <1>1, <1>3, <1>4, <1>o, ReturnKeeps

(* The value read back decides what the write is reported as.               *)
LEMMA FollowsKeeps ==
  ASSUME CacheInv, NEW was, Answered(was), was # "None", UNCHANGED returned,
         NEW op \in {"Read", "Sync"}, NEW c \in CallType, c.node = running.node,
         c.agrees => c.value \in since[c.node][c.id],
         Runs(op, KindOf[op], c)
  PROVE  CacheInv'
<1>1. /\ UNCHANGED <<stored, enrolled, replies, letters, notices, known, listed, since, lossy, crossed, edits, ties>>
      /\ running.op # "None"
  BY DEF Answered
<1>2. /\ Grown /\ SinceGrows /\ since' \in [Servants -> [Settings -> SUBSET Versions]] /\ StoredIsSeen'
      /\ CacheTypes /\ running.node \in Servants /\ returned \in ReturnType
  BY <1>1, CallGoesOn
<1>3. KindOf[op] \in Ops /\ op \in {"Refresh", "Snapshot", "Write", "Read", "Sync"} /\ op # "None"
  BY DEF KindOf, Ops
<1>4. /\ running' \in CallType /\ running'.op = op /\ running'.node = c.node /\ running'.id = c.id
      /\ running'.value = c.value /\ running'.agrees = c.agrees
      /\ running'.answer # "Ok" /\ upsets' \in 0 .. MaxWork
      /\ \/ NoQuery /\ running'.req = 0
         \/ \E v \in Versions : /\ Query(running'.node, KindOf[running'.op], running'.id, v)
                                /\ running'.op # "None" /\ running'.req = pullsUsed'
  BY <1>2, <1>3, RunsIs
<1>5. ToldOK' /\ returned' \in ReturnType
  BY <1>1, <1>2, ToldStays
<1>6. running'.agrees => /\ running'.op \in {"Read", "Sync"}
                         /\ running'.value \in since'[running'.node][running'.id]
  BY <1>1, <1>4
<1> QED BY <1>1, <1>2, <1>4, <1>5, <1>6, CallMoves

LEMMA WriteEndsKeeps ==
  ASSUME CacheInv, WriteEnds
  PROVE  CacheInv'
<1>1. Answered("Write") /\ running.op = "Write" /\ running \in CallType /\ CallOK
  BY DEF WriteEnds, Answered, CacheInv, CacheTypes
<1>2. ~running.agrees
  BY <1>1 DEF CallOK
<1>3. KindOf["Read"] = "Get" /\ KindOf["Sync"] = "Bundle"
  BY DEF KindOf
<1>4. CASE Returns(Written(FALSE))
  BY <1>1, <1>4, WrittenKeeps
<1>5. CASE UNCHANGED returned /\ Runs("Read", "Get", running)
  BY <1>1, <1>2, <1>3, <1>5, FollowsKeeps
<1>6. CASE UNCHANGED returned /\ Runs("Sync", "Bundle", running)
  BY <1>1, <1>2, <1>3, <1>6, FollowsKeeps
<1> QED BY <1>4, <1>5, <1>6 DEF WriteEnds

LEMMA ReadEndsKeeps ==
  ASSUME CacheInv, ReadEnds
  PROVE  CacheInv'
<1>1. /\ Answered("Read") /\ UNCHANGED returned /\ running.op = "Read" /\ running \in CallType /\ CallOK
  BY DEF ReadEnds, Answered, CacheInv, CacheTypes
<1> DEFINE same == running.answer = "Ok" /\ running.read[running.id] = running.value
<1>c. PICK c : c = [running EXCEPT !.agrees = same]
  OBVIOUS
<1>2. /\ c \in CallType /\ c.node = running.node /\ c.id = running.id /\ c.value = running.value
      /\ c.agrees = same
  BY <1>1, <1>c DEF CallType
<1>3. c.agrees => c.value \in since[c.node][c.id]
  BY <1>1, <1>2 DEF CallOK
<1>4. KindOf["Sync"] = "Bundle"
  BY DEF KindOf
<1>5. Runs("Sync", "Bundle", c)
  BY <1>c DEF ReadEnds
<1> HIDE DEF same
<1> QED BY <1>1, <1>2, <1>3, <1>4, <1>5, FollowsKeeps

LEMMA SyncEndsKeeps ==
  ASSUME CacheInv, SyncEnds
  PROVE  CacheInv'
<1>1. Answered("Sync") /\ Returns(Written(running.agrees)) /\ running.agrees \in BOOLEAN
  BY DEF SyncEnds, CacheInv, CacheTypes, CallType
<1> QED BY <1>1, WrittenKeeps

LEMMA SnapshotEndsKeeps ==
  ASSUME CacheInv, SnapshotEnds \/ RefreshEnds
  PROVE  CacheInv'
<1>1. running.fresh \in BOOLEAN /\ IsWhole \in BOOLEAN /\ (IsWhole /\ running.fresh) \in BOOLEAN
  BY DEF CacheInv, CacheTypes, CallType, IsWhole
<1>2. CASE SnapshotEnds
  BY <1>1, <1>2, ShownKeeps DEF SnapshotEnds
<1>3. CASE RefreshEnds
  BY <1>1, <1>3, ShownKeeps DEF RefreshEnds
<1> QED BY <1>2, <1>3

-----------------------------------------------------------------------------
(* The results.                                                             *)
LEMMA CacheStarts == CacheInit => CacheInv
<1> SUFFICES ASSUME CacheInit PROVE CacheInv
  OBVIOUS
<1>1. /\ stored = [n \in Servants |-> [i \in Settings |-> 0]] /\ enrolled = Servants
      /\ queries = [n \in Servants |-> << >>] /\ replies = [n \in Servants |-> << >>]
      /\ awaited = {} /\ letters = << >> /\ notices = << >>
      /\ known = [n \in Servants |-> Unknown] /\ listed = Servants
      /\ running = Idle /\ returned = Nothing
      /\ since = [n \in Servants |-> [i \in Settings |-> {0}]]
      /\ pullsUsed = 0 /\ edits = 0 /\ ties = 0 /\ upsets = 0
  BY DEF CacheInit
<1>2. 0 \in Versions /\ MaxPulls \in Nat /\ MaxWork \in Nat /\ 0 \in 0 .. MaxPulls /\ 0 \in 0 .. MaxWork
  BY Sizes
<1>3. Unknown \in EntryType /\ DOMAIN Unknown.vals = {} /\ Unknown.whole = "Empty"
  BY NoPartIs DEF EntryType, Unknown
<1>4. << >> \in Seq(QueryType) /\ << >> \in Seq(ReplyType) /\ << >> \in Seq(LetterType \cup ListType)
      /\ << >> \in Seq(NoticeType) /\ DOMAIN << >> = {} /\ Range(<< >>) = {}
  BY DEF Range
<1>5. CacheTypes
  BY <1>1, <1>2, <1>3, <1>4, Blanks DEF CacheTypes
<1>6. StoredIsSeen
  BY <1>1 DEF StoredIsSeen
<1>7. Messages
  BY <1>1, <1>4 DEF Messages, QueriesOK, RepliesOK, LettersOK, AwaitedOK
<1>8. WillBeClean
  BY <1>1, <1>4, Blanks DEF WillBeClean, AwaitedClean, LettersClean, CallClean
<1>9. WholeIsAll /\ CallOK /\ ToldOK
  BY <1>1, <1>3, Blanks DEF WholeIsAll, CallOK, ToldOK
<1>10. PairsTold
  BY <1>1, <1>4 DEF PairsTold, NoticesTell, ListsTell, ListedTells
<1> QED BY <1>5, <1>6, <1>7, <1>8, <1>9, <1>10 DEF CacheInv

LEMMA CacheKeeps == CacheInv /\ [CacheNext]_cacheVars => CacheInv'
<1> SUFFICES ASSUME CacheInv, [CacheNext]_cacheVars PROVE CacheInv'
  OBVIOUS
<1>1. CASE \E n \in Servants : Edit(n) \/ HandleQuery(n) \/ LostOnAir(n) \/ OnPullResponse(n)
  BY <1>1, EditKeeps, QueryKeeps, LostKeeps, ResponseKeeps
<1>2. CASE BundleLapses \/ TieChanges \/ ListAsked \/ DroppedInside \/ PollLetter \/ PollNotice
  BY <1>2, LapseKeeps, TieKeeps, ListKeeps, DroppedKeeps, PollLetterKeeps, PollNoticeKeeps
<1>3. CASE \E n \in Servants : BundleCall(n) \/ BatchCall(n) \/ RefreshLater(n)
  BY <1>3, BundleCallKeeps, BatchCallKeeps, RefreshLaterKeeps
<1>4. CASE GivesUp \/ SnapshotEnds \/ RefreshEnds \/ WriteEnds \/ ReadEnds \/ SyncEnds
  BY <1>4, GivesUpKeeps, SnapshotEndsKeeps, WriteEndsKeeps, ReadEndsKeeps, SyncEndsKeeps
<1>5. CASE UNCHANGED cacheVars
  <2>1. UNCHANGED <<stored, enrolled, queries, replies, awaited, letters, notices, adapter, known, listed,
                    running, returned, since, lossy, crossed, pullsUsed, edits, ties, upsets>>
    BY <1>5 DEF cacheVars, air, adapter, bounds
  <2>2. CacheTypes'
    BY <2>1 DEF CacheInv, CacheTypes
  <2>3. pullsUsed' \in Nat /\ pullsUsed <= pullsUsed' /\ SinceGrows /\ Grown /\ SameCall
    BY <2>1, Sizes DEF CacheInv, CacheTypes, Grown, SinceGrows, SameCall
  <2>4. Messages'
    BY <2>1, <2>3, MessagesStay
  <2>5. \A m \in Servants, j \in Settings : stored'[m][j] \in since'[m][j]
    BY <2>1 DEF CacheInv, StoredIsSeen
  <2> QED BY <2>1, <2>2, <2>3, <2>4, <2>5, AdapterRests DEF CacheInv
<1> QED BY <1>1, <1>2, <1>3, <1>4, <1>5 DEF CacheNext

(* CacheInv holds along every run: each query, page and response has its    *)
(* request, what is shown of a slave is of this time or a first page on its *)
(* way clears it, and the last event or list under way tells who is paired. *)
THEOREM CacheInvHolds == CacheSpec => []CacheInv
<1> QED BY CacheStarts, CacheKeeps, PTL DEF CacheSpec

(* Settings that settingsRefresh returns as fresh are all there, each a     *)
(* value the slave had since nothing of it was under way, and a write that  *)
(* settingsSetBatch reports as confirmed was at the slave: whatever is      *)
(* lost, late, refused or given up.  When all was polled the adapter lists  *)
(* the slaves that are paired, unless a message to it was dropped or events *)
(* were polled before a list asked for earlier.                             *)
THEOREM CallsAreTrue == CacheSpec => []CallsTellTrue
<1>1. CacheInv => CallsTellTrue
  <2> SUFFICES ASSUME CacheInv PROVE CallsTellTrue
    OBVIOUS
  <2>1. returned.what = "Fresh" /\ ~lossy =>
          /\ DOMAIN returned.vals = Settings
          /\ \A i \in Settings : returned.vals[i] \in since[returned.node][i]
    BY DEF CacheInv, ToldOK, Seen1
  <2>2. returned.what = "Confirmed" => returned.value \in since[returned.node][returned.id]
    BY DEF CacheInv, ToldOK
  <2>3. ASSUME notices = << >>, \A k \in DOMAIN letters : letters[k].op # "List", ~lossy, ~crossed
        PROVE  listed = enrolled
    <3>1. \A n \in Servants : Silent(n)
      BY <2>3 DEF Silent
    <3>2. \A n \in Servants : n \in listed <=> n \in enrolled
      BY <2>3, <3>1 DEF CacheInv, PairsTold, ListedTells
    <3> QED BY <3>2 DEF CacheInv, CacheTypes
  <2> QED BY <2>1, <2>2, <2>3 DEF CallsTellTrue
<1> QED BY <1>1, CacheInvHolds, PTL

(* The stored and known settings, the pulls awaited and the call under way  *)
(* keep their types; a request number is awaited once.                      *)
THEOREM CacheTypeCorrect == CacheSpec => []CacheTypeOK
<1>1. CacheInv => CacheTypeOK
  <2> SUFFICES ASSUME CacheInv PROVE CacheTypeOK
    OBVIOUS
  <2>1. CacheTypes /\ AwaitedOK /\ CallOK
    BY DEF CacheInv, Messages
  <2>2. stored \in [Servants -> [Settings -> Versions]] /\ {enrolled, listed} \subseteq SUBSET Servants
    BY <2>1 DEF CacheTypes
  <2>3. \A n \in Servants : known[n].vals \in Parts /\ known[n].whole \in {"Empty", "Partial", "Full"}
    BY <2>1 DEF CacheTypes, EntryType
  <2>4. \A p \in awaited : p.node \in Servants /\ p.req \in 1 .. pullsUsed /\ p.got \subseteq Settings
    BY <2>1 DEF CacheTypes, PullType, AwaitedOK
  <2>5. \A p, r \in awaited : p.req = r.req => p = r
    BY <2>1 DEF AwaitedOK
  <2>6. running.req \in 0 .. pullsUsed /\ returned.vals \in Parts
    BY <2>1 DEF CacheTypes, CallOK, ReturnType
  <2>7. pullsUsed <= MaxPulls /\ {edits, ties, upsets} \subseteq 0 .. MaxWork
    BY <2>1, Sizes DEF CacheTypes
  <2> QED BY <2>2, <2>3, <2>4, <2>5, <2>6, <2>7 DEF CacheTypeOK
<1> QED BY <1>1, CacheInvHolds, PTL
=============================================================================
