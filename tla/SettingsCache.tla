---------------------------- MODULE SettingsCache ----------------------------
(***************************************************************************)
(* What a frontend knows of its slaves: which are paired, and the settings  *)
(* of each.  A slave answers a bundle query with all its pages at once; the *)
(* service waits until they cover the whole list; the frontend adapter      *)
(* merges every response and event it polls into a cache, and its blocking  *)
(* calls (settingsRefresh, nodeSnapshotGet, settingsSetBatch) read it.      *)
(*                                                                         *)
(* A page holds PageSize settings, of which a frame carries FrameFits.  The *)
(* flags shown beside the values (age, error, refresh under way) are left   *)
(* out, and so is the eviction of slaves nobody paired.                     *)
(***************************************************************************)
EXTENDS Naturals, Sequences, FiniteSets, FiniteSetsExt

CONSTANTS Servants,    \* the slaves
          FrameFits,   \* how many settings of a slave fit into a frame
          PageSize,    \* page_size of the slave's loop
          Total,       \* settings of a slave
          Versions,    \* values of a setting
          MaxPulls,    \* bound: queries sent
          MaxWork      \* bound: queries, changes of a setting, pairings, lists asked
                       \* for, and losses, refusals and waits given up, together

Settings == 0 .. Total - 1
Parts    == UNION {[S -> Versions] : S \in SUBSET Settings}
NoPart   == [i \in {} |-> 0]

ASSUME CacheSizes == /\ {Total, PageSize} \subseteq Nat \ {0}
                     /\ {MaxPulls, MaxWork} \subseteq Nat
                     /\ FrameFits \in [Servants -> Nat \ {0}] /\ 0 \in Versions

VARIABLES
  stored,    \* the settings each slave has
  enrolled,  \* the slaves the master is paired with
  queries,   \* queries on their way to each slave
  replies,   \* answers on their way from each slave
  awaited,   \* pending_descriptor_pulls_ of the service
  letters,   \* responses the adapter has not polled
  notices,   \* events the adapter has not polled
  known,     \* cached_nodes_: values and completeness
  listed,    \* cached_paired_peers_
  running,   \* the blocking call of the adapter
  returned,   \* history: what the last call returned
  since,     \* history: the values a slave had since nothing of it was under way
  lossy,     \* history: a response or event did not reach the adapter
  crossed,   \* history: an event was polled before a list asked for earlier
  pullsUsed, edits, ties, upsets

air      == <<queries, replies>>
bounds    == <<pullsUsed, edits, ties, upsets>>
adapter   == <<known, listed, running, returned>>
cacheVars == <<stored, enrolled, air, awaited, letters, notices, adapter, since, lossy, crossed, bounds>>

Unknown == [vals |-> NoPart, whole |-> "Empty"]
Idle    == [op |-> "None", node |-> CHOOSE n \in Servants : TRUE, req |-> 0, id |-> 0, value |-> 0,
            fresh |-> FALSE, answer |-> "Wait", read |-> NoPart, agrees |-> FALSE]
Nothing == [what |-> "Nothing", node |-> Idle.node, vals |-> NoPart, id |-> 0, value |-> 0]
HasWork == pullsUsed + edits + ties + upsets < MaxWork
Upset   == HasWork /\ upsets' = upsets + 1

-----------------------------------------------------------------------------
(* The slave.                                                               *)

Change(n, i, v) ==
  /\ HasWork /\ stored[n][i] # v /\ edits' = edits + 1
  /\ stored' = [stored EXCEPT ![n][i] = v]
  /\ since' = [since EXCEPT ![n][i] = @ \cup {v}]

(* The setting is changed at the slave itself.                              *)
Edit(n) ==
  /\ \E i \in Settings, v \in Versions : Change(n, i, v)
  /\ UNCHANGED <<enrolled, air, awaited, letters, notices, adapter, lossy, crossed,
                 pullsUsed, ties, upsets>>

Reply(q, cursor, items, done, good) ==
  [req |-> q.req, op |-> q.op, cursor |-> cursor, items |-> items, done |-> done, good |-> good]
Short(q, items) == << Reply(q, 0, items, TRUE, TRUE) >>

(* The page that starts at c, as encodeDescriptorResponse sends it.         *)
PageAt(n, q, c) ==
  LET end == Min({c + PageSize, c + FrameFits[n], Total})
  IN  Reply(q, c, [i \in c .. end - 1 |-> stored[n][i]], end = Total, TRUE)

(* The loop over a bundle: the next page starts where this one ended before *)
(* it was cut to the frame.                                                 *)
BundlePages(n, q) == [k \in 1 .. (Total + PageSize - 1) \div PageSize |-> PageAt(n, q, (k - 1) * PageSize)]

(* handlePullRequest: the answers are sent in one go; a send that fails     *)
(* ends them, and a handler that fails answers with an error.               *)
AnswersGo(n, answers) ==
  \/ replies' = [replies EXCEPT ![n] = @ \o answers] /\ UNCHANGED upsets
  \/ /\ Upset
     /\ \E k \in 0 .. Len(answers) - 1 : replies' = [replies EXCEPT ![n] = @ \o SubSeq(answers, 1, k)]
AnswersError(n, q) ==
  Upset /\ replies' = [replies EXCEPT ![n] = Append(@, Reply(q, 0, NoPart, TRUE, FALSE))]

HandleQuery(n) ==
  /\ queries[n] # << >> /\ queries' = [queries EXCEPT ![n] = Tail(@)]
  /\ LET q == Head(queries[n]) IN
     \/ /\ q.op = "Bundle" /\ AnswersGo(n, BundlePages(n, q)) /\ UNCHANGED <<stored, since, edits>>
     \/ /\ q.op = "Get" /\ AnswersGo(n, Short(q, [i \in {q.id} |-> stored[n][i]]))
        /\ UNCHANGED <<stored, since, edits>>
     \/ /\ q.op = "Set" /\ AnswersGo(n, Short(q, NoPart))
        /\ Change(n, q.id, q.value) \/ (stored[n][q.id] = q.value /\ UNCHANGED <<stored, since, edits>>)
     \/ AnswersError(n, q) /\ UNCHANGED <<stored, since, edits>>
  /\ UNCHANGED <<enrolled, awaited, letters, notices, adapter, lossy, crossed, pullsUsed, ties>>

LostOnAir(n) ==
  /\ Upset
  /\ \/ queries[n] # << >> /\ queries' = [queries EXCEPT ![n] = Tail(@)] /\ UNCHANGED replies
     \/ replies[n] # << >> /\ replies' = [replies EXCEPT ![n] = Tail(@)] /\ UNCHANGED queries
  /\ UNCHANGED <<stored, enrolled, awaited, letters, notices, adapter, since, lossy, crossed,
                 pullsUsed, edits, ties>>

-----------------------------------------------------------------------------
(* The service.                                                             *)

AwaitedPull(n, req, op) == [node |-> n, req |-> req, op |-> op, got |-> {}, last |-> FALSE]

Query(n, op, i, v) ==
  /\ HasWork /\ pullsUsed < MaxPulls /\ n \in enrolled /\ pullsUsed' = pullsUsed + 1
  /\ awaited' = awaited \cup {AwaitedPull(n, pullsUsed', op)}
  /\ queries' = [queries EXCEPT ![n] = Append(@, [req |-> pullsUsed', op |-> op, id |-> i, value |-> v])]

(* A bundle is complete when its pages cover the list from the start.       *)
Covered(p) == p.last /\ p.got = Settings

Seen(p, m)      == [p EXCEPT !.got = @ \cup DOMAIN m.items, !.last = @ \/ m.done]
Letter(n, m, s) == [node |-> n, req |-> m.req, op |-> m.op, cursor |-> m.cursor, items |-> m.items,
                    done |-> m.done, status |-> s]

(* onPullResponse: an answer nobody awaits is dropped.                      *)
OnPullResponse(n) ==
  /\ replies[n] # << >> /\ replies' = [replies EXCEPT ![n] = Tail(@)]
  /\ LET m == Head(replies[n])
         mine == {p \in awaited : p.node = n /\ p.req = m.req}
         waits == {Seen(p, m) : p \in {x \in mine : m.good /\ x.op = "Bundle" /\ ~Covered(Seen(x, m))}}
         status == IF ~m.good THEN "Fail" ELSE IF waits # {} THEN "Deferred" ELSE "Ok"
     IN  /\ awaited' = (awaited \ mine) \cup waits
         /\ letters' = IF mine = {} THEN letters ELSE Append(letters, Letter(n, m, status))
  /\ UNCHANGED <<stored, enrolled, queries, notices, adapter, since, lossy, crossed, bounds>>

(* prunePendingDescriptorPulls_                                             *)
BundleLapses ==
  /\ Upset /\ \E p \in awaited : awaited' = awaited \ {p}
  /\ UNCHANGED <<stored, enrolled, air, letters, notices, adapter, since, lossy, crossed,
                 pullsUsed, edits, ties>>

(* A slave is paired, unpaired or removed (Event::Paired, "unpair ack",     *)
(* RemovePeerRequest).                                                      *)
TieChanges ==
  /\ HasWork /\ ties' = ties + 1
  /\ \E n \in Servants :
       \/ /\ n \notin enrolled /\ enrolled' = enrolled \cup {n}
          /\ notices' = Append(notices, [node |-> n, what |-> "Paired"])
       \/ /\ n \in enrolled /\ enrolled' = enrolled \ {n}
          /\ notices' = Append(notices, [node |-> n, what |-> "Gone"])
  /\ UNCHANGED <<stored, air, awaited, letters, adapter, since, lossy, crossed, pullsUsed, edits, upsets>>

(* PairedSnapshotGet                                                        *)
ListAsked ==
  /\ HasWork /\ ties' = ties + 1
  /\ letters' = Append(letters, [op |-> "List", peers |-> enrolled])
  /\ UNCHANGED <<stored, enrolled, air, awaited, notices, adapter, since, lossy, crossed,
                 pullsUsed, edits, upsets>>

(* A full queue on the way to the adapter drops a message.                  *)
DroppedInside ==
  /\ Upset /\ lossy' = TRUE
  /\ \/ letters # << >> /\ letters' = Tail(letters) /\ UNCHANGED notices
     \/ notices # << >> /\ notices' = Tail(notices) /\ UNCHANGED letters
  /\ UNCHANGED <<stored, enrolled, air, awaited, adapter, since, crossed, pullsUsed, edits, ties>>

-----------------------------------------------------------------------------
(* The adapter's cache.                                                     *)

(* cacheIngestResponse: the first page of a bundle clears the values; the   *)
(* last one decides whether they are all.                                   *)
Ingested(e, m) ==
  LET base == IF m.op = "Bundle" /\ m.cursor = 0 THEN NoPart ELSE e.vals
      vals == [i \in DOMAIN m.items \cup DOMAIN base |->
                 IF i \in DOMAIN m.items THEN m.items[i] ELSE base[i]]
  IN  [vals |-> vals,
       whole |-> CASE m.op = "Get" -> IF e.whole = "Empty" THEN "Partial" ELSE e.whole
                   [] m.op # "Get" /\ m.done /\ DOMAIN vals = Settings -> "Full"
                   [] OTHER -> "Partial"]

(* trackResponse_, for the request of the blocking call.                    *)
Heeded(c, m) ==
  LET f == [c EXCEPT !.fresh = @ \/ (m.op # "Set" /\ m.status # "Fail" /\ m.node = c.node)]
  IN  IF m.req = c.req /\ c.answer = "Wait" /\ m.status # "Deferred"
        THEN [f EXCEPT !.answer = m.status, !.read = m.items] ELSE f

PollLetter ==
  /\ letters # << >> /\ letters' = Tail(letters)
  /\ LET m == Head(letters) IN
     IF m.op = "List"
       THEN /\ listed' = m.peers
            /\ known' = [n \in Servants |-> IF n \in m.peers THEN known[n] ELSE Unknown]
            /\ UNCHANGED running
       ELSE /\ known' = IF m.op # "Set" /\ m.status # "Fail"
                          THEN [known EXCEPT ![m.node] = Ingested(@, m)] ELSE known
            /\ running' = Heeded(running, m)
            /\ UNCHANGED listed
  /\ UNCHANGED <<stored, enrolled, air, awaited, notices, returned, since, lossy, crossed, bounds>>

(* cacheIngestEvent: a new slave without settings is asked for them.        *)
PollNotice ==
  /\ notices # << >> /\ notices' = Tail(notices)
  /\ LET e == Head(notices) IN
     IF e.what = "Gone"
       THEN /\ listed' = listed \ {e.node} /\ known' = [known EXCEPT ![e.node] = Unknown]
            /\ UNCHANGED <<awaited, queries, pullsUsed>>
       ELSE /\ listed' = listed \cup {e.node} /\ UNCHANGED known
            /\ \/ known[e.node].whole = "Empty" /\ Query(e.node, "Bundle", 0, 0)
               \/ UNCHANGED <<awaited, queries, pullsUsed>>
  /\ crossed' = (crossed \/ \E k \in DOMAIN letters : letters[k].op = "List")
  /\ UNCHANGED <<stored, enrolled, replies, letters, running, returned, since, lossy, edits, ties, upsets>>

-----------------------------------------------------------------------------
(* The adapter's calls.                                                     *)

NothingOf(n) ==
  /\ queries[n] = << >> /\ replies[n] = << >> /\ \A p \in awaited : p.node # n
  /\ \A k \in DOMAIN letters : letters[k].op = "List" \/ letters[k].node # n

Restarted(n) ==
  IF NothingOf(n) THEN [since EXCEPT ![n] = [i \in Settings |-> {stored[n][i]}]] ELSE since
NoQuery == UNCHANGED <<queries, awaited, pullsUsed>>

(* commandRunAndWait begins: the command is sent, or refused.               *)
Runs(op, kind, c) ==
  \/ /\ Query(c.node, kind, c.id, c.value) /\ UNCHANGED upsets
     /\ running' = [c EXCEPT !.op = op, !.req = pullsUsed', !.answer = "Wait"]
  \/ Upset /\ NoQuery /\ running' = [c EXCEPT !.op = op, !.req = 0, !.answer = "Fail"]

Begins(n) ==
  /\ running.op = "None" /\ returned' = Nothing /\ since' = Restarted(n)
  /\ UNCHANGED <<stored, enrolled, replies, letters, notices, known, listed, lossy, crossed, edits, ties>>

(* settingsRefresh and nodeSnapshotGet.                                     *)
BundleCall(n) ==
  /\ Begins(n)
  /\ \E op \in {"Refresh", "Snapshot"} : Runs(op, "Bundle", [Idle EXCEPT !.node = n])

(* settingsSetBatch, of one item: a value the cache shows is not written.   *)
BatchCall(n) ==
  /\ Begins(n)
  /\ \E i \in Settings, v \in Versions :
       /\ i \in DOMAIN known[n].vals => known[n].vals[i] # v
       /\ Runs("Write", "Set", [Idle EXCEPT !.node = n, !.id = i, !.value = v])

(* settingsCacheRefreshPeer, settingsCacheRefreshPeerKey                    *)
RefreshLater(n) ==
  /\ \/ Query(n, "Bundle", 0, 0)
     \/ \E i \in Settings : Query(n, "Get", i, 0)
  /\ UNCHANGED <<stored, enrolled, replies, letters, notices, adapter, since, lossy, crossed,
                 edits, ties, upsets>>

(* commandRunAndWait: the wait ends first.                                  *)
GivesUp ==
  /\ running.op # "None" /\ running.answer = "Wait" /\ Upset
  /\ running' = [running EXCEPT !.answer = "Fail"]
  /\ UNCHANGED <<stored, enrolled, air, awaited, letters, notices, known, listed, returned, since,
                 lossy, crossed, pullsUsed, edits, ties>>

Answered(op) ==
  /\ running.op = op /\ running.answer # "Wait"
  /\ UNCHANGED <<stored, enrolled, replies, letters, notices, known, listed, since, lossy, crossed,
                 edits, ties>>
Returns(o) == running' = Idle /\ returned' = o /\ NoQuery /\ UNCHANGED upsets
Shown(ok)  == [Nothing EXCEPT !.what = IF ok THEN "Fresh" ELSE "Cached", !.node = running.node,
                              !.vals = known[running.node].vals]
Written(ok) == [Nothing EXCEPT !.what = IF ok THEN "Confirmed" ELSE "Written", !.node = running.node,
                               !.id = running.id, !.value = running.value]
(* Fault: the answer is enough, whatever became of the cache.               *)
IsWholeByAnswer == running.answer = "Ok"

IsWhole == running.answer = "Ok" /\ known[running.node].whole = "Full"

SnapshotEnds == Answered("Snapshot") /\ Returns(Shown(IsWhole))

(* hasFreshSettingsCache_, asked until some time has passed.                *)
RefreshEnds == Answered("Refresh") /\ Returns(Shown(IsWhole /\ running.fresh))

(* A write that was sent is read back, and all settings are asked for.      *)
WriteEnds ==
  /\ Answered("Write")
  /\ \/ running.req = 0 /\ Returns(Written(FALSE))
     \/ /\ running.req # 0 /\ UNCHANGED returned
        /\ IF running.answer = "Ok" THEN Runs("Read", "Get", running) ELSE Runs("Sync", "Bundle", running)
ReadEnds ==
  /\ Answered("Read") /\ UNCHANGED returned
  /\ LET same == running.answer = "Ok" /\ running.read[running.id] = running.value
     IN  Runs("Sync", "Bundle", [running EXCEPT !.agrees = same])
SyncEnds == Answered("Sync") /\ Returns(Written(running.agrees))

-----------------------------------------------------------------------------
CacheInit ==
  /\ stored = [n \in Servants |-> [i \in Settings |-> 0]] /\ enrolled = Servants
  /\ queries = [n \in Servants |-> << >>] /\ replies = [n \in Servants |-> << >>]
  /\ awaited = {} /\ letters = << >> /\ notices = << >>
  /\ known = [n \in Servants |-> Unknown] /\ listed = Servants
  /\ running = Idle /\ returned = Nothing
  /\ since = [n \in Servants |-> [i \in Settings |-> {0}]] /\ lossy = FALSE /\ crossed = FALSE
  /\ pullsUsed = 0 /\ edits = 0 /\ ties = 0 /\ upsets = 0

CacheNext ==
  \/ \E n \in Servants : Edit(n) \/ HandleQuery(n) \/ LostOnAir(n) \/ OnPullResponse(n)
  \/ BundleLapses \/ TieChanges \/ ListAsked \/ DroppedInside \/ PollLetter \/ PollNotice
  \/ \E n \in Servants : BundleCall(n) \/ BatchCall(n) \/ RefreshLater(n)
  \/ GivesUp \/ SnapshotEnds \/ RefreshEnds \/ WriteEnds \/ ReadEnds \/ SyncEnds

CacheSpec == CacheInit /\ [][CacheNext]_cacheVars

-----------------------------------------------------------------------------
(* Every variable has its type.                                             *)
CacheTypeOK ==
  /\ stored \in [Servants -> [Settings -> Versions]] /\ {enrolled, listed} \subseteq SUBSET Servants
  /\ \A n \in Servants : known[n].vals \in Parts /\ known[n].whole \in {"Empty", "Partial", "Full"}
  /\ \A p \in awaited : p.node \in Servants /\ p.req \in 1 .. pullsUsed /\ p.got \subseteq Settings
  /\ \A p, r \in awaited : p.req = r.req => p = r
  /\ running.req \in 0 .. pullsUsed /\ returned.vals \in Parts
  /\ pullsUsed <= MaxPulls /\ {edits, ties, upsets} \subseteq 0 .. MaxWork

(* What a frontend is told is true.  Settings returned as refreshed are     *)
(* all there, each a value the slave had since nothing of it was under way: *)
(* no page of an earlier time stands for one that was lost.  A write        *)
(* reported as confirmed was at the slave.  And when every response and     *)
(* event has been polled the adapter lists the slaves the master is paired  *)
(* with, unless a message was dropped on its way to the adapter, or events  *)
(* were polled before a list that was asked for earlier.                    *)
CallsTellTrue ==
  /\ returned.what = "Fresh" /\ ~lossy =>
       /\ DOMAIN returned.vals = Settings
       /\ \A i \in Settings : returned.vals[i] \in since[returned.node][i]
  /\ returned.what = "Confirmed" => returned.value \in since[returned.node][returned.id]
  /\ notices = << >> /\ (\A k \in DOMAIN letters : letters[k].op # "List") /\ ~lossy /\ ~crossed =>
       listed = enrolled

(* A bundle whose pages were all sent and all arrived has an end: the       *)
(* paging of a bundle is that of every list, whose next page starts where   *)
(* the last entry sent ended.                                               *)
BundleSettles ==
  LET Of(q, req) == \E k \in DOMAIN q : q[k].req = req
  IN  upsets = 0 => \A p \in awaited : Of(queries[p.node], p.req) \/ Of(replies[p.node], p.req)
=============================================================================
