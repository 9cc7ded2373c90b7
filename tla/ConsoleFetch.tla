---------------------------- MODULE ConsoleFetch ----------------------------
(***************************************************************************)
(* The long reads of the master's console (src/src/cli): a list of a node  *)
(* fetched page by page, and the log of a node pulled chunk by chunk, each *)
(* against the descriptor server of the node (src/src/descriptor).          *)
(*                                                                          *)
(* A list is a sequence of entries [id, val, size]; Room is what an answer  *)
(* holds, so a page may carry fewer entries than it was asked for, or none. *)
(* "Settings" stands for the lists whose pages name a snapshot and are      *)
(* compared (settings, capabilities, schema, manifest), "Samples" for the   *)
(* telemetry snapshot, whose are not.  A snapshot id is a hash of the whole *)
(* list and stands here for the list itself.  A log is the sequence of its  *)
(* records, one to a chunk.  Requests pass the management service, which    *)
(* may refuse them; requests and answers may be lost on the radio.          *)
(***************************************************************************)
EXTENDS SequencesExt, Integers

CONSTANTS Nodes, Datasets,     \* the nodes, and what a list of theirs may hold
          Room, FirstSize,     \* what an answer holds; the page size a fetch starts with
          QueueMax,            \* descriptor_queue_max_
          LogMax, ExportMax,   \* max_bytes of a node's log and of the export store
          MaxReads, MaxProbes, MaxChanges, MaxRecords, MaxFailures  \* bounds of the exploration

Kinds == {"Settings", "Samples"}

VARIABLES
  lists,      \* what the provider of each node lists now
  logs,       \* the log store of each node
  fetch,      \* paged_fetch_*
  pull,       \* remote_log_pull_*
  exported,   \* the export store on the master
  queue,      \* descriptor_request_queue_
  wire,       \* requests under way to each node
  answers,        \* answers under way from each node
  had,        \* history: every list each node had
  shown,      \* history: the last list a fetch ended with
  reported,       \* history: how the last pull ended, and the log it read then
  failures,   \* history: requests or answers lost, refused or failed
  reads, probes, changes, records   \* counters of the bounds

consoleVars == <<lists, logs, fetch, pull, exported, queue, wire, answers, had, shown, reported,
                 failures, reads, probes, changes, records>>
nodeVars == <<lists, logs, had, changes, records>>

-----------------------------------------------------------------------------
(* The descriptor server of a node.                                         *)

(* The entries of a page that fit its answer: encoding stops at the first   *)
(* that does not.                                                           *)
Fitting(page) ==
  LET Load(k) == FoldLeft(LAMBDA sum, e : sum + e.size, 0, SubSeq(page, 1, k))
  IN  SubSeq(page, 1, Max({k \in 0..Len(page) : Load(k) <= Room}))

(* The part of a list a page asks for.                                      *)
Start(data, asked)  == Min({asked.cursor, Len(data)})
Sliced(data, asked) ==
  SubSeq(data, Start(data, asked) + 1, Min({Start(data, asked) + asked.size, Len(data)}))
SnapshotId(data) == data

Page(kind, data, asked) ==
  LET sent == Fitting(Sliced(data, asked))
      next == Start(data, asked) + Len(sent)
  IN  [type |-> kind, paged |-> TRUE, cursor |-> Start(data, asked), next |-> next,
       done |-> next >= Len(data), total |-> Len(data), snap |-> SnapshotId(data),
       entries |-> sent]

LogStatus(log, by) == [type |-> "LogStatus", total |-> Len(log), by |-> by]
LogChunk(log, asked) ==
  [type |-> "LogChunk", offset |-> asked.offset, total |-> Len(log), by |-> asked.by,
   chunk |-> IF asked.offset < Len(log) THEN <<log[asked.offset + 1]>> ELSE <<>>]

AnswerTo(n, asked) ==
  CASE asked.type = "LogStatus" -> LogStatus(logs[n], asked.by)
    [] asked.type = "LogChunk"  -> LogChunk(logs[n], asked)
    [] asked.type \in Kinds     ->
         IF asked.paged THEN Page(asked.type, lists[n], asked)
                        ELSE [type |-> asked.type, paged |-> FALSE]
    [] OTHER                    -> [type |-> "Other"]

Failure == [type |-> "Error"]
Fails == failures < MaxFailures /\ failures' = failures + 1

(* A node answers the request it received first, with an error when its     *)
(* provider has nothing to give.                                            *)
NodeAnswers(n) ==
  /\ wire[n] # <<>>
  /\ wire' = [wire EXCEPT ![n] = Tail(@)]
  /\ \/ /\ answers' = [answers EXCEPT ![n] = Append(@, AnswerTo(n, Head(wire[n])))]
        /\ UNCHANGED failures
     \/ /\ answers' = [answers EXCEPT ![n] = Append(@, Failure)]
        /\ Fails
  /\ UNCHANGED <<nodeVars, fetch, pull, exported, queue, shown, reported, reads, probes>>

(* What a node lists changes: a setting is set, a sample is taken.          *)
ListChanges(n) ==
  /\ changes < MaxChanges
  /\ changes' = changes + 1
  /\ \E data \in Datasets : /\ lists' = [lists EXCEPT ![n] = data]
                            /\ had' = [had EXCEPT ![n] = @ \cup {data}]
  /\ UNCHANGED <<logs, fetch, pull, exported, queue, wire, answers, shown, reported, failures,
                 reads, probes, records>>

(* A log store that is full is emptied before the next record is appended.  *)
Stored(store, limit, record) ==
  IF Len(store) + 1 > limit THEN <<record>> ELSE Append(store, record)

(* History: the log a pull reads from did not only grow.                    *)
Turned(n, log) ==
  [pull EXCEPT !.turned = @ \/ (pull.active /\ pull.peer = n /\ ~IsPrefix(logs[n], log))]

LogGrows(n) ==
  LET log == Stored(logs[n], LogMax, records + 1)
  IN /\ records < MaxRecords
     /\ records' = records + 1
     /\ logs' = [logs EXCEPT ![n] = log]
     /\ pull' = Turned(n, log)
     /\ UNCHANGED <<lists, fetch, exported, queue, wire, answers, had, shown, reported, failures,
                    reads, probes, changes>>

LogCleared(n) ==
  /\ logs[n] # <<>>
  /\ logs' = [logs EXCEPT ![n] = <<>>]
  /\ pull' = Turned(n, <<>>)
  /\ UNCHANGED <<lists, fetch, exported, queue, wire, answers, had, shown, reported, failures,
                 reads, probes, changes, records>>

-----------------------------------------------------------------------------
(* The console's descriptor queue.                                          *)

PageRequest(f, cursor) ==
  [to |-> f.peer, type |-> f.kind, paged |-> TRUE, cursor |-> cursor, size |-> f.size]
DescGet(n) == [to |-> n, type |-> "Other"]

HasRoom == Len(queue) < QueueMax

EnqueueOther(n) ==
  /\ HasRoom /\ probes < MaxProbes
  /\ probes' = probes + 1
  /\ queue' = Append(queue, DescGet(n))
  /\ UNCHANGED <<nodeVars, fetch, pull, exported, wire, answers, shown, reported, failures, reads>>

(* pumpDescriptorQueue: a request the service refuses is dropped, and       *)
(* nobody is reported.                                                          *)
PumpQueue ==
  /\ queue # <<>>
  /\ LET asked == Head(queue)
     IN  /\ queue' = Tail(queue)
         /\ \/ /\ wire' = [wire EXCEPT ![asked.to] = Append(@, asked)]
               /\ UNCHANGED failures
            \/ /\ Fails
               /\ UNCHANGED wire
  /\ UNCHANGED <<nodeVars, fetch, pull, exported, answers, shown, reported, reads, probes>>

(* A request that asks for the whole list at once: the probe for an unknown *)
(* profile, or the telemetry of the automatic pull.                         *)
Probe(n, kind) ==
  /\ probes < MaxProbes
  /\ probes' = probes + 1
  /\ wire' = [wire EXCEPT ![n] = Append(@, [to |-> n, type |-> kind, paged |-> FALSE])]
  /\ UNCHANGED <<nodeVars, fetch, pull, exported, queue, answers, shown, reported, failures, reads>>

-----------------------------------------------------------------------------
(* The paged fetch.                                                         *)

NoFetch == [kind |-> "None", peer |-> "none", size |-> FirstSize, expected |-> 0,
            locked |-> FALSE, snap |-> <<>>, total |-> 0, restarts |-> 0,
            cache |-> <<>>, from |-> {}]     \* from: history, who sent the pages

(* Fault: a page that finds the queue full is not asked for, and the fetch  *)
(* goes on waiting for it.                                                  *)
AskPageOnce(f, cursor) ==
  fetch' = f /\ queue' = IF HasRoom THEN Append(queue, PageRequest(f, cursor)) ELSE queue
(* Ask for a page of fetch f; a full queue ends the fetch.                  *)
AskPage(f, cursor) ==
  IF HasRoom THEN fetch' = f /\ queue' = Append(queue, PageRequest(f, cursor))
           ELSE fetch' = NoFetch /\ UNCHANGED queue

StartPagedFetch(n, kind) ==
  /\ reads < MaxReads
  /\ reads' = reads + 1
  /\ AskPage([NoFetch EXCEPT !.kind = kind, !.peer = n], 0)
  /\ UNCHANGED <<nodeVars, pull, exported, wire, answers, shown, reported, failures, probes>>

GiveUp == fetch' = NoFetch /\ UNCHANGED <<queue, shown>>

(* The second restart is never tried; the first begins again at the first   *)
(* page, with pages half as long unless only the snapshot changed.          *)
RestartFetch(halved) ==
  IF fetch.restarts >= 1 THEN GiveUp
  ELSE /\ AskPage([fetch EXCEPT !.restarts = @ + 1, !.locked = FALSE, !.expected = 0,
                                !.cache = <<>>, !.from = {},
                                !.size = IF halved /\ @ > 1 THEN @ \div 2 ELSE @], 0)
       /\ UNCHANGED shown

(* Entries whose id was not seen yet, in their order.                       *)
Merged(cache, entries) ==
  FoldLeft(LAMBDA c, e : IF \E i \in DOMAIN c : c[i].id = e.id THEN c ELSE Append(c, e),
           cache, entries)

CompleteFetch(f) ==
  IF Len(f.cache) # f.total
  THEN IF f.size = 1 THEN GiveUp ELSE RestartFetch(TRUE)
  ELSE /\ shown' = [kind |-> f.kind, peer |-> f.peer, entries |-> f.cache,
                    total |-> f.total, from |-> f.from]
       /\ fetch' = NoFetch
       /\ UNCHANGED queue

(* Fault: pages of different snapshots are put together.                    *)
SnapshotIgnored(d) == FALSE
(* The list changed since the first page.                                   *)
SnapshotChanged(d) == fetch.locked /\ fetch.kind # "Samples" /\ fetch.snap # d.snap

(* A page of the kind that is fetched, from whichever node: the sender is   *)
(* not compared.                                                            *)
TakePage(n, d) ==
  LET f == [fetch EXCEPT !.locked = TRUE,
                         !.snap  = IF fetch.locked THEN @ ELSE d.snap,
                         !.total = IF fetch.locked THEN @ ELSE d.total,
                         !.cache = Merged(@, d.entries), !.from = @ \cup {n}]
  IN  IF d.cursor # fetch.expected THEN RestartFetch(TRUE)
      ELSE IF SnapshotChanged(d) THEN RestartFetch(FALSE)
      ELSE IF d.done THEN CompleteFetch(f)
      ELSE IF d.next <= d.cursor THEN RestartFetch(TRUE)
      ELSE AskPage([f EXCEPT !.expected = d.next], d.next) /\ UNCHANGED shown

(* handlePagedDescriptorResponse *)
HearPage(n, d) ==
  CASE d.type # fetch.kind -> UNCHANGED <<fetch, queue, shown>>
    [] d.type = fetch.kind /\ ~d.paged -> GiveUp
    [] d.type = fetch.kind /\ d.paged -> TakePage(n, d)

-----------------------------------------------------------------------------
(* The pull of a log.                                                       *)

NoPull == [active |-> FALSE, waiting |-> FALSE, peer |-> "none", total |-> 0, next |-> 0,
           by |-> 0,                              \* history: the number of the pull
           turned |-> FALSE, crossed |-> FALSE]   \* history: see LogIsWhole

Untold == [how |-> "none", log |-> <<>>]

StartRemoteLogPull(n) ==
  /\ ~pull.active /\ reads < MaxReads
  /\ reads' = reads + 1
  /\ exported' = <<>>
  /\ \/ /\ pull' = [NoPull EXCEPT !.active = TRUE, !.waiting = TRUE, !.peer = n,
                                  !.by = reads + 1]
        /\ wire' = [wire EXCEPT ![n] = Append(@, [to |-> n, type |-> "LogStatus",
                                                  by |-> reads + 1])]
        /\ reported' = Untold
     \/ /\ pull' = NoPull         \* the service refuses the request
        /\ reported' = [Untold EXCEPT !.how = "failed"]
        /\ UNCHANGED wire
  /\ UNCHANGED <<nodeVars, fetch, queue, answers, shown, failures, probes>>

EndPull(p, outcome) ==
  /\ pull' = [p EXCEPT !.active = FALSE, !.waiting = FALSE]
  /\ reported' = [how |-> outcome, log |-> IF p.peer \in Nodes THEN logs[p.peer] ELSE <<>>]

(* Ask for the next chunk of pull p; a refused request ends it.             *)
AskChunk(p) ==
  \/ /\ pull' = p
     /\ wire' = [wire EXCEPT ![p.peer] =
                   Append(@, [to |-> p.peer, type |-> "LogChunk", offset |-> p.next,
                              by |-> p.by])]
     /\ UNCHANGED reported
  \/ EndPull(p, "failed") /\ UNCHANGED wire

(* The sender and the request of an answer are not compared.                *)
HearStatus(n, d) ==
  /\ IF ~pull.waiting THEN UNCHANGED <<pull, wire, reported>>
     ELSE LET p == [pull EXCEPT !.waiting = FALSE, !.total = d.total, !.next = 0,
                                !.crossed = @ \/ d.by # pull.by]
          IN IF p.total = 0 THEN EndPull(p, "complete") /\ UNCHANGED wire ELSE AskChunk(p)
  /\ UNCHANGED exported

HearChunk(n, d) ==
  LET p == [pull EXCEPT !.total = IF @ = 0 THEN d.total ELSE @,
                        !.next = @ + Len(d.chunk),
                        !.crossed = @ \/ d.by # pull.by]
  IN  IF d.offset # pull.next
      THEN EndPull(pull, "failed") /\ UNCHANGED <<exported, wire>>
      ELSE \/ /\ exported' = IF d.chunk = <<>> THEN exported
                             ELSE Stored(exported, ExportMax, Head(d.chunk))
              /\ IF d.chunk = <<>> \/ p.next >= p.total
                 THEN EndPull(p, "complete") /\ UNCHANGED wire
                 ELSE AskChunk(p)
           \/ /\ d.chunk # <<>>     \* the export store fails
              /\ EndPull(pull, "failed")
              /\ UNCHANGED <<exported, wire>>

(* logger.remote.pull.stop, or the tick: nothing was heard for five         *)
(* seconds, or the node is no longer paired.                                *)
StopRemoteLogPull ==
  /\ pull.active
  /\ EndPull(pull, "failed")
  /\ UNCHANGED <<nodeVars, fetch, exported, queue, wire, answers, shown, failures, reads, probes>>

(* onPullResponse: a pull that is active sees an answer before the fetch,   *)
(* and every error ends it.                                                 *)
Hear(n) ==
  /\ answers[n] # <<>>
  /\ answers' = [answers EXCEPT ![n] = Tail(@)]
  /\ LET d == Head(answers[n])
     IN  CASE pull.active /\ d.type = "Error" ->
                EndPull(pull, "failed") /\ UNCHANGED <<fetch, queue, shown, exported, wire>>
           [] pull.active /\ d.type = "LogStatus" ->
                HearStatus(n, d) /\ UNCHANGED <<fetch, queue, shown>>
           [] pull.active /\ d.type = "LogChunk" ->
                HearChunk(n, d) /\ UNCHANGED <<fetch, queue, shown>>
           [] OTHER -> HearPage(n, d) /\ UNCHANGED <<pull, reported, exported, wire>>
  /\ UNCHANGED <<nodeVars, failures, reads, probes>>

(* A request or an answer is lost.                                          *)
Lose(n) ==
  /\ \/ wire[n] # <<>> /\ wire' = [wire EXCEPT ![n] = Tail(@)] /\ UNCHANGED answers
     \/ answers[n] # <<>> /\ answers' = [answers EXCEPT ![n] = Tail(@)] /\ UNCHANGED wire
  /\ Fails
  /\ UNCHANGED <<nodeVars, fetch, pull, exported, queue, shown, reported, reads, probes>>

-----------------------------------------------------------------------------
ConsoleInit ==
  /\ lists \in [Nodes -> Datasets]
  /\ logs \in [Nodes -> {<<>>, <<1>>}]
  /\ fetch = NoFetch /\ pull = NoPull /\ exported = <<>> /\ queue = <<>>
  /\ wire = [n \in Nodes |-> <<>>] /\ answers = wire
  /\ had = [n \in Nodes |-> {lists[n]}]
  /\ shown = [kind |-> "None"] /\ reported = Untold /\ failures = 0
  /\ reads = 0 /\ probes = 0 /\ changes = 0 /\ records = 1

ConsoleNext ==
  \/ \E n \in Nodes :
       \/ NodeAnswers(n) \/ ListChanges(n) \/ LogGrows(n) \/ LogCleared(n)
       \/ EnqueueOther(n) \/ StartRemoteLogPull(n) \/ Hear(n) \/ Lose(n)
       \/ \E kind \in Kinds : StartPagedFetch(n, kind) \/ Probe(n, kind)
  \/ PumpQueue \/ StopRemoteLogPull

ConsoleSpec == ConsoleInit /\ [][ConsoleNext]_consoleVars

-----------------------------------------------------------------------------
ConsoleTypeOK ==
  /\ lists \in [Nodes -> Datasets]
  /\ \A n \in Nodes : Len(logs[n]) <= LogMax
  /\ fetch.kind \in Kinds \cup {"None"} /\ fetch.size \in 1..FirstSize
  /\ fetch.restarts \in 0..1
  /\ Len(queue) <= QueueMax /\ Len(exported) <= ExportMax
  /\ reported.how \in {"none", "complete", "failed"}

FetchIsWhole ==
  shown.kind # "None" =>
    /\ Len(shown.entries) = shown.total
    /\ shown.kind = "Settings" => \E n \in shown.from : shown.entries \in had[n]
    /\ \A i, j \in DOMAIN shown.entries :
         shown.entries[i].id = shown.entries[j].id => i = j
LogIsWhole ==
  reported.how = "complete" /\ ~pull.turned /\ ~pull.crossed /\ pull.next <= ExportMax =>
    exported = SubSeq(reported.log, 1, pull.next) /\ pull.next >= pull.total

(* Nothing watches the time of a fetch: until it ends there must be a page  *)
(* request or an answer on its way, unless one was lost, refused or failed. *)
FetchKeepsAsking ==
  fetch.kind # "None" /\ failures = 0 =>
    LET Wakes(m) == m.type = fetch.kind
    IN  \/ \E i \in DOMAIN queue : Wakes(queue[i])
        \/ \E n \in Nodes : \/ \E i \in DOMAIN wire[n] : Wakes(wire[n][i])
                            \/ \E i \in DOMAIN answers[n] : Wakes(answers[n][i])

(* A long read keeps asking, and what it ends with is whole.  A list a      *)
(* fetch ends with is one list of one node: no page of it is missing,       *)
(* doubled or of another time, whatever changed, was cut short, was late or *)
(* was asked for by an earlier fetch; samples change all the time, and of   *)
(* them each is there once, as many as the first page promised.  A log pull *)
(* that reports its end leaves the log of the node in the export store, up  *)
(* to where it was when the pull began, unless the log was cleared or full  *)
(* meanwhile, the store is too small for it, or an answer to an earlier     *)
(* pull was taken for one of this pull's.                                   *)
ReadsAreWhole == FetchIsWhole /\ LogIsWhole /\ FetchKeepsAsking
=============================================================================
