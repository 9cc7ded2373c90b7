-------------------------- MODULE FrontendAdapter --------------------------
(***************************************************************************)
(* The adapter a frontend (display, web page, BLE) drives a master through: *)
(* ManagementFrontendAdapter with its controller, its queue transport, the  *)
(* runtime tick that moves messages, and the management service.            *)
(*                                                                         *)
(* The adapter keeps a status per request and lets one mutating command at  *)
(* a time into a lane (a domain and a target peer); it learns the end of a  *)
(* command from responses and events that queues may drop, a radio          *)
(* transition may make stale and a wait may be too impatient for.           *)
(*                                                                         *)
(* The service is reduced to how it answers: a command ends in its tick     *)
(* ("Read", "Live"), by a later event ("Pair", "Unpair"), or by the         *)
(* response to a pull ("Set"), which may also expire without a word.        *)
(* CommandLifecycle has the service in full.  The progress events of an     *)
(* exchange, which only say again that it runs, are left out.  The two      *)
(* steps of drainToCache are single polls here, so that an application may  *)
(* poll in its own order.                                                   *)
(* Refused calls (owner, radio transition, lane, full request queue) leave  *)
(* nothing but a skipped request id and are no steps.                       *)
(***************************************************************************)
EXTENDS Naturals, SequencesExt, Selections

CONSTANTS MaxAsked,     \* bound: requests, numbered from 1
          Calls,        \* the commands the frontend may submit, [kind, peer]
          ServiceDepth, \* max_queue_depth_
          BoxSize,      \* max_requests, max_responses and max_events
          TrackSize,    \* req_status_capacity_
          PollMax,      \* max_requests_per_transport
          MaxRadio      \* bound: radio operations and cache clears

Asks   == 1 .. MaxAsked
NoCall == [kind |-> "None", peer |-> "any"]

ASSUME Capacities == /\ {MaxAsked, ServiceDepth, BoxSize, TrackSize, PollMax} \subseteq Nat \ {0}
                     /\ MaxRadio \in Nat /\ NoCall \notin Calls

VARIABLES
  asked,    \* the command each request id was submitted with
  box,      \* the queue transport: req, resp, ev
  svc,      \* the service: queue, owed (deferred_lifecycle_commands_), pulls
            \* (pending_descriptor_pulls_), resp, ev, epoch, active; history:
            \* verdict (how each command ended), lost (ids that lost a message)
  ui,       \* the adapter: track (req_status_ by updated_seq), claims (ids
            \* that hold their lane), epochs (req_epoch_map_), epoch, active;
            \* history: gaveUp (ids no longer followed), stale (ids of which
            \* a message was dropped as stale)
  radioOps  \* radio operations and cache clears so far

frontVars == <<asked, box, svc, ui, radioOps>>

-----------------------------------------------------------------------------
(* mutationLaneDomainForCmd_ and resolveSubmitTarget_: pairPeerTracked      *)
(* names no target peer, so all pair requests share a lane.                 *)
Lane(c) == <<CASE c.kind \in {"Pair", "Unpair"} -> "Pairing"
               [] c.kind = "Set" -> "SettingsTime"
               [] c.kind = "Live" -> "Push"
               [] OTHER -> "None", c.peer>>
LaneOf(i) == Lane(asked[i])
HasLane(c) == c.kind # "Read"

(* isRadioTransitionBlockedCommand of the service, and that of the adapter. *)
Barred(c) == c.kind # "Read"

(* commandPriority                                                          *)
Rank(i) == IF asked[i].kind \in {"Read", "Set"} THEN 1 ELSE 0

Ended(is) == is \in {"Done", "Fail", "Timeout"}

-----------------------------------------------------------------------------
(* The service.                                                             *)

Saying(i, what) == [id |-> i, what |-> what]

(* queueResponse and queueEvent, for the messages of a call: a full queue   *)
(* drops the oldest.                                                        *)
Over(q, size)   == IF Len(q) > size THEN Len(q) - size ELSE 0
Recent(q, size) == SubSeq(q, Over(q, size) + 1, Len(q))
Pushed(q, size) == {q[n].id : n \in 1 .. Over(q, size)}
Tells(s, answers, events) ==
  LET resp == s.resp \o answers
      ev   == s.ev \o events
  IN  [s EXCEPT !.resp = Recent(resp, ServiceDepth), !.ev = Recent(ev, 2 * ServiceDepth),
                !.lost = @ \cup Pushed(resp, ServiceDepth) \cup Pushed(ev, 2 * ServiceDepth)]
Responds(s, i, what) == Tells(s, <<Saying(i, what)>>, <<>>)
Emits(s, i, what)    == Tells(s, <<>>, <<Saying(i, what)>>)
Judged(s, i, what)   == [s EXCEPT !.verdict[i] = what]

(* The terminal event of a response.                                        *)
EventOf(what) == IF what = "Ok" THEN "Done" ELSE what

Ends(s, i, what) == Emits(Responds(Judged(s, i, what), i, what), i, EventOf(what))

(* submit()                                                                 *)
Admit(s, i) ==
  LET lower == {n \in DOMAIN s.queue : Rank(i) < Rank(s.queue[n])}
  IN  IF Len(s.queue) >= ServiceDepth
        THEN Emits(Responds(Judged(s, i, "Fail"), i, "Fail"), i, "Full")
        ELSE Emits([s EXCEPT !.queue = IF lower = {} THEN Append(@, i)
                                       ELSE InsertAt(@, Min(lower), i)], i, "Rx")

Admitted(s, q) ==
  LET after[n \in 0 .. Len(q)] == IF n = 0 THEN s ELSE Admit(after[n - 1], q[n])
  IN  after[Len(q)]

(* What executeRequest may make of request i: any command may be refused.   *)
Executions(s, i) ==
  LET kind == asked[i].kind
      defers == Responds(s, i, "Deferred")
  IN  {Ends(s, i, "Fail")} \cup
      IF s.active /\ Barred(asked[i]) THEN {}
      ELSE (IF kind \in {"Read", "Live", "Pair"} THEN {Ends(s, i, "Ok")} ELSE {})
           \cup (IF kind \in {"Pair", "Unpair"} THEN {[defers EXCEPT !.owed = @ \cup {i}]} ELSE {})
           \cup (IF kind = "Set" THEN {[defers EXCEPT !.pulls = @ \cup {i}]} ELSE {})

(* tick(): overdue pulls go without a word, then the first request is       *)
(* executed, or found overdue.                                              *)
Pruned(s, late) == [s EXCEPT !.pulls = @ \ late, !.lost = @ \cup late]
Ticked(s) ==
  IF s.queue = <<>> THEN {s}
  ELSE LET i == Head(s.queue)
           r == [s EXCEPT !.queue = Tail(@)]
       IN  {Ends(r, i, "Timeout")} \cup Executions(r, i)

(* ManagementQueueTransport: sendResponse and sendEvent refuse what does    *)
(* not fit.                                                                 *)
Kept(q) == SubSeq(q, 1, Min({Len(q), BoxSize}))
Cut(q)  == {q[n].id : n \in {k \in DOMAIN q : k > BoxSize}}

(* ManagementRuntime::tick, for the one transport of this frontend; its     *)
(* limits of 32 responses and 64 events are above what a tick can queue.    *)
RuntimeTick ==
  LET n == Min({PollMax, Len(box.req)})
      admitted == Admitted(svc, SubSeq(box.req, 1, n))
  IN  \E late \in SUBSET svc.pulls : \E s \in Ticked(Pruned(admitted, late)) :
        /\ box' = [req  |-> SubSeq(box.req, n + 1, Len(box.req)),
                   resp |-> Kept(box.resp \o s.resp), ev |-> Kept(box.ev \o s.ev)]
        /\ svc' = [s EXCEPT !.resp = <<>>, !.ev = <<>>,
                            !.lost = @ \cup Cut(box.resp \o s.resp) \cup Cut(box.ev \o s.ev)]
        /\ UNCHANGED <<asked, ui, radioOps>>

(* onEvent: the pairing engine ends the exchange of a deferred command.     *)
ExchangeOver ==
  \E i \in svc.owed, what \in {"Ok", "Fail", "Timeout"} :
    /\ svc' = Emits([Judged(svc, i, what) EXCEPT !.owed = @ \ {i}], i, EventOf(what))
    /\ UNCHANGED <<asked, box, ui, radioOps>>

(* onPullResponse: the slave answers.                                       *)
PullAnswered ==
  \E i \in svc.pulls, what \in {"Ok", "Fail"} :
    /\ svc' = Responds([Judged(svc, i, what) EXCEPT !.pulls = @ \ {i}], i, what)
    /\ UNCHANGED <<asked, box, ui, radioOps>>

-----------------------------------------------------------------------------
(* The adapter: statuses and lanes.                                         *)

Fresh(i)      == [id |-> i, is |-> "Queued", event |-> FALSE]
Tracked(u)   == {u.track[n].id : n \in DOMAIN u.track}
At(u, i)      == CHOOSE n \in DOMAIN u.track : u.track[n].id = i
Status(u, i)  == IF i \in Tracked(u) THEN u.track[At(u, i)] ELSE Fresh(i)
Open(u)       == {i \in Tracked(u) : ~Ended(Status(u, i).is)}
Others(u, i)  == Picked(u.track, {n \in DOMAIN u.track : u.track[n].id # i})
Freed(u, i)   == [u EXCEPT !.claims = @ \ {i}]

(* trimReqStatus_: the oldest terminal status goes, else the oldest.        *)
Trim(u) ==
  IF Len(u.track) <= TrackSize THEN u
  ELSE LET over == {n \in DOMAIN u.track : Ended(u.track[n].is)}
           n == IF over = {} THEN 1 ELSE Min(over)
           i == u.track[n].id
       IN  [Freed(u, i) EXCEPT !.track = RemoveAt(@, n), !.gaveUp = @ \cup {i}]

(* Fault: the list of statuses grows without limit.                         *)
UpsertUntrimmed(u, e) == [u EXCEPT !.track = Append(Others(u, e.id), e)]

(* A status becomes the latest one.                                         *)
Upsert(u, e) == Trim([u EXCEPT !.track = Append(Others(u, e.id), e)])

(* trackResponse_                                                           *)
AfterResponse(e, what) ==
  CASE what = "Deferred" -> IF Ended(e.is) THEN e.is ELSE "Running"
    [] what = "Ok" -> IF e.event /\ Ended(e.is) THEN e.is ELSE "Done"
    [] OTHER -> what

(* Fault: a deferred command gives its lane back with its first response.   *)
TrackResponseFrees(u, m) ==
  LET e == Status(u, m.id)
  IN  Upsert(Freed(u, m.id), [e EXCEPT !.is = AfterResponse(e, m.what)])

TrackResponse(u, m) ==
  LET e == Status(u, m.id)
  IN  Upsert(IF m.what = "Deferred" THEN u ELSE Freed(u, m.id),
             [e EXCEPT !.is = AfterResponse(e, m.what)])

(* Fault: an event that is no end always means running.                     *)
TrackEventReopens(u, m) ==
  LET e == [Status(u, m.id) EXCEPT !.event = TRUE]
  IN  IF Ended(m.what) THEN Upsert(Freed(u, m.id), [e EXCEPT !.is = m.what])
      ELSE Upsert(u, [e EXCEPT !.is = "Running"])

(* trackEvent_: CmdRx and QueueFull of a command that ended change nothing  *)
(* of its state nor of its age.                                             *)
TrackEvent(u, m) ==
  LET e == [Status(u, m.id) EXCEPT !.event = TRUE]
  IN  IF Ended(m.what) THEN Upsert(Freed(u, m.id), [e EXCEPT !.is = m.what])
      ELSE IF Ended(e.is) THEN [u EXCEPT !.track[At(u, m.id)] = e]
      ELSE Upsert(u, [e EXCEPT !.is = "Running"])

(* isStaleTrackedRequest_: a request without an entry is never stale.       *)
NoEpoch     == MaxRadio + 1
Stale(u, i) == u.epochs[i] < u.epoch

(* ingestResponse and ingestEvent.                                          *)
Ingest(Track(_, _), m) ==
  ui' = IF Stale(ui, m.id) THEN [ui EXCEPT !.stale = @ \cup {m.id}] ELSE Track(ui, m)

PollResponse ==
  /\ box.resp # <<>>
  /\ Ingest(TrackResponse, Head(box.resp))
  /\ box' = [box EXCEPT !.resp = Tail(@)]
  /\ UNCHANGED <<asked, svc, radioOps>>

PollEvent ==
  /\ box.ev # <<>>
  /\ Ingest(TrackEvent, Head(box.ev))
  /\ box' = [box EXCEPT !.ev = Tail(@)]
  /\ UNCHANGED <<asked, svc, radioOps>>

(* submitTracked_ with pruneMutationLaneClaims_ and trackSubmittedRequest_. *)
StillClaimed(u) == u.claims \ {i \in Tracked(u) : Ended(Status(u, i).is)}

Submit(c) ==
  \E i \in {k \in Asks : asked[k] = NoCall /\ \A j \in 1 .. k - 1 : asked[j] # NoCall} :
    /\ ~(ui.active /\ Barred(c))
    /\ HasLane(c) => \A j \in StillClaimed(ui) : LaneOf(j) # Lane(c)
    /\ Len(box.req) < BoxSize
    /\ asked' = [asked EXCEPT ![i] = c]
    /\ box' = [box EXCEPT !.req = Append(@, i)]
    /\ LET u == Upsert([ui EXCEPT !.epochs[i] = ui.epoch, !.claims = StillClaimed(ui)], Fresh(i))
       IN  ui' = [u EXCEPT !.claims = IF HasLane(c) THEN @ \cup {i} ELSE @]
    /\ UNCHANGED <<svc, radioOps>>

(* The wait of commandRunAndWait, which leaves the age of the status, or of *)
(* operationWait, which renews it, ends without a terminal status.          *)
WaitEnds(renews) ==
  \E i \in Open(ui) :
    /\ LET u == [Freed(ui, i) EXCEPT !.gaveUp = @ \cup {i}]
           e == [Status(ui, i) EXCEPT !.is = "Timeout"]
       IN  ui' = IF renews THEN Upsert(u, e) ELSE [u EXCEPT !.track[At(u, i)] = e]
    /\ UNCHANGED <<asked, box, svc, radioOps>>

-----------------------------------------------------------------------------
(* Radio operations.  The adapter reads back the epoch and whether a        *)
(* transition is active (applyRadioTransitionStatusFromService_).           *)

Adopted(u, s) == [u EXCEPT !.epoch = s.epoch, !.active = s.active]
RadioStep == radioOps < MaxRadio /\ radioOps' = radioOps + 1

Forgets(u) == [u EXCEPT !.track = <<>>, !.claims = {}, !.epochs = [i \in Asks |-> NoEpoch],
                        !.gaveUp = @ \cup Tracked(u)]

CacheClear ==
  /\ RadioStep /\ ui' = Forgets(ui)
  /\ UNCHANGED <<asked, box, svc>>

(* Fault: the deferred commands are forgotten without their end.            *)
CancelsDeferredQuietly(s) == [s EXCEPT !.owed = {}]

(* beginRadioTransition with its default options: cancels the deferred      *)
(* commands, in the order of their registration, and the queued ones the    *)
(* transition bars.                                                         *)
Failed(s, who) == [s EXCEPT !.verdict = [i \in Asks |-> IF i \in who THEN "Fail" ELSE @[i]]]
Failures == [i \in Asks |-> Saying(i, "Fail")]
CancelsDeferred(s) ==
  Tells([Failed(s, s.owed) EXCEPT !.owed = {}], <<>>, Picked(Failures, s.owed))
CancelsQueued(s) ==
  LET barred == {n \in DOMAIN s.queue : Barred(asked[s.queue[n]])}
      going  == Picked(s.queue, barred)
      told   == [n \in DOMAIN going |-> Failures[going[n]]]
  IN  Tells([Failed(s, Range(going)) EXCEPT !.queue = Picked(@, DOMAIN @ \ barred)], told, told)

BeginRadioTransition ==
  /\ RadioStep /\ ~svc.active
  /\ svc' = CancelsQueued(CancelsDeferred([svc EXCEPT !.epoch = @ + 1, !.active = TRUE]))
  /\ ui' = Adopted(ui, svc')
  /\ UNCHANGED <<asked, box>>

EndRadioTransition ==
  /\ svc.active
  /\ svc' = [svc EXCEPT !.active = FALSE]
  /\ ui' = Adopted(ui, svc')
  /\ UNCHANGED <<asked, box, radioOps>>

(* clearQueues                                                              *)
IdsIn(q) == {q[n].id : n \in DOMAIN q}
HasOf(s) == Range(s.queue) \cup s.owed \cup s.pulls \cup IdsIn(s.resp) \cup IdsIn(s.ev)
Emptied(s) == [s EXCEPT !.queue = <<>>, !.owed = {}, !.pulls = {}, !.resp = <<>>, !.ev = <<>>,
                        !.lost = @ \cup HasOf(s)]

(* hardDeinitRadio with its default options, which clear every queue and    *)
(* the cache.                                                               *)
HardDeinitRadio ==
  /\ RadioStep
  /\ svc' = [Emptied(svc) EXCEPT !.active = TRUE, !.epoch = IF svc.active THEN @ ELSE @ + 1]
  /\ box' = [req |-> <<>>, resp |-> <<>>, ev |-> <<>>]
  /\ ui' = Forgets(Adopted(ui, svc'))
  /\ UNCHANGED asked

(* hardReinitRadio with its default options: begin() starts the epochs      *)
(* anew; the transport keeps its messages.  When the manager does not come  *)
(* back nothing is cleared.                                                 *)
HardReinitRadio(ok) ==
  /\ RadioStep
  /\ IF ok THEN /\ svc' = [Emptied(svc) EXCEPT !.active = FALSE, !.epoch = 0]
                /\ ui' = Forgets(Adopted(ui, svc'))
     ELSE /\ svc' = [svc EXCEPT !.active = TRUE]
          /\ ui' = Adopted(ui, svc')
  /\ UNCHANGED <<asked, box>>

-----------------------------------------------------------------------------
FrontInit ==
  /\ asked = [i \in Asks |-> NoCall]
  /\ box = [req |-> <<>>, resp |-> <<>>, ev |-> <<>>]
  /\ svc = [queue |-> <<>>, owed |-> {}, pulls |-> {}, resp |-> <<>>, ev |-> <<>>,
            epoch |-> 0, active |-> FALSE,
            verdict |-> [i \in Asks |-> "None"], lost |-> {}]
  /\ ui = [track |-> <<>>, claims |-> {}, epochs |-> [i \in Asks |-> NoEpoch],
           epoch |-> 0, active |-> FALSE, gaveUp |-> {}, stale |-> {}]
  /\ radioOps = 0

FrontNext ==
  \/ \E c \in Calls : Submit(c)
  \/ RuntimeTick \/ ExchangeOver \/ PullAnswered
  \/ PollResponse \/ PollEvent \/ \E renews \in BOOLEAN : WaitEnds(renews)
  \/ CacheClear \/ BeginRadioTransition \/ EndRadioTransition \/ HardDeinitRadio
  \/ \E ok \in BOOLEAN : HardReinitRadio(ok)

FrontSpec == FrontInit /\ [][FrontNext]_frontVars

-----------------------------------------------------------------------------
(* Correctness.                                                             *)

Messages(whats) == Seq([id : Asks, what : whats])
Answering  == {"Deferred", "Ok", "Fail", "Timeout"}
Happening  == {"Rx", "Full", "Done", "Fail", "Timeout"}
Conditions == {"Queued", "Running", "Done", "Fail", "Timeout"}
Statuses   == [id : Asks, is : Conditions, event : BOOLEAN]

BoxStates == [req : Seq(Asks), resp : Messages(Answering), ev : Messages(Happening)]
SvcStates == [queue : Seq(Asks), owed : SUBSET Asks, pulls : SUBSET Asks,
              resp : Messages(Answering), ev : Messages(Happening),
              epoch : 0 .. MaxRadio, active : BOOLEAN,
              verdict : [Asks -> {"None", "Ok", "Fail", "Timeout"}], lost : SUBSET Asks]
UiStates  == [track : Seq(Statuses), claims : SUBSET Asks, epochs : [Asks -> 0 .. NoEpoch],
              epoch : 0 .. MaxRadio, active : BOOLEAN, gaveUp : SUBSET Asks, stale : SUBSET Asks]

(* No request has two statuses, and the adapter knows the epoch of the      *)
(* service.                                                                 *)
FrontTypeOK ==
  /\ asked \in [Asks -> Calls \cup {NoCall}]
  /\ box \in BoxStates /\ svc \in SvcStates /\ ui \in UiStates /\ radioOps \in 0 .. MaxRadio
  /\ Len(ui.track) <= TrackSize
  /\ \A m, n \in DOMAIN ui.track : ui.track[m].id = ui.track[n].id => m = n
  /\ ui.epoch = svc.epoch /\ ui.active = svc.active

(* Where a command may still be worked on.                                  *)
AtWork == Range(box.req) \cup Range(svc.queue) \cup svc.owed \cup svc.pulls

(* The lanes serialise mutations: no two claims are for the same lane, and  *)
(* as long as the service may work on a command the command holds its lane, *)
(* unless the frontend gave it up (a wait ran out, the status was evicted,  *)
(* the cache was cleared).                                                  *)
LanesExclusive ==
  /\ \A i, j \in ui.claims : LaneOf(i) = LaneOf(j) => i = j
  /\ \A i \in AtWork : HasLane(asked[i]) => i \in ui.claims \cup ui.gaveUp

(* Something about the command is still to come.                            *)
Coming    == Range(box.req) \cup HasOf(svc) \cup IdsIn(box.resp) \cup IdsIn(box.ev)
Unsettled == Open(ui) \cup ui.claims

(* A status that is not terminal and a claimed lane wait for something that *)
(* is still to come, unless a full queue or a silently expired pull lost it *)
(* or it was dropped as stale after a radio transition.                     *)
NoOrphans == Unsettled \subseteq Coming \cup svc.lost \cup ui.stale \cup ui.gaveUp

(* Both: every command submitted is accounted for.                          *)
CommandsTracked == LanesExclusive /\ NoOrphans

(* A terminal status never reopens, and it turns Done or Fail only when the *)
(* service ended the command that way, whatever the order in which          *)
(* responses, events and the end of a wait are seen.                        *)
EndsStand ==
  [][\A i \in Asks :
       /\ i \in Tracked(ui) /\ Ended(Status(ui, i).is) =>
            (i \in Tracked(ui') => Ended(Status(ui', i).is))
       /\ LET now == Status(ui', i).is
          IN  now # Status(ui, i).is =>
                /\ now = "Done" => svc.verdict'[i] = "Ok"
                /\ now = "Fail" => svc.verdict'[i] = "Fail"]_frontVars
=============================================================================
