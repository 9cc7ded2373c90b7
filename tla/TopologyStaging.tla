-------------------------- MODULE TopologyStaging --------------------------
(***************************************************************************)
(* How a master writes a topology document to a slave.  The management      *)
(* service sends it in pieces, one for each acknowledgement; a commit asked  *)
(* for meanwhile waits for the last piece.  A commit of the master's own     *)
(* document sends the same pieces to every slave without waiting for any     *)
(* answer.  The slave collects the pieces in one draft and applies the draft *)
(* when the last one arrives.                                                *)
(*                                                                         *)
(* One slave is followed.  Frames keep their order on the way there and      *)
(* back; they may be lost or arrive twice, either device may restart, and    *)
(* the slave may be paired with another master for a while.                  *)
(***************************************************************************)
EXTENDS Naturals, Sequences, FiniteSets

CONSTANTS Docs,       \* documents a frontend may send
          PartsOf,    \* the seeds and slots of each, in the order they are sent
          MaxReqs,    \* bound: requests of the frontends
          MaxFaults   \* bound: faults, restarts, and frames of the other master

Nobody == "nobody"
Us     == "us"
Other  == "other"

ASSUME StagingSizes == /\ MaxReqs \in Nat /\ MaxFaults \in Nat /\ Nobody \notin Docs
                       /\ DOMAIN PartsOf = Docs
                       /\ \A d \in Docs : PartsOf[d] \in Seq(Nat)

VARIABLES
  stage,      \* the pending TopologyStageSet, or NoStage
  commits,    \* pending TopologyCommit pulls
  deferred,   \* deferred_topology_commits_
  nextCorr,   \* next_internal_corr_id_
  reqs,       \* requests submitted
  out, back,  \* frames on their way to the slave, and its answers
  node,       \* the slave: its master, draft, staged and committed snapshot
  faults,
  told,       \* history: final answers of the management service
  since,      \* history: snapshots the slave committed since the last TopologyStageSet
  crossed,    \* history: a deployment was sent while a stage was pending
  lapsed      \* history: stages that ended without an answer

stagingVars == <<stage, commits, deferred, nextCorr, reqs, out, back, node, faults,
                 told, since, crossed, lapsed>>

-----------------------------------------------------------------------------
PartsIn(d) == {PartsOf[d][i] : i \in DOMAIN PartsOf[d]}
AllParts   == UNION {PartsIn(d) : d \in Docs}

(* A snapshot: the version it was begun with, and whose piece each part is. *)
Blank(d) == [doc |-> d, parts |-> [p \in AllParts |-> Nobody]]
Whole(d) == [doc |-> d, parts |-> [p \in AllParts |-> IF p \in PartsIn(d) THEN d ELSE Nobody]]
NoSnap   == Blank(Nobody)
NoDraft  == [owner |-> Nobody, snap |-> NoSnap]
Snaps    == {[doc |-> d, parts |-> f] : d \in Docs \cup {Nobody}, f \in [AllParts -> Docs \cup {Nobody}]}

Frame(op, d, p, c) == [from |-> Us, op |-> op, doc |-> d, part |-> p, corr |-> c]

(* The pieces: clear, begin, seeds and slots, finalize.                     *)
Pieces(d) == Len(PartsOf[d]) + 3
Piece(d, k, c) ==
  CASE k = 1         -> Frame("clear", d, 0, c)
    [] k = 2         -> Frame("begin", d, 0, c)
    [] k = Pieces(d) -> Frame("finalize", d, 0, c)
    [] OTHER         -> Frame("part", d, PartsOf[d][k - 2], c)

CommitFrame(r) == Frame("commit", Nobody, 0, r)

NoStage == [req |-> 0, doc |-> Nobody, step |-> 0, corr |-> 0]

(* Internal correlations never meet those of the frontends.                 *)
InternalBase == 1000

StagingInit ==
  /\ stage = NoStage /\ commits = {} /\ deferred = << >> /\ nextCorr = InternalBase
  /\ reqs = 0 /\ out = << >> /\ back = << >> /\ faults = 0
  /\ node = [boss |-> Us, draft |-> NoDraft, staged |-> NoSnap, committed |-> NoSnap]
  /\ told = {} /\ since = {} /\ crossed = FALSE /\ lapsed = {}

Faulty == faults < MaxFaults /\ faults' = faults + 1
Submits == reqs < MaxReqs /\ reqs' = reqs + 1

Answer(op, r, w, s) == [op |-> op, req |-> r, waits |-> w, status |-> s]

-----------------------------------------------------------------------------
(* Requests of the frontends.                                               *)

(* TopologyStageSet, refused while another stage of the slave is pending.   *)
StageSet(d) ==
  /\ Submits /\ stage = NoStage
  /\ stage' = [req |-> reqs', doc |-> d, step |-> 1, corr |-> nextCorr]
  /\ nextCorr' = nextCorr + 1
  /\ out' = Append(out, Piece(d, 1, nextCorr))
  /\ since' = {} /\ crossed' = FALSE
  /\ UNCHANGED <<commits, deferred, back, node, faults, told, lapsed>>

(* TopologyCommit, deferred while a stage is pending.                       *)
CommitNow ==
  /\ Submits /\ stage = NoStage
  /\ commits' = commits \cup {[req |-> reqs', waits |-> 0]}
  /\ out' = Append(out, CommitFrame(reqs'))
  /\ UNCHANGED <<stage, deferred, nextCorr, back, node, faults, told, since, crossed, lapsed>>

CommitLater ==
  /\ Submits /\ stage # NoStage
  /\ deferred' = Append(deferred, [req |-> reqs', waits |-> stage.req])
  /\ UNCHANGED <<stage, commits, nextCorr, out, back, node, faults, told, since, crossed, lapsed>>

(* queueTopologyDeployToPeer: every piece and a commit, as far as they can  *)
(* be sent.                                                                 *)
Burst(d, r) == [k \in 1 .. Pieces(d) + 1 |->
                  IF k <= Pieces(d) THEN Piece(d, k, r + k) ELSE CommitFrame(r + k)]

Deploy(d) ==
  /\ Submits /\ Faulty
  /\ \E n \in {Pieces(d), Pieces(d) + 1} : out' = out \o SubSeq(Burst(d, reqs'), 1, n)
  /\ crossed' = (crossed \/ stage # NoStage)
  /\ UNCHANGED <<stage, commits, deferred, nextCorr, back, node, told, since, lapsed>>

-----------------------------------------------------------------------------
(* Answers of the slave at the master: onPullResponse.                      *)
Reply == Head(back)

(* Fault: the answer to any piece counts as the answer to the last.         *)
AnswersStageLoosely == back # << >> /\ stage # NoStage /\ Reply.corr >= InternalBase

AnswersStage == back # << >> /\ stage # NoStage /\ Reply.corr = stage.corr

Answers(ds, s) == {Answer("commit", c.req, c.waits, s) : c \in ds}
Pulls == {deferred[i] : i \in DOMAIN deferred}

(* The stage is answered, and with it the commits that waited for it, those *)
(* that could be sent excepted: dispatchDeferredTopologyCommitsForPeer_.    *)
Dispatch(s) ==
  /\ deferred' = << >>
  /\ \E sent \in IF s = "Ok" THEN SUBSET Pulls ELSE {{}} :
       LET gone == SelectSeq(deferred, LAMBDA c : c \in sent)
       IN  /\ commits' = commits \cup sent
           /\ out' = out \o [i \in DOMAIN gone |-> CommitFrame(gone[i].req)]
           /\ told' = told \cup {Answer("stage", stage.req, 0, s)}
                           \cup Answers(Pulls \ sent, IF s = "Ok" THEN "Error" ELSE s)

StageStep ==
  /\ AnswersStage /\ Reply.ok /\ stage.step < Pieces(stage.doc)
  /\ back' = Tail(back)
  /\ stage' = [stage EXCEPT !.step = @ + 1, !.corr = nextCorr]
  /\ nextCorr' = nextCorr + 1
  /\ out' = Append(out, Piece(stage.doc, stage.step + 1, nextCorr))
  /\ UNCHANGED <<commits, deferred, reqs, node, faults, told, since, crossed, lapsed>>

StageDone ==
  /\ AnswersStage /\ Reply.ok /\ stage.step = Pieces(stage.doc)
  /\ back' = Tail(back) /\ stage' = NoStage /\ Dispatch("Ok")
  /\ UNCHANGED <<nextCorr, reqs, node, faults, since, crossed, lapsed>>

(* The slave refused a piece, or the next one could not be sent.            *)
StageFails ==
  /\ AnswersStage
  /\ \/ ~Reply.ok /\ UNCHANGED faults
     \/ Reply.ok /\ stage.step < Pieces(stage.doc) /\ Faulty
  /\ back' = Tail(back) /\ stage' = NoStage /\ Dispatch("Error")
  /\ UNCHANGED <<nextCorr, reqs, node, since, crossed, lapsed>>

CommitAnswered ==
  /\ back # << >>
  /\ \E c \in commits :
       /\ c.req = Reply.corr
       /\ commits' = commits \ {c}
       /\ told' = told \cup {Answer("commit", c.req, c.waits, IF Reply.ok THEN "Ok" ELSE "Error")}
  /\ back' = Tail(back)
  /\ UNCHANGED <<stage, deferred, nextCorr, reqs, out, node, faults, since, crossed, lapsed>>

Unmatched ==
  /\ back # << >> /\ ~AnswersStage /\ \A c \in commits : c.req # Reply.corr
  /\ back' = Tail(back)
  /\ UNCHANGED <<stage, commits, deferred, nextCorr, reqs, out, node, faults, told, since, crossed, lapsed>>

(* prunePendingDescriptorPulls_: an overdue pull is erased without a word,  *)
(* and the commits that waited for it stay.                                 *)
StageLapses ==
  /\ stage # NoStage /\ stage' = NoStage /\ lapsed' = lapsed \cup {stage.req}
  /\ UNCHANGED <<commits, deferred, nextCorr, reqs, out, back, node, faults, told, since, crossed>>

CommitLapses ==
  /\ \E c \in commits : commits' = commits \ {c}
  /\ UNCHANGED <<stage, deferred, nextCorr, reqs, out, back, node, faults, told, since, crossed, lapsed>>

DeferredTimesOut ==
  /\ \E i \in DOMAIN deferred :
       /\ deferred' = SelectSeq(deferred, LAMBDA c : c # deferred[i])
       /\ told' = told \cup {Answer("commit", deferred[i].req, deferred[i].waits, "Timeout")}
  /\ UNCHANGED <<stage, commits, nextCorr, reqs, out, back, node, faults, since, crossed, lapsed>>

-----------------------------------------------------------------------------
(* The slave: handleTopologyQuery_.  Only its paired master is heard.       *)
Arrives(op) == out # << >> /\ Head(out).op = op /\ Head(out).from = node.boss
Query == Head(out)

Handled(ok) ==
  /\ out' = Tail(out)
  /\ back' = IF Query.from = Us THEN Append(back, [corr |-> Query.corr, ok |-> ok]) ELSE back
  /\ UNCHANGED <<stage, commits, deferred, nextCorr, reqs, faults, told, crossed, lapsed>>

Unauthorized ==
  /\ out # << >> /\ Query.from # node.boss
  /\ Handled(FALSE) /\ UNCHANGED <<node, since>>

SlaveClears ==
  /\ Arrives("clear")
  /\ \/ Handled(TRUE) /\ node' = [node EXCEPT !.draft = NoDraft, !.staged = NoSnap] /\ UNCHANGED since
     \/ Handled(FALSE) /\ node' = [node EXCEPT !.draft = NoDraft] /\ UNCHANGED since

SlaveBegins ==
  /\ Arrives("begin") /\ Handled(TRUE)
  /\ node' = [node EXCEPT !.draft = [owner |-> Query.from, snap |-> Blank(Query.doc)]]
  /\ UNCHANGED since

Drafting == node.draft.owner = Query.from

SlaveTakesPart ==
  /\ Arrives("part") /\ Drafting /\ Handled(TRUE)
  /\ node' = [node EXCEPT !.draft.snap.parts[Query.part] = Query.doc]
  /\ UNCHANGED since

NotDrafting ==
  /\ Arrives("part") \/ Arrives("finalize")
  /\ ~Drafting /\ Handled(FALSE) /\ UNCHANGED <<node, since>>

(* The draft is staged and committed at once; nobody asks whether every     *)
(* part has arrived.                                                        *)
SlaveFinalizes ==
  /\ Arrives("finalize") /\ Drafting
  /\ \/ /\ Handled(TRUE) /\ since' = since \cup {node.draft.snap}
        /\ node' = [node EXCEPT !.draft = NoDraft, !.staged = NoSnap, !.committed = node.draft.snap]
     \/ /\ Handled(FALSE) /\ UNCHANGED since
        /\ \E s \in {node.staged, node.draft.snap} :
             node' = [node EXCEPT !.draft = NoDraft, !.staged = s]

SlaveCommits ==
  /\ Arrives("commit")
  /\ \/ /\ node.staged # NoSnap /\ Handled(TRUE) /\ since' = since \cup {node.staged}
        /\ node' = [node EXCEPT !.staged = NoSnap, !.committed = node.staged]
     \/ node.staged # NoSnap /\ Handled(FALSE) /\ UNCHANGED <<node, since>>
     \/ node.staged = NoSnap /\ Handled(node.committed # NoSnap) /\ UNCHANGED <<node, since>>

-----------------------------------------------------------------------------
(* The links, the restarts and the other master.                            *)
Elsewhere == UNCHANGED <<stage, commits, deferred, nextCorr, reqs, told, since, crossed, lapsed>>

LoseQuery  == Faulty /\ out # << >> /\ out' = Tail(out) /\ Elsewhere /\ UNCHANGED <<back, node>>
LoseReply  == Faulty /\ back # << >> /\ back' = Tail(back) /\ Elsewhere /\ UNCHANGED <<out, node>>
QueryTwice == Faulty /\ out # << >> /\ out' = <<Head(out)>> \o out /\ Elsewhere /\ UNCHANGED <<back, node>>

SlaveRestarts ==
  /\ Faulty /\ node.draft # NoDraft /\ node' = [node EXCEPT !.draft = NoDraft]
  /\ Elsewhere /\ UNCHANGED <<out, back>>

MasterRestarts ==
  /\ Faulty /\ stage' = NoStage /\ commits' = {} /\ deferred' = << >> /\ nextCorr' = InternalBase
  /\ UNCHANGED <<reqs, out, back, node, told, since, crossed, lapsed>>

(* The slave changes its master; the draft stays.                           *)
ChangesMaster ==
  /\ Faulty /\ node' = [node EXCEPT !.boss = IF @ = Us THEN Other ELSE Us]
  /\ Elsewhere /\ UNCHANGED <<out, back>>

OtherSends(d) ==
  /\ Faulty /\ node.boss = Other
  /\ \E k \in 1 .. Pieces(d) : out' = Append(out, [Piece(d, k, 0) EXCEPT !.from = Other])
  /\ Elsewhere /\ UNCHANGED <<back, node>>

-----------------------------------------------------------------------------
StagingNext ==
  \/ \E d \in Docs : StageSet(d) \/ Deploy(d) \/ OtherSends(d)
  \/ CommitNow \/ CommitLater
  \/ StageStep \/ StageDone \/ StageFails \/ CommitAnswered \/ Unmatched
  \/ StageLapses \/ CommitLapses \/ DeferredTimesOut
  \/ Unauthorized \/ SlaveClears \/ SlaveBegins \/ SlaveTakesPart \/ NotDrafting
  \/ SlaveFinalizes \/ SlaveCommits
  \/ LoseQuery \/ LoseReply \/ QueryTwice \/ SlaveRestarts \/ MasterRestarts \/ ChangesMaster

StagingSpec == StagingInit /\ [][StagingNext]_stagingVars

-----------------------------------------------------------------------------
StagingTypeOK ==
  /\ stage = NoStage \/ (stage.doc \in Docs /\ stage.step \in 1 .. Pieces(stage.doc) /\ stage.req \in 1 .. MaxReqs)
  /\ \A c \in commits \cup Pulls : c.req \in 1 .. MaxReqs /\ c.waits \in 0 .. MaxReqs
  /\ reqs \in 0 .. MaxReqs /\ faults \in 0 .. MaxFaults /\ nextCorr >= InternalBase
  /\ node.boss \in {Us, Other} /\ node.draft.owner \in {Us, Other, Nobody}
  /\ {node.draft.snap, node.staged, node.committed} \cup since \subseteq Snaps
  /\ lapsed \subseteq 1 .. MaxReqs /\ crossed \in BOOLEAN

(* What the service reports of a transfer is true.  A stage it reports done *)
(* was committed by the slave as the frontend wrote it, whatever was lost,  *)
(* repeated or restarted on the way (onPullResponse,                        *)
(* handleTopologyQuery_); a deployment sent meanwhile writes into the same  *)
(* draft, and is exempt.  A commit that waited for a stage is not reported  *)
(* done unless the stage was, or ended without a report                     *)
(* (dispatchDeferredTopologyCommitsForPeer_).                               *)
StagedIsApplied ==
  /\ [][StageDone => crossed \/ Whole(stage.doc) \in since]_stagingVars
  /\ [](\A t \in told : t.op = "commit" /\ t.status = "Ok" /\ t.waits # 0 =>
          t.waits \in lapsed \/ Answer("stage", t.waits, 0, "Ok") \in told)
=============================================================================
