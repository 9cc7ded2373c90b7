--------------------------- MODULE TopologyChain ----------------------------
(***************************************************************************)
(* The topology file of a master: a chain of sensors and relays with a seed  *)
(* for every block of relays between two sensors.  Commands edit the file;   *)
(* one compiles it into a snapshot for every device and sends these; another *)
(* asks every device for what it committed and compares.                     *)
(*                                                                         *)
(* Two devices that are linked derive the key of their link each from its    *)
(* own snapshot, so the snapshots must give both the same.  How a snapshot   *)
(* reaches a device is TopologyStaging, what the device does with it         *)
(* TopologyLinks; here it arrives whole or not at all.                       *)
(***************************************************************************)
EXTENDS Integers, Sequences, FiniteSets, SequencesExt

CONSTANTS Devices,    \* addresses
          Paired,     \* those the master is paired with
          Profile,    \* the profile of each: S, R, SM or RM
          Pool,       \* nodes that may be entered into a chain
          Starts,     \* files there may be in the beginning
          Backups,    \* and files that may have been kept or loaded before
          Chains,     \* chains that may be entered at once
          MaxSlots, MaxGroups, MaxDevices,  \* 13, 12 and 14 in the code
          MaxNodes,   \* bound: length of a chain
          MaxCommands \* bound: commands

ASSUME ChainConstants ==
  /\ Paired \subseteq Devices /\ DOMAIN Profile = Devices
  /\ {MaxSlots, MaxGroups, MaxDevices, MaxNodes, MaxCommands} \subseteq Nat

VARIABLES
  tp, bak,     \* tp.json and tp.json.bak
  edit,        \* topology_edit
  commands,    \* commands so far
  pend,        \* the snapshot on its way to each device
  held,        \* the snapshot each device has committed
  verify,      \* topology_verify_
  verified,    \* history: a verification passed and no device has committed since it began
  moved        \* history: a device has committed since the verification began

chainVars == <<tp, bak, edit, commands, pend, held, verify, verified, moved>>

-----------------------------------------------------------------------------
(* Chains.  A node has a kind, a device and, for a child, a virtual index.  *)
Separator(n) == n.t \in {"S", "SM"}
Child(n)     == n.t \in {"SM", "RM"}
Indices(t)   == CASE t = "SM" -> 0 .. 7 [] t = "RM" -> 0 .. 15 [] OTHER -> {}

On(c)      == {c[i].m : i \in DOMAIN c}
Blocks(c)  == Cardinality({i \in DOMAIN c : ~Separator(c[i]) /\ (i = 1 \/ Separator(c[i - 1]))})
Between(i, j) == (i + 1 .. j - 1) \cup (j + 1 .. i - 1)

(* Every relay is linked to the nearest separator on either side.           *)
Linked(c, i, j) == /\ Separator(c[i]) # Separator(c[j])
                   /\ \A k \in Between(i, j) : ~Separator(c[k])
Group(c, i, j)  == LET relay == IF Separator(c[i]) THEN j ELSE i
                   IN  Cardinality({k \in DOMAIN c : Separator(c[k]) /\ k < relay})

Pending(c, m) == {[peer |-> c[j].m, role |-> c[j].t, group |-> Group(c, i, j), delta |-> j - i, at |-> j,
                   lvi |-> c[i].vi, pvi |-> c[j].vi] : <<i, j>> \in
                     {p \in (DOMAIN c) \X (DOMAIN c) : c[p[1]].m = m /\ Linked(c, p[1], p[2])}}

Abs(n) == IF n < 0 THEN 0 - n ELSE n
Before(a, b) == Abs(a.delta) < Abs(b.delta) \/ (Abs(a.delta) = Abs(b.delta) /\ a.at < b.at)
Relative(S, s) ==
  LET rank == Cardinality({a \in S : a.delta * s.delta > 0 /\ Before(a, s)}) + 1
  IN  IF s.delta < 0 THEN 0 - rank ELSE rank

(* A chain with a duplicate never passes Valid, so slots are never merged.  *)
NodesFit(c) ==
  /\ \A i \in DOMAIN c : IF Child(c[i]) THEN c[i].vi \in Indices(c[i].t) ELSE c[i].vi = -1
  /\ \A i, j \in DOMAIN c : i # j /\ c[i].m = c[j].m =>
        c[i].t = c[j].t /\ Child(c[i]) /\ c[i].vi # c[j].vi
  /\ Cardinality(On(c)) <= MaxDevices

Shaped(c) ==
  /\ Len(c) >= 3 /\ Separator(c[1]) /\ Separator(c[Len(c)])
  /\ \A i \in 2 .. Len(c) : ~(Separator(c[i - 1]) /\ Separator(c[i]))
  /\ Blocks(c) \in 1 .. MaxGroups

(* A document, and the file that is not there or was cut short.             *)
Gone == [ver |-> 0, seeds |-> << >>, chain |-> << >>]

Valid(d) ==
  /\ NodesFit(d.chain) /\ Shaped(d.chain) /\ Len(d.seeds) = Blocks(d.chain)
  /\ \A m \in On(d.chain) : Cardinality(Pending(d.chain, m)) <= MaxSlots

(* The snapshot of a device.  The version stands in for one a file lacks.   *)
Version(d, v) == IF d.ver = 0 THEN v ELSE d.ver
Plan(d, v, m) ==
  LET S == Pending(d.chain, m)
  IN  [ver    |-> Version(d, v),
       slots  |-> {[peer |-> s.peer, role |-> s.role, group |-> s.group, rel |-> Relative(S, s),
                    lvi |-> s.lvi, pvi |-> s.pvi] : s \in S},
       seeds  |-> [g \in {s.group : s \in S} |-> <<g, d.seeds[g]>>]]

NoSnapshot == [ver |-> 0, slots |-> {}, seeds |-> << >>]

(* What a device asks of a snapshot: validateTopologySnapshot_.             *)
IndexFits(t, vi) == vi = -1 \/ vi \in Indices(t)
Accepts(m, snap) ==
  /\ snap.ver # 0
  /\ Cardinality(snap.slots) <= MaxSlots /\ Cardinality(DOMAIN snap.seeds) <= MaxGroups
  /\ \A s \in snap.slots :
       /\ Separator([t |-> s.role]) # Separator([t |-> Profile[m]]) /\ s.peer # m
       /\ s.rel # 0 /\ Abs(s.rel) <= MaxSlots
       /\ IndexFits(Profile[m], s.lvi) /\ IndexFits(s.role, s.pvi)
       /\ s.group \in DOMAIN snap.seeds
       /\ \A r \in snap.slots \ {s} :
            /\ s.rel # r.rel
            /\ <<s.peer, s.role, s.lvi, s.pvi>> # <<r.peer, r.role, r.lvi, r.pvi>>

(* The key a device makes for a peer it has several slots for.              *)
SlotsFor(snap, p) == {s \in snap.slots : s.peer = p}

(* Fault: the nearest slot decides, the following one of two.               *)
LinkKeyNearest(snap, m, p) ==
  LET near == CHOOSE s \in SlotsFor(snap, p) : \A r \in SlotsFor(snap, p) :
                Abs(s.rel) < Abs(r.rel) \/ (Abs(s.rel) = Abs(r.rel) /\ s.rel >= r.rel)
  IN  <<{m, p}, snap.seeds[near.group]>>

LinkKey(snap, m, p) ==
  LET groups == {s.group : s \in SlotsFor(snap, p)}
      lowest == CHOOSE g \in groups : \A h \in groups : g <= h
  IN  <<{m, p}, snap.seeds[lowest]>>

-----------------------------------------------------------------------------
(* The clock, where it stands in for a version.                             *)
Now == 99

Resolved(d) ==
  [d EXCEPT !.seeds = [b \in 1 .. Blocks(d.chain) |-> IF b <= Len(@) /\ @[b] # 0 THEN @[b] ELSE 100 + b]]

NoVerify == [want |-> << >>, waiting |-> {}, failed |-> FALSE]

ChainInit ==
  /\ tp \in Starts \cup {Gone} /\ bak \in Backups
  /\ edit \in {[Gone EXCEPT !.ver = Now], [bak EXCEPT !.ver = Version(bak, Now)]}
  /\ commands = 0 /\ pend = [m \in Devices |-> NoSnapshot]
  /\ \/ held = [m \in Devices |-> NoSnapshot]
     \/ \E d \in Starts : held = [m \in Devices |-> IF Valid(d) /\ m \in On(d.chain) \cap Paired
                                                    THEN Plan(d, Now, m) ELSE NoSnapshot]
  /\ verify = NoVerify /\ verified = {} /\ moved = FALSE

Command   == commands < MaxCommands /\ commands' = commands + 1
Edits     == Command /\ UNCHANGED <<pend, held, verify, verified, moved>>
Loads     == tp.chain # << >>
FromFile  == [tp EXCEPT !.ver = Version(tp, Now)]

(* A write truncates first: it may leave the old text, or none.             *)
Writes(d) == tp' \in {d, tp, Gone}
PersistRaw(d) == edit' = Resolved(d) /\ Writes(Resolved(d)) /\ UNCHANGED bak

-----------------------------------------------------------------------------
(* topology.chain.*: commands that load the file, change it and write it.   *)
EditFile(c)     == Edits /\ Loads /\ PersistRaw([FromFile EXCEPT !.chain = c])
ChainAdd(n)     == Len(tp.chain) < MaxNodes /\ EditFile(Append(tp.chain, n))
ChainEdit(i, n) == EditFile([tp.chain EXCEPT ![i] = n])
ChainDel(i)     == EditFile(RemoveAt(tp.chain, i))
ChainMove(i, j) == EditFile(InsertAt(RemoveAt(tp.chain, i), IF j > i THEN j - 1 ELSE j, tp.chain[i]))
ChainRefused    == Edits /\ Loads /\ edit' = FromFile /\ UNCHANGED <<tp, bak>>

ChainClear ==
  Edits /\ PersistRaw([(IF Loads THEN FromFile ELSE edit) EXCEPT !.chain = << >>, !.seeds = << >>])

ChainSet(c) ==
  LET d == Resolved([ver |-> IF Loads THEN FromFile.ver ELSE Now, seeds |-> << >>, chain |-> c])
  IN  /\ Edits /\ Valid(d) /\ UNCHANGED bak
      /\ \/ edit' = d /\ tp' = d
         \/ edit' = edit /\ tp' \in {tp, Gone}

ChainFix ==
  /\ Edits /\ Loads
  /\ \/ Valid(Resolved(FromFile)) /\ PersistRaw(FromFile)
     \/ ~Valid(Resolved(FromFile)) /\ edit' = FromFile /\ UNCHANGED <<tp, bak>>

ChainBackup  == Edits /\ tp # Gone /\ bak' \in {tp, bak, Gone} /\ UNCHANGED <<tp, edit>>
ChainRestore == Edits /\ bak # Gone /\ Writes(bak) /\ UNCHANGED <<bak, edit>>

(* topology.edit.*: commands on the memory; the path of a file is given.    *)
InMemory(d)     == Edits /\ edit' = d /\ UNCHANGED <<tp, bak>>
EditNew(v)      == InMemory([Gone EXCEPT !.ver = v])
EditClear       == InMemory([edit EXCEPT !.chain = << >>])
EditAdd(n)      == Len(edit.chain) < MaxNodes /\ InMemory([edit EXCEPT !.chain = Append(@, n)])
EditDel(i)      == InMemory([edit EXCEPT !.chain = RemoveAt(@, i)])
EditValidate    == Valid(Resolved(edit)) /\ InMemory(Resolved(edit))
EditSave        == Edits /\ Valid(Resolved(edit)) /\ PersistRaw(edit)
EditLoad(d)     == Valid(d) /\ InMemory([d EXCEPT !.ver = Version(d, Now)])

-----------------------------------------------------------------------------
(* topology.chain.apply, topology.deploy.file: a TopologyStageSet for every *)
(* paired target; one that is still pending may refuse it.                  *)
Rounds == Command /\ UNCHANGED <<tp, bak, edit>>

Apply ==
  /\ Rounds /\ Valid(tp)
  /\ \E busy \in SUBSET {m \in Devices : pend[m] # NoSnapshot} :
       pend' = [m \in Devices |-> IF m \in (On(tp.chain) \cap Paired) \ busy THEN Plan(tp, Now, m) ELSE pend[m]]
  /\ UNCHANGED <<held, verify, verified, moved>>

StageCommits(m) ==
  /\ pend[m] # NoSnapshot /\ Accepts(m, pend[m])
  /\ held' = [held EXCEPT ![m] = pend[m]] /\ pend' = [pend EXCEPT ![m] = NoSnapshot]
  /\ moved' = TRUE /\ verified' = {}
  /\ UNCHANGED <<tp, bak, edit, commands, verify>>

StageEnds(m) ==
  /\ pend[m] # NoSnapshot /\ pend' = [pend EXCEPT ![m] = NoSnapshot]
  /\ UNCHANGED <<tp, bak, edit, commands, held, verify, verified, moved>>

(* topology.chain.verify: a status request to every paired target.          *)
Concludes(v) ==
  \/ v.waiting # {} /\ verify' = v /\ verified' = {}
  \/ v.waiting = {} /\ verify' = NoVerify /\ verified' = IF v.failed \/ moved' THEN {} ELSE DOMAIN v.want

VerifyStarts ==
  /\ Rounds /\ Valid(tp) /\ moved' = FALSE
  /\ Concludes([want    |-> [m \in On(tp.chain) |-> Plan(tp, 1, m)],
                waiting |-> On(tp.chain) \cap Paired,
                failed  |-> ~(On(tp.chain) \subseteq Paired)])
  /\ UNCHANGED <<pend, held>>

(* The checksums cover all of the snapshot; two that are equal are taken to *)
(* be of equal snapshots.                                                   *)
Matches(h, w) == h = w

Verifies == UNCHANGED <<tp, bak, edit, commands, pend, held, moved>>

StatusArrives(m) ==
  /\ m \in verify.waiting /\ Verifies
  /\ Concludes([verify EXCEPT !.waiting = @ \ {m}, !.failed = @ \/ ~Matches(held[m], verify.want[m])])

StatusFails(m) ==
  /\ m \in verify.waiting /\ Verifies
  /\ Concludes([verify EXCEPT !.waiting = @ \ {m}, !.failed = TRUE])

VerifyTimesOut ==
  /\ verify.waiting # {} /\ Verifies
  /\ Concludes([verify EXCEPT !.waiting = {}, !.failed = TRUE])

-----------------------------------------------------------------------------
ChainNext ==
  \/ \E n \in Pool : ChainAdd(n) \/ EditAdd(n) \/ \E i \in DOMAIN tp.chain : ChainEdit(i, n)
  \/ \E i \in DOMAIN tp.chain : ChainDel(i) \/ \E j \in DOMAIN tp.chain : ChainMove(i, j)
  \/ ChainRefused \/ ChainClear \/ ChainFix \/ ChainBackup \/ ChainRestore
  \/ \E c \in Chains : ChainSet(c)
  \/ \E v \in {1, Now} : EditNew(v)
  \/ EditClear \/ EditValidate \/ EditSave
  \/ \E i \in DOMAIN edit.chain : EditDel(i)
  \/ \E d \in {tp, bak} : EditLoad(d)
  \/ Apply \/ VerifyStarts \/ VerifyTimesOut
  \/ \E m \in Devices : StageCommits(m) \/ StageEnds(m) \/ StatusArrives(m) \/ StatusFails(m)

ChainSpec == ChainInit /\ [][ChainNext]_chainVars

-----------------------------------------------------------------------------
Snapshot(s) == DOMAIN s.seeds = {x.group : x \in s.slots} /\ {x.peer : x \in s.slots} \subseteq Devices

ChainTypeOK ==
  /\ \A d \in {tp, bak, edit} : Len(d.chain) <= MaxNodes /\ On(d.chain) \subseteq Devices
  /\ commands \in 0 .. MaxCommands
  /\ \A m \in Devices : Snapshot(pend[m]) /\ Snapshot(held[m])
  /\ verify.waiting \subseteq DOMAIN verify.want \cap Paired
  /\ verified \subseteq Devices /\ moved \in BOOLEAN

(* What the compiler hands out fits together.  Every device accepts the     *)
(* snapshot that is compiled for it, if the chain names its kind rightly:   *)
(* what parseTopologyChainJson lets through, validateTopologySnapshot_ does *)
(* too.  And after a verification that every device passed, as long as none *)
(* has committed anything since it began, the two ends of every link name   *)
(* each other and make the same key (maybeFinalizeTopologyVerifySession_,   *)
(* materializeTopologyPeers_), whichever file each was sent.                *)
VerifiedAgree ==
  /\ Valid(tp) => \A i \in DOMAIN tp.chain :
                    LET m == tp.chain[i].m
                    IN  tp.chain[i].t = Profile[m] => Accepts(m, Plan(tp, Now, m))
  /\ \A m \in verified : \A s \in held[m].slots :
       /\ s.peer \in verified /\ SlotsFor(held[s.peer], m) # {}
       /\ LinkKey(held[m], m, s.peer) = LinkKey(held[s.peer], s.peer, m)
=============================================================================
