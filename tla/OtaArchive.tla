----------------------------- MODULE OtaArchive -----------------------------
(***************************************************************************)
(* The archive of firmware images OtaDescriptorAdapter keeps: the arc.*     *)
(* scopes of its clear command save, restore, delete and clear images on    *)
(* the SD card and list them in a manifest on SPIFFS, through               *)
(* ArduinoSelectableOtaStorageBackend.                                      *)
(*                                                                         *)
(* An image is a number, 0 is no file and Torn a file whose copy was cut.   *)
(* A handler is a list of storage steps, as in module OtaApply.             *)
(***************************************************************************)
EXTENDS Naturals, Sequences, FiniteSets, SequencesExt

CONSTANTS Roles,        \* the archives in use: "s" slave images, "m" master images
          ImageCount,   \* images that exist
          IdCount,      \* archive ids: the code derives them from the clock
          SmallEntries, \* entries of a manifest that writeAt flushes at once (1024 bytes)
          MaxCuts,      \* bound: power cuts
          MaxErrors     \* bound: storage steps that fail

ASSUME ArchiveSizes == /\ Roles \subseteq {"s", "m"} /\ Roles # {}
                       /\ {ImageCount, IdCount} \subseteq Nat \ {0}
                       /\ {SmallEntries, MaxCuts, MaxErrors} \subseteq Nat

VARIABLES
  card,     \* durable, SD: the bin and the meta file of every role and id
  list,     \* durable, SPIFFS: the manifest of every role
  buffer,   \* the manifest a role has written and the cached file not flushed
  stage,    \* durable, SPIFFS: fw.bin and fw.json of the staging directory
  plan,     \* the storage steps the running handler has left
  cuts, errors,
  doomed    \* history: entries a delete or a clear has begun to remove

archiveVars == <<card, list, buffer, stage, plan, cuts, errors, doomed>>

Images    == 1 .. ImageCount
ArcIds    == 1 .. IdCount
Torn      == ImageCount + 1
FileContents  == 0 .. Torn
ArchiveEntries   == [role : Roles, id : ArcIds, image : Images \cup {Torn}, label : Images]
NoBuffer  == {"none"}

-----------------------------------------------------------------------------
(* Storage steps.                                                           *)

NoEntry == [role |-> CHOOSE r \in Roles : TRUE, id |-> 1, image |-> 1, label |-> 1]
Do(op, file, e) == [op |-> op, file |-> file, entry |-> e, entries |-> {}]

(* copySpiffsToSd, copySdToSpiffs, dumpRunningFirmwareToSd: the file is     *)
(* removed, opened and then filled.                                         *)
Copy(file, e) == << Do("open", file, e), Do("fill", file, e) >>

(* removeTree_: the bin file, then the meta file.                           *)
Unlink(e) == << Do("unlink", "bin", e), Do("unlink", "meta", e) >>

(* saveArchiveManifest: truncateFile, then writeAt.                         *)
SaveManifest(role, es) ==
  << Do("truncate", "list", [NoEntry EXCEPT !.role = role]),
     [Do("write", "list", [NoEntry EXCEPT !.role = role]) EXCEPT !.entries = es] >>

(* begin() of the next command flushes the cached file, so a command reads  *)
(* what the last one wrote.                                                 *)
InArchive(role) == IF buffer[role] # NoBuffer THEN buffer[role] ELSE list[role]
AfterFlush == [r \in Roles |-> InArchive(r)]

(* Fault: the image is listed before its meta file is copied.               *)
SaveStepsEarly(e, es) ==
  Copy("bin", e) \o SaveManifest(e.role, es \cup {e}) \o Copy("meta", e)

SaveSteps(e, es) ==
  Copy("bin", e) \o Copy("meta", e) \o SaveManifest(e.role, es \cup {e})

ClearArchiveSteps(es, role) ==
  LET order == SetToSeq(es)
  IN [i \in 1 .. 2 * Len(order) |-> Do("unlink", IF i % 2 = 1 THEN "bin" ELSE "meta",
                                       order[(i + 1) \div 2])]
     \o SaveManifest(role, {})

-----------------------------------------------------------------------------
ArchiveInit ==
  /\ card = [r \in Roles |-> [i \in ArcIds |-> [bin |-> 0, meta |-> 0]]]
  /\ list = [r \in Roles |-> {}] /\ buffer = [r \in Roles |-> NoBuffer]
  /\ stage \in [bin : {0} \cup Images, meta : {0} \cup Images]
  /\ stage.bin = stage.meta
  /\ plan = << >> /\ cuts = 0 /\ errors = 0
  /\ doomed = {}

Free == plan = << >>

(* A command begins: the cached file is flushed.                            *)
Begins(steps) ==
  /\ Free /\ plan' = steps
  /\ list' = AfterFlush /\ buffer' = [r \in Roles |-> NoBuffer]

UsedIds(role) == {e.id : e \in InArchive(role)}

(* assign_unique_id looks for an id that the manifest does not list.        *)
FreshIds(role) == ArcIds \ UsedIds(role)

(* The entry takes its size and checksum from the image and its version from*)
(* the meta file.                                                           *)
Saves(role, image, label) ==
  /\ \E id \in FreshIds(role) :
        /\ Begins(SaveSteps([role |-> role, id |-> id, image |-> image, label |-> label],
                            InArchive(role)))
        /\ doomed' = {e \in doomed : ~(e.role = role /\ e.id = id)}
  /\ UNCHANGED <<card, stage, cuts, errors>>

(* save.staged: what is staged, if the meta file can be read.  The image is *)
(* not compared with it: a restore that was cut leaves a pair that differs. *)
SaveStaged(role) ==
  /\ stage.bin # 0 /\ stage.meta \in Images
  /\ Saves(role, stage.bin, stage.meta)

(* save: the running image of a slave, image 1.                             *)
SaveRunning == "s" \in Roles /\ Saves("s", 1, 1)

Restore(e) ==
  /\ e \in InArchive(e.role)
  /\ Begins(Copy("stage.bin", e) \o Copy("stage.meta", e))
  /\ UNCHANGED <<card, stage, cuts, errors, doomed>>

Delete(e) ==
  /\ e \in InArchive(e.role)
  /\ Begins(Unlink(e) \o SaveManifest(e.role, InArchive(e.role) \ {e}))
  /\ doomed' = doomed \cup {e}
  /\ UNCHANGED <<card, stage, cuts, errors>>

ClearArchive(role) ==
  /\ Begins(ClearArchiveSteps(InArchive(role), role))
  /\ doomed' = doomed \cup InArchive(role)
  /\ UNCHANGED <<card, stage, cuts, errors>>

(* The clear scope "all" empties the state directory, the manifests of the  *)
(* archive with it; the images stay on the card.                            *)
ClearAll ==
  /\ Free
  /\ list' = [r \in Roles |-> {}] /\ buffer' = [r \in Roles |-> NoBuffer]
  /\ UNCHANGED <<card, stage, plan, cuts, errors, doomed>>

-----------------------------------------------------------------------------
(* Steps, one at a time.                                                    *)

Now == Head(plan)
Does(op) == ~Free /\ Now.op = op

SetFile(file, e, v) ==
  CASE file = "bin"        -> card' = [card EXCEPT ![e.role][e.id].bin = v] /\ UNCHANGED stage
    [] file = "meta"       -> card' = [card EXCEPT ![e.role][e.id].meta = v] /\ UNCHANGED stage
    [] file = "stage.bin"  -> stage' = [stage EXCEPT !.bin = v] /\ UNCHANGED card
    [] file = "stage.meta" -> stage' = [stage EXCEPT !.meta = v] /\ UNCHANGED card

(* What a copy reads: restore reads the card as it is.                      *)
Source == CASE Now.file = "stage.bin"  -> card[Now.entry.role][Now.entry.id].bin
            [] Now.file = "stage.meta" -> card[Now.entry.role][Now.entry.id].meta
            [] Now.file = "bin"  -> Now.entry.image
            [] Now.file = "meta" -> Now.entry.label

(* A source that is missing fails before the destination is touched.        *)
Opens ==
  /\ Does("open")
  /\ IF Source = 0 THEN plan' = << >> /\ UNCHANGED <<card, stage>>
     ELSE plan' = Tail(plan) /\ SetFile(Now.file, Now.entry, Torn)
  /\ UNCHANGED <<list, buffer, cuts, errors, doomed>>

Fills ==
  /\ Does("fill") /\ plan' = Tail(plan)
  /\ SetFile(Now.file, Now.entry, Source)
  /\ UNCHANGED <<list, buffer, cuts, errors, doomed>>

(* removeTree_: a file that is not there is no error.                       *)
Unlinks ==
  /\ Does("unlink") /\ plan' = Tail(plan)
  /\ SetFile(Now.file, Now.entry, 0)
  /\ UNCHANGED <<list, buffer, cuts, errors, doomed>>

Truncates ==
  /\ Does("truncate") /\ plan' = Tail(plan)
  /\ list' = [list EXCEPT ![Now.entry.role] = {}]
  /\ UNCHANGED <<card, buffer, stage, cuts, errors, doomed>>

(* writeAt flushes a short write; a longer one stays in the cached file.    *)
Writes ==
  /\ Does("write") /\ plan' = Tail(plan)
  /\ IF Cardinality(Now.entries) <= SmallEntries
     THEN list' = [list EXCEPT ![Now.entry.role] = Now.entries] /\ UNCHANGED buffer
     ELSE buffer' = [buffer EXCEPT ![Now.entry.role] = Now.entries] /\ UNCHANGED list
  /\ UNCHANGED <<card, stage, cuts, errors, doomed>>

(* The step fails: a copy removes what it wrote and the handler ends.       *)
StepFails ==
  /\ ~Free /\ errors < MaxErrors /\ errors' = errors + 1
  /\ plan' = << >>
  /\ IF Now.op = "fill" THEN SetFile(Now.file, Now.entry, 0) ELSE UNCHANGED <<card, stage>>
  /\ UNCHANGED <<list, buffer, cuts, doomed>>

(* The power goes: what the cached file had not flushed is lost.            *)
PowerCut ==
  /\ cuts < MaxCuts /\ cuts' = cuts + 1
  /\ plan' = << >> /\ buffer' = [r \in Roles |-> NoBuffer]
  /\ UNCHANGED <<card, list, stage, errors, doomed>>

-----------------------------------------------------------------------------
ArchiveNext ==
  \/ \E r \in Roles : SaveStaged(r) \/ ClearArchive(r)
  \/ SaveRunning
  \/ \E r \in Roles : \E e \in InArchive(r) : Restore(e) \/ Delete(e)
  \/ ClearAll \/ Opens \/ Fills \/ Unlinks \/ Truncates \/ Writes
  \/ StepFails \/ PowerCut

ArchiveSpec == ArchiveInit /\ [][ArchiveNext]_archiveVars

-----------------------------------------------------------------------------
ArchiveTypeOK ==
  /\ card \in [Roles -> [ArcIds -> [bin : FileContents, meta : FileContents]]]
  /\ \A r \in Roles : list[r] \subseteq ArchiveEntries /\ InArchive(r) \subseteq ArchiveEntries
  /\ stage \in [bin : FileContents, meta : FileContents]
  /\ \A i \in DOMAIN plan : plan[i].entry \in ArchiveEntries /\ plan[i].entries \subseteq ArchiveEntries
  /\ cuts \in 0 .. MaxCuts /\ errors \in 0 .. MaxErrors /\ doomed \subseteq ArchiveEntries

(* An image the manifest lists is on the card with both its files whole,    *)
(* from the moment it is listed until its own removal begins: no power cut, *)
(* failed step or later save comes in between.                              *)
ListedIsWhole ==
  \A r \in Roles : \A e \in InArchive(r) \ doomed :
    card[r][e.id].bin = e.image /\ card[r][e.id].meta = e.label
=============================================================================
