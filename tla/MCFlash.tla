------------------------------ MODULE MCFlash ------------------------------
(***************************************************************************)
(* What a device keeps in flash, beside each other: the pairing store, the  *)
(* firmware update and the archive of images.  They share no file, so one   *)
(* of them is explored while the others rest in an initial state.           *)
(***************************************************************************)
EXTENDS PairStore, OtaApply, OtaArchive

StoreSymmetry == Permutations(Peers) \cup Permutations(Lmks)

flashVars == <<vars, otaVars, archiveVars>>

StoreRests   == todo = << >> /\ promised = [p \in Peers |-> None] /\ gone = {} /\ run = NoRun
                /\ flash = [b \in Blobs |-> None] /\ cache = [b \in Blobs |-> Unknown]
OtaRests     == agenda = BootSteps /\ disk.rec = NoRecord /\ disk.bin = NoImage /\ disk.man = NoManifest
                /\ apps.run = 1 /\ apps.other = NoImage /\ ~strict
                /\ spent = [restarts |-> 0, faults |-> 0, published |-> 0, refused |-> 0]
ArchiveRests == list = [r \in Roles |-> {}] /\ plan = << >> /\ cuts = 0 /\ errors = 0
                /\ doomed = {} /\ stage.bin = 0 /\ card = [r \in Roles |-> [i \in ArcIds |-> [bin |-> 0, meta |-> 0]]]

FlashInit == Init /\ OtaInit /\ ArchiveInit

FlashNext ==
  \/ OtaRests /\ ArchiveRests /\ Next /\ UNCHANGED <<otaVars, archiveVars>>
  \/ StoreRests /\ ArchiveRests /\ OtaNext /\ UNCHANGED <<vars, archiveVars>>
  \/ StoreRests /\ OtaRests /\ ArchiveNext /\ UNCHANGED <<vars, otaVars>>

FlashSpec == FlashInit /\ [][FlashNext]_flashVars

(* The state of every part has its type (PairStore, OtaApply, OtaArchive).  *)
FlashTypeOK == TypeOK /\ OtaTypeOK /\ ArchiveTypeOK
=============================================================================
