------------------------------ MODULE OtaApply ------------------------------
(***************************************************************************)
(* What a slave does with a received firmware image: the apply, rollback    *)
(* and clear commands of OtaDescriptorAdapter, the status record OtaManager *)
(* keeps in flash, the confirmation of an update at the next boot and the   *)
(* boot-complete notice EspNowManager queues for the master with the other  *)
(* mandatory events.                                                        *)
(*                                                                         *)
(* A handler that writes to flash is a list of storage steps.  The loop     *)
(* task runs them one after the other, any of them may fail, and the device *)
(* may restart between two of them.  An image is its version number; 0 is   *)
(* no image.                                                                *)
(***************************************************************************)
EXTENDS Naturals, Sequences

CONSTANTS MaxVersion,      \* versions of the firmware; the device starts with version 1
          RebootInApply,   \* values of apply_reboot_on_success: the executor restarts the device itself
          Fallback,        \* whether the bootloader may boot the previous application
          EventIds,        \* mandatory events of the application
          QMax,            \* mandatory_event_max_queue
          RetryMax,        \* mandatory_event_retry_max
          MaxRestarts,     \* bound: restarts, commanded ones and power cuts
          MaxFaults,       \* bound: storage steps that fail
          MaxPublished,    \* bound: events the application publishes
          MaxRefused       \* bound: sends the transport refuses

ASSUME OtaSizes == /\ {MaxVersion, QMax} \subseteq Nat \ {0}
                   /\ {RetryMax, MaxRestarts, MaxFaults, MaxPublished, MaxRefused} \subseteq Nat
                   /\ Fallback \in BOOLEAN /\ RebootInApply \subseteq BOOLEAN /\ RebootInApply # {}
                   /\ "Boot" \notin EventIds

VARIABLES
  disk,      \* durable: u.bin, its manifest, the status record os.m
  apps,     \* durable: the running version, the other slot, and which of the two boots
  ram,       \* OtaManager: ready, and the copy of the status record in status_
  agenda,      \* the storage steps the running handler has left
  events,    \* EspNowManager: mandatory_event_queue_
  strict,    \* whether the gate of the application compares the booted version
  spent,     \* how much of each bound is used up
  strayed,   \* history: since the last apply the device booted another image, or erased it
  eroded,    \* history: since then a save of the record was cut short or never begun, or it was cleared
  told       \* history: notices the radio took since the last confirmation, up to 2

history == <<strayed, eroded, told>>
otaVars == <<disk, apps, ram, agenda, events, strict, spent, history>>

Versions == 1 .. MaxVersion
NoImage  == 0

(* The record: its state, whether the master has to be told, the image that *)
(* was applied (its CRC-32) and the version that was confirmed.             *)
Records == [state : {"none", "pending_boot", "boot_ok"}, report : BOOLEAN,
            image : 0 .. MaxVersion, sw : 0 .. MaxVersion]

NoRecord   == [state |-> "none", report |-> FALSE, image |-> NoImage, sw |-> 0]
Pending(v) == [state |-> "pending_boot", report |-> FALSE, image |-> v, sw |-> 0]
Confirmed(r, v) == [r EXCEPT !.state = "boot_ok", !.report = TRUE, !.sw = v]
Told(r)    == [r EXCEPT !.report = FALSE]

(* A manifest that is missing or cut short names no version.                *)
NoManifest == 0

-----------------------------------------------------------------------------
(* Storage steps.                                                           *)

Step(op, file, v) == [op |-> op, file |-> file, v |-> v, rec |-> NoRecord]
Save(r) == << Step("truncate", "rec", 0), [Step("write", "rec", 0) EXCEPT !.rec = r] >>
WriteManifest(v) == << Step("truncate", "man", 0), Step("write", "man", v) >>

Steps == [op : {"truncate", "write", "remove", "promote", "erase", "flash", "load", "confirm", "pop"},
          file : {"rec", "man", "bin", "app", "in", "queue"}, v : 0 .. MaxVersion, rec : Records]

(* endReceive (the transfer itself is module FirmwareStream): the previous  *)
(* image and its manifest go first, the temporary file is renamed last.     *)
ReceiveSteps(v) == << Step("remove", "bin", 0), Step("remove", "man", 0),
                      Step("promote", "bin", v) >> \o WriteManifest(v)

(* Fault: the record is saved before the image is written.                  *)
ApplyStepsRecordFirst(v) == Save(Pending(v)) \o << Step("erase", "app", 0), Step("flash", "app", v) >>
                            \o WriteManifest(v)

(* applyOtaImage: the executor erases and writes the other slot, then the   *)
(* record is saved and the manifest is marked applied.                      *)
ApplySteps(v) == << Step("erase", "app", 0), Step("flash", "app", v) >>
                 \o Save(Pending(v)) \o WriteManifest(v)

(* OtaManager::begin and markBootSuccessful: the workspace is cleared, the  *)
(* record is loaded, a pending update is confirmed.                         *)
BootSteps == << Step("remove", "bin", 0), Step("remove", "man", 0),
                Step("load", "rec", 0), Step("confirm", "rec", 0) >>

ClearSteps(scope) == CASE scope = "img" -> << Step("remove", "bin", 0), Step("remove", "man", 0) >>
                       [] scope = "man" -> << Step("remove", "man", 0) >>
                       [] scope = "all" -> << Step("remove", "bin", 0), Step("remove", "man", 0),
                                              Step("remove", "rec", 0) >>

-----------------------------------------------------------------------------
Down == [ready |-> FALSE, rec |-> NoRecord]

OtaInit ==
  /\ disk = [bin |-> NoImage, man |-> NoManifest, rec |-> NoRecord]
  /\ apps = [run |-> 1, other |-> NoImage, next |-> "run"]
  /\ ram = Down /\ agenda = BootSteps
  /\ events = << >>
  /\ spent = [restarts |-> 0, faults |-> 0, published |-> 0, refused |-> 0]
  /\ strict \in BOOLEAN
  /\ strayed = FALSE /\ eroded = FALSE /\ told = 0

OtaIdle == agenda = << >>

-----------------------------------------------------------------------------
(* Handlers: each one starts its list of storage steps.                     *)

(* The version gate refuses an image that is not newer than the running one.*)
Receive(v) ==
  /\ OtaIdle /\ ram.ready /\ v > apps.run
  /\ agenda' = ReceiveSteps(v)
  /\ UNCHANGED <<disk, apps, ram, events, strict, spent, history>>

(* The version comes from the manifest and is compared with the one last    *)
(* confirmed, which a pending record does not have.                         *)
Apply ==
  /\ OtaIdle /\ ram.ready /\ disk.bin # NoImage
  /\ disk.man \in Versions /\ (ram.rec.sw = 0 \/ disk.man > ram.rec.sw)
  /\ agenda' = ApplySteps(disk.man)
  /\ UNCHANGED <<disk, apps, ram, events, strict, spent, history>>

Clear(scope) ==
  /\ OtaIdle /\ ram.ready
  /\ agenda' = ClearSteps(scope)
  /\ UNCHANGED <<disk, apps, ram, events, strict, spent, history>>

(* A restart empties the memory; the bootloader takes the selected slot when*)
(* it holds a whole image, and may fall back to the other one.              *)
Reboot(f) ==
  /\ ram' = Down /\ agenda' = BootSteps /\ events' = << >>
  /\ apps' = f

Swapped == [run |-> apps.other, other |-> apps.run, next |-> "run"]
Kept    == [apps EXCEPT !.next = "run"]

Boots == IF apps.next = "other" /\ apps.other # NoImage
         THEN {Swapped} \cup (IF Fallback THEN {Kept} ELSE {})
         ELSE {Kept}

(* The device had an applied image to boot, or was running it, and boots    *)
(* another one.                                                             *)
Strays(f) == /\ disk.rec.state = "pending_boot" /\ f.run # disk.rec.image
             /\ apps.next = "other" \/ apps.run = disk.rec.image

Counts(what, bound) == spent[what] < bound /\ spent' = [spent EXCEPT ![what] = @ + 1]

Saving == \E i \in DOMAIN agenda : agenda[i].file = "rec" /\ agenda[i].op \in {"truncate", "write"}

OtaRestart ==
  /\ Counts("restarts", MaxRestarts)
  /\ \E f \in Boots : Reboot(f) /\ strayed' = (strayed \/ Strays(f))
  /\ eroded' = (eroded \/ Saving)
  /\ UNCHANGED <<disk, strict, told>>

(* esp_ota_mark_app_invalid_rollback_and_reboot.                            *)
Rollback ==
  /\ Fallback /\ OtaIdle /\ ram.ready /\ apps.other # NoImage
  /\ Counts("restarts", MaxRestarts)
  /\ Reboot(Swapped) /\ strayed' = (strayed \/ Strays(Swapped))
  /\ UNCHANGED <<disk, strict, eroded, told>>

-----------------------------------------------------------------------------
(* Storage steps, one at a time.                                            *)

Runs(op, file) == ~OtaIdle /\ Head(agenda).op = op /\ Head(agenda).file = file
Rest == Tail(agenda)

Removes ==
  /\ ~OtaIdle /\ Head(agenda).op = "remove"
  /\ disk' = CASE Head(agenda).file = "bin" -> [disk EXCEPT !.bin = NoImage]
               [] Head(agenda).file = "man" -> [disk EXCEPT !.man = NoManifest]
               [] Head(agenda).file = "rec" -> [disk EXCEPT !.rec = NoRecord]
  /\ eroded' = (eroded \/ Head(agenda).file = "rec")
  /\ agenda' = Rest
  /\ UNCHANGED <<apps, ram, events, strict, spent, strayed, told>>

Promotes ==
  /\ Runs("promote", "bin")
  /\ disk' = [disk EXCEPT !.bin = Head(agenda).v] /\ agenda' = Rest
  /\ UNCHANGED <<apps, ram, events, strict, spent, history>>

WritesManifest ==
  /\ Runs("truncate", "man") \/ Runs("write", "man")
  /\ disk' = [disk EXCEPT !.man = IF Head(agenda).op = "write" THEN Head(agenda).v ELSE NoManifest]
  /\ agenda' = Rest
  /\ UNCHANGED <<apps, ram, events, strict, spent, history>>

(* Update.begin: the slot that is not running no longer holds an image.     *)
Erases ==
  /\ Runs("erase", "app")
  /\ apps' = [apps EXCEPT !.other = NoImage]
  /\ strayed' = (strayed \/ apps.next = "other")
  /\ agenda' = Rest
  /\ UNCHANGED <<disk, ram, events, strict, spent, eroded, told>>

(* Update.write, the CRC check and Update.end: the slot holds the image and *)
(* is selected.  An image its manifest does not describe fails the check.   *)
Flashed == [apps EXCEPT !.other = disk.bin, !.next = "other"]

Flashes ==
  /\ Runs("flash", "app")
  /\ FALSE \in RebootInApply \/ Head(agenda).v # disk.bin
  /\ IF Head(agenda).v = disk.bin
     THEN apps' = Flashed /\ agenda' = Rest
     ELSE agenda' = << >> /\ UNCHANGED apps
  /\ UNCHANGED <<disk, ram, events, strict, spent, history>>

(* The restart on success comes before applyImage returns, so the record of *)
(* this image is never written.                                             *)
FlashesAndRestarts ==
  /\ Runs("flash", "app") /\ TRUE \in RebootInApply /\ Head(agenda).v = disk.bin
  /\ Counts("restarts", MaxRestarts)
  /\ Reboot([run |-> Flashed.other, other |-> Flashed.run, next |-> "run"])
  /\ eroded' = TRUE
  /\ strayed' = (strayed \/ Strays([run |-> Flashed.other]))
  /\ UNCHANGED <<disk, strict, told>>

(* saveStatusRecord_: the file is truncated, then written, and only then    *)
(* does status_ follow.                                                     *)
TruncatesRecord ==
  /\ Runs("truncate", "rec")
  /\ disk' = [disk EXCEPT !.rec = NoRecord] /\ agenda' = Rest
  /\ UNCHANGED <<apps, ram, events, strict, spent, history>>

WritesRecord ==
  /\ Runs("write", "rec")
  /\ disk' = [disk EXCEPT !.rec = Head(agenda).rec]
  /\ ram' = [ram EXCEPT !.rec = Head(agenda).rec] /\ agenda' = Rest
  /\ LET r == Head(agenda).rec
     IN /\ strayed' = (strayed /\ r.state # "pending_boot")
        /\ eroded' = (eroded /\ r.state # "pending_boot")
        /\ told' = IF r.report THEN 0 ELSE told
  /\ UNCHANGED <<apps, events, strict, spent>>

Loads ==
  /\ Runs("load", "rec")
  /\ ram' = [ready |-> TRUE, rec |-> disk.rec] /\ agenda' = Rest
  /\ UNCHANGED <<disk, apps, events, strict, spent, history>>

(* markBootSuccessful: the version that runs is confirmed, whatever image   *)
(* was applied, unless the gate of the application looks.                   *)
Confirms ==
  /\ Runs("confirm", "rec")
  /\ agenda' = IF disk.rec.state = "pending_boot" /\ (strict => apps.run = disk.rec.image)
             THEN Save(Confirmed(disk.rec, apps.run)) ELSE << >>
  /\ UNCHANGED <<disk, apps, ram, events, strict, spent, history>>

(* What a handler leaves undone when its next step fails: the removals of   *)
(* endReceive ignore it, the manifest and the record each give up their own *)
(* write, which comes next, everything else ends the handler.               *)
AfterFault == CASE Head(agenda).file \in {"rec", "man"} /\ Head(agenda).op \in {"truncate", "write"} ->
                     IF Head(agenda).op = "truncate" THEN Tail(Rest) ELSE Rest
                [] Head(agenda).op = "remove" /\ \E i \in DOMAIN Rest : Rest[i].op = "promote" -> Rest
                [] OTHER -> << >>

Fails ==
  /\ ~OtaIdle /\ Head(agenda).op # "pop" /\ Counts("faults", MaxFaults)
  /\ agenda' = AfterFault
  /\ eroded' = (eroded \/ Saving)
  /\ UNCHANGED <<disk, apps, ram, events, strict, strayed, told>>

-----------------------------------------------------------------------------
(* EspNowManager: the queue of mandatory events.                            *)

Ids == EventIds \cup {"Boot"}

Queued(id) == \E i \in DOMAIN events : events[i].id = id

(* Fault: a full queue takes one event more.                                *)
PublishedUnbounded(q, id) ==
  IF Queued(id) THEN q ELSE Append(q, [id |-> id, tries |-> 0])

(* publishMandatoryEvent: an event of an id that is queued takes the place  *)
(* of the older one; a full queue drops its oldest event.                   *)
Published(q, id) ==
  IF Queued(id) THEN [i \in DOMAIN q |-> IF q[i].id = id THEN [id |-> id, tries |-> 0] ELSE q[i]]
  ELSE Append(IF Len(q) >= QMax THEN Tail(q) ELSE q, [id |-> id, tries |-> 0])

Publish(id) ==
  /\ OtaIdle /\ Counts("published", MaxPublished)
  /\ events' = Published(events, id)
  /\ UNCHANGED <<disk, apps, ram, agenda, strict, history>>

(* tickOtaBootCompletionNotice goes by the copy of the record in memory.    *)
NoticePending == ram.ready /\ ram.rec.state = "boot_ok" /\ ram.rec.report

(* clearBootCompletionNotice reads the record again and saves it without    *)
(* the flag.                                                                *)
ClearNotice == IF disk.rec.state = "boot_ok" /\ disk.rec.report THEN Save(Told(disk.rec)) ELSE << >>

(* Fault: the flag is cleared as soon as the notice is queued.              *)
NoticeTickClears ==
  /\ OtaIdle /\ NoticePending
  /\ events' = Published(events, "Boot") /\ agenda' = ClearNotice
  /\ UNCHANGED <<disk, apps, ram, strict, spent, history>>

NoticeTick ==
  /\ OtaIdle /\ NoticePending
  /\ events' = Published(events, "Boot")
  /\ UNCHANGED <<disk, apps, ram, agenda, strict, spent, history>>

(* tickMandatoryEventQueue: the radio took the oldest event.  The notice    *)
(* leaves the queue after its flag was cleared.                             *)
SendOk ==
  /\ OtaIdle /\ events # << >>
  /\ IF Head(events).id = "Boot"
     THEN /\ agenda' = ClearNotice \o << Step("pop", "queue", 0) >>
          /\ told' = IF told = 2 THEN 2 ELSE told + 1
          /\ UNCHANGED events
     ELSE events' = Tail(events) /\ UNCHANGED <<agenda, told>>
  /\ UNCHANGED <<disk, apps, ram, strict, spent, strayed, eroded>>

Pops ==
  /\ Runs("pop", "queue")
  /\ events' = Tail(events) /\ agenda' = Rest
  /\ UNCHANGED <<disk, apps, ram, strict, spent, history>>

(* The transport refused it: an event is dropped after RetryMax retries.    *)
SendRefused ==
  /\ OtaIdle /\ events # << >> /\ Counts("refused", MaxRefused)
  /\ events' = IF Head(events).tries >= RetryMax THEN Tail(events)
               ELSE [events EXCEPT ![1].tries = @ + 1]
  /\ UNCHANGED <<disk, apps, ram, agenda, strict, history>>

-----------------------------------------------------------------------------
StorageStep == \/ Removes \/ Promotes \/ WritesManifest \/ Erases \/ Flashes \/ FlashesAndRestarts
               \/ TruncatesRecord \/ WritesRecord \/ Loads \/ Confirms

OtaNext ==
  \/ \E v \in Versions : Receive(v)
  \/ Apply
  \/ \E scope \in {"img", "man", "all"} : Clear(scope)
  \/ OtaRestart \/ Rollback \/ StorageStep \/ Fails
  \/ \E id \in EventIds : Publish(id)
  \/ NoticeTick \/ SendOk \/ Pops \/ SendRefused

OtaSpec == OtaInit /\ [][OtaNext]_otaVars

-----------------------------------------------------------------------------
(* Properties.                                                              *)

OtaTypeOK ==
  /\ disk \in [bin : 0 .. MaxVersion, man : 0 .. MaxVersion, rec : Records]
  /\ apps \in [run : Versions, other : 0 .. MaxVersion, next : {"run", "other"}]
  /\ ram \in [ready : BOOLEAN, rec : Records]
  /\ agenda \in Seq(Steps) /\ Len(agenda) <= 8
  /\ events \in Seq([id : Ids, tries : 0 .. RetryMax]) /\ Len(events) <= QMax
  /\ strict \in BOOLEAN /\ strayed \in BOOLEAN /\ eroded \in BOOLEAN /\ told \in 0 .. 2

(* A confirmed update is the one that was applied: the record says boot_ok  *)
(* for another version only when the device booted another image, or erased *)
(* the applied one, in between, and the gate did not look.  A power cut     *)
(* between the flash and the record, or between the truncation and the      *)
(* write of the record, never makes a confirmation of the old image.        *)
ConfirmedIsApplied ==
  disk.rec.state = "boot_ok" /\ disk.rec.sw # disk.rec.image => strayed /\ ~strict

(* What the master is told of an update.  A device that runs one has a      *)
(* record of it, unless the save of the record was cut short or failed, the *)
(* record was cleared, or the executor restarted the device before the save.*)
(* And the boot-complete notice is one-shot: its flag is cleared in flash   *)
(* only after the radio took the notice, and it is not sent a second time   *)
(* unless the record was lost or could not be saved.                        *)
UpdateIsTold ==
  /\ OtaIdle /\ ram.ready /\ apps.run # 1 /\ ~eroded => disk.rec.state # "none"
  /\ disk.rec.state = "boot_ok" /\ ~disk.rec.report => told >= 1
  /\ disk.rec.state = "boot_ok" /\ ~eroded => told <= 1
=============================================================================
