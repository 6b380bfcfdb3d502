------------------------------ MODULE KonaBess ------------------------------
(***************************************************************************)
(* The KonaBess GPU-table flow of LTBox: an inspection dumps vendor_boot   *)
(* and vbmeta over EDL and backs them up, the flow then pauses for the     *)
(* user to pick and edit a table, and a second worker rebuilds the images  *)
(* and flashes them as a pair.  The module joins the wizard (step, target  *)
(* popup, prepared workspace), the three workers step by step, the scratch *)
(* directory on disk, and the device, which the user may also reboot.      *)
(*                                                                         *)
(* A partition holds 0 (stock), the number of the flash that wrote it, or  *)
(* Torn when a write broke off.  One device takes part.                    *)
(***************************************************************************)
EXTENDS Naturals

CONSTANTS
  Routes,     \* what verifies the images: the "Avb" chain, or the "Gbl" on efisp
  MaxFlashes, \* flashes started in a behaviour
  MaxStarts,  \* operations of any kind started in a behaviour
  MaxReboots  \* reboots by the user's hand

ASSUME BoundsAssumption == /\ Routes \subseteq {"Avb", "Gbl"} /\ MaxFlashes \in Nat
                           /\ MaxStarts \in Nat /\ MaxReboots \in Nat

VARIABLES
  route,          \* how the device's model verifies the pair
  view,           \* current_view: "KonaBess", or "Other" for every other view
  step,           \* konabess.step: loader, table, confirm, apply
  prepared,       \* konabess.prepared is Some
  target,         \* konabess.selected_target_index is Some
  target_popup,   \* the target popup: "closed", "abandons" on dismissal, "reopened"
  connection,     \* device.connection, as the last poll saw it
  operation,      \* the operation that runs
  pc,             \* where its worker is; "Done" once its result is on the way
  result,         \* what the worker reports
  session,        \* the worker holds an open Firehose session
  writes_started, \* the worker entered the write path
  work,           \* files in work/konabess
  dumped,         \* the pair in those files
  backups,        \* pairs saved under backup/konabess
  mode,           \* what the device runs
  image,          \* what its two partitions hold
  abl_ok,         \* its abl supports efisp
  efisp,          \* "empty", "gbl" or "torn"
  flashes, starts, reboots

wizard == <<step, prepared, target, target_popup>>
files  == <<work, dumped, backups>>
phoneVars == <<mode, image, abl_ok, efisp>>
worker == <<operation, pc, result, session, writes_started>>
counts == <<flashes, starts, reboots>>
vars   == <<route, view, wizard, connection, worker, files, phoneVars, counts>>

Modes == {"Android", "Fastboot", "Sahara", "Firehose", "Gone"}
Torn  == MaxFlashes + 1
Pair  == [vendor_boot : 0..Torn, vbmeta : 0..Torn]
Stock == [vendor_boot |-> 0, vbmeta |-> 0]

Gbl        == route = "Gbl"
is_running == operation # "None"
in_edl     == mode \in {"Sahara", "Firehose"}

\* The two images boot together: the vbmeta was rebuilt for this vendor_boot.
\* Where the GBL verifies, no vbmeta is written.
Matched == image.vendor_boot # Torn /\ (Gbl \/ image.vendor_boot = image.vbmeta)

Idle == UNCHANGED <<worker, counts>>
Start(kind, at) ==
  /\ starts < MaxStarts
  /\ operation' = kind /\ pc' = at /\ result' = "None"
  /\ session' = FALSE /\ writes_started' = FALSE
  /\ starts' = starts + 1 /\ UNCHANGED reboots

-----------------------------------------------------------------------------
(* The wizard.                                                             *)

\* Drop the inspection and its scratch files; backups stay.
cleanup_prepared ==
  /\ prepared' = FALSE /\ target' = FALSE /\ target_popup' = "closed"
  /\ work' = IF prepared THEN {} ELSE work
  /\ UNCHANGED <<dumped, backups>>

reset == cleanup_prepared /\ step' = 0

\* The popup is modal, and input is dropped while an operation runs.
Clickable == ~is_running /\ target_popup = "closed"

konabess_in_progress == connection = "Edl" /\ prepared /\ step \in {1, 2}

\* Navigation is let through while an operation runs: a click made behind a
\* deferred KonaBessNext is replayed once the inspection has begun.
Navigate(v) ==
  /\ target_popup = "closed" /\ v # view /\ view' = v
  /\ IF \/ view = "KonaBess" /\ ~is_running /\ ~konabess_in_progress
        \/ v = "KonaBess" /\ ~is_running /\ step < 2 /\ ~konabess_in_progress
     THEN reset
     ELSE UNCHANGED <<wizard, files>>
  /\ UNCHANGED <<connection, worker, phoneVars, counts>>

\* KonaBessNext on the loader step: a fitting loader starts the inspection,
\* whose worker first empties the scratch directory.
NextInspect ==
  /\ view = "KonaBess" /\ Clickable /\ step = 0
  /\ Start("Inspect", "Slot")
  /\ prepared' = FALSE /\ target' = FALSE /\ work' = {}
  /\ UNCHANGED <<view, step, target_popup, connection, dumped, backups, phoneVars, flashes>>

\* KonaBessNext on the table: a target with a valid table.
NextConfirm ==
  /\ view = "KonaBess" /\ Clickable /\ step = 1 /\ prepared /\ target
  /\ step' = 2
  /\ Idle /\ UNCHANGED <<view, prepared, target, target_popup, connection, files, phoneVars>>

\* KonaBessNext on the confirmation: flash.
NextFlash ==
  /\ view = "KonaBess" /\ Clickable /\ step = 2 /\ prepared /\ target
  /\ step' = 3
  /\ flashes < MaxFlashes /\ flashes' = flashes + 1
  /\ Start("Flash", IF Gbl THEN "VerifyPreserved" ELSE "Build")
  /\ UNCHANGED <<view, prepared, target, target_popup, connection, files, phoneVars>>

\* KonaBessBack: cancel the prepared inspection, or return to the table.
Back ==
  /\ view = "KonaBess" /\ Clickable
  /\ \/ /\ step = 1 /\ prepared
        /\ Start("Cancel", "Reset") /\ UNCHANGED <<step, flashes>>
     \/ /\ step = 2 \/ (step = 1 /\ ~prepared)
        /\ step' = step - 1 /\ Idle
  /\ UNCHANGED <<view, prepared, target, target_popup, connection, files, phoneVars>>

\* Cancel on the confirmation and Start over on the last step.
StartOver ==
  /\ view = "KonaBess" /\ Clickable /\ step >= 2
  /\ reset
  /\ Idle /\ UNCHANGED <<view, connection, phoneVars>>

\* The popup over the table; one row has to be picked to confirm.
TargetPopup ==
  /\ ~is_running
  /\ \/ target_popup # "closed" /\ target' \in {target, TRUE} /\ UNCHANGED target_popup
     \/ target_popup # "closed" /\ target /\ target_popup' = "closed" /\ UNCHANGED target
     \/ target_popup = "closed" /\ step = 1 /\ view = "KonaBess"
        /\ target_popup' = "reopened" /\ UNCHANGED target
     \/ target_popup = "reopened" /\ target_popup' = "closed" /\ UNCHANGED target
  /\ Idle /\ UNCHANGED <<view, step, prepared, connection, files, phoneVars>>

\* Dismissing the first popup abandons the inspection.
TargetDismiss ==
  /\ ~is_running /\ target_popup = "abandons"
  /\ target_popup' = "closed"
  /\ Start("Cancel", "Reset")
  /\ UNCHANGED <<view, step, prepared, target, connection, files, phoneVars, flashes>>

-----------------------------------------------------------------------------
(* Steps all workers share.  Any of them may fail; a failed one leads to   *)
(* the recovery, and what is left of it is the device's choice.            *)

Running(kind, at) == operation = kind /\ pc = at
Usable == session /\ mode = "Firehose"
Goto(at) == pc' = at
Fail == pc' = "Recover"

\* EdlSession::open: Sahara hands over to Firehose.  A device that already
\* runs Firehose sends no HELLO, so the handshake times out.
OpenSession(next) ==
  \/ /\ mode = "Sahara" /\ mode' = "Firehose"
     /\ session' = TRUE /\ Goto(next)
  \/ /\ mode' \in (IF mode = "Sahara" THEN {"Sahara", "Firehose"} ELSE {mode})
     /\ UNCHANGED session /\ Fail

\* reset_tolerant: the boot is requested, an error is only logged.
ResetTolerant == mode' \in (IF mode = "Firehose" THEN {"Firehose", "Android"} ELSE {mode})

\* Fault: recovery resets whatever was written.
AlwaysResets ==
  /\ IF session THEN ResetTolerant
     ELSE mode' \in (IF mode = "Sahara" THEN {"Sahara", "Firehose", "Android"} ELSE {mode})
  /\ session' = FALSE

\* recover_after_error and recover_before_write: reset through the session at
\* hand or through a fresh one, unless something may have been written.
Recover ==
  /\ IF writes_started THEN UNCHANGED mode
     ELSE IF session THEN ResetTolerant
     ELSE mode' \in (IF mode = "Sahara" THEN {"Sahara", "Firehose", "Android"} ELSE {mode})
  /\ session' = FALSE

Report(r) == pc' = "Done" /\ result' = r

-----------------------------------------------------------------------------
(* konabess_inspection_worker.                                             *)

Still == UNCHANGED <<view, wizard, connection, operation, counts>>

\* EDL cannot report a slot: Android or the bootloader has to answer.
ResolveSlot ==
  /\ Running("Inspect", "Slot")
  /\ (mode \in {"Android", "Fastboot"} /\ Goto("EnterEdl")) \/ Fail
  /\ Still /\ UNCHANGED <<result, session, writes_started, files, phoneVars>>

\* transition_to_edl probes the device anew, reboots it and waits for 9008.
TransitionToEdl ==
  /\ Running("Inspect", "EnterEdl")
  /\ \/ mode # "Gone" /\ mode' = (IF mode = "Firehose" THEN mode ELSE "Sahara") /\ Goto("Open")
     \/ UNCHANGED mode /\ Fail
  /\ Still /\ UNCHANGED <<result, session, writes_started, files, image, abl_ok, efisp>>

InspectOpen ==
  /\ Running("Inspect", "Open")
  /\ OpenSession("Dump")
  /\ Still /\ UNCHANGED <<result, writes_started, files, image, abl_ok, efisp>>

\* Both partitions of the active slot are read.
DumpPair ==
  /\ Running("Inspect", "Dump")
  /\ \/ /\ Usable /\ dumped' = image /\ work' = work \cup {"pair"}
        /\ Goto("Gate") /\ UNCHANGED backups
     \/ UNCHANGED files /\ Fail
  /\ Still /\ UNCHANGED <<result, session, writes_started, phoneVars>>

\* run_exploit_gate: a signing key that is known (or no signature), or an
\* abl that supports efisp, and an empty efisp staged for provisioning.
ExploitGate ==
  /\ Running("Inspect", "Gate")
  /\ \/ ~Gbl /\ Goto("Classify") /\ UNCHANGED <<work, writes_started>>
     \/ /\ Gbl /\ Usable /\ work' = work \cup {"abl"}
        /\ abl_ok
        /\ IF efisp = "empty"
           THEN Goto("Provision") /\ writes_started' = TRUE
           ELSE Goto("Classify") /\ UNCHANGED writes_started
     \/ work' \in {work, IF Gbl /\ Usable THEN work \cup {"abl"} ELSE work}
        /\ UNCHANGED writes_started /\ Fail
  /\ Still /\ UNCHANGED <<result, session, dumped, backups, phoneVars>>

Provision ==
  /\ Running("Inspect", "Provision")
  /\ \/ Usable /\ efisp' = "gbl" /\ Goto("Classify")
     \/ efisp' \in (IF Usable THEN {efisp, "torn"} ELSE {efisp}) /\ Fail
  /\ Still /\ UNCHANGED <<result, session, writes_started, files, mode, image, abl_ok>>

\* GPU tables are found in the dump; then Firehose goes back to Sahara.
ClassifyAndPause ==
  /\ Running("Inspect", "Classify")
  /\ \/ Usable /\ mode' = "Sahara" /\ session' = FALSE /\ Goto("Backup")
     \/ mode' \in (IF Usable THEN {mode, "Sahara"} ELSE {mode}) /\ UNCHANGED session /\ Fail
  /\ Still /\ UNCHANGED <<result, writes_started, files, image, abl_ok, efisp>>

\* Fault: a backup that could not be written is not an error.
BackupFailureIgnored ==
  /\ Running("Inspect", "Backup")
  /\ Report("Ready") /\ backups' \in {backups, backups \cup {dumped}}
  /\ Still /\ UNCHANGED <<session, writes_started, work, dumped, phoneVars>>

\* The backup is last, so that only an inspection that succeeds makes one.
PersistBackup ==
  /\ Running("Inspect", "Backup")
  /\ \/ backups' = backups \cup {dumped} /\ Report("Ready")
     \/ UNCHANGED <<backups, result>> /\ Fail
  /\ Still /\ UNCHANGED <<session, writes_started, work, dumped, phoneVars>>

InspectRecover ==
  /\ Running("Inspect", "Recover")
  /\ Recover /\ Report("Failed")
  /\ work' = {}
  /\ Still /\ UNCHANGED <<writes_started, dumped, backups, image, abl_ok, efisp>>

-----------------------------------------------------------------------------
(* konabess_flash_worker.                                                  *)

VerifyPreservedAbl ==
  /\ Running("Flash", "VerifyPreserved")
  /\ ("abl" \in work /\ Goto("Build")) \/ Fail
  /\ Still /\ UNCHANGED <<result, session, writes_started, files, phoneVars>>

BuildPair ==
  /\ Running("Flash", "Build")
  /\ ("pair" \in work /\ Goto("Open")) \/ Fail
  /\ Still /\ UNCHANGED <<result, session, writes_started, files, phoneVars>>

FlashOpen ==
  /\ Running("Flash", "Open")
  /\ OpenSession(IF Gbl THEN "VerifyFresh" ELSE "WriteVendorBoot")
  /\ Still /\ UNCHANGED <<result, writes_started, files, image, abl_ok, efisp>>

VerifyFreshAbl ==
  /\ Running("Flash", "VerifyFresh")
  /\ (Usable /\ abl_ok /\ Goto("WriteVendorBoot")) \/ Fail
  /\ Still /\ UNCHANGED <<result, session, writes_started, files, phoneVars>>

\* A write that breaks off may have changed the partition.
Write(partition, next) ==
  /\ writes_started' = TRUE
  /\ \/ Usable /\ image' = [image EXCEPT ![partition] = flashes] /\ Goto(next)
     \/ image' \in (IF Usable THEN {image, [image EXCEPT ![partition] = Torn]} ELSE {image})
        /\ Fail
  /\ Still /\ UNCHANGED <<result, session, files, mode, abl_ok, efisp>>

WriteVendorBoot ==
  /\ Running("Flash", "WriteVendorBoot")
  /\ Write("vendor_boot", IF Gbl THEN "Reboot" ELSE "WriteVbmeta")

\* Fault: an error of the second write is lost.
SecondWriteErrorLost ==
  /\ Running("Flash", "WriteVbmeta")
  /\ writes_started' = TRUE /\ Goto("Reboot")
  /\ image' \in {image} \cup (IF Usable THEN {[image EXCEPT !.vbmeta = flashes]} ELSE {})
  /\ Still /\ UNCHANGED <<result, session, files, mode, abl_ok, efisp>>

WriteVbmeta ==
  /\ Running("Flash", "WriteVbmeta")
  /\ Write("vbmeta", "Reboot")

\* Reached only when the whole pair was written in this session.
Reboot ==
  /\ Running("Flash", "Reboot")
  /\ ResetTolerant /\ session' = FALSE /\ Report("Flashed")
  /\ Still /\ UNCHANGED <<writes_started, files, image, abl_ok, efisp>>

FlashRecover ==
  /\ Running("Flash", "Recover")
  /\ Recover /\ Report("FlashFailed")
  /\ Still /\ UNCHANGED <<writes_started, files, image, abl_ok, efisp>>

\* konabess_cancel_worker: a fresh session, only to reset.
CancelReset ==
  /\ Running("Cancel", "Reset")
  /\ mode' \in (IF mode = "Sahara" THEN {"Sahara", "Firehose", "Android"} ELSE {mode})
  /\ Report("Cancelled")
  /\ Still /\ UNCHANGED <<session, writes_started, files, image, abl_ok, efisp>>

-----------------------------------------------------------------------------
(* Completions.                                                            *)

\* KonaBessInspectionReady, KonaBessInspectionFailed, KonaBessFlashDone,
\* KonaBessCancelDone and OperationError.
Completed ==
  /\ is_running /\ pc = "Done"
  /\ operation' = "None" /\ pc' = "Idle" /\ result' = "None" /\ session' = FALSE
  /\ \/ /\ result = "Ready"
        /\ prepared' = TRUE /\ step' = 1 /\ target_popup' = "abandons" /\ target' = FALSE
        /\ UNCHANGED files
     \/ result \in {"Failed", "Cancelled"} /\ reset
     \/ result = "Flashed" /\ cleanup_prepared /\ UNCHANGED step
     \/ result \in {"FlashFailed", "Swept"} /\ UNCHANGED <<wizard, files>>
  /\ UNCHANGED <<view, connection, writes_started, phoneVars, counts>>

-----------------------------------------------------------------------------
(* Around the flow.                                                        *)

\* A poll is applied only while nothing runs and nothing is prepared.
Poll ==
  /\ ~is_running /\ ~prepared
  /\ connection' = (CASE mode = "Android" -> "Adb" [] mode = "Fastboot" -> "Fastboot"
                      [] in_edl -> "Edl" [] OTHER -> "None")
  /\ Idle /\ UNCHANGED <<view, wizard, files, phoneVars>>

\* CleanupTempFiles, from the settings page.
CleanupTempFiles ==
  /\ view = "Other" /\ Clickable
  /\ Start("Cleanup", "Sweep")
  /\ UNCHANGED <<view, wizard, connection, files, phoneVars, flashes>>

\* clean_temp_files_reporting removes work/ and outputs/, never backup/.
SweepWork ==
  /\ Running("Cleanup", "Sweep")
  /\ work' = {} /\ Report("Swept")
  /\ Still /\ UNCHANGED <<session, writes_started, dumped, backups, phoneVars>>

\* Another workflow of the program (a firmware flash, a root, ...): it may
\* clean work/ when it succeeds, leave the device anywhere and replace abl.
\* The pair is left alone: those workflows keep backups of their own.
OtherWorkflow ==
  /\ view = "Other" /\ Clickable /\ starts < MaxStarts
  /\ starts' = starts + 1
  /\ work' \in {work, {}}
  /\ mode' \in Modes /\ abl_ok' \in BOOLEAN
  /\ UNCHANGED <<view, wizard, connection, worker, dumped, backups, image, efisp,
                 flashes, reboots>>

\* The user pulls the cable or holds the power button.
UserReboots ==
  /\ reboots < MaxReboots /\ reboots' = reboots + 1
  /\ IF mode = "Gone" THEN mode' \in Modes \ {"Gone", "Firehose"} ELSE mode' = "Gone"
  /\ UNCHANGED <<view, wizard, connection, worker, files, image, abl_ok, efisp,
                 flashes, starts>>

-----------------------------------------------------------------------------
Init ==
  /\ route \in Routes
  /\ view = "Other" /\ step = 0 /\ prepared = FALSE /\ target = FALSE /\ target_popup = "closed"
  /\ connection = "None"
  /\ operation = "None" /\ pc = "Idle" /\ result = "None"
  /\ session = FALSE /\ writes_started = FALSE
  /\ work = {} /\ dumped = Stock /\ backups = {}
  /\ mode \in {"Android", "Sahara"} /\ image = Stock
  /\ abl_ok \in BOOLEAN /\ efisp = "empty"
  /\ flashes = 0 /\ starts = 0 /\ reboots = 0

Wizard == \/ \E v \in {"KonaBess", "Other"} : Navigate(v)
          \/ NextInspect \/ NextConfirm \/ NextFlash
          \/ Back \/ StartOver \/ TargetPopup \/ TargetDismiss
Inspection == \/ ResolveSlot \/ TransitionToEdl \/ InspectOpen \/ DumpPair
              \/ ExploitGate \/ Provision \/ ClassifyAndPause \/ PersistBackup
              \/ InspectRecover
Flashing == \/ VerifyPreservedAbl \/ BuildPair \/ FlashOpen \/ VerifyFreshAbl
            \/ WriteVendorBoot \/ WriteVbmeta \/ Reboot \/ FlashRecover
Step == \/ Wizard \/ Inspection \/ Flashing \/ CancelReset \/ Completed
        \/ Poll \/ CleanupTempFiles \/ SweepWork \/ OtherWorkflow \/ UserReboots
Next == Step /\ UNCHANGED route

Spec == Init /\ [][Next]_vars

-----------------------------------------------------------------------------
(* What the flow guarantees.                                               *)

\* The type of every variable.
TypeOK ==
  /\ route \in Routes
  /\ view \in {"KonaBess", "Other"} /\ step \in 0..3
  /\ prepared \in BOOLEAN /\ target \in BOOLEAN
  /\ target_popup \in {"closed", "abandons", "reopened"}
  /\ connection \in {"None", "Adb", "Fastboot", "Edl"}
  /\ operation \in {"None", "Inspect", "Flash", "Cancel", "Cleanup"}
  /\ pc \in {"Idle", "Slot", "EnterEdl", "Open", "Dump", "Gate", "Provision", "Classify",
             "Backup", "VerifyPreserved", "Build", "VerifyFresh", "WriteVendorBoot",
             "WriteVbmeta", "Reboot", "Recover", "Reset", "Sweep", "Done"}
  /\ result \in {"None", "Ready", "Failed", "Flashed", "FlashFailed", "Cancelled", "Swept"}
  /\ session \in BOOLEAN /\ writes_started \in BOOLEAN
  /\ work \subseteq {"pair", "abl"} /\ dumped \in Pair /\ backups \subseteq Pair
  /\ mode \in Modes /\ image \in Pair /\ abl_ok \in BOOLEAN
  /\ efisp \in {"empty", "gbl", "torn"}
  /\ flashes \in 0..MaxFlashes /\ starts \in 0..MaxStarts /\ reboots \in 0..MaxReboots

\* Once anything was written to the pair, torn or whole, the stock pair is in
\* a backup: retries, clean-ups and failed runs never lose it.
StockIsNeverLost == image # Stock => Stock \in backups

\* A flash that reports success left its own pair on the device, whole.
SuccessMeansWholePair ==
  result = "Flashed" => Matched /\ image.vendor_boot = flashes

\* A worker of the flow boots the device out of EDL.
WorkerResets == is_running /\ in_edl /\ mode' = "Android"

\* A flash never resets a device that it left with one member of the pair:
\* before its first write it may, afterwards only when the pair is whole.
FlashNeverResetsHalfPair ==
  [][operation = "Flash" /\ WorkerResets => (writes_started => Matched)]_vars
=============================================================================
