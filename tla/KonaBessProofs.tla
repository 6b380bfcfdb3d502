--------------------------- MODULE KonaBessProofs ---------------------------
(***************************************************************************)
(* Proofs about the KonaBess flow, for every route and every bound on      *)
(* flashes, starts and reboots: the stock pair is never lost, a reported   *)
(* success left its own whole pair, and no flash resets the device over a  *)
(* pair it half wrote.  FlowInv is inductive; the properties are read off. *)
(***************************************************************************)
EXTENDS KonaBess, TLAPS

\* The types, in the groups an action changes together.
PageType   == /\ view \in {"KonaBess", "Other"} /\ step \in 0..3
              /\ target_popup \in {"closed", "abandons", "reopened"}
              /\ connection \in {"None", "Adb", "Fastboot", "Edl"}
ChoiceType == prepared \in BOOLEAN /\ target \in BOOLEAN
WorkerType == /\ operation \in {"None", "Inspect", "Flash", "Cancel", "Cleanup"}
              /\ pc \in {"Idle", "Slot", "EnterEdl", "Open", "Dump", "Gate", "Provision",
                         "Classify", "Backup", "VerifyPreserved", "Build", "VerifyFresh",
                         "WriteVendorBoot", "WriteVbmeta", "Reboot", "Recover", "Reset",
                         "Sweep", "Done"}
              /\ result \in {"None", "Ready", "Failed", "Flashed", "FlashFailed",
                             "Cancelled", "Swept"}
              /\ session \in BOOLEAN /\ writes_started \in BOOLEAN
FileType   == work \subseteq {"pair", "abl"} /\ dumped \in Pair /\ backups \subseteq Pair
DeviceType == /\ mode \in Modes /\ image \in Pair /\ abl_ok \in BOOLEAN
              /\ efisp \in {"empty", "gbl", "torn"}
CountType  == /\ flashes \in 0..MaxFlashes /\ starts \in 0..MaxStarts
              /\ reboots \in 0..MaxReboots /\ route \in Routes
Types == PageType /\ ChoiceType /\ WorkerType /\ FileType /\ DeviceType /\ CountType

\* From the dump to the backup an inspection holds what the device holds, and
\* whoever may still write the pair (a prepared wizard, a flash) follows a
\* backup that has the stock one.
BackedUp ==
  /\ operation = "Inspect" /\ pc \in {"Gate", "Provision", "Classify", "Backup"} => dumped = image
  /\ \/ image # Stock \/ result = "Ready" \/ prepared \/ operation = "Flash"
     => Stock \in backups

\* A flash that passed a write left its own image there, until its result is
\* delivered.
FlashWrote == image.vendor_boot = flashes /\ (Gbl \/ image.vbmeta = flashes)
InOrder ==
  /\ operation = "None" => result = "None"
  /\ operation = "Flash" /\ pc = "WriteVbmeta" => image.vendor_boot = flashes
  /\ operation = "Flash" /\ pc = "Reboot" => FlashWrote
  /\ result = "Flashed" => operation = "Flash" /\ pc = "Done" /\ FlashWrote

FlowInv == Types /\ BackedUp /\ InOrder
-----------------------------------------------------------------------------
(* The types.                                                              *)

\* What starts a worker.
LEMMA StartsKeep ==
  ASSUME Types, NextInspect \/ NextFlash \/ Back \/ TargetDismiss \/ CleanupTempFiles,
         UNCHANGED route
  PROVE  Types'
<1>1. PageType'
  BY DEF NextInspect, Start, NextFlash, Clickable, is_running, Back, Idle,
       TargetDismiss, CleanupTempFiles, Types, PageType, wizard, files, phoneVars,
       worker, counts
<1>2. ChoiceType'
  BY DEF NextInspect, Start, NextFlash, Clickable, is_running, Back, Idle,
       TargetDismiss, CleanupTempFiles, Types, ChoiceType, wizard, files, phoneVars,
       worker, counts
<1>3. WorkerType'
  BY DEF NextInspect, Start, NextFlash, Clickable, is_running, Back, Idle,
       TargetDismiss, CleanupTempFiles, Types, WorkerType, wizard, files, phoneVars,
       worker, counts
<1>4. FileType'
  BY DEF NextInspect, Start, NextFlash, Clickable, is_running, Back, Idle,
       TargetDismiss, CleanupTempFiles, Types, FileType, Pair, DeviceType, wizard,
       files, phoneVars, worker, counts
<1>5. DeviceType'
  BY DEF NextInspect, Start, NextFlash, Clickable, is_running, Back, Idle,
       TargetDismiss, CleanupTempFiles, Types, DeviceType, Modes, Pair, wizard,
       files, phoneVars, worker, counts
<1>6. CountType'
  BY BoundsAssumption DEF NextInspect, Start, NextFlash, Clickable, is_running,
       Back, Idle, TargetDismiss, CleanupTempFiles, Types, CountType, wizard, files,
       phoneVars, worker, counts
<1> QED
  BY <1>1, <1>2, <1>3, <1>4, <1>5, <1>6 DEF Types

\* Clicks that start nothing, and the poll.
LEMMA ClicksKeep ==
  ASSUME Types, NextConfirm \/ TargetPopup \/ Poll, UNCHANGED route
  PROVE  Types'
<1>1. PageType'
  <2>1. CASE NextConfirm
    BY <2>1 DEF NextConfirm, Types, PageType
  <2>2. CASE TargetPopup
    <3>1. UNCHANGED <<view, step, connection>> /\ target_popup' \in {target_popup, "closed", "reopened"}
      BY <2>2 DEF TargetPopup
    <3> QED
      BY <3>1 DEF Types, PageType
  <2>3. CASE Poll
    BY <2>3 DEF Poll, Types, PageType, wizard
  <2> QED
    BY <2>1, <2>2, <2>3
<1>2. ChoiceType'
  BY DEF NextConfirm, Idle, TargetPopup, Poll, in_edl, Types, ChoiceType, wizard,
       files, phoneVars, worker, counts
<1>3. WorkerType'
  BY DEF NextConfirm, Idle, TargetPopup, Poll, in_edl, Types, WorkerType, wizard,
       files, phoneVars, worker, counts
<1>4. FileType'
  BY DEF NextConfirm, Idle, TargetPopup, Poll, in_edl, Types, FileType, Pair,
       DeviceType, wizard, files, phoneVars, worker, counts
<1>5. DeviceType'
  BY DEF NextConfirm, Idle, TargetPopup, Poll, in_edl, Types, DeviceType, Modes,
       Pair, wizard, files, phoneVars, worker, counts
<1>6. CountType'
  BY BoundsAssumption DEF NextConfirm, Idle, TargetPopup, Poll, in_edl, Types,
       CountType, wizard, files, phoneVars, worker, counts
<1> QED
  BY <1>1, <1>2, <1>3, <1>4, <1>5, <1>6 DEF Types

\* Leaving the flow or starting over.
LEMMA ResetsKeep ==
  ASSUME Types, (\E v \in {"KonaBess", "Other"} : Navigate(v)) \/ StartOver,
         UNCHANGED route
  PROVE  Types'
<1>1. PageType'
  BY DEF Navigate, reset, cleanup_prepared, StartOver, Idle, Types, PageType,
       wizard, files, phoneVars, worker, counts
<1>2. ChoiceType'
  BY DEF Navigate, reset, cleanup_prepared, StartOver, Idle, Types, ChoiceType,
       wizard, files, phoneVars, worker, counts
<1>3. WorkerType'
  BY DEF Navigate, reset, cleanup_prepared, StartOver, Idle, Types, WorkerType,
       wizard, files, phoneVars, worker, counts
<1>4. FileType'
  BY DEF Navigate, reset, cleanup_prepared, StartOver, Idle, Types, FileType, Pair,
       DeviceType, wizard, files, phoneVars, worker, counts
<1>5. DeviceType'
  BY DEF Navigate, reset, cleanup_prepared, StartOver, Idle, Types, DeviceType,
       Modes, Pair, wizard, files, phoneVars, worker, counts
<1>6. CountType'
  BY BoundsAssumption DEF Navigate, reset, cleanup_prepared, StartOver, Idle, Types,
       CountType, wizard, files, phoneVars, worker, counts
<1> QED
  BY <1>1, <1>2, <1>3, <1>4, <1>5, <1>6 DEF Types

\* The inspection.
LEMMA InspectionKeeps ==
  ASSUME Types, Inspection, UNCHANGED route
  PROVE  Types'
<1>1. PageType'
  BY DEF Inspection, ResolveSlot, Running, Goto, Fail, Still, TransitionToEdl, InspectOpen,
       OpenSession, DumpPair, Usable, ExploitGate, Provision, ClassifyAndPause,
       PersistBackup, Report, InspectRecover, Recover, ResetTolerant, Types,
       PageType, wizard, files, phoneVars, worker, counts
<1>2. ChoiceType'
  BY DEF Inspection, ResolveSlot, Running, Goto, Fail, Still, TransitionToEdl, InspectOpen,
       OpenSession, DumpPair, Usable, ExploitGate, Provision, ClassifyAndPause,
       PersistBackup, Report, InspectRecover, Recover, ResetTolerant, Types,
       ChoiceType, wizard, files, phoneVars, worker, counts
<1>3. WorkerType'
  BY DEF Inspection, ResolveSlot, Running, Goto, Fail, Still, TransitionToEdl, InspectOpen,
       OpenSession, DumpPair, Usable, ExploitGate, Provision, ClassifyAndPause,
       PersistBackup, Report, InspectRecover, Recover, ResetTolerant, Types,
       WorkerType, wizard, files, phoneVars, worker, counts
<1>4. FileType'
  BY DEF Inspection, ResolveSlot, Running, Goto, Fail, Still, TransitionToEdl, InspectOpen,
       OpenSession, DumpPair, Usable, ExploitGate, Provision, ClassifyAndPause,
       PersistBackup, Report, InspectRecover, Recover, ResetTolerant, Types,
       FileType, Pair, DeviceType, wizard, files, phoneVars, worker, counts
<1>5. DeviceType'
  BY DEF Inspection, ResolveSlot, Running, Goto, Fail, Still, TransitionToEdl, InspectOpen,
       OpenSession, DumpPair, Usable, ExploitGate, Provision, ClassifyAndPause,
       PersistBackup, Report, InspectRecover, Recover, ResetTolerant, Types,
       DeviceType, Modes, Pair, wizard, files, phoneVars, worker, counts
<1>6. CountType'
  BY BoundsAssumption DEF Inspection, ResolveSlot, Running, Goto, Fail, Still, TransitionToEdl,
       InspectOpen, OpenSession, DumpPair, Usable, ExploitGate, Provision,
       ClassifyAndPause, PersistBackup, Report, InspectRecover, Recover,
       ResetTolerant, Types, CountType, wizard, files, phoneVars, worker, counts
<1> QED
  BY <1>1, <1>2, <1>3, <1>4, <1>5, <1>6 DEF Types

\* A write leaves the partition with its image, torn or as it was.
LEMMA WriteKeepsPair ==
  ASSUME image \in Pair, flashes \in 0..MaxFlashes,
         NEW partition \in {"vendor_boot", "vbmeta"}, NEW next, Write(partition, next)
  PROVE  image' \in Pair
<1>1. Torn \in 0..Torn /\ flashes \in 0..Torn
  BY BoundsAssumption DEF Torn
<1>2. [image EXCEPT ![partition] = flashes] \in Pair
  BY <1>1 DEF Pair
<1>3. [image EXCEPT ![partition] = Torn] \in Pair
  BY <1>1 DEF Pair
<1> QED
  BY <1>2, <1>3 DEF Write

\* The flash.
LEMMA FlashingKeeps ==
  ASSUME Types, Flashing, UNCHANGED route
  PROVE  Types'
<1>1. PageType'
  BY DEF Flashing, VerifyPreservedAbl, Running, Goto, Fail, Still, BuildPair, FlashOpen,
       OpenSession, VerifyFreshAbl, WriteVendorBoot, Write, Usable, WriteVbmeta,
       Reboot, ResetTolerant, Report, FlashRecover, Recover, Types, PageType,
       wizard, files, phoneVars, worker, counts
<1>2. ChoiceType'
  BY DEF Flashing, VerifyPreservedAbl, Running, Goto, Fail, Still, BuildPair, FlashOpen,
       OpenSession, VerifyFreshAbl, WriteVendorBoot, Write, Usable, WriteVbmeta,
       Reboot, ResetTolerant, Report, FlashRecover, Recover, Types, ChoiceType,
       wizard, files, phoneVars, worker, counts
<1>3. WorkerType'
  BY DEF Flashing, VerifyPreservedAbl, Running, Goto, Fail, Still, BuildPair, FlashOpen,
       OpenSession, VerifyFreshAbl, WriteVendorBoot, Write, Usable, WriteVbmeta,
       Reboot, ResetTolerant, Report, FlashRecover, Recover, Types, WorkerType,
       wizard, files, phoneVars, worker, counts
<1>4. FileType'
  BY DEF Flashing, VerifyPreservedAbl, Running, Goto, Fail, Still, BuildPair, FlashOpen,
       OpenSession, VerifyFreshAbl, WriteVendorBoot, Write, Usable, WriteVbmeta,
       Reboot, ResetTolerant, Report, FlashRecover, Recover, Types, FileType, Pair,
       DeviceType, wizard, files, phoneVars, worker, counts
<1>5. DeviceType'
  <2>1. CASE WriteVendorBoot \/ WriteVbmeta
    <3>1. image' \in Pair
      BY <2>1, WriteKeepsPair DEF WriteVendorBoot, WriteVbmeta, Types, DeviceType, CountType
    <3> QED
      BY <2>1, <3>1 DEF WriteVendorBoot, WriteVbmeta, Write, Types, DeviceType
  <2>2. CASE VerifyPreservedAbl \/ BuildPair \/ FlashOpen \/ VerifyFreshAbl
    BY <2>2 DEF Flashing, VerifyPreservedAbl, BuildPair, FlashOpen, OpenSession, VerifyFreshAbl,
       Types, DeviceType, Modes, phoneVars
  <2>3. CASE Reboot \/ FlashRecover
    BY <2>3 DEF Reboot, FlashRecover, Recover, ResetTolerant, Types, DeviceType, Modes
  <2> QED
    BY <2>1, <2>2, <2>3 DEF Flashing
<1>6. CountType'
  BY BoundsAssumption DEF Flashing, VerifyPreservedAbl, Running, Goto, Fail, Still, BuildPair,
       FlashOpen, OpenSession, VerifyFreshAbl, WriteVendorBoot, Write, Usable,
       WriteVbmeta, Reboot, ResetTolerant, Report, FlashRecover, Recover, Types,
       CountType, wizard, files, phoneVars, worker, counts
<1> QED
  BY <1>1, <1>2, <1>3, <1>4, <1>5, <1>6 DEF Types

\* Resets, clean-ups, other workflows and the user's hand.
LEMMA DeviceStepsKeep ==
  ASSUME Types, CancelReset \/ SweepWork \/ OtherWorkflow \/ UserReboots, UNCHANGED route
  PROVE  Types'
<1>1. PageType'
  BY DEF CancelReset, Running, Report, Still, SweepWork, OtherWorkflow, UserReboots,
       Types, PageType, wizard, files, phoneVars, worker, counts
<1>2. ChoiceType'
  BY DEF CancelReset, Running, Report, Still, SweepWork, OtherWorkflow, UserReboots,
       Types, ChoiceType, wizard, files, phoneVars, worker, counts
<1>3. WorkerType'
  BY DEF CancelReset, Running, Report, Still, SweepWork, OtherWorkflow, UserReboots,
       Types, WorkerType, wizard, files, phoneVars, worker, counts
<1>4. FileType'
  BY DEF CancelReset, Running, Report, Still, SweepWork, OtherWorkflow, UserReboots,
       Types, FileType, Pair, DeviceType, wizard, files, phoneVars, worker, counts
<1>5. DeviceType'
  BY DEF CancelReset, Running, Report, Still, SweepWork, OtherWorkflow, UserReboots,
       Types, DeviceType, Modes, Pair, wizard, files, phoneVars, worker, counts
<1>6. CountType'
  BY BoundsAssumption DEF CancelReset, Running, Report, Still, SweepWork,
       OtherWorkflow, UserReboots, Types, CountType, wizard, files, phoneVars, worker,
       counts
<1> QED
  BY <1>1, <1>2, <1>3, <1>4, <1>5, <1>6 DEF Types

\* A result is delivered.
LEMMA CompletedKeeps ==
  ASSUME Types, Completed, UNCHANGED route
  PROVE  Types'
<1>1. PageType'
  BY DEF Completed, is_running, reset, cleanup_prepared, Types, PageType, wizard,
       files, phoneVars, worker, counts
<1>2. ChoiceType'
  BY DEF Completed, is_running, reset, cleanup_prepared, Types, ChoiceType, wizard,
       files, phoneVars, worker, counts
<1>3. WorkerType'
  BY DEF Completed, is_running, reset, cleanup_prepared, Types, WorkerType, wizard,
       files, phoneVars, worker, counts
<1>4. FileType'
  BY DEF Completed, is_running, reset, cleanup_prepared, Types, FileType, Pair,
       DeviceType, wizard, files, phoneVars, worker, counts
<1>5. DeviceType'
  BY DEF Completed, is_running, reset, cleanup_prepared, Types, DeviceType, Modes,
       Pair, wizard, files, phoneVars, worker, counts
<1>6. CountType'
  BY BoundsAssumption DEF Completed, is_running, reset, cleanup_prepared, Types,
       CountType, wizard, files, phoneVars, worker, counts
<1> QED
  BY <1>1, <1>2, <1>3, <1>4, <1>5, <1>6 DEF Types

-----------------------------------------------------------------------------
(* The backup and the order of a flash.                                    *)

\* Every action keeps the backup of the stock pair.
LEMMA StepKeepsBackedUp ==
  ASSUME Types, BackedUp, InOrder, Step, UNCHANGED route
  PROVE  BackedUp'
<1>1. CASE (\E v \in {"KonaBess", "Other"} : Navigate(v))
  BY <1>1 DEF Navigate, reset, cleanup_prepared, Types, WorkerType, BackedUp,
       wizard, files, phoneVars, worker, counts
<1>2. CASE NextInspect \/ NextFlash \/ Back \/ TargetDismiss \/ CleanupTempFiles
  BY <1>2 DEF NextInspect, Start, NextFlash, Clickable, is_running, Back, Idle,
       TargetDismiss, CleanupTempFiles, Types, WorkerType, BackedUp, wizard, files,
       phoneVars, worker, counts
<1>3. CASE NextConfirm \/ TargetPopup \/ Poll \/ StartOver
  <2>1. prepared' => prepared
    BY <1>3 DEF NextConfirm, TargetPopup, Poll, StartOver, reset, cleanup_prepared, wizard
  <2>2. UNCHANGED <<operation, pc, result, dumped, backups, image>>
    BY <1>3 DEF NextConfirm, TargetPopup, Poll, StartOver, reset, cleanup_prepared, Idle,
       worker, files, phoneVars
  <2> QED
    BY <2>1, <2>2 DEF BackedUp
<1>4. CASE ResolveSlot \/ TransitionToEdl \/ InspectOpen
  BY <1>4 DEF ResolveSlot, Running, Goto, Fail, Still, TransitionToEdl, InspectOpen,
       OpenSession, Types, WorkerType, BackedUp, wizard, files, phoneVars, worker,
       counts
<1>5. CASE DumpPair
  BY <1>5 DEF DumpPair, Running, Usable, Goto, Fail, Still, Types, WorkerType,
       BackedUp, wizard, files, phoneVars, worker, counts
<1>6. CASE ExploitGate \/ Provision \/ ClassifyAndPause
  BY <1>6 DEF ExploitGate, Running, Usable, Goto, Fail, Still, Provision,
       ClassifyAndPause, Types, WorkerType, BackedUp, wizard, files, phoneVars, worker,
       counts
<1>7. CASE PersistBackup
  BY <1>7 DEF PersistBackup, Running, Report, Fail, Still, Types, WorkerType,
       BackedUp, wizard, files, phoneVars, worker, counts
<1>8. CASE InspectRecover
  BY <1>8 DEF InspectRecover, Recover, ResetTolerant, Running, Report, Still, Types,
       WorkerType, BackedUp, wizard, files, phoneVars, worker, counts
<1>9. CASE VerifyPreservedAbl \/ BuildPair \/ FlashOpen \/ VerifyFreshAbl
  BY <1>9 DEF VerifyPreservedAbl, Running, Goto, Fail, Still, BuildPair, FlashOpen,
       OpenSession, VerifyFreshAbl, Types, WorkerType, BackedUp, wizard, files,
       phoneVars, worker, counts
<1>10. CASE WriteVendorBoot
  BY <1>10 DEF WriteVendorBoot, Write, Running, Usable, Goto, Fail, Still, Types,
       WorkerType, BackedUp, wizard, files, phoneVars, worker, counts
<1>11. CASE WriteVbmeta
  BY <1>11 DEF WriteVbmeta, Write, Running, Usable, Goto, Fail, Still, Types,
       WorkerType, BackedUp, wizard, files, phoneVars, worker, counts
<1>12. CASE Reboot \/ FlashRecover
  BY <1>12 DEF Reboot, ResetTolerant, Running, Report, Still, FlashRecover, Recover,
       Types, WorkerType, BackedUp, wizard, files, phoneVars, worker, counts
<1>13. CASE CancelReset \/ SweepWork \/ OtherWorkflow \/ UserReboots
  BY <1>13 DEF CancelReset, Running, Report, Still, SweepWork, OtherWorkflow,
       UserReboots, Types, WorkerType, BackedUp, wizard, files, phoneVars, worker,
       counts
<1>14. CASE Completed
  BY <1>14 DEF Completed, is_running, reset, cleanup_prepared, Types, WorkerType,
       BackedUp, wizard, files, phoneVars, worker, counts
<1> QED
  BY <1>1, <1>2, <1>3, <1>4, <1>5, <1>6, <1>7, <1>8, <1>9, <1>10, <1>11, <1>12,
       <1>13, <1>14
     DEF Step, Wizard, Inspection, Flashing

\* Every action keeps a flash's own images on the device until its result is in.
LEMMA StepKeepsInOrder ==
  ASSUME Types, BackedUp, InOrder, Step, UNCHANGED route
  PROVE  InOrder'
<1>1. CASE (\E v \in {"KonaBess", "Other"} : Navigate(v))
  BY <1>1 DEF Navigate, reset, cleanup_prepared, Types, WorkerType, InOrder,
       FlashWrote, Gbl, wizard, files, phoneVars, worker, counts
<1>2. CASE NextInspect \/ NextFlash \/ Back \/ TargetDismiss \/ CleanupTempFiles
  BY <1>2 DEF NextInspect, Start, NextFlash, Clickable, is_running, Back, Idle,
       TargetDismiss, CleanupTempFiles, Types, WorkerType, InOrder, FlashWrote, Gbl,
       wizard, files, phoneVars, worker, counts
<1>3. CASE NextConfirm \/ TargetPopup \/ Poll \/ StartOver
  BY <1>3 DEF NextConfirm, Idle, TargetPopup, Poll, in_edl, StartOver, reset,
       cleanup_prepared, Types, WorkerType, InOrder, FlashWrote, Gbl, wizard, files,
       phoneVars, worker, counts
<1>4. CASE ResolveSlot \/ TransitionToEdl \/ InspectOpen
  BY <1>4 DEF ResolveSlot, Running, Goto, Fail, Still, TransitionToEdl, InspectOpen,
       OpenSession, Types, WorkerType, InOrder, FlashWrote, Gbl, wizard, files,
       phoneVars, worker, counts
<1>5. CASE DumpPair
  BY <1>5 DEF DumpPair, Running, Usable, Goto, Fail, Still, Types, WorkerType,
       InOrder, FlashWrote, Gbl, wizard, files, phoneVars, worker, counts
<1>6. CASE ExploitGate \/ Provision \/ ClassifyAndPause
  BY <1>6 DEF ExploitGate, Running, Usable, Goto, Fail, Still, Provision,
       ClassifyAndPause, Types, WorkerType, InOrder, FlashWrote, Gbl, wizard, files,
       phoneVars, worker, counts
<1>7. CASE PersistBackup
  BY <1>7 DEF PersistBackup, Running, Report, Fail, Still, Types, WorkerType,
       InOrder, FlashWrote, Gbl, wizard, files, phoneVars, worker, counts
<1>8. CASE InspectRecover
  BY <1>8 DEF InspectRecover, Recover, ResetTolerant, Running, Report, Still, Types,
       WorkerType, InOrder, FlashWrote, Gbl, wizard, files, phoneVars, worker, counts
<1>9. CASE VerifyPreservedAbl \/ BuildPair \/ FlashOpen \/ VerifyFreshAbl
  BY <1>9 DEF VerifyPreservedAbl, Running, Goto, Fail, Still, BuildPair, FlashOpen,
       OpenSession, VerifyFreshAbl, Types, WorkerType, InOrder, FlashWrote, Gbl,
       wizard, files, phoneVars, worker, counts
<1>10. CASE WriteVendorBoot
  <2>1. \/ pc' = (IF Gbl THEN "Reboot" ELSE "WriteVbmeta") /\ image'.vendor_boot = flashes
        \/ pc' = "Recover"
    BY <1>10 DEF WriteVendorBoot, Write, Goto, Fail, Types, DeviceType, Pair
  <2> QED
    BY <1>10, <2>1 DEF WriteVendorBoot, Write, Running, Still, counts, InOrder, FlashWrote, Gbl
<1>11. CASE WriteVbmeta
  <2>1. \/ pc' = "Reboot" /\ image'.vendor_boot = image.vendor_boot /\ image'.vbmeta = flashes
        \/ pc' = "Recover"
    BY <1>11 DEF WriteVbmeta, Write, Goto, Fail, Types, DeviceType, Pair
  <2> QED
    BY <1>11, <2>1 DEF WriteVbmeta, Write, Running, Still, counts, InOrder, FlashWrote, Gbl
<1>12. CASE Reboot \/ FlashRecover
  BY <1>12 DEF Reboot, ResetTolerant, Running, Report, Still, FlashRecover, Recover,
       Types, WorkerType, InOrder, FlashWrote, Gbl, wizard, files, phoneVars, worker,
       counts
<1>13. CASE CancelReset \/ SweepWork \/ OtherWorkflow \/ UserReboots
  BY <1>13 DEF CancelReset, Running, Report, Still, SweepWork, OtherWorkflow,
       UserReboots, Types, WorkerType, InOrder, FlashWrote, Gbl, wizard, files,
       phoneVars, worker, counts
<1>14. CASE Completed
  BY <1>14 DEF Completed, is_running, reset, cleanup_prepared, Types, WorkerType,
       InOrder, FlashWrote, Gbl, wizard, files, phoneVars, worker, counts
<1> QED
  BY <1>1, <1>2, <1>3, <1>4, <1>5, <1>6, <1>7, <1>8, <1>9, <1>10, <1>11, <1>12,
       <1>13, <1>14
     DEF Step, Wizard, Inspection, Flashing

-----------------------------------------------------------------------------
(* The invariant and what is read off it.                                  *)

\* The flow starts in the invariant.
LEMMA InitFlow ==
  ASSUME Init
  PROVE  FlowInv
<1>1. Stock \in Pair
  BY BoundsAssumption DEF Stock, Pair, Torn
<1>2. PageType
  BY DEF Init, PageType
<1>3. ChoiceType
  BY DEF Init, ChoiceType
<1>4. WorkerType
  BY DEF Init, WorkerType
<1>5. FileType /\ DeviceType
  BY <1>1 DEF Init, FileType, DeviceType, Modes
<1>6. CountType
  BY BoundsAssumption DEF Init, CountType
<1>7. BackedUp /\ InOrder
  BY DEF Init, BackedUp, InOrder
<1> QED
  BY <1>2, <1>3, <1>4, <1>5, <1>6, <1>7 DEF FlowInv, Types

\* Every step keeps the types.
LEMMA StepKeepsTypes ==
  ASSUME Types, Step, UNCHANGED route
  PROVE  Types'
  BY StartsKeep, ClicksKeep, ResetsKeep, InspectionKeeps, FlashingKeeps, DeviceStepsKeep,
     CompletedKeeps DEF Step, Wizard

\* Nothing happens.
LEMMA StutterFlow ==
  ASSUME FlowInv, UNCHANGED vars
  PROVE  FlowInv'
<1> USE DEF vars, wizard, files, phoneVars, worker, counts
<1>1. Types'
  BY DEF FlowInv, Types, PageType, ChoiceType, WorkerType, FileType, DeviceType, CountType
<1>2. BackedUp' /\ InOrder'
  BY DEF FlowInv, BackedUp, InOrder, FlashWrote, Gbl
<1> QED
  BY <1>1, <1>2 DEF FlowInv

\* FlowInv holds in every reachable state of the flow.
THEOREM FlowInvariance == Spec => []FlowInv
<1>1. Init => FlowInv
  BY InitFlow
<1>2. FlowInv /\ [Next]_vars => FlowInv'
  BY StepKeepsTypes, StepKeepsBackedUp, StepKeepsInOrder, StutterFlow DEF FlowInv, Next
<1> QED
  BY <1>1, <1>2, PTL DEF Spec

\* Every variable keeps its type, for any number of flashes, starts and reboots.
THEOREM FlowKeepsItsTypes == Spec => []TypeOK
<1>1. FlowInv => TypeOK
  BY DEF FlowInv, Types, PageType, ChoiceType, WorkerType, FileType, DeviceType, CountType,
     TypeOK
<1> QED
  BY <1>1, FlowInvariance, PTL

\* Whatever fails, is retried, swept or rebooted, once the pair on the device is
\* not the stock one a backup holds the stock one.
THEOREM StockSurvives == Spec => []StockIsNeverLost
<1>1. FlowInv => StockIsNeverLost
  BY DEF FlowInv, BackedUp, StockIsNeverLost
<1> QED
  BY <1>1, FlowInvariance, PTL

\* A flash reports success only with its own images on the device, neither torn
\* and both of the same flash where the AVB chain verifies them.
THEOREM ReportedPairIsWhole == Spec => []SuccessMeansWholePair
<1>1. FlowInv => SuccessMeansWholePair
  BY BoundsAssumption DEF FlowInv, Types, CountType, InOrder, FlashWrote,
     SuccessMeansWholePair, Matched, Torn
<1> QED
  BY <1>1, FlowInvariance, PTL

\* A flash that has written itself boots the device out of EDL only over a whole
\* pair: its recovery leaves EDL alone once it began to write, and its last reset
\* comes after both writes.  Of the half pair an earlier flash left nothing is said:
\* an inspection, or a flash that fails before its own first write, does reset it.
THEOREM HalfPairStaysInEdl == Spec => FlashNeverResetsHalfPair
<1>1. ASSUME FlowInv, [Next]_vars
      PROVE  [operation = "Flash" /\ WorkerResets => (writes_started => Matched)]_vars
  <2> SUFFICES ASSUME Next, operation = "Flash", is_running, in_edl, mode' = "Android",
                      writes_started
               PROVE  Matched
    BY <1>1 DEF WorkerResets
  <2>1. mode \in {"Sahara", "Firehose"}
    BY DEF in_edl
  <2>2. CASE Reboot
    BY <1>1, <2>2, BoundsAssumption DEF Reboot, Running, FlowInv, Types, CountType, InOrder,
       FlashWrote, Matched, Torn
  <2>3. CASE FlashRecover
    BY <2>1, <2>3 DEF FlashRecover, Recover
  <2>4. CASE FlashOpen
    BY <2>1, <2>4 DEF FlashOpen, OpenSession
  <2>5. CASE UserReboots
    BY <2>1, <2>5 DEF UserReboots
  <2>6. ~Inspection /\ ~CancelReset /\ ~SweepWork /\ ~OtherWorkflow
    BY DEF Inspection, ResolveSlot, TransitionToEdl, InspectOpen, DumpPair, ExploitGate,
       Provision, ClassifyAndPause, PersistBackup, InspectRecover, CancelReset, SweepWork,
       OtherWorkflow, Running, Clickable, is_running
  <2>7. mode' # mode
    BY <2>1
  <2>8. ~Wizard /\ ~Completed /\ ~Poll /\ ~CleanupTempFiles
    BY <2>7 DEF Wizard, Navigate, NextInspect, NextConfirm, NextFlash, Back, StartOver,
       TargetPopup, TargetDismiss, Completed, Poll, CleanupTempFiles, phoneVars
  <2>9. ~VerifyPreservedAbl /\ ~BuildPair /\ ~VerifyFreshAbl /\ ~WriteVendorBoot /\ ~WriteVbmeta
    BY <2>7 DEF VerifyPreservedAbl, BuildPair, VerifyFreshAbl, WriteVendorBoot, WriteVbmeta,
       Write, phoneVars
  <2> QED
    BY <2>2, <2>3, <2>4, <2>5, <2>6, <2>8, <2>9 DEF Next, Step, Flashing
<1> QED
  BY <1>1, FlowInvariance, PTL DEF Spec, FlashNeverResetsHalfPair

=============================================================================
