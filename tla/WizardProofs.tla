---------------------------- MODULE WizardProofs ----------------------------
(***************************************************************************)
(* Proofs about three groups of wizards, for any tables, folders, loaders  *)
(* and number of runs: a look at another view costs no table and no        *)
(* confirm page; a tool that reports success has built what it said; the   *)
(* step bar names the page on show, and a root or a rescue is started with *)
(* answers that belong together.  Each specification has its own inductive *)
(* invariant; they share no state.                                         *)
(***************************************************************************)
EXTENDS StorageWizards, AdvancedTools, SetupWizards, SequenceTheorems, TLAPS

-----------------------------------------------------------------------------
(* The wizards that read or write storage.                                 *)

StorageWizard ==
  [step : Nat, source : {"None", "Loader"}, entry : {"None", "Adb", "Edl"}, table : BOOLEAN,
   marks : [Rows -> {"Unchecked", "Flash", "Erase"}], files : [Rows -> Images \cup {"None"}], desc : BOOLEAN]
StorageTypes ==
  /\ advanced_wizard_open \in Wizards \cup {"None"} /\ wizard \in [Wizards -> StorageWizard]
  /\ connection \in {"Adb", "Edl"} /\ booted \in {"Adb", "Edl"} /\ polled \in {"NoPoll", "Adb", "Edl"}
  /\ stayed \in BOOLEAN /\ screens \in Nat

\* While the device stays in EDL the snapshot says so and no poll is out that read
\* something else, for none is out while an operation runs.
SnapshotFollows ==
  /\ running => polled = "NoPoll"
  /\ stayed => booted = "Edl" /\ connection = "Edl" /\ polled = "NoPoll"

StorageInv == StorageTypes /\ SnapshotFollows

LEMMA FreshIsTyped == Fresh \in StorageWizard /\ Default \in [Wizards -> StorageWizard]
<1>1. Unmarked \in [Rows -> {"Unchecked", "Flash", "Erase"}] /\ NoFiles \in [Rows -> Images \cup {"None"}]
  BY DEF Unmarked, NoFiles
<1>2. Fresh \in StorageWizard
  BY <1>1 DEF Fresh, StorageWizard
<1> QED BY <1>2 DEF Default

LEMMA StorageInitIsOK == StorageInit => StorageInv
<1> SUFFICES ASSUME StorageInit PROVE StorageInv
  OBVIOUS
<1>1. StorageTypes
  BY FreshIsTyped DEF StorageInit, StorageTypes
<1>2. SnapshotFollows
  BY DEF StorageInit, SnapshotFollows, running
<1> QED BY <1>1, <1>2 DEF StorageInv

\* A step of the wizards alone.
LEMMA PageKeeps ==
  ASSUME StorageInv, advanced_wizard_open' \in Wizards \cup {"None"}, wizard' \in [Wizards -> StorageWizard],
         UNCHANGED cableVars, screens' \in Nat, operation' = operation \/ Quiet
  PROVE  StorageInv'
BY DEF StorageInv, StorageTypes, SnapshotFollows, cableVars, Quiet, running

LEMMA NavigateKeeps == ASSUME StorageInv, NEW v, Navigate(v) PROVE StorageInv'
<1>1. advanced_wizard_open' \in Wizards \cup {"None"} /\ wizard' \in [Wizards -> StorageWizard]
  BY FreshIsTyped DEF StorageInv, StorageTypes, Navigate, ResetAdvanced
<1>2. UNCHANGED cableVars /\ screens' \in Nat /\ operation' = operation
  BY DEF StorageInv, StorageTypes, Navigate
<1> QED BY <1>1, <1>2, PageKeeps

LEMMA StartOverKeeps == ASSUME StorageInv, StartOver PROVE StorageInv'
<1>1. advanced_wizard_open' \in Wizards \cup {"None"} /\ wizard' \in [Wizards -> StorageWizard]
  BY FreshIsTyped DEF StartOver, ResetAdvanced
<1> QED BY <1>1, PageKeeps DEF StorageInv, StorageTypes, StartOver

\* The table is dropped when a scan begins.
LEMMA ScanIsTyped ==
  ASSUME StorageInv, NEW k, NEW record \in StorageWizard, ScanBegins(k, record)
  PROVE  wizard' \in [Wizards -> StorageWizard]
<1>1. PICK r : r = [record EXCEPT !.entry = connection, !.table = FALSE, !.marks = Unmarked, !.files = NoFiles]
  OBVIOUS
<1>2. r = [step |-> record.step, source |-> record.source, entry |-> connection, table |-> FALSE,
           marks |-> Unmarked, files |-> NoFiles, desc |-> record.desc]
  BY <1>1 DEF StorageWizard
<1>3. r \in StorageWizard
  <2>1. Unmarked \in [Rows -> {"Unchecked", "Flash", "Erase"}] /\ NoFiles \in [Rows -> Images \cup {"None"}]
    BY DEF Unmarked, NoFiles
  <2> QED BY <1>2, <2>1 DEF StorageWizard, StorageInv, StorageTypes
<1>4. wizard' = [wizard EXCEPT ![k] = r]
  BY <1>1 DEF ScanBegins
<1> QED BY <1>3, <1>4 DEF StorageInv, StorageTypes

LEMMA AdvConfirmKeeps == ASSUME StorageInv, NEW k \in Wizards, AdvConfirm(k) PROVE StorageInv'
<1>1. /\ Quiet /\ advanced_wizard_open' = k /\ UNCHANGED cableVars /\ screens' = screens
  BY DEF AdvConfirm, Free
<1>2. wizard' \in [Wizards -> StorageWizard]
  <2>1. CASE ~(Prefilled /\ k # "SimpleFlash")
    <3>1. wizard' = [wizard EXCEPT ![k] = Fresh]
      BY <2>1 DEF AdvConfirm
    <3> QED BY <3>1, FreshIsTyped DEF StorageInv, StorageTypes
  <2>2. CASE Prefilled /\ k # "SimpleFlash"
    <3>1. PICK f : f = [Fresh EXCEPT !.source = "Loader"]
      OBVIOUS
    <3>2. f \in StorageWizard
      BY <3>1, FreshIsTyped DEF StorageWizard
    <3>3. apply_default_loader(k)
      BY <2>2 DEF AdvConfirm
    <3>4. CASE k \in PartWizards
      <4>1. ScanBegins(k, f)
        BY <3>1, <3>3, <3>4 DEF apply_default_loader, PartWizards, PhysWizards, ScanBegins
      <4> QED BY <3>2, <4>1, ScanIsTyped
    <3>5. CASE k \in PhysWizards
      <4>1. wizard' = [wizard EXCEPT ![k] = [f EXCEPT !.step = 1]]
        BY <3>1, <3>3, <3>5 DEF apply_default_loader, PartWizards, PhysWizards
      <4>2. [f EXCEPT !.step = 1] \in StorageWizard
        BY <3>2 DEF StorageWizard
      <4> QED BY <4>1, <4>2 DEF StorageInv, StorageTypes
    <3>6. k \in PartWizards \cup PhysWizards
      BY <2>2, StorageAssumption DEF PartWizards, PhysWizards
    <3> QED BY <3>4, <3>5, <3>6
  <2> QED BY <2>1, <2>2
<1> QED BY <1>1, <1>2, PageKeeps DEF StorageInv, StorageTypes

\* The open wizard becomes another record of its type.
LEMMA BecomesIsTyped ==
  ASSUME StorageInv, NEW r \in StorageWizard, Becomes(r) PROVE wizard' \in [Wizards -> StorageWizard]
BY DEF Becomes, StorageInv, StorageTypes

LEMMA OpenIsTyped == ASSUME StorageInv, NEW k, OnPage(k), k # "None" PROVE w \in StorageWizard /\ k \in Wizards /\ Quiet
BY DEF StorageInv, StorageTypes, OnPage, IsOpen, w, Free

LEMMA CloseKeeps == ASSUME StorageInv, NEW k \in Wizards, Close(k) PROVE StorageInv'
<1>1. wizard' \in [Wizards -> StorageWizard]
  BY FreshIsTyped, BecomesIsTyped DEF Close
<1> QED BY <1>1, PageKeeps DEF Close, StorageInv, StorageTypes

LEMMA ScanStartKeeps == ASSUME StorageInv, NEW k \in Wizards, ScanStart(k) PROVE StorageInv'
<1>1. w \in StorageWizard /\ Quiet
  BY OpenIsTyped, StorageAssumption DEF ScanStart, NextOffered
<1>2. wizard' \in [Wizards -> StorageWizard]
  BY <1>1, ScanIsTyped DEF ScanStart
<1> QED BY <1>1, <1>2, PageKeeps DEF ScanStart, StorageInv, StorageTypes

LEMMA ScanDoneKeeps == ASSUME StorageInv, NEW ok \in BOOLEAN, ScanDone(ok) PROVE StorageInv'
<1>1. running /\ polled = "NoPoll" /\ polled' = polled
  BY DEF ScanDone, running, Idle, StorageInv, SnapshotFollows
<1>2. wizard' \in [Wizards -> StorageWizard]
  <2>1. CASE ~ok
    BY <2>1 DEF ScanDone, StorageInv, StorageTypes
  <2>2. CASE ok /\ operation.by \in Wizards
    <3>1. PICK r : r = [wizard[operation.by] EXCEPT !.table = TRUE, !.step = 1]
      OBVIOUS
    <3>2. wizard[operation.by] \in StorageWizard
      BY <2>2 DEF StorageInv, StorageTypes
    <3>3. r \in StorageWizard
      BY <3>1, <3>2 DEF StorageWizard
    <3>4. wizard' = [wizard EXCEPT ![operation.by] = r]
      BY <2>2, <3>1 DEF ScanDone
    <3> QED BY <3>3, <3>4 DEF StorageInv, StorageTypes
  <2>3. CASE operation.by \notin Wizards
    BY <2>3 DEF ScanDone, StorageInv, StorageTypes
  <2> QED BY <2>1, <2>2, <2>3
<1>3. SnapshotFollows'
  BY <1>1 DEF ScanDone, ConnectionAfterScan, SnapshotFollows, running, Idle
<1>4. connection' \in {"Adb", "Edl"} /\ booted' \in {"Adb", "Edl"} /\ stayed' \in BOOLEAN
  BY DEF StorageInv, StorageTypes, ScanDone, ConnectionAfterScan
<1> QED BY <1>1, <1>2, <1>3, <1>4 DEF StorageInv, StorageTypes, ScanDone

LEMMA ToggleKeeps == ASSUME StorageInv, NEW row \in Rows, ToggleRow(row) PROVE StorageInv'
<1>1. /\ UNCHANGED <<advanced_wizard_open, operation, cableVars, screens>> /\ w \in StorageWizard
  BY OpenIsTyped DEF ToggleRow, flash_parts_select_step, dump_parts_select_step, dump_phys_select_step,
     flash_phys_select_step
<1>2. \A p, mark : mark \in {"Unchecked", "Flash", "Erase"} => [w EXCEPT !.marks[p] = mark] \in StorageWizard
  BY <1>1 DEF StorageWizard
<1>3. \E p, mark : mark \in {"Unchecked", "Flash", "Erase"} /\ Becomes([w EXCEPT !.marks[p] = mark])
  <2>1. \A mark : Cycle(mark) \in {"Unchecked", "Flash", "Erase"} /\ Toggle(mark) \in {"Unchecked", "Flash", "Erase"}
    BY DEF Cycle, Toggle
  <2> QED BY <2>1 DEF ToggleRow
<1>4. wizard' \in [Wizards -> StorageWizard]
  BY <1>2, <1>3, BecomesIsTyped
<1> QED BY <1>1, <1>4, PageKeeps DEF StorageInv, StorageTypes

LEMMA ToggleAllKeeps == ASSUME StorageInv, DumpPartsToggleAll \/ SortBy PROVE StorageInv'
<1>1. UNCHANGED <<advanced_wizard_open, operation, cableVars, screens>> /\ w \in StorageWizard
  BY OpenIsTyped DEF DumpPartsToggleAll, SortBy, flash_parts_select_step, dump_parts_select_step
<1>2. CASE DumpPartsToggleAll
  <2>1. PICK mark \in {"Unchecked", "Flash"} : Becomes([w EXCEPT !.marks = [r \in Rows |-> mark]])
    BY <1>2 DEF DumpPartsToggleAll
  <2>2. [w EXCEPT !.marks = [r \in Rows |-> mark]] \in StorageWizard
    BY <1>1 DEF StorageWizard
  <2> QED BY <1>1, <2>1, <2>2, BecomesIsTyped, PageKeeps DEF StorageInv, StorageTypes
<1>3. CASE SortBy
  <2>1. Becomes([w EXCEPT !.desc = ~w.desc])
    BY <1>1, <1>3 DEF SortBy, StorageWizard
  <2>2. [w EXCEPT !.desc = ~w.desc] \in StorageWizard
    BY <1>1 DEF StorageWizard
  <2> QED BY <1>1, <2>1, <2>2, BecomesIsTyped, PageKeeps DEF StorageInv, StorageTypes
<1> QED BY <1>2, <1>3

\* The native dialogs.
LEMMA AskingKeeps == ASSUME StorageInv, NEW k, NEW what, NEW row, NEW about, Asks(k, what, row, about) PROVE StorageInv'
BY PageKeeps DEF Asks, appVars, StorageInv, StorageTypes

LEMMA SelectSourceKeeps == ASSUME StorageInv, NEW k \in Wizards, SelectSource(k) PROVE StorageInv'
<1>1. CASE ~(Prefilled /\ k # "SimpleFlash")
  BY <1>1, AskingKeeps DEF SelectSource
<1>2. CASE Prefilled /\ k # "SimpleFlash"
  <2>1. OnPage(k) /\ Becomes([w EXCEPT !.source = "Loader"])
        /\ UNCHANGED <<advanced_wizard_open, operation, cableVars, screens>>
    BY <1>2 DEF SelectSource, loader_picker_card, simple_flash_intro_step
  <2>2. [w EXCEPT !.source = "Loader"] \in StorageWizard
    BY <2>1, OpenIsTyped, StorageAssumption DEF StorageWizard
  <2> QED BY <2>1, <2>2, BecomesIsTyped, PageKeeps DEF StorageInv, StorageTypes
<1> QED BY <1>1, <1>2

LEMMA PickersKeep ==
  ASSUME StorageInv, (\E row \in Rows : PickRowFile(row)) \/ (\E k \in Wizards : SelectFolder(k)) \/ DialogIsIgnored
  PROVE  StorageInv'
<1>1. CASE \E row \in Rows : PickRowFile(row)
  BY <1>1, AskingKeeps DEF PickRowFile
<1>2. CASE \E k \in Wizards : SelectFolder(k)
  BY <1>2, AskingKeeps DEF SelectFolder
<1>3. CASE DialogIsIgnored
  BY <1>3, PageKeeps DEF DialogIsIgnored, appVars, StorageInv, StorageTypes
<1> QED BY <1>1, <1>2, <1>3

LEMMA LoaderChosenKeeps ==
  ASSUME StorageInv, NEW k \in Wizards, NEW loader \in {"Loader", "None"}, LoaderChosen(k, loader) PROVE StorageInv'
<1>1. PICK r : r = [wizard[k] EXCEPT !.source = loader]
  OBVIOUS
<1>2. r \in StorageWizard
  <2>1. wizard[k] \in StorageWizard
    BY DEF StorageInv, StorageTypes
  <2> QED BY <1>1, <2>1 DEF StorageWizard
<1>3. wizard' = [wizard EXCEPT ![k] = r]
  BY <1>1 DEF LoaderChosen
<1>4. wizard' \in [Wizards -> StorageWizard]
  BY <1>2, <1>3 DEF StorageInv, StorageTypes
<1> QED BY <1>4, PageKeeps DEF LoaderChosen, StorageInv, StorageTypes

\* A row gets an image and a mark.
LEMMA RowIsTyped ==
  ASSUME StorageInv, NEW k, NEW row, NEW image \in Images,
         wizard' = [wizard EXCEPT ![k].files[row] = image, ![k].marks[row] = "Flash"]
  PROVE  wizard' \in [Wizards -> StorageWizard]
<1>1. CASE k \notin Wizards
  BY <1>1 DEF StorageInv, StorageTypes
<1>2. CASE k \in Wizards
  <2>1. PICK r : r = [wizard[k] EXCEPT !.files[row] = image, !.marks[row] = "Flash"]
    OBVIOUS
  <2>2. wizard[k] \in StorageWizard
    BY <1>2 DEF StorageInv, StorageTypes
  <2>3. r = [step |-> wizard[k].step, source |-> wizard[k].source, entry |-> wizard[k].entry,
             table |-> wizard[k].table, marks |-> [wizard[k].marks EXCEPT ![row] = "Flash"],
             files |-> [wizard[k].files EXCEPT ![row] = image], desc |-> wizard[k].desc]
    BY <2>1, <2>2 DEF StorageWizard
  <2>4. r \in StorageWizard
    BY <2>2, <2>3 DEF StorageWizard
  <2>5. wizard' = [wizard EXCEPT ![k] = r]
    BY <1>2, <2>1 DEF StorageInv, StorageTypes
  <2> QED BY <2>4, <2>5 DEF StorageInv, StorageTypes
<1> QED BY <1>1, <1>2

LEMMA RowFileKeeps ==
  ASSUME StorageInv, NEW image \in Images, FlashPartsRowFileChosen(image) \/ FlashPhysRowFileChosen(image)
  PROVE  StorageInv'
<1>1. wizard' \in [Wizards -> StorageWizard]
  <2>1. CASE wizard' = wizard
    BY <2>1 DEF StorageInv, StorageTypes
  <2>2. CASE wizard' # wizard
    <3>1. \/ \E row : wizard' = [wizard EXCEPT !["FlashParts"].files[row] = image, !["FlashParts"].marks[row] = "Flash"]
          \/ \E row : wizard' = [wizard EXCEPT !["FlashPhys"].files[row] = image, !["FlashPhys"].marks[row] = "Flash"]
      BY <2>2 DEF FlashPartsRowFileChosen, FlashPhysRowFileChosen
    <3> QED BY <3>1, RowIsTyped
  <2> QED BY <2>1, <2>2
<1> QED BY <1>1, PageKeeps DEF FlashPartsRowFileChosen, FlashPhysRowFileChosen, StorageInv, StorageTypes

\* A wizard's number changes.
LEMMA StepIsTyped ==
  ASSUME StorageInv, NEW k, NEW n \in Nat, wizard' = [wizard EXCEPT ![k].step = n]
  PROVE  wizard' \in [Wizards -> StorageWizard]
<1>1. CASE k \notin Wizards
  BY <1>1 DEF StorageInv, StorageTypes
<1>2. CASE k \in Wizards
  <2>1. [wizard[k] EXCEPT !.step = n] \in StorageWizard
    <3>1. wizard[k] \in StorageWizard
      BY <1>2 DEF StorageInv, StorageTypes
    <3> QED BY <3>1 DEF StorageWizard
  <2> QED BY <1>2, <2>1 DEF StorageInv, StorageTypes
<1> QED BY <1>1, <1>2

LEMMA FolderChosenKeeps == ASSUME StorageInv, DumpPartsFolderChosen \/ DumpPhysFolderChosen PROVE StorageInv'
<1>1. wizard' \in [Wizards -> StorageWizard]
  BY StepIsTyped DEF DumpPartsFolderChosen, DumpPhysFolderChosen, StorageInv, StorageTypes
<1>2. Quiet /\ UNCHANGED <<advanced_wizard_open, cableVars, screens>>
  BY DEF DumpPartsFolderChosen, DumpPhysFolderChosen, Answered
<1> QED BY <1>1, <1>2, PageKeeps DEF StorageInv, StorageTypes

LEMMA TurnsKeeps == ASSUME StorageInv, NEW k \in Wizards, Turns(k) \/ Back(k) \/ ExecStart(k) PROVE StorageInv'
<1>1. w \in StorageWizard /\ Quiet
  BY OpenIsTyped, StorageAssumption DEF Turns, Back, ExecStart, NextOffered
<1>2. ExecStep(k) \in Nat
  BY DEF ExecStep
<1>3. \A n \in Nat : [w EXCEPT !.step = n] \in StorageWizard
  BY <1>1 DEF StorageWizard
<1>4. CASE Turns(k)
  <2>1. w.step + 1 \in Nat /\ Becomes([w EXCEPT !.step = w.step + 1])
    BY <1>1, <1>4 DEF Turns, StorageWizard
  <2>2. wizard' \in [Wizards -> StorageWizard]
    BY <1>3, <2>1, BecomesIsTyped
  <2> QED BY <1>4, <2>2, PageKeeps DEF Turns, StorageInv, StorageTypes
<1>5. CASE Back(k)
  <2>1. /\ UNCHANGED <<cableVars, screens>> /\ advanced_wizard_open' \in {advanced_wizard_open, "None"}
        /\ Becomes(Fresh) \/ Becomes([w EXCEPT !.step = w.step - 1])
        /\ w.step - 1 \in Nat
    BY <1>1, <1>2, <1>5 DEF Back, StorageWizard
  <2>2. wizard' \in [Wizards -> StorageWizard]
    BY <1>3, <2>1, FreshIsTyped, BecomesIsTyped
  <2> QED BY <1>1, <2>1, <2>2, PageKeeps DEF StorageInv, StorageTypes
<1>6. CASE ExecStart(k)
  <2>1. /\ UNCHANGED <<cableVars, screens, advanced_wizard_open>>
        /\ wizard' = wizard \/ Becomes([w EXCEPT !.step = w.step + 1])
        /\ w.step + 1 \in Nat
    BY <1>1, <1>6 DEF ExecStart, StorageWizard
  <2>2. wizard' \in [Wizards -> StorageWizard]
    BY <1>3, <2>1, BecomesIsTyped DEF StorageInv, StorageTypes
  <2> QED BY <1>1, <2>1, <2>2, PageKeeps DEF StorageInv, StorageTypes
<1> QED BY <1>4, <1>5, <1>6

\* The end of a run and the device.
LEMMA RunEndsKeeps == ASSUME StorageInv, NEW mode \in {"Adb", "Edl"}, RunEnds(mode) PROVE StorageInv'
BY DEF StorageInv, StorageTypes, SnapshotFollows, RunEnds, appVars, running, Idle

LEMMA RebootKeeps == ASSUME StorageInv, NEW mode \in {"Adb", "Edl"}, RebootedByHand(mode) PROVE StorageInv'
BY DEF StorageInv, StorageTypes, SnapshotFollows, RebootedByHand, appVars, running

LEMMA PollsKeep == ASSUME StorageInv, PollDevice \/ DevicePollFinished PROVE StorageInv'
<1>1. CASE PollDevice
  BY <1>1 DEF StorageInv, StorageTypes, SnapshotFollows, PollDevice, can_poll_device, appVars, running
<1>2. CASE DevicePollFinished
  BY <1>2 DEF StorageInv, StorageTypes, SnapshotFollows, DevicePollFinished, appVars, running
<1> QED BY <1>1, <1>2

LEMMA StorageStepKeeps == StorageInv /\ [StorageNext]_storageVars => StorageInv'
<1> SUFFICES ASSUME StorageInv, [StorageNext]_storageVars PROVE StorageInv'
  OBVIOUS
<1>1. CASE UNCHANGED storageVars
  BY <1>1, PageKeeps DEF StorageInv, StorageTypes, storageVars, appVars
<1>2. CASE StorageNext
  BY <1>2, NavigateKeeps, StartOverKeeps, AdvConfirmKeeps, CloseKeeps, ScanStartKeeps, ScanDoneKeeps, ToggleKeeps,
     ToggleAllKeeps, SelectSourceKeeps, PickersKeep, LoaderChosenKeeps, RowFileKeeps, FolderChosenKeeps,
     TurnsKeeps, RunEndsKeeps, RebootKeeps, PollsKeep
  DEF StorageNext
<1> QED BY <1>1, <1>2

\* The inductive invariant of the storage wizards: while the device stays in the
\* mode its table was read in, the snapshot and the polls say so (ScanDone,
\* poll_device_if_allowed, device_poll_finished).
THEOREM SnapshotFollowsTheScan == StorageSpec => []StorageInv
BY StorageInitIsOK, StorageStepKeeps, PTL DEF StorageSpec

\* Only the sidebar's Advanced counts, and it costs no table over EDL and no
\* confirm page (Navigate, advanced_in_progress).
THEOREM BounceIsHarmless == StorageSpec => BounceKeepsPlace
<1>1. ASSUME StorageInv, [StorageNext]_storageVars, screens' # screens,
             \/ advanced_wizard_open \in PartWizards /\ w.table /\ stayed
             \/ /\ advanced_wizard_open \in {"FlashPhys", "SimpleFlash"}
                /\ w.step >= ConfirmStep(advanced_wizard_open)
      PROVE  Place' = Place
  <2>1. \E v \in {"Advanced", "Elsewhere"} : Navigate(v)
    BY <1>1 DEF StorageNext, storageVars, StartOver, AdvConfirm, Close, ScanStart, SelectSource, SelectFolder,
       Turns, Back, ExecStart, LoaderChosen, DumpPartsToggleAll, SortBy, ToggleRow, PickRowFile, Asks,
       FlashPartsRowFileChosen, FlashPhysRowFileChosen, DumpPartsFolderChosen, DumpPhysFolderChosen,
       DialogIsIgnored, ScanDone, RunEnds, RebootedByHand, PollDevice, DevicePollFinished
  <2>2. advanced_in_progress
    <3>1. CASE advanced_wizard_open \in PartWizards /\ w.table /\ stayed
      BY <1>1, <3>1 DEF advanced_in_progress, StorageInv, SnapshotFollows
    <3>2. CASE /\ advanced_wizard_open \in {"FlashPhys", "SimpleFlash"}
               /\ w.step >= ConfirmStep(advanced_wizard_open)
      <4>1. w.step \in Nat
        BY <1>1, <3>2 DEF StorageInv, StorageTypes, StorageWizard, w
      <4> QED BY <3>2, <4>1 DEF advanced_in_progress, ExecSurface, ConfirmStep, ExecStep
    <3> QED BY <1>1, <3>1, <3>2
  <2> QED BY <2>1, <2>2 DEF Navigate, Place
<1> QED BY <1>1, SnapshotFollowsTheScan, PTL DEF StorageSpec, BounceKeepsPlace

-----------------------------------------------------------------------------
(* The tools that build images.                                            *)

Image  == (Markers \cup {"None", "Torn"}) \X BOOLEAN
Folder == [vendor_boot : Image, vbmeta : Image, boot : Nat, vbmeta_system : Nat,
           x : SUBSET Packs, xml : [Packs -> Places \cup {"None", "Torn"}]]
Path   == (Places \cup Picked \cup {"None", "Loader"}) \X {"None", "File", "Folder", "Files"}
Stages == {"Idle", "Check", "Inspect", "Seal", "Vbmeta", "Boot", "SignBoot", "Vbs", "SignVbs",
           "Finish", "Vars", "Dump"}
Regions == {"None", "PRC", "ROW"}
Tool   == Tools \cup {"None"}

AdvPage == [action : Tool, step : Nat, path : Path, region : Regions, country : BOOLEAN,
            index : Nat, inspected : Places \cup {"None"}]
JobType == [tool : Tool, pc : Stages, from : Path, region : Regions, index : Nat]
Outcome == [tool : Tool, ok : BOOLEAN, from : Path, region : Regions, index : Nat,
            report : {"None", "Anti", "Not"}]

ToolsTypeOK ==
  /\ adv_wizard \in AdvPage
  /\ browsing \in {"None", "File", "Folder", "Files"}
  /\ disk \in [Places -> Folder]
  /\ job \in JobType
  /\ outcome \in Outcome
  /\ tablet \in [at : {"System", "Fastboot", "Edl"}, stored : BOOLEAN, model : {"TB320FC", "TB322FC"},
                 seen : {"Adb", "Fastboot", "Edl"}]

\* What each worker has built by the stage it is in.  A source that lies in the
\* output folder is gone once that is cleared.
RegionSoFar ==
  /\ At("RegionConvert", "Inspect") => HasKind("File") /\ job.region # "None" /\ disk["region_convert"] = Empty
  /\ At("RegionConvert", "Seal")    => /\ HasKind("File") /\ job.from[1] # "region_convert"
                                       /\ disk["region_convert"].vendor_boot = <<job.region, FALSE>>
  /\ At("RegionConvert", "Vbmeta")  => /\ HasKind("File") /\ job.from[1] # "region_convert"
                                       /\ disk["region_convert"].vendor_boot = <<job.region, TRUE>>
  /\ At("RegionConvert", "Finish")  => /\ disk["region_convert"].vendor_boot = <<job.region, TRUE>>
                                       /\ disk["region_convert"].vbmeta[2] => disk["region_convert"].vbmeta[1] = job.region
ArbSoFar ==
  /\ job.tool = "PatchArb" /\ job.pc \in {"Boot", "SignBoot", "Vbs"} => HasKind("Folder")
  /\ job.tool = "PatchArb" /\ job.pc \in {"Vbs", "SignVbs", "Finish"} => disk["rb"].boot = job.index
  /\ At("PatchArb", "Finish") => disk["rb"].vbmeta_system = job.index
VbmetaSoFar ==
  At("RebuildVbmeta", "Finish") =>
    LET signed == IF From.vendor_boot = NoImage /\ From.boot = 0 THEN From ELSE disk["rebuild_vbmeta"] IN
    /\ Whole(signed.vbmeta)
    /\ From.vendor_boot # NoImage => signed.vbmeta[1] = From.vendor_boot[1]
SoFar ==
  /\ job.tool # "None" => outcome = NoOutcome
  /\ job.pc = "Finish" => job.tool \in {"RegionConvert", "PatchArb", "RebuildVbmeta"}
  /\ RegionSoFar /\ ArbSoFar /\ VbmetaSoFar

ToolsInv == ToolsTypeOK /\ SoFar /\ OkMeansBuilt

-----------------------------------------------------------------------------
LEMMA FoldersTyped ==
  /\ NoImage \in Image /\ Broken \in Image /\ Empty \in Folder
  /\ \A region \in Markers : Stock(region) \in Folder
  /\ Folders \subseteq Folder
<1>1. NoImage \in Image /\ Broken \in Image
  BY DEF NoImage, Broken, Image
<1>2. Empty \in Folder
  BY <1>1 DEF Empty, Folder
<1>3. ASSUME NEW region \in Markers PROVE Stock(region) \in Folder
  <2>1. <<region, TRUE>> \in Image
    BY DEF Image
  <2> QED BY <2>1, <1>2 DEF Stock, Folder
<1>4. Folders \subseteq Folder
  <2>1. <<"ROW", TRUE>> \in Image /\ <<"PRC", FALSE>> \in Image
    BY DEF Image, Markers
  <2>2. {"PRC", "Mixed", "Unknown"} \subseteq Markers
    BY DEF Markers
  <2>3. [Empty EXCEPT !.vbmeta = <<"ROW", TRUE>>] \in Folder
    BY <2>1, <1>2 DEF Folder
  <2>4. [Stock("Mixed") EXCEPT !.vbmeta = <<"PRC", FALSE>>, !.boot = 1] \in Folder
    BY <2>1, <2>2, <1>3 DEF Folder
  <2>5. [Stock("Unknown") EXCEPT !.vbmeta_system = 0, !.x = {}] \in Folder
    BY <2>1, <2>2, <1>3 DEF Folder
  <2> QED BY <2>3, <2>4, <2>5, <2>2, <1>2, <1>3 DEF Folders
<1> QED BY <1>1, <1>2, <1>3, <1>4

LEMMA PlacesAre ==
  /\ {"region_convert", "rb", "convert_xml", "rebuild_vbmeta"} \subseteq Places
  /\ OutputOf("RegionConvert") = "region_convert" /\ OutputOf("PatchArb") = "rb"
  /\ OutputOf("ConvertXml") = "convert_xml" /\ OutputOf("RebuildVbmeta") = "rebuild_vbmeta"
  /\ NoPath \in Path /\ Loader \in Path
BY DEF Places, OutputOf, Builders, NoPath, Loader, Path

LEMMA InitTools == ToolsInit => ToolsInv
<1> SUFFICES ASSUME ToolsInit PROVE ToolsInv
  OBVIOUS
<1>1. disk \in [Places -> Folder]
  BY FoldersTyped DEF ToolsInit
<1>2. ToolsTypeOK
  BY <1>1, PlacesAre DEF ToolsInit, ToolsTypeOK, AdvPage, JobType, Outcome, Closed, NoJob, NoOutcome, Tool, Stages, Regions
<1>3. SoFar /\ OkMeansBuilt
  BY DEF ToolsInit, SoFar, RegionSoFar, ArbSoFar, VbmetaSoFar, OkMeansBuilt, At, NoJob, NoOutcome
<1> QED BY <1>2, <1>3 DEF ToolsInv

\* What the wizard does leaves the folders, and starts a job at its first stage.
LEMMA ToolsUntouched ==
  ASSUME ToolsInv, NoRunNow,
         adv_wizard' \in AdvPage,
         browsing' \in {"None", "File", "Folder", "Files"}
  PROVE  ToolsInv'
<1>1. ToolsTypeOK'
  BY DEF ToolsInv, ToolsTypeOK, NoRunNow
<1>2. SoFar' /\ OkMeansBuilt'
  BY DEF ToolsInv, NoRunNow, SoFar, RegionSoFar, ArbSoFar, VbmetaSoFar, OkMeansBuilt, At, From, HasKind,
         is_rollback_protected_model
<1> QED BY <1>1, <1>2 DEF ToolsInv

LEMMA RunStarts ==
  ASSUME ToolsInv, Runs(adv_wizard.action), adv_wizard.action # "None",
         adv_wizard' \in AdvPage,
         browsing' = browsing
  PROVE  ToolsInv'
<1>1. job' \in JobType /\ job'.pc = "Check"
  BY DEF Runs, ToolsInv, ToolsTypeOK, Stages, AdvPage, JobType
<1>2. outcome' = NoOutcome /\ disk' = disk /\ tablet' = tablet
  BY DEF Runs
<1>3. ToolsTypeOK'
  BY <1>1, <1>2, PlacesAre DEF ToolsInv, ToolsTypeOK, Outcome, NoOutcome, Tool, Regions
<1>4. SoFar' /\ OkMeansBuilt'
  BY <1>1, <1>2 DEF SoFar, RegionSoFar, ArbSoFar, VbmetaSoFar, OkMeansBuilt, At, NoOutcome
<1> QED BY <1>3, <1>4 DEF ToolsInv

\* What an answer changes in the wizard.
LEMMA AnswerTyped ==
  ASSUME NEW page \in AdvPage
  PROVE  /\ \A n \in Nat : [page EXCEPT !.step = n] \in AdvPage /\ [page EXCEPT !.index = n] \in AdvPage
         /\ \A path \in Path : [page EXCEPT !.path = path] \in AdvPage
         /\ \A region \in Regions : [page EXCEPT !.region = region] \in AdvPage
         /\ [page EXCEPT !.country = TRUE] \in AdvPage
         /\ \A place \in Places : [page EXCEPT !.inspected = place] \in AdvPage
         /\ page.step \in Nat /\ page.path \in Path
BY DEF AdvPage

LEMMA ToolsWizard == ASSUME ToolsInv, WizardSteps PROVE ToolsInv'
<1>1. adv_wizard \in AdvPage /\ browsing \in {"None", "File", "Folder", "Files"}
  BY DEF ToolsInv, ToolsTypeOK
<1>2. Closed \in AdvPage /\ (\A tool \in Tools : Opened(tool) \in AdvPage)
  BY PlacesAre DEF AdvPage, Closed, Opened, Tool, Regions
<1>3. CASE \E tool \in Tools : AdvWizOpen(tool)
  <2>1. PICK tool \in Tools : AdvWizOpen(tool)
    BY <1>3
  <2>2. PICK path \in {NoPath, Loader} : adv_wizard' = [Opened(tool) EXCEPT !.path = path]
    BY <2>1 DEF AdvWizOpen
  <2>3. adv_wizard' \in AdvPage
    BY <2>2, <1>2, PlacesAre, AnswerTyped
  <2> QED BY <2>1, <2>3, <1>1, ToolsUntouched DEF AdvWizOpen
<1>4. CASE AdvWizBack \/ NavigateAdvanced
  <2>1. adv_wizard' = Closed \/ (adv_wizard.step # 0 /\ adv_wizard' = [adv_wizard EXCEPT !.step = @ - 1])
    BY <1>4 DEF AdvWizBack, NavigateAdvanced
  <2>2. adv_wizard' \in AdvPage
    BY <2>1, <1>2, <1>1 DEF AdvPage
  <2> QED BY <1>4, <2>2, <1>1, ToolsUntouched DEF AdvWizBack, NavigateAdvanced
<1>5. CASE StartToolsOver
  <2>1. adv_wizard' = Closed /\ outcome' = NoOutcome /\ UNCHANGED <<browsing, disk, job, tablet>>
    BY <1>5 DEF StartToolsOver
  <2>2. ToolsTypeOK'
    BY <2>1, <1>2, <1>1, PlacesAre DEF ToolsInv, ToolsTypeOK, Outcome, NoOutcome, Tool, Regions
  <2>3. SoFar' /\ OkMeansBuilt'
    BY <2>1 DEF ToolsInv, SoFar, RegionSoFar, ArbSoFar, VbmetaSoFar, OkMeansBuilt, At, NoOutcome, From, HasKind
  <2> QED BY <2>2, <2>3 DEF ToolsInv
<1>6. CASE Browse
  <2>1. browsing' \in {"None", "File", "Folder", "Files"} /\ adv_wizard' = adv_wizard
    BY <1>6 DEF Browse
  <2> QED BY <2>1, <1>6, <1>1, ToolsUntouched DEF Browse
<1>7. CASE \E place \in Picked : BrowseDone(place)
  <2>1. PICK place \in Picked : BrowseDone(place)
    BY <1>7
  <2>2. <<place, browsing>> \in Path
    BY <1>1 DEF Path
  <2>3. \/ adv_wizard' = adv_wizard
        \/ \E path \in {NoPath, <<place, browsing>>} : adv_wizard' = [adv_wizard EXCEPT !.path = path]
    BY <2>1 DEF BrowseDone
  <2>4. adv_wizard' \in AdvPage
    BY <2>2, <2>3, <1>1, PlacesAre, AnswerTyped
  <2>5. browsing' = "None"
    BY <2>1 DEF BrowseDone
  <2> QED BY <2>1, <2>4, <2>5, ToolsUntouched DEF BrowseDone
<1>8. CASE Dismiss \/ (\E which \in {"Country", "Region"} : OpenPopup(which)) \/ ClickNext \/ DropNext \/ NextAsksIndex
  <2>1. UNCHANGED <<adv_wizard, browsing>> /\ NoRunNow
    BY <1>8 DEF Dismiss, OpenPopup, ClickNext, DropNext, NextAsksIndex
  <2> QED BY <2>1, <1>1, ToolsUntouched
<1>9. CASE \/ SelectCountry \/ (\E region \in {"PRC", "ROW"} : SelectRegionTarget(region))
           \/ (\E index \in Indices : AdvWizArbIndexConfirm(index))
  <2>1. adv_wizard' \in AdvPage
    <3>1. CASE SelectCountry
      BY <3>1, <1>1, AnswerTyped DEF SelectCountry
    <3>2. CASE \E region \in {"PRC", "ROW"} : SelectRegionTarget(region)
      BY <3>2, <1>1 DEF SelectRegionTarget, Regions, AdvPage
    <3>3. CASE \E index \in Indices : AdvWizArbIndexConfirm(index)
      <4>1. PICK index \in Nat : adv_wizard' = [adv_wizard EXCEPT !.index = index, !.step = @ + 1]
        BY <3>3, ToolsAssumption DEF AdvWizArbIndexConfirm
      <4>2. adv_wizard' = [action |-> adv_wizard.action, step |-> adv_wizard.step + 1, path |-> adv_wizard.path,
                           region |-> adv_wizard.region, country |-> adv_wizard.country, index |-> index,
                           inspected |-> adv_wizard.inspected]
        BY <4>1, <1>1 DEF AdvPage
      <4> QED BY <4>2, <1>1 DEF AdvPage
    <3> QED BY <1>9, <3>1, <3>2, <3>3
  <2>2. UNCHANGED browsing /\ NoRunNow
    BY <1>9 DEF SelectCountry, SelectRegionTarget, AdvWizArbIndexConfirm
  <2> QED BY <2>1, <2>2, <1>1, ToolsUntouched
<1>10. CASE NextInspects \/ NextAfterCountry \/ NextTurns
  <2>1. adv_wizard' \in AdvPage
    <3>1. CASE NextInspects
      BY <3>1, <1>1 DEF NextInspects, HoldsPair, AdvPage
    <3>2. CASE NextAfterCountry
      <4>1. Advance(1) \/ adv_wizard' = [adv_wizard EXCEPT !.path = Loader, !.step = 2]
        BY <3>2 DEF NextAfterCountry
      <4>2. Loader \in Path
        BY PlacesAre
      <4>3. CASE Advance(1)
        BY <4>3, <1>1 DEF Advance, AdvPage
      <4>4. CASE adv_wizard' = [adv_wizard EXCEPT !.path = Loader, !.step = 2]
        BY <4>2, <4>4, <1>1 DEF AdvPage
      <4> QED BY <4>1, <4>3, <4>4
    <3>3. CASE NextTurns
      BY <3>3, <1>1 DEF NextTurns, Advance, AdvPage
    <3> QED BY <1>10, <3>1, <3>2, <3>3
  <2>2. UNCHANGED browsing /\ NoRunNow
    BY <1>10 DEF NextInspects, NextAfterCountry, NextTurns
  <2> QED BY <2>1, <2>2, <1>1, ToolsUntouched
<1>11. CASE NextStarts \/ NextConfirms
  <2>1. adv_wizard' = adv_wizard \/ Advance(1)
    BY <1>11 DEF NextStarts, NextConfirms
  <2>2. adv_wizard' \in AdvPage
    BY <2>1, <1>1 DEF Advance, AdvPage
  <2>3. UNCHANGED browsing /\ adv_wizard.action # "None" /\ (NoRunNow \/ Runs(adv_wizard.action))
    BY <1>11 DEF NextStarts, NextConfirms, Queued
  <2> QED BY <2>2, <2>3, <1>1, ToolsUntouched, RunStarts
<1> QED BY <1>3, <1>4, <1>5, <1>6, <1>7, <1>8, <1>9, <1>10, <1>11 DEF WizardSteps

\* A worker's step writes one file of a folder, or none, and then goes on or ends.
LEMMA JobEnds ==
  ASSUME ToolsTypeOK, NEW ok \in BOOLEAN, NEW report \in {"None", "Anti", "Not"}, Reports(ok, report)
  PROVE  /\ job' = NoJob
         /\ outcome' = [tool |-> job.tool, ok |-> ok, from |-> job.from, region |-> job.region,
                        index |-> job.index, report |-> report]
         /\ job' \in JobType /\ outcome' \in Outcome
BY PlacesAre DEF Reports, ToolsTypeOK, JobType, Outcome, NoJob, Tool, Stages, Regions

LEMMA JobGoes ==
  ASSUME ToolsTypeOK, NEW pc \in Stages, Goto(pc)
  PROVE  /\ job' = [tool |-> job.tool, pc |-> pc, from |-> job.from, region |-> job.region, index |-> job.index]
         /\ outcome' = outcome
         /\ job' \in JobType
BY DEF Goto, ToolsTypeOK, JobType

\* A worker that gives up leaves nothing to keep.
LEMMA JobFails ==
  ASSUME ToolsInv, Refuse, Working, disk' \in [Places -> Folder]
  PROVE  ToolsInv'
<1> ToolsTypeOK /\ Reports(FALSE, "None")
  BY DEF ToolsInv, Refuse
<1>1. /\ job' = NoJob /\ job' \in JobType /\ outcome' \in Outcome
      /\ outcome' = [tool |-> job.tool, ok |-> FALSE, from |-> job.from, region |-> job.region,
                     index |-> job.index, report |-> "None"]
  BY JobEnds
<1>2. ToolsTypeOK'
  BY <1>1 DEF ToolsTypeOK, Working, pageVars
<1>3. SoFar' /\ OkMeansBuilt'
  BY <1>1 DEF SoFar, RegionSoFar, ArbSoFar, VbmetaSoFar, OkMeansBuilt, At, NoJob
<1> QED BY <1>2, <1>3 DEF ToolsInv

LEMMA JobDone ==
  ASSUME ToolsInv, Reports(TRUE, "None"), Working, disk' \in [Places -> Folder], OkMeansBuilt'
  PROVE  ToolsInv'
<1> ToolsTypeOK
  BY DEF ToolsInv
<1>1. job' = NoJob /\ job' \in JobType /\ outcome' \in Outcome
  BY JobEnds
<1>2. ToolsTypeOK'
  BY <1>1 DEF ToolsTypeOK, Working, pageVars
<1>3. SoFar'
  BY <1>1 DEF SoFar, RegionSoFar, ArbSoFar, VbmetaSoFar, At, NoJob
<1> QED BY <1>2, <1>3 DEF ToolsInv

\* A worker that goes on has still reported nothing.
LEMMA JobOn ==
  ASSUME ToolsInv, job.tool # "None", NEW pc \in Stages, Goto(pc), Working, disk' \in [Places -> Folder],
         pc = "Finish" => job.tool \in {"RegionConvert", "PatchArb", "RebuildVbmeta"},
         RegionSoFar', ArbSoFar', VbmetaSoFar'
  PROVE  ToolsInv'
<1>1. /\ job' = [tool |-> job.tool, pc |-> pc, from |-> job.from, region |-> job.region, index |-> job.index]
      /\ outcome' = outcome
      /\ job' \in JobType
  BY JobGoes DEF ToolsInv
<1>2. ToolsTypeOK'
  BY <1>1 DEF ToolsInv, ToolsTypeOK, Working, pageVars
<1>3. outcome' = NoOutcome
  BY <1>1 DEF ToolsInv, SoFar
<1>4. SoFar' /\ OkMeansBuilt'
  BY <1>1, <1>3 DEF SoFar, OkMeansBuilt, NoOutcome
<1> QED BY <1>2, <1>4 DEF ToolsInv

\* What one write leaves in the folders.
LEMMA FileWritten ==
  ASSUME ToolsTypeOK, NEW place \in Places, NEW content
  PROVE  /\ content \in Image => /\ [disk EXCEPT ![place]["vendor_boot"] = content] \in [Places -> Folder]
                                 /\ [disk EXCEPT ![place]["vbmeta"] = content] \in [Places -> Folder]
         /\ content \in Nat => /\ [disk EXCEPT ![place]["boot"] = content] \in [Places -> Folder]
                               /\ [disk EXCEPT ![place]["vbmeta_system"] = content] \in [Places -> Folder]
<1> disk \in [Places -> Folder] /\ disk[place] \in Folder
  BY DEF ToolsTypeOK
<1>1. ASSUME content \in Image
      PROVE  /\ [disk[place] EXCEPT !.vendor_boot = content] \in Folder
             /\ [disk[place] EXCEPT !.vbmeta = content] \in Folder
  BY <1>1 DEF Folder
<1>2. ASSUME content \in Nat
      PROVE  /\ [disk[place] EXCEPT !.boot = content] \in Folder
             /\ [disk[place] EXCEPT !.vbmeta_system = content] \in Folder
  BY <1>2 DEF Folder
<1> QED BY <1>1, <1>2

LEMMA ConvertXmlKeeps == ASSUME ToolsInv, ConvertXml PROVE ToolsInv'
<1> USE DEF ToolsInv
<1>1. Working /\ At("ConvertXml", "Check")
  BY DEF ConvertXml
<1>2. disk \in [Places -> Folder] /\ "convert_xml" \in Places /\ disk["convert_xml"] \in Folder
  BY PlacesAre DEF ToolsTypeOK
<1>3. CASE Refuse /\ UNCHANGED disk
  BY <1>3, <1>1, <1>2, JobFails
<1> DEFINE Xml(done) == [p \in Packs |-> IF p \in done THEN job.from[1] ELSE disk["convert_xml"].xml[p]]
<1>4. CASE HasKind("Folder") /\ ~(Refuse /\ UNCHANGED disk)
  <2>1. job.from[1] \in Places /\ From \in Folder
    BY <1>4, <1>2 DEF HasKind, From
  <2>2. \A done \in SUBSET From.x : Xml(done) \in [Packs -> Places \cup {"None", "Torn"}]
    BY <1>2, <2>1 DEF Folder
  <2>3. ASSUME NEW xml \in [Packs -> Places \cup {"None", "Torn"}]
        PROVE  /\ [disk EXCEPT !["convert_xml"].xml = xml] \in [Places -> Folder]
               /\ [disk EXCEPT !["convert_xml"].xml = xml]["convert_xml"].xml = xml
               /\ \A p \in Places : [disk EXCEPT !["convert_xml"].xml = xml][p].x = disk[p].x
    <3>1. [disk["convert_xml"] EXCEPT !.xml = xml] \in Folder
      BY <1>2 DEF Folder
    <3>2. [disk["convert_xml"] EXCEPT !.xml = xml].xml = xml /\ [disk["convert_xml"] EXCEPT !.xml = xml].x = disk["convert_xml"].x
      BY <1>2 DEF Folder
    <3> QED BY <3>1, <3>2, <1>2
  <2>4. CASE disk' = [disk EXCEPT !["convert_xml"].xml = Xml(From.x)] /\ Done
    <3>1. Xml(From.x) \in [Packs -> Places \cup {"None", "Torn"}]
      BY <2>1, <2>2
    <3>2. outcome' = [tool |-> "ConvertXml", ok |-> TRUE, from |-> job.from, region |-> job.region,
                      index |-> job.index, report |-> "None"]
      BY <2>4, <1>1, JobEnds DEF Done, At
    <3>3. disk' \in [Places -> Folder] /\ disk'["convert_xml"].xml = Xml(From.x) /\ disk'[job.from[1]].x = From.x
      BY <3>1, <2>1, <2>3, <2>4 DEF From
    <3>4. From.x \subseteq Packs
      BY <2>1 DEF Folder
    <3>5. OkMeansBuilt'
      BY <3>2, <3>3, <3>4, PlacesAre DEF OkMeansBuilt
    <3> QED BY <3>3, <3>5, <2>4, <1>1, JobDone DEF Done
  <2>5. CASE Refuse /\ \E done \in SUBSET From.x, last \in From.x :
               disk' = [disk EXCEPT !["convert_xml"].xml = [Xml(done) EXCEPT ![last] = "Torn"]]
    <3>1. PICK done \in SUBSET From.x, last \in From.x :
            disk' = [disk EXCEPT !["convert_xml"].xml = [Xml(done) EXCEPT ![last] = "Torn"]]
      BY <2>5
    <3>2. [Xml(done) EXCEPT ![last] = "Torn"] \in [Packs -> Places \cup {"None", "Torn"}]
      BY <2>2
    <3>3. disk' \in [Places -> Folder]
      BY <3>1, <3>2, <2>3
    <3> QED BY <3>3, <1>1, <1>4, <2>5, JobFails
  <2> QED BY <1>4, <2>4, <2>5 DEF ConvertXml
<1> QED BY <1>3, <1>4 DEF ConvertXml

\* What a write that breaks off, or works out, means for the worker.
LEMMA WritesFails ==
  ASSUME ToolsInv, NEW place \in Places, NEW name \in {"vendor_boot", "vbmeta", "boot", "vbmeta_system"},
         NEW torn, name \in {"vendor_boot", "vbmeta"} => torn = Broken,
         name \in {"boot", "vbmeta_system"} => torn = 0,
         disk' = [disk EXCEPT ![place][name] = torn], Refuse, Working
  PROVE  ToolsInv'
<1>1. disk' \in [Places -> Folder]
  BY FileWritten, FoldersTyped DEF ToolsInv
<1> QED BY <1>1, JobFails

LEMMA FileHolds ==
  ASSUME ToolsTypeOK, NEW place \in Places, NEW name \in {"vendor_boot", "vbmeta", "boot", "vbmeta_system"},
         NEW content, disk' = [disk EXCEPT ![place][name] = content]
  PROVE  /\ name = "vendor_boot" => disk'[place].vendor_boot = content
         /\ name = "vbmeta" => disk'[place].vbmeta = content
         /\ name = "boot" => disk'[place].boot = content
         /\ name = "vbmeta_system" => disk'[place].vbmeta_system = content
         /\ name # "vendor_boot" => disk'[place].vendor_boot = disk[place].vendor_boot
         /\ name # "vbmeta" => disk'[place].vbmeta = disk[place].vbmeta
         /\ name # "boot" => disk'[place].boot = disk[place].boot
         /\ \A p \in Places \ {place} : disk'[p] = disk[p]
<1> disk \in [Places -> Folder] /\ disk[place] \in Folder
  BY DEF ToolsTypeOK
<1>1. disk'[place] = [disk[place] EXCEPT ![name] = content] /\ \A p \in Places \ {place} : disk'[p] = disk[p]
  OBVIOUS
<1> QED BY <1>1 DEF Folder

LEMMA RegionToolKeeps == ASSUME ToolsInv, RegionClears \/ RegionInspects \/ RegionSeals \/ RegionPins PROVE ToolsInv'
<1> ToolsTypeOK /\ SoFar /\ "region_convert" \in Places
  BY PlacesAre DEF ToolsInv
<1>1. Working /\ job.tool = "RegionConvert"
  BY DEF RegionClears, RegionInspects, RegionSeals, RegionPins, At
<1>2. disk \in [Places -> Folder]
  BY DEF ToolsTypeOK
<1>3. <<job.region, FALSE>> \in Image /\ <<job.region, TRUE>> \in Image
  <2>1. job.region \in Markers \cup {"None", "Torn"}
    BY DEF ToolsTypeOK, Regions, JobType, Markers
  <2> QED BY <2>1 DEF Image
<1>4. CASE Refuse /\ UNCHANGED disk
  BY <1>4, <1>1, <1>2, JobFails
<1>5. CASE RegionClears /\ ~(Refuse /\ UNCHANGED disk)
  <2>1. CASE disk' = [disk EXCEPT !["region_convert"].vbmeta = NoImage] /\ Refuse
    <3>1. disk' \in [Places -> Folder]
      BY <2>1, FoldersTyped DEF ToolsTypeOK, Folder
    <3> QED BY <3>1, <2>1, <1>1, JobFails
  <2>2. CASE disk' = [disk EXCEPT !["region_convert"] = Empty] /\ Goto("Inspect")
    <3>1. disk' \in [Places -> Folder] /\ disk'["region_convert"] = Empty
      BY <2>2, <1>2, FoldersTyped
    <3>2. job.region # "None" /\ HasKind("File")
      BY <1>5 DEF RegionClears
    <3>3. job' = [tool |-> job.tool, pc |-> "Inspect", from |-> job.from, region |-> job.region, index |-> job.index]
      BY <2>2, JobGoes DEF Stages
    <3>4. RegionSoFar' /\ ArbSoFar' /\ VbmetaSoFar'
      BY <3>1, <3>2, <3>3, <1>1 DEF RegionSoFar, ArbSoFar, VbmetaSoFar, At, HasKind
    <3> QED BY <3>1, <3>4, <2>2, <1>1, JobOn DEF Stages
  <2> QED BY <1>5, <2>1, <2>2 DEF RegionClears
<1>6. CASE RegionInspects /\ ~(Refuse /\ UNCHANGED disk)
  <2> DEFINE image == From.vendor_boot
  <2>1. HasKind("File") /\ job.region # "None" /\ disk["region_convert"] = Empty /\ Whole(image) /\ job.pc = "Inspect"
    BY <1>6, <1>1 DEF RegionInspects, SoFar, RegionSoFar, At
  <2>2. job.from[1] # "region_convert" /\ job.from[1] \in Places
    BY <2>1 DEF Whole, From, HasKind, Empty
  <2>3. CASE Matches(image, job.region) /\ Done /\ UNCHANGED disk
    <3>1. outcome' = [tool |-> "RegionConvert", ok |-> TRUE, from |-> job.from, region |-> job.region,
                      index |-> job.index, report |-> "None"]
      BY <2>3, <1>1, JobEnds DEF Done
    <3>2. OkMeansBuilt'
      BY <3>1, <2>1, <2>3, PlacesAre DEF OkMeansBuilt, From
    <3> QED BY <3>2, <2>3, <1>1, <1>2, JobDone DEF Done
  <2>4. CASE disk' = [disk EXCEPT !["region_convert"]["vendor_boot"] = <<job.region, FALSE>>] /\ Goto("Seal")
    <3>1. disk' \in [Places -> Folder]
      BY <1>3, <2>4, FileWritten
    <3>2. disk'["region_convert"].vendor_boot = <<job.region, FALSE>>
      BY <2>4, FileHolds
    <3>3. job' = [tool |-> job.tool, pc |-> "Seal", from |-> job.from, region |-> job.region, index |-> job.index]
      BY <2>4, JobGoes DEF Stages
    <3>4. RegionSoFar' /\ ArbSoFar' /\ VbmetaSoFar'
      BY <3>2, <3>3, <2>1, <2>2, <1>1 DEF RegionSoFar, ArbSoFar, VbmetaSoFar, At, HasKind
    <3> QED BY <3>1, <3>4, <2>4, <1>1, JobOn DEF Stages
  <2>5. CASE disk' = [disk EXCEPT !["region_convert"]["vendor_boot"] = Broken] /\ Refuse
    BY <2>5, <1>1, WritesFails
  <2> QED BY <1>6, <2>3, <2>4, <2>5 DEF RegionInspects, Writes
<1>7. CASE RegionSeals
  <2>1. /\ HasKind("File") /\ job.from[1] # "region_convert" /\ job.pc = "Seal"
        /\ disk["region_convert"].vendor_boot = <<job.region, FALSE>>
    BY <1>7, <1>1 DEF RegionSeals, SoFar, RegionSoFar, At
  <2>2. CASE disk' = [disk EXCEPT !["region_convert"]["vendor_boot"] = <<job.region, TRUE>>] /\ Goto("Vbmeta")
    <3>1. disk' \in [Places -> Folder]
      BY <1>3, <2>2, FileWritten
    <3>2. disk'["region_convert"].vendor_boot = <<job.region, TRUE>>
      BY <2>2, FileHolds
    <3>3. job' = [tool |-> job.tool, pc |-> "Vbmeta", from |-> job.from, region |-> job.region, index |-> job.index]
      BY <2>2, JobGoes DEF Stages
    <3>4. RegionSoFar' /\ ArbSoFar' /\ VbmetaSoFar'
      BY <3>2, <3>3, <2>1, <1>1 DEF RegionSoFar, ArbSoFar, VbmetaSoFar, At, HasKind
    <3> QED BY <3>1, <3>4, <2>2, <1>1, JobOn DEF Stages
  <2>3. CASE disk' = [disk EXCEPT !["region_convert"]["vendor_boot"] = Broken] /\ Refuse
    BY <2>3, <1>1, WritesFails
  <2> QED BY <1>7, <2>2, <2>3 DEF RegionSeals, Writes
<1>8. CASE RegionPins /\ ~(Refuse /\ UNCHANGED disk)
  <2> DEFINE pinned == IF From.vbmeta[2] THEN <<disk["region_convert"].vendor_boot[1], TRUE>> ELSE From.vbmeta
  <2>1. /\ HasKind("File") /\ job.from[1] # "region_convert" /\ job.pc = "Vbmeta"
        /\ disk["region_convert"].vendor_boot = <<job.region, TRUE>>
    BY <1>8, <1>1 DEF RegionPins, SoFar, RegionSoFar, At
  <2>2. pinned \in Image /\ (pinned[2] => pinned[1] = job.region)
    <3>1. From.vbmeta \in Image
      BY <1>2, <2>1 DEF Folder, From, HasKind
    <3>2. From.vbmeta[2] \in BOOLEAN
      BY <3>1 DEF Image
    <3>3. CASE From.vbmeta[2]
      BY <3>3, <1>3, <2>1
    <3>4. CASE ~From.vbmeta[2]
      BY <3>4, <3>1
    <3> QED BY <3>2, <3>3, <3>4
  <2>3. CASE disk' = [disk EXCEPT !["region_convert"]["vbmeta"] = pinned] /\ Goto("Finish")
    <3>1. disk' \in [Places -> Folder]
      BY <2>2, <2>3, FileWritten
    <3>2. disk'["region_convert"].vbmeta = pinned /\ disk'["region_convert"].vendor_boot = <<job.region, TRUE>>
      <4> HIDE DEF pinned
      <4> QED BY <2>1, <2>3, FileHolds
    <3>3. job' = [tool |-> job.tool, pc |-> "Finish", from |-> job.from, region |-> job.region, index |-> job.index]
      BY <2>3, JobGoes DEF Stages
    <3>4. RegionSoFar' /\ ArbSoFar' /\ VbmetaSoFar'
      BY <3>2, <3>3, <2>2, <1>1 DEF RegionSoFar, ArbSoFar, VbmetaSoFar, At, HasKind
    <3> QED BY <3>1, <3>4, <2>3, <1>1, JobOn DEF Stages
  <2>4. CASE disk' = [disk EXCEPT !["region_convert"]["vbmeta"] = Broken] /\ Refuse
    BY <2>4, <1>1, WritesFails
  <2> QED BY <1>8, <2>3, <2>4 DEF RegionPins, Writes
<1> QED BY <1>4, <1>5, <1>6, <1>7, <1>8

LEMMA ArbKeeps ==
  ASSUME ToolsInv,
         \/ ArbChecks
         \/ ArbCopies("boot", "Boot", "SignBoot") \/ ArbSigns("boot", "SignBoot", "Vbs")
         \/ ArbCopies("vbmeta_system", "Vbs", "SignVbs") \/ ArbSigns("vbmeta_system", "SignVbs", "Finish")
  PROVE  ToolsInv'
<1> ToolsTypeOK /\ SoFar /\ "rb" \in Places
  BY PlacesAre DEF ToolsInv
<1>1. Working /\ job.tool = "PatchArb"
  BY DEF ArbChecks, ArbCopies, ArbSigns, At
<1>2. disk \in [Places -> Folder] /\ job.index \in Nat
  BY DEF ToolsTypeOK, JobType
<1>3. CASE Refuse /\ UNCHANGED disk
  BY <1>3, <1>1, <1>2, JobFails
<1>4. CASE ArbChecks /\ ~(Refuse /\ UNCHANGED disk)
  <2>1. Goto("Boot") /\ UNCHANGED disk /\ HasKind("Folder")
    BY <1>4 DEF ArbChecks, HoldsPair, HasKind
  <2>2. job' = [tool |-> job.tool, pc |-> "Boot", from |-> job.from, region |-> job.region, index |-> job.index]
    BY <2>1, JobGoes DEF Stages
  <2>3. RegionSoFar' /\ ArbSoFar' /\ VbmetaSoFar'
    BY <2>1, <2>2, <1>1 DEF RegionSoFar, ArbSoFar, VbmetaSoFar, At, HasKind
  <2> QED BY <2>1, <2>3, <1>1, <1>2, JobOn DEF Stages
<1>5. ASSUME NEW name \in {"boot", "vbmeta_system"}, NEW then \in Stages, NEW content \in Nat,
             disk' = [disk EXCEPT !["rb"][name] = content], Goto(then),
             \/ name = "boot" /\ job.pc = "Boot" /\ then = "SignBoot"
             \/ name = "boot" /\ job.pc = "SignBoot" /\ then = "Vbs" /\ content = job.index
             \/ name = "vbmeta_system" /\ job.pc = "Vbs" /\ then = "SignVbs"
             \/ name = "vbmeta_system" /\ job.pc = "SignVbs" /\ then = "Finish" /\ content = job.index,
             then \in {"SignBoot", "Vbs"} => HasKind("Folder")
      PROVE  ToolsInv'
  <2>1. disk' \in [Places -> Folder]
    BY <1>5, FileWritten
  <2>2. /\ name = "boot" => disk'["rb"].boot = content
        /\ name = "vbmeta_system" => disk'["rb"].vbmeta_system = content /\ disk'["rb"].boot = disk["rb"].boot
    BY <1>5, FileHolds
  <2>3. job' = [tool |-> job.tool, pc |-> then, from |-> job.from, region |-> job.region, index |-> job.index]
    BY <1>5, JobGoes
  <2>4. ArbSoFar'
    BY <1>5, <2>2, <2>3, <1>1 DEF SoFar, ArbSoFar, At, HasKind
  <2>5. RegionSoFar' /\ VbmetaSoFar'
    BY <2>3, <1>1 DEF RegionSoFar, VbmetaSoFar, At
  <2> QED BY <2>1, <2>4, <2>5, <1>5, <1>1, JobOn
<1>6. ASSUME NEW name \in {"boot", "vbmeta_system"}, disk' = [disk EXCEPT !["rb"][name] = 0], Refuse PROVE ToolsInv'
  BY <1>6, <1>1, WritesFails
<1>7. ASSUME NEW name \in {"boot", "vbmeta_system"}, NEW this, NEW then \in Stages, ArbCopies(name, this, then),
             \/ name = "boot" /\ this = "Boot" /\ then = "SignBoot"
             \/ name = "vbmeta_system" /\ this = "Vbs" /\ then = "SignVbs"
      PROVE  ToolsInv'
  <2>1. job.pc = this /\ HasKind("Folder")
    BY <1>7 DEF ArbCopies, At, SoFar, ArbSoFar
  <2>2. Copied(name) \in Nat
    <3>1. From \in Folder
      BY <2>1, <1>2 DEF HasKind, From
    <3> QED BY <3>1, <1>7 DEF Copied, Folder
  <2>3. CASE disk' = [disk EXCEPT !["rb"][name] = Copied(name)] /\ Goto(then)
    BY <1>5, <1>7, <2>1, <2>2, <2>3
  <2>4. CASE disk' = [disk EXCEPT !["rb"][name] = 0] /\ Refuse
    BY <1>6, <2>4
  <2> QED BY <1>7, <2>3, <2>4 DEF ArbCopies, Writes
<1>8. ASSUME NEW name \in {"boot", "vbmeta_system"}, NEW this, NEW then \in Stages, ArbSigns(name, this, then),
             ~(Refuse /\ UNCHANGED disk),
             \/ name = "boot" /\ this = "SignBoot" /\ then = "Vbs"
             \/ name = "vbmeta_system" /\ this = "SignVbs" /\ then = "Finish"
      PROVE  ToolsInv'
  <2>1. job.pc = this
    BY <1>8 DEF ArbSigns, At
  <2>2. CASE disk' = [disk EXCEPT !["rb"][name] = job.index] /\ Goto(then)
    <3>1. then \in {"SignBoot", "Vbs"} => HasKind("Folder")
      BY <1>8, <1>1, <2>1 DEF SoFar, ArbSoFar
    <3> QED BY <1>5, <1>8, <2>1, <2>2, <3>1, <1>2
  <2>3. CASE disk' = [disk EXCEPT !["rb"][name] = 0] /\ Refuse
    BY <1>6, <2>3
  <2> QED BY <1>8, <2>2, <2>3 DEF ArbSigns, Writes
<1> QED BY <1>3, <1>4, <1>7, <1>8 DEF Stages

LEMMA RebuildKeeps == ASSUME ToolsInv, RebuildVbmeta PROVE ToolsInv'
<1> ToolsTypeOK /\ SoFar /\ "rebuild_vbmeta" \in Places
  BY PlacesAre DEF ToolsInv
<1>1. Working /\ job.tool = "RebuildVbmeta"
  BY DEF RebuildVbmeta, At
<1>2. disk \in [Places -> Folder]
  BY DEF ToolsTypeOK
<1>3. CASE Refuse /\ UNCHANGED disk
  BY <1>3, <1>1, <1>2, JobFails
<1>4. CASE HasKind("File") /\ Whole(From.vbmeta) /\ From.vbmeta[2] /\ ~(Refuse /\ UNCHANGED disk)
  <2> DEFINE alone == From.vendor_boot = NoImage /\ From.boot = 0
             rebuilt == IF From.vendor_boot = NoImage THEN From.vbmeta ELSE <<From.vendor_boot[1], TRUE>>
  <2>1. job.from[1] \in Places /\ From \in Folder
    BY <1>4, <1>2 DEF HasKind, From
  <2>2. rebuilt \in Image /\ Whole(rebuilt) /\ (From.vendor_boot # NoImage => rebuilt[1] = From.vendor_boot[1])
    <3>1. From.vendor_boot \in Image /\ From.vbmeta \in Image
      BY <2>1 DEF Folder
    <3>2. <<From.vendor_boot[1], TRUE>> \in Image
      BY <3>1 DEF Image
    <3> QED BY <3>1, <3>2, <1>4 DEF Whole, NoImage, Broken
  <2>3. ASSUME NEW place \in Places, NEW content \in Image, disk' = [disk EXCEPT ![place]["vbmeta"] = content],
               Goto("Finish"), Whole(content), place = IF alone THEN job.from[1] ELSE "rebuild_vbmeta",
               From.vendor_boot # NoImage => content[1] = From.vendor_boot[1]
        PROVE  ToolsInv'
    <3>1. disk' \in [Places -> Folder]
      BY <2>3, FileWritten
    <3>2. /\ disk'[place].vbmeta = content
          /\ \A p \in Places : disk'[p].vendor_boot = disk[p].vendor_boot /\ disk'[p].boot = disk[p].boot
      <4> DEFINE name == "vbmeta"
      <4>1. name \in {"vendor_boot", "vbmeta", "boot", "vbmeta_system"} /\ disk' = [disk EXCEPT ![place][name] = content]
        BY <2>3
      <4>2. /\ disk'[place].vbmeta = content
            /\ disk'[place].vendor_boot = disk[place].vendor_boot /\ disk'[place].boot = disk[place].boot
            /\ \A p \in Places \ {place} : disk'[p] = disk[p]
        <5>1. name = "vbmeta" /\ name # "vendor_boot" /\ name # "boot"
          OBVIOUS
        <5> HIDE DEF name
        <5> QED BY <4>1, <5>1, FileHolds
      <4> QED BY <4>2
    <3>3. job' = [tool |-> job.tool, pc |-> "Finish", from |-> job.from, region |-> job.region, index |-> job.index]
      BY <2>3, JobGoes DEF Stages
    <3>4. disk'[job.from[1]].vendor_boot = From.vendor_boot /\ disk'[job.from[1]].boot = From.boot
      BY <3>2, <2>1 DEF From
    <3>5. VbmetaSoFar'
      BY <3>2, <3>3, <3>4, <2>3 DEF VbmetaSoFar, From
    <3>6. RegionSoFar' /\ ArbSoFar'
      BY <3>3, <1>1 DEF RegionSoFar, ArbSoFar, At
    <3> QED BY <3>1, <3>5, <3>6, <2>3, <1>1, JobOn DEF Stages
  <2>4. CASE alone /\ disk' = [disk EXCEPT ![job.from[1]]["vbmeta"] = From.vbmeta] /\ Goto("Finish")
    <3>1. From.vbmeta \in Image
      BY <2>1 DEF Folder
    <3> QED BY <3>1, <2>1, <2>3, <2>4, <1>4
  <2>5. CASE ~alone /\ disk' = [disk EXCEPT !["rebuild_vbmeta"]["vbmeta"] = rebuilt] /\ Goto("Finish")
    <3> HIDE DEF rebuilt
    <3> QED BY <2>2, <2>3, <2>5
  <2>6. CASE \E place \in {job.from[1], "rebuild_vbmeta"} : disk' = [disk EXCEPT ![place]["vbmeta"] = Broken] /\ Refuse
    BY <2>1, <2>6, <1>1, WritesFails
  <2> QED BY <1>4, <2>4, <2>5, <2>6 DEF RebuildVbmeta, Writes
<1> QED BY <1>3, <1>4 DEF RebuildVbmeta

\* What the stages have built is what a finished job reports.
LEMMA EndKeeps == ASSUME ToolsInv, BuilderEnds PROVE ToolsInv'
<1> ToolsTypeOK /\ SoFar
  BY DEF ToolsInv
<1>1. Done /\ Working /\ UNCHANGED disk /\ job.pc = "Finish" /\ job.tool \in {"RegionConvert", "PatchArb", "RebuildVbmeta"}
  BY DEF BuilderEnds, SoFar
<1>2. outcome' = [tool |-> job.tool, ok |-> TRUE, from |-> job.from, region |-> job.region,
                  index |-> job.index, report |-> "None"]
  BY <1>1, JobEnds DEF Done
<1>3. CASE job.tool = "RegionConvert"
  <2>1. /\ disk["region_convert"].vendor_boot = <<job.region, TRUE>>
        /\ disk["region_convert"].vbmeta[2] => disk["region_convert"].vbmeta[1] = job.region
    BY <1>1, <1>3 DEF SoFar, RegionSoFar, At
  <2>2. disk["region_convert"] # Empty
    <3>1. Empty.vendor_boot[2] = FALSE
      BY DEF Empty, NoImage
    <3>2. disk["region_convert"].vendor_boot[2] = TRUE
      BY <2>1
    <3> QED BY <3>1, <3>2
  <2>3. OkMeansBuilt'
    BY <1>1, <1>2, <1>3, <2>1, <2>2, PlacesAre DEF OkMeansBuilt
  <2> QED BY <2>3, <1>1, JobDone DEF Done, ToolsTypeOK
<1>4. CASE job.tool = "PatchArb"
  <2>1. OkMeansBuilt'
    BY <1>1, <1>2, <1>4, PlacesAre DEF OkMeansBuilt, SoFar, ArbSoFar, At
  <2> QED BY <2>1, <1>1, JobDone DEF Done, ToolsTypeOK
<1>5. CASE job.tool = "RebuildVbmeta"
  <2>1. OkMeansBuilt'
    BY <1>1, <1>2, <1>5, PlacesAre DEF OkMeansBuilt, SoFar, VbmetaSoFar, At, From
  <2> QED BY <2>1, <1>1, JobDone DEF Done, ToolsTypeOK
<1> QED BY <1>1, <1>3, <1>4, <1>5

\* The workers that build nothing.
LEMMA OthersKeep == ASSUME ToolsInv, NEW ok \in BOOLEAN, OthersEnd(ok) PROVE ToolsInv'
<1> ToolsTypeOK
  BY DEF ToolsInv
<1>1. Working /\ UNCHANGED disk /\ Reports(ok, "None") /\ job.tool \in {"ImageInfo", "PatchDevinfo"}
  BY DEF OthersEnd, Working
<1>2. CASE ok
  <2>1. outcome' = [tool |-> job.tool, ok |-> TRUE, from |-> job.from, region |-> job.region,
                    index |-> job.index, report |-> "None"]
    BY <1>1, <1>2, JobEnds
  <2>2. OkMeansBuilt'
    BY <1>1, <2>1 DEF OkMeansBuilt
  <2>3. Reports(TRUE, "None")
    BY <1>1, <1>2
  <2> QED BY <2>2, <2>3, <1>1, JobDone DEF ToolsTypeOK
<1>3. CASE ~ok
  <2>1. Refuse
    BY <1>1, <1>3 DEF Refuse
  <2> QED BY <2>1, <1>1, JobFails DEF ToolsTypeOK
<1> QED BY <1>2, <1>3

LEMMA DetectKeeps == ASSUME ToolsInv, DetectReaches \/ DetectReadsVars \/ DetectDumps PROVE ToolsInv'
<1> DEFINE Tablet == [at : {"System", "Fastboot", "Edl"}, stored : BOOLEAN, model : {"TB320FC", "TB322FC"},
                      seen : {"Adb", "Fastboot", "Edl"}]
<1> ToolsTypeOK /\ SoFar
  BY DEF ToolsInv
<1>1. Detecting /\ job.tool = "DetectArb"
  BY DEF DetectReaches, DetectReadsVars, DetectDumps, At
<1>2. tablet' = tablet \/ \E at \in {"System", "Fastboot", "Edl"} : tablet' = [tablet EXCEPT !.at = at]
  BY DEF DetectReaches, DetectReadsVars, DetectDumps, Moves
<1>3. tablet' \in Tablet /\ tablet'.stored = tablet.stored /\ tablet'.model = tablet.model
  <2>1. tablet \in Tablet
    BY DEF ToolsTypeOK
  <2> QED BY <1>2, <2>1
<1>4. \/ \E pc \in {"Vars", "Dump"} : Goto(pc)
      \/ Refuse \/ Reports(TRUE, "Anti")
      \/ Reports(TRUE, "Not") /\ ~tablet.stored /\ ~is_rollback_protected_model
  <2>1. CASE DetectReaches
    BY <2>1 DEF DetectReaches
  <2>2. CASE DetectReadsVars
    BY <2>2 DEF DetectReadsVars
  <2>3. CASE DetectDumps
    BY <2>3 DEF DetectDumps
  <2> QED BY <2>1, <2>2, <2>3
<1>5. job' \in JobType /\ outcome' \in Outcome
  <2>1. CASE \E pc \in {"Vars", "Dump"} : Goto(pc)
    BY <2>1, JobGoes DEF ToolsTypeOK, Stages
  <2>2. CASE Refuse \/ Reports(TRUE, "Anti") \/ Reports(TRUE, "Not")
    BY <2>2, JobEnds DEF Refuse
  <2> QED BY <1>4, <2>1, <2>2
<1>6. ToolsTypeOK'
  BY <1>1, <1>3, <1>5 DEF ToolsTypeOK, Detecting, pageVars
<1>7. CASE \E pc \in {"Vars", "Dump"} : Goto(pc)
  <2>1. PICK pc \in {"Vars", "Dump"} : Goto(pc)
    BY <1>7
  <2>2. /\ job' = [tool |-> job.tool, pc |-> pc, from |-> job.from, region |-> job.region, index |-> job.index]
        /\ outcome' = outcome
    BY <2>1, JobGoes DEF Stages
  <2>3. SoFar' /\ OkMeansBuilt'
    <3>1. outcome' = NoOutcome
      BY <1>1, <2>2 DEF SoFar
    <3> QED BY <1>1, <2>2, <3>1 DEF SoFar, RegionSoFar, ArbSoFar, VbmetaSoFar, OkMeansBuilt, At, NoOutcome
  <2> QED BY <1>6, <2>3 DEF ToolsInv
<1>8. ASSUME NEW ok \in BOOLEAN, NEW report \in {"None", "Anti", "Not"}, Reports(ok, report),
             report = "Not" => ~tablet.stored /\ ~is_rollback_protected_model
      PROVE  ToolsInv'
  <2>1. /\ job' = NoJob
        /\ outcome' = [tool |-> job.tool, ok |-> ok, from |-> job.from, region |-> job.region,
                       index |-> job.index, report |-> report]
    BY <1>8, JobEnds
  <2>2. SoFar'
    BY <2>1 DEF SoFar, RegionSoFar, ArbSoFar, VbmetaSoFar, At, NoJob
  <2>3. OkMeansBuilt'
    BY <1>1, <1>3, <1>8, <2>1 DEF OkMeansBuilt, is_rollback_protected_model
  <2> QED BY <1>6, <2>2, <2>3 DEF ToolsInv
<1> QED BY <1>4, <1>7, <1>8 DEF Refuse

LEMMA AroundTools == ASSUME ToolsInv, Killed \/ Poll PROVE ToolsInv'
<1>1. CASE Killed
  <2>1. /\ job' = NoJob /\ outcome' = NoOutcome /\ adv_wizard' = Closed /\ browsing' = "None"
        /\ UNCHANGED <<disk, tablet>>
    BY <1>1 DEF Killed
  <2>2. ToolsTypeOK'
    BY <2>1, PlacesAre DEF ToolsInv, ToolsTypeOK, AdvPage, JobType, Outcome, Closed, NoJob, NoOutcome, Tool,
       Stages, Regions
  <2>3. SoFar' /\ OkMeansBuilt'
    BY <2>1 DEF SoFar, RegionSoFar, ArbSoFar, VbmetaSoFar, OkMeansBuilt, At, NoJob, NoOutcome
  <2> QED BY <2>2, <2>3 DEF ToolsInv
<1>2. CASE Poll
  <2>1. UNCHANGED <<adv_wizard, browsing, disk, job, outcome>> /\ tablet' = [tablet EXCEPT !.seen = SeenAs]
    BY <1>2 DEF Poll, pageVars
  <2>2. SeenAs \in {"Adb", "Fastboot", "Edl"}
    BY DEF SeenAs, ToolsInv, ToolsTypeOK
  <2>3. ToolsTypeOK'
    BY <2>1, <2>2 DEF ToolsInv, ToolsTypeOK
  <2>4. tablet'.stored = tablet.stored /\ tablet'.model = tablet.model
    BY <2>1 DEF ToolsInv, ToolsTypeOK
  <2>5. SoFar' /\ OkMeansBuilt'
    BY <2>1, <2>4 DEF ToolsInv, SoFar, RegionSoFar, ArbSoFar, VbmetaSoFar, OkMeansBuilt, At, From, HasKind,
       is_rollback_protected_model
  <2> QED BY <2>3, <2>5 DEF ToolsInv
<1> QED BY <1>1, <1>2

LEMMA ToolsStep == ToolsInv /\ [ToolsNext]_toolVars => ToolsInv'
<1> SUFFICES ASSUME ToolsInv, [ToolsNext]_toolVars PROVE ToolsInv'
  OBVIOUS
<1>1. CASE UNCHANGED toolVars
  BY <1>1, ToolsUntouched DEF toolVars, NoRunNow, ToolsInv, ToolsTypeOK
<1> QED BY <1>1, ToolsWizard, ConvertXmlKeeps, RegionToolKeeps, ArbKeeps, RebuildKeeps, EndKeeps, OthersKeep,
           DetectKeeps, AroundTools DEF ToolsNext, WorkerSteps

\* AdvWizard and the workers behind it keep their types.
THEOREM ToolsKeepTheirTypes == ToolsSpec => []ToolsTypeOK
BY InitTools, ToolsStep, PTL DEF ToolsSpec, ToolsInv

\* advanced_file_worker, detect_arb_run: whatever folders there are and whichever of
\* them are picked, for any number of runs, failures and kills, a tool that reports
\* success leaves what it said.
THEOREM ToolsBuildWhatTheySay == ToolsSpec => []OkMeansBuilt
BY InitTools, ToolsStep, PTL DEF ToolsSpec, ToolsInv

-----------------------------------------------------------------------------
(* The wizards of Root, Unroot and System Update.                          *)

RootType ==
  [step : 0..8, family : Families \cup {"None"}, mode : {"None", "Lkm", "Gki"}, flavor : {"None", "Lite"},
   provider : {"None", "Magisk", "MagiskForks", "KernelSU", "ReSukiSU", "APatch"},
   version : {"None", "Stable", "Nightly"}, source : {"None", "Auto", "Manual"},
   file : {"None", "Kernel", "Apk"}, loader : {"None", "Default", "File"},
   kernel : BOOLEAN, run_id : BOOLEAN, superkey : BOOLEAN]
SysType ==
  [step : 0..3, action : {"None", "Disable", "Enable", "Rescue"}, loader : Loaders \cup {"None", "Default"},
   region : {"None", "Prc", "Row"}, confirmed : BOOLEAN, region_for : Loaders \cup {"None", "Default"}]
\* The answers on the pages before belong together, and the number of a page is
\* one of those its route has.
Answers(r) ==
  /\ r.mode # "None" => r.family = "KernelSU"
  /\ r.provider # "None" => r.provider \in providers(r.family)
  /\ r.step # 0 => r.family # "None"
  /\ is_apatch(r) /\ r.step \in {5, 6, 7} => r.superkey
StepFits(r) ==
  CASE r.step = 1 -> has_modes(r)
    [] r.step = 2 -> ~is_skroot(r)
    [] r.step = 3 -> ~is_skroot(r) /\ ~is_gki(r)
    [] r.step = 4 -> ~is_skroot(r) /\ ~is_gki(r) /\ ~is_forks(r) /\ is_nightly(r)
    [] r.step = 8 -> is_apatch(r)
    [] OTHER -> TRUE
OnRoute(r) == Answers(r) /\ StepFits(r)

RootOK(r)  == r \in RootType /\ OnRoute(r)

\* The region of a rescue is that of its loader from the moment it was confirmed.
RegionIsOfLoader(s) ==
  s.action = "Rescue" /\ s.region # "None" /\ (s.step >= 2 \/ s.confirmed) => s.region_for = s.loader
SysOK(s) == s \in SysType /\ s.step < sys_steps(s) /\ RegionIsOfLoader(s)

FlowTypes ==
  /\ setup \in Setups /\ busy \in {"No", "Probe", "Run"} /\ nexts \in 0..2
  /\ overlay \in {"None", "RunId", "Superkey", "Verify", "Kernel", "Region"}
  /\ picker.for = "RootFile" => picker.kind \in {"Kernel", "Apk"}

\* A waiting click finds a family, the superkey is asked on its own page, and the
\* kernel version is probed on the confirm page.
Asked ==
  /\ nexts > 0 /\ setup = "Root" => root.family # "None"
  /\ overlay \in {"Superkey", "Verify"} => root.step = 8
  /\ busy = "Probe" => root.step = 6

OrderOK(o) ==
  /\ o.of = "Root" => LET r == o.route IN
       /\ r.mode # "None" => r.family = "KernelSU"
       /\ r.mode = "Lkm" => r.kernel
       /\ r.provider # "None" => r.provider \in providers(r.family)
       /\ is_apatch(r) => r.superkey
  /\ o.of = "Rescue" /\ o.region # "None" => o.region_for = o.loader

SetupInv == RootOK(root) /\ SysOK(sysupdate) /\ FlowTypes /\ Asked /\ OrderOK(order)

-----------------------------------------------------------------------------
(* The step bar.                                                           *)

Labels == {"Type", "Flavor", "Mode", "Provider", "Kernel", "Apk", "Version", "Source", "Kpm", "Loader",
           "Confirm", "Flash"}

\* The sequence u is s, then t.
Joins(S, u, s, t) ==
  /\ u \in Seq(S) /\ Len(u) = Len(s) + Len(t)
  /\ \A i \in 1..Len(s) : u[i] = s[i]
  /\ \A i \in 1..Len(t) : u[Len(s) + i] = t[i]

LEMMA JoinIs == ASSUME NEW S, NEW s \in Seq(S), NEW t \in Seq(S) PROVE Joins(S, s \o t, s, t)
BY DEF Joins
LEMMA JoinOnly ==
  ASSUME NEW S, NEW s \in Seq(S), NEW t \in Seq(S), NEW u, NEW v, Joins(S, u, s, t), Joins(S, v, s, t)
  PROVE  u = v
<1>1. \A i \in 1..Len(u) : u[i] = v[i]
  <2> TAKE i \in 1..Len(u)
  <2>1. CASE i <= Len(s)
    BY <2>1 DEF Joins
  <2>2. CASE ~(i <= Len(s))
    <3>1. i - Len(s) \in 1..Len(t) /\ i = Len(s) + (i - Len(s))
      BY <2>2 DEF Joins
    <3> QED BY <3>1 DEF Joins
  <2> QED BY <2>1, <2>2
<1> QED BY <1>1, SeqEqual DEF Joins

LEMMA Joined ==
  ASSUME NEW S, NEW s \in Seq(S), NEW t \in Seq(S), NEW u, Joins(S, u, s, t)
  PROVE  s \o t = u
BY JoinIs, JoinOnly

\* The tuples the routes are put together from.
LEMMA Join11 ==
  ASSUME NEW a, NEW b
  PROVE  <<a>> \o <<b>> = <<a, b>>
<1> DEFINE S == {a, b} s == <<a>> t == <<b>> u == <<a, b>>
<1>1. s \in Seq(S) /\ t \in Seq(S) /\ u \in Seq(S)
  OBVIOUS
<1>2. Joins(S, u, s, t)
  <2>1. Len(s) = 1 /\ Len(t) = 1 /\ Len(u) = 2 /\ s[1] = a /\ t[1] = b /\ u[1] = a /\ u[2] = b
    OBVIOUS
  <2> HIDE DEF s, t, u
  <2>2. \A i \in 1..Len(s) : i = 1
    BY <2>1
  <2>3. \A i \in 1..Len(t) : i = 1
    BY <2>1
  <2> QED BY <1>1, <2>1, <2>2, <2>3 DEF Joins
<1> HIDE DEF S, s, t, u
<1>3. s \o t = u
  BY <1>1, <1>2, Joined
<1> QED BY <1>3 DEF s, t, u

LEMMA Join12 ==
  ASSUME NEW a, NEW b, NEW c
  PROVE  <<a>> \o <<b, c>> = <<a, b, c>>
<1> DEFINE S == {a, b, c} s == <<a>> t == <<b, c>> u == <<a, b, c>>
<1>1. s \in Seq(S) /\ t \in Seq(S) /\ u \in Seq(S)
  OBVIOUS
<1>2. Joins(S, u, s, t)
  BY DEF Joins
<1> HIDE DEF S, s, t, u
<1>3. s \o t = u
  BY <1>1, <1>2, Joined
<1> QED BY <1>3 DEF s, t, u

LEMMA Join22 ==
  ASSUME NEW a, NEW b, NEW c, NEW d
  PROVE  <<a, b>> \o <<c, d>> = <<a, b, c, d>>
<1> DEFINE S == {a, b, c, d} s == <<a, b>> t == <<c, d>> u == <<a, b, c, d>>
<1>1. s \in Seq(S) /\ t \in Seq(S) /\ u \in Seq(S)
  OBVIOUS
<1>2. Joins(S, u, s, t)
  BY DEF Joins
<1> HIDE DEF S, s, t, u
<1>3. s \o t = u
  BY <1>1, <1>2, Joined
<1> QED BY <1>3 DEF s, t, u

LEMMA Join31 ==
  ASSUME NEW a, NEW b, NEW c, NEW d
  PROVE  <<a, b, c>> \o <<d>> = <<a, b, c, d>>
<1> DEFINE S == {a, b, c, d} s == <<a, b, c>> t == <<d>> u == <<a, b, c, d>>
<1>1. s \in Seq(S) /\ t \in Seq(S) /\ u \in Seq(S)
  OBVIOUS
<1>2. Joins(S, u, s, t)
  BY DEF Joins
<1> HIDE DEF S, s, t, u
<1>3. s \o t = u
  BY <1>1, <1>2, Joined
<1> QED BY <1>3 DEF s, t, u

LEMMA Join41 ==
  ASSUME NEW a, NEW b, NEW c, NEW d, NEW e
  PROVE  <<a, b, c, d>> \o <<e>> = <<a, b, c, d, e>>
<1> DEFINE S == {a, b, c, d, e} s == <<a, b, c, d>> t == <<e>> u == <<a, b, c, d, e>>
<1>1. s \in Seq(S) /\ t \in Seq(S) /\ u \in Seq(S)
  OBVIOUS
<1>2. Joins(S, u, s, t)
  BY DEF Joins
<1> HIDE DEF S, s, t, u
<1>3. s \o t = u
  BY <1>1, <1>2, Joined
<1> QED BY <1>3 DEF s, t, u

LEMMA Join23 ==
  ASSUME NEW a, NEW b, NEW c, NEW d, NEW e
  PROVE  <<a, b>> \o <<c, d, e>> = <<a, b, c, d, e>>
<1> DEFINE S == {a, b, c, d, e} s == <<a, b>> t == <<c, d, e>> u == <<a, b, c, d, e>>
<1>1. s \in Seq(S) /\ t \in Seq(S) /\ u \in Seq(S)
  OBVIOUS
<1>2. Joins(S, u, s, t)
  BY DEF Joins
<1> HIDE DEF S, s, t, u
<1>3. s \o t = u
  BY <1>1, <1>2, Joined
<1> QED BY <1>3 DEF s, t, u

LEMMA Join33 ==
  ASSUME NEW a, NEW b, NEW c, NEW d, NEW e, NEW f
  PROVE  <<a, b, c>> \o <<d, e, f>> = <<a, b, c, d, e, f>>
<1> DEFINE S == {a, b, c, d, e, f} s == <<a, b, c>> t == <<d, e, f>> u == <<a, b, c, d, e, f>>
<1>1. s \in Seq(S) /\ t \in Seq(S) /\ u \in Seq(S)
  OBVIOUS
<1>2. Joins(S, u, s, t)
  BY DEF Joins
<1> HIDE DEF S, s, t, u
<1>3. s \o t = u
  BY <1>1, <1>2, Joined
<1> QED BY <1>3 DEF s, t, u

LEMMA Join43 ==
  ASSUME NEW a, NEW b, NEW c, NEW d, NEW e, NEW f, NEW g
  PROVE  <<a, b, c, d>> \o <<e, f, g>> = <<a, b, c, d, e, f, g>>
<1> DEFINE S == {a, b, c, d, e, f, g} s == <<a, b, c, d>> t == <<e, f, g>> u == <<a, b, c, d, e, f, g>>
<1>1. s \in Seq(S) /\ t \in Seq(S) /\ u \in Seq(S)
  OBVIOUS
<1>2. Joins(S, u, s, t)
  BY DEF Joins
<1> HIDE DEF S, s, t, u
<1>3. s \o t = u
  BY <1>1, <1>2, Joined
<1> QED BY <1>3 DEF s, t, u

LEMMA Join53 ==
  ASSUME NEW a, NEW b, NEW c, NEW d, NEW e, NEW f, NEW g, NEW h
  PROVE  <<a, b, c, d, e>> \o <<f, g, h>> = <<a, b, c, d, e, f, g, h>>
<1> DEFINE S == {a, b, c, d, e, f, g, h} s == <<a, b, c, d, e>> t == <<f, g, h>> u == <<a, b, c, d, e, f, g, h>>
<1>1. s \in Seq(S) /\ t \in Seq(S) /\ u \in Seq(S)
  OBVIOUS
<1>2. Joins(S, u, s, t)
  BY DEF Joins
<1> HIDE DEF S, s, t, u
<1>3. s \o t = u
  BY <1>1, <1>2, Joined
<1> QED BY <1>3 DEF s, t, u

\* The number of a page names the page when the labels and the numbers of its route
\* go together.
LEMMA BarFits ==
  ASSUME NEW r, NEW labels \in Seq(Labels), active_steps(r) = labels,
         Numbering(r) \in Seq(0..8), Len(labels) = Len(Numbering(r)),
         \E i \in 1..Len(labels) : Numbering(r)[i] = r.step,
         \A i \in 1..Len(labels) : Numbering(r)[i] = r.step => labels[i] = PageOf(r)
  PROVE  display_step(r) < Len(active_steps(r)) /\ active_steps(r)[display_step(r) + 1] = PageOf(r)
<1> DEFINE place == CHOOSE i \in DOMAIN Numbering(r) : Numbering(r)[i] = r.step
<1>1. DOMAIN Numbering(r) = 1..Len(labels) /\ Len(labels) \in Nat
  OBVIOUS
<1>2. \E i \in DOMAIN Numbering(r) : Numbering(r)[i] = r.step
  BY <1>1
<1>3. place \in 1..Len(labels) /\ Numbering(r)[place] = r.step
  BY <1>1, <1>2
<1>4. display_step(r) = place - 1
  BY <1>2 DEF display_step
<1> HIDE DEF place
<1> QED BY <1>1, <1>3, <1>4

\* On every route the bar names the page.
LEMMA RouteNamesPages ==
  ASSUME NEW r \in RootType, OnRoute(r)
  PROVE  display_step(r) < Len(active_steps(r)) /\ active_steps(r)[display_step(r) + 1] = PageOf(r)
<1> r.step \in 0..8 /\ r.family \in Families \cup {"None"}
  BY DEF RootType
<1>1. /\ is_forks(r) => r.family = "Magisk"
      /\ is_apatch(r) => ~has_modes(r)
      /\ is_gki(r) => has_modes(r)
  BY DEF OnRoute, Answers, is_forks, providers, is_apatch, has_modes, is_gki
<1>2. \A l \in Seq(Labels) : l \o <<>> = l
  BY ConcatEmptySeq
<1>3. CASE is_skroot(r)
  <2> DEFINE labels == <<"Type", "Flavor", "Loader", "Confirm", "Flash">>
  <2>1. <<"Type", "Flavor">> \o <<"Loader", "Confirm", "Flash">> = <<"Type", "Flavor", "Loader", "Confirm", "Flash">>
    BY Join23
  <2>2. active_steps(r) = labels /\ Numbering(r) = <<0, 1, 5, 6, 7>>
    BY <1>3, <1>1, <2>1 DEF active_steps, Numbering
  <2>3. r.step \in {0, 1, 5, 6, 7}
    BY <1>3, <1>1 DEF OnRoute, Answers, StepFits, has_modes, is_skroot, is_gki, is_apatch, is_forks
  <2>4. labels \in Seq(Labels) /\ Len(labels) = 5
    BY DEF Labels
  <2>5. \A i \in 1..5 : Numbering(r)[i] = r.step => labels[i] = PageOf(r)
    BY <2>2, <2>3, <1>3, <1>1 DEF PageOf, has_modes, is_skroot, is_gki
  <2>6. Numbering(r) \in Seq(0..8) /\ Len(Numbering(r)) = 5 /\ \E i \in 1..5 : Numbering(r)[i] = r.step
    BY <2>2, <2>3
  <2> HIDE DEF labels
  <2> QED BY <2>2, <2>4, <2>5, <2>6, BarFits
<1>4. CASE ~is_skroot(r) /\ is_gki(r)
  <2> DEFINE labels == <<"Type", "Mode", "Kernel", "Loader", "Confirm", "Flash">>
  <2>1. <<"Type", "Mode", "Kernel">> \o <<"Loader", "Confirm", "Flash">> = <<"Type", "Mode", "Kernel", "Loader", "Confirm", "Flash">>
    BY Join33
  <2>2. active_steps(r) = labels /\ Numbering(r) = <<0, 1, 2, 5, 6, 7>>
    BY <1>4, <1>1, <2>1 DEF active_steps, Numbering
  <2>3. r.step \in {0, 1, 2, 5, 6, 7}
    BY <1>4, <1>1 DEF OnRoute, Answers, StepFits, has_modes, is_skroot, is_gki, is_apatch, is_forks
  <2>4. labels \in Seq(Labels) /\ Len(labels) = 6
    BY DEF Labels
  <2>5. \A i \in 1..6 : Numbering(r)[i] = r.step => labels[i] = PageOf(r)
    BY <2>2, <2>3, <1>4, <1>1 DEF PageOf, has_modes, is_skroot, is_gki
  <2>6. Numbering(r) \in Seq(0..8) /\ Len(Numbering(r)) = 6 /\ \E i \in 1..6 : Numbering(r)[i] = r.step
    BY <2>2, <2>3
  <2> HIDE DEF labels
  <2> QED BY <2>2, <2>4, <2>5, <2>6, BarFits
<1>5. CASE ~is_skroot(r) /\ ~is_gki(r) /\ is_forks(r)
  <2> DEFINE labels == <<"Type", "Provider", "Apk", "Loader", "Confirm", "Flash">>
  <2>1. <<"Type", "Provider", "Apk">> \o <<"Loader", "Confirm", "Flash">> = <<"Type", "Provider", "Apk", "Loader", "Confirm", "Flash">>
    BY Join33
  <2>2. active_steps(r) = labels /\ Numbering(r) = <<0, 2, 3, 5, 6, 7>>
    BY <1>5, <1>1, <2>1 DEF active_steps, Numbering
  <2>3. r.step \in {0, 2, 3, 5, 6, 7}
    BY <1>5, <1>1 DEF OnRoute, Answers, StepFits, has_modes, is_skroot, is_gki, is_apatch, is_forks
  <2>4. labels \in Seq(Labels) /\ Len(labels) = 6
    BY DEF Labels
  <2>5. \A i \in 1..6 : Numbering(r)[i] = r.step => labels[i] = PageOf(r)
    BY <2>2, <2>3, <1>5, <1>1 DEF PageOf, has_modes, is_skroot, is_gki
  <2>6. Numbering(r) \in Seq(0..8) /\ Len(Numbering(r)) = 6 /\ \E i \in 1..6 : Numbering(r)[i] = r.step
    BY <2>2, <2>3
  <2> HIDE DEF labels
  <2> QED BY <2>2, <2>4, <2>5, <2>6, BarFits
<1>6. CASE ~is_skroot(r) /\ ~is_gki(r) /\ ~is_forks(r)
           /\ has_modes(r) /\ is_nightly(r) /\ ~is_apatch(r)
  <2> DEFINE labels == <<"Type", "Mode", "Provider", "Version", "Source", "Loader", "Confirm", "Flash">>
  <2>1. <<"Type">> \o <<"Mode">> = <<"Type", "Mode">>
    BY Join11
  <2>2. <<"Type", "Mode">> \o <<"Provider", "Version">> = <<"Type", "Mode", "Provider", "Version">>
    BY Join22
  <2>3. <<"Type", "Mode", "Provider", "Version">> \o <<"Source">> = <<"Type", "Mode", "Provider", "Version", "Source">>
    BY Join41
  <2>4. <<"Type", "Mode", "Provider", "Version", "Source">> \o <<>> = <<"Type", "Mode", "Provider", "Version", "Source">>
    BY <1>2 DEF Labels
  <2>5. <<"Type", "Mode", "Provider", "Version", "Source">> \o <<"Loader", "Confirm", "Flash">> = <<"Type", "Mode", "Provider", "Version", "Source", "Loader", "Confirm", "Flash">>
    BY Join53
  <2>6. active_steps(r) = labels /\ Numbering(r) = <<0, 1, 2, 3, 4, 5, 6, 7>>
    BY <1>6, <1>1, <2>1, <2>2, <2>3, <2>4, <2>5 DEF active_steps, Numbering
  <2>7. r.step \in {0, 1, 2, 3, 4, 5, 6, 7}
    BY <1>6, <1>1 DEF OnRoute, Answers, StepFits, has_modes, is_skroot, is_gki, is_apatch, is_forks
  <2>8. labels \in Seq(Labels) /\ Len(labels) = 8
    BY DEF Labels
  <2>9. \A i \in 1..8 : Numbering(r)[i] = r.step => labels[i] = PageOf(r)
    BY <2>6, <2>7, <1>6, <1>1 DEF PageOf, has_modes, is_skroot, is_gki
  <2>10. Numbering(r) \in Seq(0..8) /\ Len(Numbering(r)) = 8 /\ \E i \in 1..8 : Numbering(r)[i] = r.step
    BY <2>6, <2>7
  <2> HIDE DEF labels
  <2> QED BY <2>6, <2>8, <2>9, <2>10, BarFits
<1>7. CASE ~is_skroot(r) /\ ~is_gki(r) /\ ~is_forks(r)
           /\ has_modes(r) /\ ~is_nightly(r) /\ ~is_apatch(r)
  <2> DEFINE labels == <<"Type", "Mode", "Provider", "Version", "Loader", "Confirm", "Flash">>
  <2>1. <<"Type">> \o <<"Mode">> = <<"Type", "Mode">>
    BY Join11
  <2>2. <<"Type", "Mode">> \o <<"Provider", "Version">> = <<"Type", "Mode", "Provider", "Version">>
    BY Join22
  <2>3. <<"Type", "Mode", "Provider", "Version">> \o <<>> = <<"Type", "Mode", "Provider", "Version">>
    BY <1>2 DEF Labels
  <2>4. <<"Type", "Mode", "Provider", "Version">> \o <<>> = <<"Type", "Mode", "Provider", "Version">>
    BY <1>2 DEF Labels
  <2>5. <<"Type", "Mode", "Provider", "Version">> \o <<"Loader", "Confirm", "Flash">> = <<"Type", "Mode", "Provider", "Version", "Loader", "Confirm", "Flash">>
    BY Join43
  <2>6. active_steps(r) = labels /\ Numbering(r) = <<0, 1, 2, 3, 5, 6, 7>>
    BY <1>7, <1>1, <2>1, <2>2, <2>3, <2>4, <2>5 DEF active_steps, Numbering
  <2>7. r.step \in {0, 1, 2, 3, 5, 6, 7}
    BY <1>7, <1>1 DEF OnRoute, Answers, StepFits, has_modes, is_skroot, is_gki, is_apatch, is_forks
  <2>8. labels \in Seq(Labels) /\ Len(labels) = 7
    BY DEF Labels
  <2>9. \A i \in 1..7 : Numbering(r)[i] = r.step => labels[i] = PageOf(r)
    BY <2>6, <2>7, <1>7, <1>1 DEF PageOf, has_modes, is_skroot, is_gki
  <2>10. Numbering(r) \in Seq(0..8) /\ Len(Numbering(r)) = 7 /\ \E i \in 1..7 : Numbering(r)[i] = r.step
    BY <2>6, <2>7
  <2> HIDE DEF labels
  <2> QED BY <2>6, <2>8, <2>9, <2>10, BarFits
<1>8. CASE ~is_skroot(r) /\ ~is_gki(r) /\ ~is_forks(r)
           /\ ~has_modes(r) /\ is_nightly(r) /\ ~is_apatch(r)
  <2> DEFINE labels == <<"Type", "Provider", "Version", "Source", "Loader", "Confirm", "Flash">>
  <2>1. <<"Type">> \o <<>> = <<"Type">>
    BY <1>2 DEF Labels
  <2>2. <<"Type">> \o <<"Provider", "Version">> = <<"Type", "Provider", "Version">>
    BY Join12
  <2>3. <<"Type", "Provider", "Version">> \o <<"Source">> = <<"Type", "Provider", "Version", "Source">>
    BY Join31
  <2>4. <<"Type", "Provider", "Version", "Source">> \o <<>> = <<"Type", "Provider", "Version", "Source">>
    BY <1>2 DEF Labels
  <2>5. <<"Type", "Provider", "Version", "Source">> \o <<"Loader", "Confirm", "Flash">> = <<"Type", "Provider", "Version", "Source", "Loader", "Confirm", "Flash">>
    BY Join43
  <2>6. active_steps(r) = labels /\ Numbering(r) = <<0, 2, 3, 4, 5, 6, 7>>
    BY <1>8, <1>1, <2>1, <2>2, <2>3, <2>4, <2>5 DEF active_steps, Numbering
  <2>7. r.step \in {0, 2, 3, 4, 5, 6, 7}
    BY <1>8, <1>1 DEF OnRoute, Answers, StepFits, has_modes, is_skroot, is_gki, is_apatch, is_forks
  <2>8. labels \in Seq(Labels) /\ Len(labels) = 7
    BY DEF Labels
  <2>9. \A i \in 1..7 : Numbering(r)[i] = r.step => labels[i] = PageOf(r)
    BY <2>6, <2>7, <1>8, <1>1 DEF PageOf, has_modes, is_skroot, is_gki
  <2>10. Numbering(r) \in Seq(0..8) /\ Len(Numbering(r)) = 7 /\ \E i \in 1..7 : Numbering(r)[i] = r.step
    BY <2>6, <2>7
  <2> HIDE DEF labels
  <2> QED BY <2>6, <2>8, <2>9, <2>10, BarFits
<1>9. CASE ~is_skroot(r) /\ ~is_gki(r) /\ ~is_forks(r)
           /\ ~has_modes(r) /\ ~is_nightly(r) /\ ~is_apatch(r)
  <2> DEFINE labels == <<"Type", "Provider", "Version", "Loader", "Confirm", "Flash">>
  <2>1. <<"Type">> \o <<>> = <<"Type">>
    BY <1>2 DEF Labels
  <2>2. <<"Type">> \o <<"Provider", "Version">> = <<"Type", "Provider", "Version">>
    BY Join12
  <2>3. <<"Type", "Provider", "Version">> \o <<>> = <<"Type", "Provider", "Version">>
    BY <1>2 DEF Labels
  <2>4. <<"Type", "Provider", "Version">> \o <<>> = <<"Type", "Provider", "Version">>
    BY <1>2 DEF Labels
  <2>5. <<"Type", "Provider", "Version">> \o <<"Loader", "Confirm", "Flash">> = <<"Type", "Provider", "Version", "Loader", "Confirm", "Flash">>
    BY Join33
  <2>6. active_steps(r) = labels /\ Numbering(r) = <<0, 2, 3, 5, 6, 7>>
    BY <1>9, <1>1, <2>1, <2>2, <2>3, <2>4, <2>5 DEF active_steps, Numbering
  <2>7. r.step \in {0, 2, 3, 5, 6, 7}
    BY <1>9, <1>1 DEF OnRoute, Answers, StepFits, has_modes, is_skroot, is_gki, is_apatch, is_forks
  <2>8. labels \in Seq(Labels) /\ Len(labels) = 6
    BY DEF Labels
  <2>9. \A i \in 1..6 : Numbering(r)[i] = r.step => labels[i] = PageOf(r)
    BY <2>6, <2>7, <1>9, <1>1 DEF PageOf, has_modes, is_skroot, is_gki
  <2>10. Numbering(r) \in Seq(0..8) /\ Len(Numbering(r)) = 6 /\ \E i \in 1..6 : Numbering(r)[i] = r.step
    BY <2>6, <2>7
  <2> HIDE DEF labels
  <2> QED BY <2>6, <2>8, <2>9, <2>10, BarFits
<1>10. CASE ~is_skroot(r) /\ ~is_gki(r) /\ ~is_forks(r)
           /\ ~has_modes(r) /\ is_nightly(r) /\ is_apatch(r)
  <2> DEFINE labels == <<"Type", "Provider", "Version", "Source", "Kpm", "Loader", "Confirm", "Flash">>
  <2>1. <<"Type">> \o <<>> = <<"Type">>
    BY <1>2 DEF Labels
  <2>2. <<"Type">> \o <<"Provider", "Version">> = <<"Type", "Provider", "Version">>
    BY Join12
  <2>3. <<"Type", "Provider", "Version">> \o <<"Source">> = <<"Type", "Provider", "Version", "Source">>
    BY Join31
  <2>4. <<"Type", "Provider", "Version", "Source">> \o <<"Kpm">> = <<"Type", "Provider", "Version", "Source", "Kpm">>
    BY Join41
  <2>5. <<"Type", "Provider", "Version", "Source", "Kpm">> \o <<"Loader", "Confirm", "Flash">> = <<"Type", "Provider", "Version", "Source", "Kpm", "Loader", "Confirm", "Flash">>
    BY Join53
  <2>6. active_steps(r) = labels /\ Numbering(r) = <<0, 2, 3, 4, 8, 5, 6, 7>>
    BY <1>10, <1>1, <2>1, <2>2, <2>3, <2>4, <2>5 DEF active_steps, Numbering
  <2>7. r.step \in {0, 2, 3, 4, 8, 5, 6, 7}
    BY <1>10, <1>1 DEF OnRoute, Answers, StepFits, has_modes, is_skroot, is_gki, is_apatch, is_forks
  <2>8. labels \in Seq(Labels) /\ Len(labels) = 8
    BY DEF Labels
  <2>9. \A i \in 1..8 : Numbering(r)[i] = r.step => labels[i] = PageOf(r)
    BY <2>6, <2>7, <1>10, <1>1 DEF PageOf, has_modes, is_skroot, is_gki
  <2>10. Numbering(r) \in Seq(0..8) /\ Len(Numbering(r)) = 8 /\ \E i \in 1..8 : Numbering(r)[i] = r.step
    BY <2>6, <2>7
  <2> HIDE DEF labels
  <2> QED BY <2>6, <2>8, <2>9, <2>10, BarFits
<1>11. CASE ~is_skroot(r) /\ ~is_gki(r) /\ ~is_forks(r)
           /\ ~has_modes(r) /\ ~is_nightly(r) /\ is_apatch(r)
  <2> DEFINE labels == <<"Type", "Provider", "Version", "Kpm", "Loader", "Confirm", "Flash">>
  <2>1. <<"Type">> \o <<>> = <<"Type">>
    BY <1>2 DEF Labels
  <2>2. <<"Type">> \o <<"Provider", "Version">> = <<"Type", "Provider", "Version">>
    BY Join12
  <2>3. <<"Type", "Provider", "Version">> \o <<>> = <<"Type", "Provider", "Version">>
    BY <1>2 DEF Labels
  <2>4. <<"Type", "Provider", "Version">> \o <<"Kpm">> = <<"Type", "Provider", "Version", "Kpm">>
    BY Join31
  <2>5. <<"Type", "Provider", "Version", "Kpm">> \o <<"Loader", "Confirm", "Flash">> = <<"Type", "Provider", "Version", "Kpm", "Loader", "Confirm", "Flash">>
    BY Join43
  <2>6. active_steps(r) = labels /\ Numbering(r) = <<0, 2, 3, 8, 5, 6, 7>>
    BY <1>11, <1>1, <2>1, <2>2, <2>3, <2>4, <2>5 DEF active_steps, Numbering
  <2>7. r.step \in {0, 2, 3, 8, 5, 6, 7}
    BY <1>11, <1>1 DEF OnRoute, Answers, StepFits, has_modes, is_skroot, is_gki, is_apatch, is_forks
  <2>8. labels \in Seq(Labels) /\ Len(labels) = 7
    BY DEF Labels
  <2>9. \A i \in 1..7 : Numbering(r)[i] = r.step => labels[i] = PageOf(r)
    BY <2>6, <2>7, <1>11, <1>1 DEF PageOf, has_modes, is_skroot, is_gki
  <2>10. Numbering(r) \in Seq(0..8) /\ Len(Numbering(r)) = 7 /\ \E i \in 1..7 : Numbering(r)[i] = r.step
    BY <2>6, <2>7
  <2> HIDE DEF labels
  <2> QED BY <2>6, <2>8, <2>9, <2>10, BarFits
<1> QED BY <1>3, <1>4, <1>5, <1>6, <1>7, <1>8, <1>9, <1>10, <1>11, <1>1

-----------------------------------------------------------------------------
(* The moves of the root wizard.                                           *)

\* Next leads to a page of the route; the answers stay.
LEMMA NextKeepsRoute ==
  ASSUME NEW r, RootOK(r), r.step = 0 => r.family # "None", r.step = 8 => r.superkey
  PROVE  /\ RootOK(root_next(r))
         /\ root_next(r).family = r.family /\ root_next(r).loader = r.loader
         /\ r.step = 6 => root_next(r) = [r EXCEPT !.step = 7]
<1> DEFINE n == root_next(r)
<1> USE DEF RootOK
<1>1. CASE r.step = 0
  <2>1. CASE has_modes(r)
    <3>1. root_next(r) = [r EXCEPT !.step = 1]
      BY <1>1, <2>1 DEF root_next
    <3> QED BY <1>1, <2>1, <3>1 DEF RootType, OnRoute, Answers, StepFits, has_modes, is_apatch
  <2>2. CASE ~has_modes(r)
    <3>1. root_next(r) = [r EXCEPT !.mode = "None", !.step = 2]
      BY <1>1, <2>2 DEF root_next
    <3>2. n = [step |-> 2, family |-> r.family, mode |-> "None", flavor |-> r.flavor, provider |-> r.provider,
               version |-> r.version, source |-> r.source, file |-> r.file, loader |-> r.loader,
               kernel |-> r.kernel, run_id |-> r.run_id, superkey |-> r.superkey]
      BY <3>1 DEF RootType
    <3> HIDE DEF n
    <3>3. /\ n \in RootType /\ n.step = 2 /\ n.mode = "None"
          /\ n.family = r.family /\ n.provider = r.provider /\ n.loader = r.loader
      BY <3>2 DEF RootType
    <3>4. Answers(n) /\ StepFits(n)
      BY <1>1, <2>2, <3>3 DEF OnRoute, Answers, StepFits, has_modes, is_skroot, is_apatch
    <3> QED BY <1>1, <3>3, <3>4 DEF OnRoute, n
  <2> QED BY <2>1, <2>2
<1>2. CASE r.step = 1
  BY <1>2 DEF root_next, RootType, OnRoute, Answers, StepFits, has_modes, is_skroot, is_apatch
<1>3. CASE r.step = 2
  BY <1>3 DEF root_next, RootType, OnRoute, Answers, StepFits, is_gki, is_skroot, is_apatch
<1>4. CASE r.step = 3
  BY <1>4 DEF root_next, RootType, OnRoute, Answers, StepFits, is_gki, is_skroot, is_apatch, is_forks, is_nightly,
              providers
<1>5. CASE r.step = 4
  BY <1>5 DEF root_next, RootType, OnRoute, Answers, StepFits, is_apatch
<1>6. CASE r.step \in {5, 6}
  BY <1>6 DEF root_next, RootType, OnRoute, Answers, StepFits, is_apatch
<1>7. CASE r.step \in {7, 8}
  BY <1>7 DEF root_next, RootType, OnRoute, Answers, StepFits, is_apatch
<1>8. r.step \in 0..8
  BY DEF RootType
<1> QED BY <1>1, <1>2, <1>3, <1>4, <1>5, <1>6, <1>7, <1>8

\* So does Back.
LEMMA BackKeepsRoute ==
  ASSUME NEW r, RootOK(r)
  PROVE  RootOK(root_back(r)) /\ root_back(r).family = r.family
<1> USE DEF RootOK
<1>1. r.step \in 0..8
  BY DEF RootType
<1>2. CASE r.step \in {0, 1, 2}
  BY <1>2 DEF root_back, RootType, OnRoute, Answers, StepFits, has_modes, is_skroot, is_apatch
<1>3. CASE r.step \in {3, 4, 6, 7}
  <2>1. root_back(r) = [r EXCEPT !.step = r.step - 1]
    BY <1>3 DEF root_back
  <2>2. CASE r.step = 3
    BY <2>1, <2>2 DEF RootType, OnRoute, Answers, StepFits, is_skroot, is_apatch
  <2>3. CASE r.step = 4
    BY <2>1, <2>3 DEF RootType, OnRoute, Answers, StepFits, is_skroot, is_gki, is_apatch
  <2>4. CASE r.step \in {6, 7}
    BY <2>1, <2>4 DEF RootType, OnRoute, Answers, StepFits, is_apatch
  <2> QED BY <1>3, <2>2, <2>3, <2>4
<1>4. CASE r.step = 8
  BY <1>4 DEF root_back, RootType, OnRoute, Answers, StepFits, has_modes, is_skroot, is_apatch, is_gki, is_forks,
              is_nightly, providers
<1>5. CASE r.step = 5
  BY <1>5 DEF root_back, RootType, OnRoute, Answers, StepFits, has_modes, is_skroot, is_apatch, is_gki, is_forks,
              is_nightly, providers
<1> QED BY <1>1, <1>2, <1>3, <1>4, <1>5

\* The answers of a page may change as long as they belong together.
LEMMA AnswersMayChange ==
  ASSUME NEW r, NEW s \in RootType, RootOK(r), s.step = r.step, s.family = r.family, s.mode = r.mode,
         s.provider = r.provider, s.version = r.version, r.superkey => s.superkey
  PROVE  RootOK(s)
BY DEF RootOK, OnRoute, Answers, StepFits, has_modes, is_skroot, is_apatch, is_gki, is_forks, is_nightly

LEMMA ResetIsOK == RootOK(RootReset) /\ SysOK(SysReset) /\ OrderOK(NoOrder)
<1>1. RootOK(RootReset)
  BY DEF RootOK, RootType, RootReset, OnRoute, Answers, StepFits
<1>2. SysOK(SysReset)
  BY DEF SysOK, SysType, SysReset, RegionIsOfLoader, sys_steps
<1>3. OrderOK(NoOrder)
  BY DEF OrderOK, NoOrder
<1> QED BY <1>1, <1>2, <1>3

\* The page tells the number.
LEMMA PageTells ==
  ASSUME NEW r, RootOK(r)
  PROVE  /\ PageOf(r) = "Type" => r.step = 0
         /\ PageOf(r) = "Mode" => r.step = 1 /\ ~is_skroot(r)
         /\ PageOf(r) = "Provider" => r.step = 2 /\ ~is_gki(r)
         /\ PageOf(r) = "Version" => r.step = 3 /\ ~is_forks(r)
         /\ root_can_next(r) => r.family # "None"
<1>1. r.step \in 0..8
  BY DEF RootOK, RootType
<1>2. /\ PageOf(r) = "Type" => r.step = 0
      /\ PageOf(r) = "Mode" => r.step = 1 /\ ~is_skroot(r)
      /\ PageOf(r) = "Provider" => r.step = 2 /\ ~is_gki(r)
      /\ PageOf(r) = "Version" => r.step = 3 /\ ~is_forks(r)
  BY <1>1 DEF PageOf
<1>3. r.step = 0 => PageOf(r) = "Type"
  BY DEF PageOf
<1>4. root_can_next(r) => r.family # "None"
  BY <1>3 DEF root_can_next, RootOK, OnRoute, Answers
<1> QED BY <1>2, <1>4

-----------------------------------------------------------------------------
(* Every step keeps the invariant.                                         *)

LEMMA SetupInitIsOK == SetupInit => SetupInv
BY ResetIsOK DEF SetupInit, SetupInv, FlowTypes, Asked, NoPicker, RootReset

\* A click on a page that leaves its number alone, or on a page without a popup.
LEMMA PageClickKeeps ==
  ASSUME SetupInv, Takes("Root"), NEW r, RootBecomes(r), RootOK(r)
  PROVE  SetupInv'
BY DEF SetupInv, FlowTypes, Asked, Takes, RootBecomes, OnlyWizards, wizardVars, givenVars

LEMMA RootFamilyKeeps == ASSUME SetupInv, NEW f \in Families, RootFamily(f) PROVE SetupInv'
<1>1. PICK r : r = [RootReset EXCEPT !.family = f, !.loader = root.loader, !.superkey = root.superkey]
  OBVIOUS
<1>2. r = [step |-> 0, family |-> f, mode |-> "None", flavor |-> "None", provider |-> "None",
           version |-> "None", source |-> "None", file |-> "None", loader |-> root.loader,
           kernel |-> FALSE, run_id |-> FALSE, superkey |-> root.superkey]
  BY <1>1 DEF RootReset
<1>3. RootBecomes(r) /\ Takes("Root")
  BY <1>1 DEF RootFamily, root_family_step, RootPage
<1>4. RootOK(r)
  BY <1>2 DEF SetupInv, RootOK, RootType, OnRoute, Answers, StepFits
<1> QED BY <1>3, <1>4, PageClickKeeps

LEMMA RootModeKeeps == ASSUME SetupInv, NEW mode \in {"Lkm", "Gki"}, RootMode(mode) PROVE SetupInv'
<1>1. root \in RootType
  BY DEF SetupInv, RootOK
<1>2. PICK r : r = [root EXCEPT !.mode = mode, !.file = "None", !.kernel = FALSE]
  OBVIOUS
<1>3. r = [step |-> root.step, family |-> root.family, mode |-> mode, flavor |-> root.flavor,
           provider |-> root.provider, version |-> root.version, source |-> root.source, file |-> "None",
           loader |-> root.loader, kernel |-> FALSE, run_id |-> root.run_id, superkey |-> root.superkey]
  BY <1>1, <1>2 DEF RootType
<1>4. RootBecomes(r) /\ Takes("Root") /\ PageOf(root) = "Mode"
  BY <1>2 DEF RootMode, root_mode_step, RootPage
<1>5. root.step = 1 /\ ~is_skroot(root)
  BY <1>4, PageTells DEF SetupInv
<1>6. RootOK(r)
  BY <1>3, <1>5 DEF SetupInv, RootOK, RootType, OnRoute, Answers, StepFits, has_modes, is_skroot, is_apatch
<1> QED BY <1>4, <1>6, PageClickKeeps

LEMMA RootFlavorKeeps == ASSUME SetupInv, RootSkrootFlavor PROVE SetupInv'
<1> DEFINE r == [root EXCEPT !.flavor = "Lite"]
<1>1. RootBecomes(r) /\ Takes("Root")
  BY DEF RootSkrootFlavor, root_skroot_flavor_step, RootPage
<1>2. RootOK(r)
  BY AnswersMayChange DEF SetupInv, RootOK, RootType
<1> QED BY <1>1, <1>2, PageClickKeeps

LEMMA RootProviderKeeps ==
  ASSUME SetupInv, NEW f \in Families, NEW p \in providers(f), RootProvider(p) PROVE SetupInv'
<1>1. root \in RootType
  BY DEF SetupInv, RootOK
<1>2. PICK c : c = [root EXCEPT !.provider = p, !.file = "None"]
  OBVIOUS
<1> DEFINE r == IF p = "ReSukiSU" /\ root.version = "Stable"
                THEN [c EXCEPT !.version = "Nightly", !.source = "None", !.run_id = FALSE] ELSE c
<1>3. RootBecomes(r) /\ Takes("Root") /\ PageOf(root) = "Provider" /\ p \in providers(root.family)
  BY <1>2 DEF RootProvider, root_provider_step, RootPage
<1>4. root.step = 2 /\ ~is_gki(root)
  BY <1>3, PageTells DEF SetupInv
<1>5. c = [step |-> root.step, family |-> root.family, mode |-> root.mode, flavor |-> root.flavor,
           provider |-> p, version |-> root.version, source |-> root.source, file |-> "None",
           loader |-> root.loader, kernel |-> root.kernel, run_id |-> root.run_id, superkey |-> root.superkey]
  BY <1>1, <1>2 DEF RootType
<1>6. p \in {"Magisk", "MagiskForks", "KernelSU", "ReSukiSU", "APatch"}
  BY DEF providers
<1>7. c \in RootType /\ c.step = 2 /\ c.family = root.family /\ c.mode = root.mode /\ c.provider = p
  BY <1>4, <1>5, <1>6 DEF SetupInv, RootOK, RootType
<1>8. r \in RootType /\ r.step = 2 /\ r.family = root.family /\ r.mode = root.mode /\ r.provider = p
  <2>1. CASE ~(p = "ReSukiSU" /\ root.version = "Stable")
    BY <1>7, <2>1
  <2>2. CASE p = "ReSukiSU" /\ root.version = "Stable"
    <3>1. r = [c EXCEPT !.version = "Nightly", !.source = "None", !.run_id = FALSE]
      BY <2>2
    <3> HIDE DEF r
    <3>2. r = [step |-> c.step, family |-> c.family, mode |-> c.mode, flavor |-> c.flavor,
               provider |-> c.provider, version |-> "Nightly", source |-> "None", file |-> c.file,
               loader |-> c.loader, kernel |-> c.kernel, run_id |-> FALSE, superkey |-> c.superkey]
      BY <1>7, <3>1 DEF RootType
    <3> QED BY <1>7, <3>2 DEF RootType
  <2> QED BY <2>1, <2>2
<1> HIDE DEF r
<1>9. RootOK(r)
  BY <1>3, <1>4, <1>8 DEF SetupInv, RootOK, OnRoute, Answers, StepFits, is_skroot
<1> QED BY <1>3, <1>9, PageClickKeeps

LEMMA RootVersionKeeps ==
  ASSUME SetupInv, NEW v \in {"Stable", "Nightly"}, RootVersion(v) PROVE SetupInv'
<1>1. root \in RootType
  BY DEF SetupInv, RootOK
<1>2. PICK r : r = [root EXCEPT !.version = v, !.source = "None", !.run_id = FALSE]
  OBVIOUS
<1>3. RootBecomes(r) /\ Takes("Root") /\ PageOf(root) = "Version"
  BY <1>2 DEF RootVersion, root_version_step, RootPage
<1>4. root.step = 3
  BY <1>3, PageTells DEF SetupInv
<1>5. r = [step |-> root.step, family |-> root.family, mode |-> root.mode, flavor |-> root.flavor,
           provider |-> root.provider, version |-> v, source |-> "None", file |-> root.file,
           loader |-> root.loader, kernel |-> root.kernel, run_id |-> FALSE, superkey |-> root.superkey]
  BY <1>1, <1>2 DEF RootType
<1>6. r \in RootType /\ r.step = 3 /\ r.family = root.family /\ r.mode = root.mode /\ r.provider = root.provider
  BY <1>4, <1>5 DEF SetupInv, RootOK, RootType
<1>7. RootOK(r)
  BY <1>4, <1>6 DEF SetupInv, RootOK, OnRoute, Answers, StepFits, is_skroot, is_gki
<1> QED BY <1>3, <1>7, PageClickKeeps

LEMMA RootSourceKeeps ==
  ASSUME SetupInv, NEW s \in {"Auto", "Manual"}, RootNightlySource(s) PROVE SetupInv'
<1> DEFINE id == IF s = "Auto" THEN FALSE ELSE root.run_id
<1>1. root' = [root EXCEPT !.source = s, !.run_id = id]
  BY DEF RootNightlySource, SetupInv, RootOK, RootType
<1>2. id \in BOOLEAN
  BY DEF SetupInv, RootOK, RootType
<1> HIDE DEF id
<1>3. root' = [step |-> root.step, family |-> root.family, mode |-> root.mode, flavor |-> root.flavor,
               provider |-> root.provider, version |-> root.version, source |-> s, file |-> root.file,
               loader |-> root.loader, kernel |-> root.kernel, run_id |-> id, superkey |-> root.superkey]
  BY <1>1 DEF SetupInv, RootOK, RootType
<1>4. /\ root' \in RootType /\ root'.step = root.step /\ root'.family = root.family
      /\ root'.mode = root.mode /\ root'.provider = root.provider /\ root'.version = root.version
      /\ root'.superkey = root.superkey
  BY <1>2, <1>3 DEF SetupInv, RootOK, RootType
<1>5. RootOK(root')
  BY <1>4, AnswersMayChange DEF SetupInv
<1>6. (FlowTypes /\ Asked)'
  BY <1>4 DEF SetupInv, FlowTypes, Asked, RootNightlySource, root_nightly_source_step, RootPage, Takes, givenVars
<1> QED BY <1>5, <1>6 DEF SetupInv, RootNightlySource

LEMMA FileSelectedKeeps == ASSUME SetupInv, FileSelected PROVE SetupInv'
<1>1. root \in RootType /\ picker.kind \in {"Kernel", "Apk"}
  BY DEF SetupInv, RootOK, FlowTypes, FileSelected, Replies
<1>2. root' = [root EXCEPT !.file = picker.kind]
  BY DEF FileSelected
<1>3. /\ root' \in RootType /\ root'.step = root.step /\ root'.family = root.family
      /\ root'.mode = root.mode /\ root'.provider = root.provider /\ root'.version = root.version
      /\ root'.superkey = root.superkey
  BY <1>1, <1>2 DEF RootType
<1>4. RootOK(root')
  BY <1>3, AnswersMayChange DEF SetupInv
<1>5. (FlowTypes /\ Asked)'
  BY <1>3 DEF SetupInv, FlowTypes, Asked, FileSelected, Replies, givenVars, NoPicker
<1> QED BY <1>4, <1>5 DEF SetupInv, FileSelected, Replies

\* A run that starts follows its route; one that is barred goes back to the mode.
LEMMA RootStartKeeps ==
  ASSUME NEW r, RootOK(r), r.step = 7, r.mode = "Lkm" => r.kernel, OrderOK(order), RootExecStart(r)
  PROVE  /\ RootOK(root') /\ root'.step \notin {0, 8} /\ busy' \in {"No", "Run"} /\ OrderOK(order')
         /\ root'.family = r.family
<1>1. r \in RootType /\ Answers(r)
  BY DEF RootOK, OnRoute
<1>2. CASE is_gki(r) /\ ~capabilities.gki_root /\ capabilities.root
  <2>1. root' = [r EXCEPT !.mode = "None", !.step = 1]
    BY <1>2 DEF RootExecStart
  <2>2. root' = [step |-> 1, family |-> r.family, mode |-> "None", flavor |-> r.flavor, provider |-> r.provider,
                 version |-> r.version, source |-> r.source, file |-> r.file, loader |-> r.loader,
                 kernel |-> r.kernel, run_id |-> r.run_id, superkey |-> r.superkey]
    BY <1>1, <2>1 DEF RootType
  <2>3. /\ root' \in RootType /\ root'.step = 1 /\ root'.mode = "None" /\ root'.family = r.family
        /\ root'.provider = r.provider
    BY <1>1, <2>2 DEF RootType
  <2>4. r.family = "KernelSU"
    BY <1>1, <1>2 DEF Answers, is_gki
  <2>5. RootOK(root')
    BY <1>1, <2>3, <2>4 DEF RootOK, OnRoute, Answers, StepFits, has_modes, is_apatch
  <2>6. busy' = "No" /\ order' = order
    BY <1>2 DEF RootExecStart, Starts
  <2> QED BY <2>3, <2>5, <2>6
<1>3. CASE ~(is_gki(r) /\ ~capabilities.gki_root /\ capabilities.root)
  <2>1. root' = r
    BY <1>3 DEF RootExecStart
  <2>2. \/ busy' = "Run" /\ order' = [of |-> "Root", route |-> [r EXCEPT !.step = 0]]
        \/ busy' = "No" /\ order' = order
    BY DEF RootExecStart, Starts
  <2>3. PICK s : s = [r EXCEPT !.step = 0]
    OBVIOUS
  <2>4. /\ s.mode = r.mode /\ s.family = r.family /\ s.kernel = r.kernel /\ s.provider = r.provider
        /\ s.superkey = r.superkey
    BY <1>1, <2>3 DEF RootType
  <2>5. is_apatch(r) => r.superkey
    BY <1>1 DEF Answers
  <2>6. OrderOK([of |-> "Root", route |-> s])
    BY <1>1, <2>4, <2>5 DEF OrderOK, Answers, is_apatch
  <2> QED BY <2>1, <2>2, <2>3, <2>6
<1> QED BY <1>2, <1>3

LEMMA RootConfirmsKeeps == ASSUME SetupInv, RootNextConfirms PROVE SetupInv'
<1>1. /\ RootOK(root) /\ root.step = 6 /\ root.family # "None" /\ OrderOK(order)
      /\ sysupdate' = sysupdate /\ overlay' = overlay /\ picker' = picker /\ setup' = setup
      /\ nexts' \in 0..2 /\ overlay \notin {"Superkey", "Verify"}
  BY DEF SetupInv, RootOK, OnRoute, Answers, FlowTypes, Asked, RootNextConfirms, Handles, Untouched, givenVars
<1>2. CASE needs_ksu_lkm_kernel_version(root)
  <2>1. busy' = "Probe" /\ root' = root /\ order' = order
    BY <1>2 DEF RootNextConfirms
  <2> QED BY <1>1, <2>1 DEF SetupInv, FlowTypes, Asked
<1>3. CASE ~needs_ksu_lkm_kernel_version(root)
  <2>1. RootExecStart(root_next(root))
    BY <1>3 DEF RootNextConfirms
  <2>2. PICK r : r = root_next(root)
    OBVIOUS
  <2>3. RootOK(r) /\ r = [root EXCEPT !.step = 7] /\ r.family = root.family
    BY <1>1, <2>2, NextKeepsRoute
  <2>4. r.step = 7 /\ r.mode = root.mode /\ r.kernel = root.kernel
    BY <1>1, <2>3 DEF RootOK, RootType
  <2>5. r.mode = "Lkm" => r.kernel
    BY <1>1, <1>3, <2>4 DEF needs_ksu_lkm_kernel_version, RootOK, OnRoute, Answers
  <2>6. RootOK(root') /\ root'.step \notin {0, 8} /\ busy' \in {"No", "Run"} /\ OrderOK(order') /\ root'.family = r.family
    BY <1>1, <2>1, <2>2, <2>3, <2>4, <2>5, RootStartKeeps
  <2> QED BY <1>1, <2>3, <2>6 DEF SetupInv, FlowTypes, Asked
<1> QED BY <1>2, <1>3

LEMMA RootAsksKeyKeeps == ASSUME SetupInv, RootNextAsksKey PROVE SetupInv'
BY DEF SetupInv, FlowTypes, Asked, RootNextAsksKey, Handles, Untouched, NoStart, givenVars, wizardVars

LEMMA RootTurnsKeeps == ASSUME SetupInv, RootNextTurns PROVE SetupInv'
<1>1. /\ RootOK(root) /\ root.step \notin {6, 8} /\ root.family # "None"
      /\ sysupdate' = sysupdate /\ overlay' = overlay /\ picker' = picker /\ setup' = setup
      /\ busy = "No" /\ busy' = busy /\ order' = order
      /\ nexts' \in 0..2 /\ overlay \notin {"Superkey", "Verify"}
  BY DEF SetupInv, RootOK, OnRoute, Answers, FlowTypes, Asked, RootNextTurns, Handles, Untouched, NoStart, givenVars
<1>2. PICK r : r = root_next(root)
  OBVIOUS
<1>3. RootOK(r) /\ r.family = root.family
  BY <1>1, <1>2, NextKeepsRoute
<1>4. RootOK(root') /\ root'.family = root.family
  <2>1. CASE r.step = 5 /\ r.loader = "None" /\ default_fits
    <3>1. PICK s : s = [r EXCEPT !.loader = "Default"]
      OBVIOUS
    <3>2. s \in RootType /\ s.step = 5 /\ s.family = r.family /\ s.mode = r.mode /\ s.provider = r.provider
          /\ s.version = r.version /\ s.superkey = r.superkey
      BY <1>3, <2>1, <3>1 DEF RootOK, RootType
    <3>3. RootOK(s)
      BY <1>3, <2>1, <3>2, AnswersMayChange
    <3>4. RootOK(root_next(s)) /\ root_next(s).family = s.family
      BY <3>2, <3>3, NextKeepsRoute
    <3>5. root' = root_next(s)
      BY <1>2, <2>1, <3>1 DEF RootNextTurns
    <3> QED BY <1>3, <3>2, <3>4, <3>5
  <2>2. CASE ~(r.step = 5 /\ r.loader = "None" /\ default_fits)
    BY <1>2, <1>3, <2>2 DEF RootNextTurns
  <2> QED BY <2>1, <2>2
<1> QED BY <1>1, <1>4 DEF SetupInv, FlowTypes, Asked

LEMMA SuperkeyKeeps == ASSUME SetupInv, NEW same \in BOOLEAN, RootSuperkeyConfirm(same) PROVE SetupInv'
<1>1. /\ RootOK(root) /\ root.step = 8 /\ overlay \in {"Superkey", "Verify"}
      /\ sysupdate' = sysupdate /\ picker' = picker /\ setup' = setup
      /\ busy = "No" /\ busy' = busy /\ order' = order /\ nexts = 0 /\ nexts' = nexts
  BY DEF SetupInv, FlowTypes, Asked, RootSuperkeyConfirm, root_superkey_popup, InPopup, PopupDone, NoStart, givenVars
<1>2. CASE overlay = "Verify" /\ same
  <2>1. PICK s : s = [root EXCEPT !.superkey = TRUE]
    OBVIOUS
  <2>2. s \in RootType /\ s.step = 8 /\ s.family = root.family /\ s.mode = root.mode
        /\ s.provider = root.provider /\ s.version = root.version /\ s.superkey
    BY <1>1, <2>1 DEF RootOK, RootType
  <2>3. RootOK(s)
    BY <1>1, <2>2, AnswersMayChange
  <2>4. root' = root_next(s) /\ overlay' = "None"
    BY <1>2, <2>1 DEF RootSuperkeyConfirm
  <2>5. RootOK(root')
    BY <2>2, <2>3, <2>4, NextKeepsRoute
  <2> QED BY <1>1, <2>4, <2>5 DEF SetupInv, FlowTypes, Asked
<1>3. CASE ~(overlay = "Verify" /\ same)
  <2>1. root' = root /\ overlay' \in {"Superkey", "Verify"}
    BY <1>1, <1>3 DEF RootSuperkeyConfirm
  <2> QED BY <1>1, <2>1 DEF SetupInv, FlowTypes, Asked
<1> QED BY <1>2, <1>3

LEMMA RunIdKeeps == ASSUME SetupInv, RootRunIdConfirm PROVE SetupInv'
<1>1. root \in RootType /\ root' = [root EXCEPT !.run_id = TRUE]
  BY DEF SetupInv, RootOK, RootRunIdConfirm
<1>2. /\ root' \in RootType /\ root'.step = root.step /\ root'.family = root.family
      /\ root'.mode = root.mode /\ root'.provider = root.provider /\ root'.version = root.version
      /\ root'.superkey = root.superkey
  BY <1>1 DEF RootType
<1>3. RootOK(root')
  BY <1>2, AnswersMayChange DEF SetupInv
<1>4. (FlowTypes /\ Asked)'
  BY <1>2 DEF SetupInv, FlowTypes, Asked, RootRunIdConfirm, PopupDone, NoStart, givenVars
<1> QED BY <1>3, <1>4 DEF SetupInv, RootRunIdConfirm, PopupDone, NoStart

\* What the kernel version is known of goes on with the run.
LEMMA KnownKernelStarts ==
  ASSUME RootOK(root), root.step = 6, OrderOK(order), RootExecStart(root_next([root EXCEPT !.kernel = TRUE]))
  PROVE  /\ RootOK(root') /\ root'.step \notin {0, 8} /\ busy' \in {"No", "Run"} /\ OrderOK(order')
         /\ root'.family # "None"
<1>1. PICK s : s = [root EXCEPT !.kernel = TRUE]
  OBVIOUS
<1>2. s \in RootType /\ s.step = 6 /\ s.family = root.family /\ s.mode = root.mode
      /\ s.provider = root.provider /\ s.version = root.version /\ s.superkey = root.superkey /\ s.kernel
  BY <1>1 DEF RootOK, RootType
<1>3. RootOK(s)
  BY <1>2, AnswersMayChange
<1>4. PICK r : r = root_next(s)
  OBVIOUS
<1>5. RootOK(r) /\ r = [s EXCEPT !.step = 7] /\ r.family = s.family
  BY <1>2, <1>3, <1>4, NextKeepsRoute
<1>6. r.step = 7 /\ r.kernel
  BY <1>2, <1>5 DEF RootType
<1>7. s.family # "None"
  BY <1>2 DEF RootOK, OnRoute, Answers
<1> QED BY <1>1, <1>4, <1>5, <1>6, <1>7, RootStartKeeps

LEMMA KernelConfirmKeeps == ASSUME SetupInv, RootKernelVersionConfirm PROVE SetupInv'
<1>1. /\ RootOK(root) /\ OrderOK(order) /\ busy = "No" /\ overlay' = "None"
      /\ sysupdate' = sysupdate /\ picker' = picker /\ setup' = setup /\ nexts = 0 /\ nexts' = nexts
  BY DEF SetupInv, RootKernelVersionConfirm, root_kernel_version_popup, InPopup, PopupDone, givenVars
<1>2. CASE root.step = 6
  <2>1. RootExecStart(root_next([root EXCEPT !.kernel = TRUE]))
    BY <1>2 DEF RootKernelVersionConfirm
  <2>2. RootOK(root') /\ busy' \in {"No", "Run"} /\ OrderOK(order')
    BY <1>1, <1>2, <2>1, KnownKernelStarts
  <2> QED BY <1>1, <2>2 DEF SetupInv, FlowTypes, Asked
<1>3. CASE root.step # 6
  <2>1. root' = [root EXCEPT !.kernel = TRUE] /\ busy' = busy /\ order' = order
    BY <1>3 DEF RootKernelVersionConfirm, NoStart
  <2>2. /\ root' \in RootType /\ root'.step = root.step /\ root'.family = root.family
        /\ root'.mode = root.mode /\ root'.provider = root.provider /\ root'.version = root.version
        /\ root'.superkey = root.superkey
    BY <1>1, <2>1 DEF RootOK, RootType
  <2>3. RootOK(root')
    BY <1>1, <2>2, AnswersMayChange
  <2> QED BY <1>1, <2>1, <2>3 DEF SetupInv, FlowTypes, Asked
<1> QED BY <1>2, <1>3

LEMMA ProbeDoneKeeps == ASSUME SetupInv, NEW detected \in BOOLEAN, RootKernelVersionProbeDone(detected) PROVE SetupInv'
<1>1. /\ RootOK(root) /\ OrderOK(order) /\ root.step = 6 /\ overlay \notin {"Superkey", "Verify"}
      /\ sysupdate' = sysupdate /\ picker' = picker /\ setup' = setup /\ nexts' = nexts
  BY DEF SetupInv, Asked, RootKernelVersionProbeDone, PopupDone, givenVars
<1>2. CASE detected
  <2>1. RootExecStart(root_next([root EXCEPT !.kernel = TRUE])) /\ overlay' = overlay
    BY <1>2 DEF RootKernelVersionProbeDone
  <2>2. RootOK(root') /\ busy' \in {"No", "Run"} /\ OrderOK(order') /\ root'.family # "None"
    BY <1>1, <2>1, KnownKernelStarts
  <2> QED BY <1>1, <2>1, <2>2 DEF SetupInv, FlowTypes, Asked
<1>3. CASE ~detected
  <2>1. busy' = "No" /\ overlay' = "Kernel" /\ root' = root /\ order' = order
    BY <1>3 DEF RootKernelVersionProbeDone
  <2> QED BY <1>1, <2>1 DEF SetupInv, FlowTypes, Asked
<1> QED BY <1>2, <1>3

\* Steps that leave the pages of the three wizards alone.
LEMMA DialogKeeps ==
  ASSUME SetupInv, NEW for, NEW kind, Opens(for, kind), for = "RootFile" => kind \in {"Kernel", "Apk"}
  PROVE  SetupInv'
BY DEF SetupInv, FlowTypes, Asked, Opens, givenVars, wizardVars

LEMMA SelectFileKeeps == ASSUME SetupInv, RootSelectFile PROVE SetupInv'
<1>1. Opens("RootFile", IF is_gki(root) THEN "Kernel" ELSE "Apk")
  BY DEF RootSelectFile
<1> QED BY <1>1, DialogKeeps

LEMMA FolderKeeps ==
  ASSUME SetupInv, UnrootSelectFolder \/ FolderSelected \/ SetUnrootType PROVE SetupInv'
<1>1. CASE UnrootSelectFolder
  BY <1>1, DialogKeeps DEF UnrootSelectFolder
<1>2. CASE FolderSelected
  BY <1>2 DEF SetupInv, FlowTypes, Asked, FolderSelected, Replies, NoPicker, givenVars
<1>3. CASE SetUnrootType
  BY <1>3 DEF SetupInv, FlowTypes, Asked, SetUnrootType, OnlyWizards, givenVars
<1> QED BY <1>1, <1>2, <1>3

LEMMA QuietKeeps ==
  ASSUME SetupInv, PickerIsIgnored \/ NextIsDropped \/ SetupRunEnds \/ (\E model \in DeviceModels : ModelIsSeen(model))
  PROVE  SetupInv'
<1>1. CASE PickerIsIgnored
  BY <1>1 DEF SetupInv, FlowTypes, Asked, PickerIsIgnored, NoPicker, givenVars, wizardVars
<1>2. CASE NextIsDropped
  BY <1>2 DEF SetupInv, FlowTypes, Asked, NextIsDropped, givenVars, wizardVars
<1>3. CASE SetupRunEnds
  BY <1>3, ResetIsOK DEF SetupInv, FlowTypes, Asked, SetupRunEnds, givenVars, wizardVars
<1>4. CASE \E model \in DeviceModels : ModelIsSeen(model)
  BY <1>4 DEF SetupInv, FlowTypes, Asked, ModelIsSeen, givenVars, wizardVars
<1> QED BY <1>1, <1>2, <1>3, <1>4

\* A loader is no answer the pages depend on.
LEMMA LoaderIsFree ==
  ASSUME RootOK(root), NEW loader \in {"None", "Default", "File"}, NEW r, r = [root EXCEPT !.loader = loader]
  PROVE  RootOK(r) /\ r.step = root.step /\ r.family = root.family
<1>1. /\ r \in RootType /\ r.step = root.step /\ r.family = root.family
      /\ r.mode = root.mode /\ r.provider = root.provider /\ r.version = root.version
      /\ r.superkey = root.superkey
  BY DEF RootOK, RootType
<1> QED BY <1>1, AnswersMayChange

\* Another loader for the rescue has its region asked again.
LEMMA RescueLoaderIsFree ==
  ASSUME SysOK(sysupdate), NEW file \in Loaders \cup {"Default"}, NEW s,
         s = [sysupdate EXCEPT !.loader = file, !.region = "None", !.confirmed = FALSE]
  PROVE  SysOK(s)
<1>1. s = [step |-> sysupdate.step, action |-> sysupdate.action, loader |-> file, region |-> "None",
           confirmed |-> FALSE, region_for |-> sysupdate.region_for]
  BY DEF SysOK, SysType
<1> QED BY <1>1 DEF SysOK, SysType, RegionIsOfLoader, sys_steps

LEMMA LoaderKeeps ==
  ASSUME SetupInv, NEW loader \in {"File", "None"}, RootLoaderChosen(loader) \/ UnrootLoaderChosen(loader)
  PROVE  SetupInv'
<1>1. CASE RootLoaderChosen(loader)
  <2>1. RootOK(root') /\ root'.step = root.step /\ root'.family = root.family
    BY <1>1, LoaderIsFree DEF SetupInv, RootLoaderChosen
  <2> QED BY <1>1, <2>1 DEF SetupInv, FlowTypes, Asked, RootLoaderChosen, Replies, NoPicker, givenVars
<1>2. CASE UnrootLoaderChosen(loader)
  BY <1>2 DEF SetupInv, FlowTypes, Asked, UnrootLoaderChosen, Replies, NoPicker, givenVars
<1> QED BY <1>1, <1>2

LEMMA RescueLoaderKeeps == ASSUME SetupInv, NEW file \in Loaders, SysRescueFolderChosen(file) PROVE SetupInv'
<1>1. SysOK(sysupdate')
  BY RescueLoaderIsFree DEF SetupInv, SysRescueFolderChosen
<1> QED BY <1>1 DEF SetupInv, FlowTypes, Asked, SysRescueFolderChosen, Replies, NoPicker, givenVars

LEMMA SelectLoaderKeeps == ASSUME SetupInv, NEW k \in Setups, SelectLoader(k) PROVE SetupInv'
<1>1. k # "RootFile"
  BY SetupAssumption
<1>2. CASE ~default_fits
  BY <1>1, <1>2, DialogKeeps DEF SelectLoader
<1>3. CASE default_fits
  <2>1. /\ root' = IF k = "Root" THEN [root EXCEPT !.loader = "Default"] ELSE root
        /\ sysupdate' = IF k = "SystemUpdate"
                        THEN [sysupdate EXCEPT !.loader = "Default", !.region = "None", !.confirmed = FALSE]
                        ELSE sysupdate
        /\ OnlyWizards
    BY <1>3 DEF SelectLoader
  <2>2. RootOK(root') /\ root'.step = root.step /\ root'.family = root.family
    BY <2>1, LoaderIsFree DEF SetupInv
  <2>3. SysOK(sysupdate')
    BY <2>1, RescueLoaderIsFree DEF SetupInv
  <2> QED BY <2>1, <2>2, <2>3 DEF SetupInv, FlowTypes, Asked, OnlyWizards, givenVars
<1> QED BY <1>2, <1>3

LEMMA ClickKeeps == ASSUME SetupInv, NEW k \in Setups, ClickSetupNext(k) PROVE SetupInv'
<1>1. CASE k = "Root"
  <2>1. root.family # "None"
    BY <1>1, PageTells DEF SetupInv, ClickSetupNext, view_root_wizard
  <2> QED BY <2>1 DEF SetupInv, FlowTypes, Asked, ClickSetupNext, givenVars, wizardVars
<1>2. CASE k # "Root"
  <2>1. setup # "Root"
    BY <1>2, SetupAssumption DEF ClickSetupNext, view_unroot_wizard, view_sysupdate_wizard, Takes
  <2> QED BY <2>1 DEF SetupInv, FlowTypes, Asked, ClickSetupNext, givenVars, wizardVars
<1> QED BY <1>1, <1>2

LEMMA UnrootNextKeeps == ASSUME SetupInv, UnrootNext PROVE SetupInv'
<1>1. /\ setup = "Unroot" /\ root' = root /\ sysupdate' = sysupdate /\ overlay' = overlay /\ picker' = picker
      /\ setup' = setup /\ nexts' \in 0..2 /\ busy = "No"
  BY DEF SetupInv, FlowTypes, UnrootNext, Handles, Untouched, givenVars
<1>2. busy' \in {"No", "Run"} /\ (order' = order \/ order' = [of |-> "Unroot"])
  BY <1>1 DEF UnrootNext, UnrootExecStart, Starts, NoStart
<1>3. OrderOK(order')
  BY <1>2 DEF SetupInv, OrderOK
<1> QED BY <1>1, <1>2, <1>3 DEF SetupInv, FlowTypes, Asked

\* The next page of a system update.
LEMMA SysTurns ==
  ASSUME NEW s, SysOK(s), s.step < sys_steps(s) - 1, s.step = 1 => s.action # "Rescue" \/ s.confirmed
  PROVE  SysOK([s EXCEPT !.step = s.step + 1])
BY DEF SysOK, SysType, RegionIsOfLoader, sys_steps

LEMMA SysNextKeeps == ASSUME SetupInv, SysNext PROVE SetupInv'
<1>1. /\ setup = "SystemUpdate" /\ root' = root /\ picker' = picker /\ setup' = setup /\ nexts' \in 0..2
      /\ busy = "No" /\ SysOK(sysupdate)
  BY DEF SetupInv, FlowTypes, SysNext, Handles, Untouched, givenVars
<1> DEFINE s == sysupdate
<1>2. CASE s.action = "Rescue" /\ s.step = 1 /\ ~s.confirmed
  <2>1. /\ \E inferred \in {"None", "Prc"} :
             sysupdate' = [sysupdate EXCEPT !.region = IF @ = "None" THEN inferred ELSE @]
        /\ overlay' = "Region" /\ busy' = busy /\ order' = order
    BY <1>2 DEF SysNext, NoStart, sys_steps
  <2>2. SysOK(sysupdate')
    BY <1>1, <1>2, <2>1 DEF SysOK, SysType, RegionIsOfLoader, sys_steps
  <2> QED BY <1>1, <2>1, <2>2 DEF SetupInv, FlowTypes, Asked
<1>3. CASE ~(s.action = "Rescue" /\ s.step = 1 /\ ~s.confirmed) /\ s.step = sys_steps(s) - 2
  <2>1. PICK n : n = [s EXCEPT !.step = @ + 1]
    OBVIOUS
  <2>2. SysExecStart(n) /\ overlay' = overlay
    BY <1>3, <2>1 DEF SysNext, sys_steps
  <2>3. SysOK(n)
    BY <1>1, <1>3, <2>1, SysTurns DEF SysOK, SysType, sys_steps
  <2>4. n.action = "Rescue" => n.step = 3
    BY <1>1, <1>3, <2>1 DEF SysOK, SysType, sys_steps
  <2>5. /\ sysupdate' = n /\ busy' \in {"No", "Run"}
        /\ \/ order' = order
           \/ order' = [of |-> n.action, loader |-> n.loader, region |-> n.region, region_for |-> n.region_for]
    BY <2>2 DEF SysExecStart, Starts
  <2>6. OrderOK(order')
    <3>1. n.action # "Root"
      BY <2>3 DEF SysOK, SysType
    <3> QED BY <2>3, <2>4, <2>5, <3>1 DEF SetupInv, OrderOK, SysOK, RegionIsOfLoader
  <2> QED BY <1>1, <2>2, <2>3, <2>5, <2>6 DEF SetupInv, FlowTypes, Asked
<1>4. CASE ~(s.action = "Rescue" /\ s.step = 1 /\ ~s.confirmed) /\ s.step = sys_steps(s) - 1
  <2>1. sysupdate' = s /\ overlay' = overlay /\ busy' = busy /\ order' = order
    BY <1>1, <1>4 DEF SysNext, NoStart, sys_steps
  <2> QED BY <1>1, <2>1 DEF SetupInv, FlowTypes, Asked
<1>5. CASE /\ ~(s.action = "Rescue" /\ s.step = 1 /\ ~s.confirmed)
           /\ s.step # sys_steps(s) - 2 /\ s.step # sys_steps(s) - 1
  <2>1. sysupdate' = [s EXCEPT !.step = s.step + 1] /\ overlay' = overlay /\ busy' = busy /\ order' = order
    BY <1>1, <1>5 DEF SysNext, NoStart, SysOK, SysType
  <2>2. SysOK(sysupdate')
    BY <1>1, <1>5, <2>1, SysTurns DEF SysOK, SysType, sys_steps
  <2> QED BY <1>1, <2>1, <2>2 DEF SetupInv, FlowTypes, Asked
<1> QED BY <1>2, <1>3, <1>4, <1>5

LEMMA BackKeeps == ASSUME SetupInv, NEW k \in Setups, SetupBack(k) PROVE SetupInv'
<1>1. /\ Takes(k) /\ OnlyWizards /\ SysOK(sysupdate)
  BY DEF SetupInv, SetupBack
<1>2. RootOK(root')
  BY BackKeepsRoute DEF SetupInv, SetupBack
<1>3. SysOK(sysupdate')
  <2>1. CASE k \in {"Root", "Unroot"}
    BY <1>1, <2>1 DEF SetupBack
  <2>2. CASE k \notin {"Root", "Unroot"}
    <3>1. sysupdate.step \in 1..(sys_steps(sysupdate) - 2) /\ sysupdate' = [sysupdate EXCEPT !.step = sysupdate.step - 1]
      BY <1>1, <2>2 DEF SetupBack, SysOK, SysType
    <3> QED BY <1>1, <3>1 DEF SysOK, SysType, RegionIsOfLoader, sys_steps
  <2> QED BY <2>1, <2>2
<1> QED BY <1>1, <1>2, <1>3 DEF SetupInv, FlowTypes, Asked, Takes, OnlyWizards, givenVars

LEMMA SysActionKeeps ==
  ASSUME SetupInv, NEW action \in {"Disable", "Enable", "Rescue"}, SysAction(action) PROVE SetupInv'
<1>1. PICK s : s = [SysReset EXCEPT !.action = action]
  OBVIOUS
<1>2. s = [step |-> 0, action |-> action, loader |-> "None", region |-> "None", confirmed |-> FALSE,
           region_for |-> "None"]
  BY <1>1 DEF SysReset
<1>3. SysOK(s)
  BY <1>2 DEF SysOK, SysType, RegionIsOfLoader, sys_steps
<1> QED BY <1>1, <1>3 DEF SetupInv, FlowTypes, Asked, SysAction, OnlyWizards, givenVars

LEMMA RegionKeeps == ASSUME SetupInv, NEW region \in {"Prc", "Row"}, SysRescueRegion(region) PROVE SetupInv'
<1>1. PICK n : n = IF sysupdate.step = 1 THEN 2 ELSE sysupdate.step
  OBVIOUS
<1>2. SysOK(sysupdate)
  BY DEF SetupInv
<1>3. sysupdate' = [sysupdate EXCEPT !.region = region, !.confirmed = TRUE, !.region_for = sysupdate.loader, !.step = n]
  BY <1>1, <1>2 DEF SysRescueRegion, SysOK, SysType
<1>4. sysupdate' = [step |-> n, action |-> sysupdate.action, loader |-> sysupdate.loader, region |-> region,
                    confirmed |-> TRUE, region_for |-> sysupdate.loader]
  BY <1>2, <1>3 DEF SysOK, SysType
<1>5. SysOK(sysupdate')
  BY <1>1, <1>2, <1>4 DEF SysOK, SysType, RegionIsOfLoader, sys_steps
<1> QED BY <1>5 DEF SetupInv, FlowTypes, Asked, SysRescueRegion, rescue_region_popup_view, InPopup, PopupDone,
                 NoStart, givenVars

LEMMA CancelKeeps == ASSUME SetupInv, PopupCancelled PROVE SetupInv'
<1>1. /\ RootOK(root) /\ root' \in {root, [root EXCEPT !.source = "None"]} /\ nexts = 0 /\ busy = "No"
      /\ overlay' = "None" /\ sysupdate' = sysupdate
  BY DEF SetupInv, PopupCancelled, InPopup
<1>2. RootOK(root')
  <2>1. CASE root' = [root EXCEPT !.source = "None"]
    <3>1. /\ root' \in RootType /\ root'.step = root.step /\ root'.family = root.family
          /\ root'.mode = root.mode /\ root'.provider = root.provider /\ root'.version = root.version
          /\ root'.superkey = root.superkey
      BY <1>1, <2>1 DEF RootOK, RootType
    <3> QED BY <1>1, <3>1, AnswersMayChange
  <2> QED BY <1>1, <2>1
<1> QED BY <1>1, <1>2 DEF SetupInv, FlowTypes, Asked, PopupCancelled, PopupDone, NoStart, givenVars

LEMMA ResetKeeps ==
  ASSUME SetupInv, NEW v, RestartSetup \/ SidebarTo(v) PROVE SetupInv'
<1>1. CASE AllReset /\ nexts = 0 /\ nexts' = nexts /\ busy = "No"
  BY <1>1, ResetIsOK DEF SetupInv, FlowTypes, Asked, RestartSetup, SidebarTo, AllReset, givenVars
<1>2. CASE UNCHANGED <<wizardVars, overlay>> /\ SidebarTo(v)
  BY <1>2 DEF SetupInv, FlowTypes, Asked, SidebarTo, wizardVars, givenVars
<1>3. CASE RestartSetup
  BY <1>1, <1>3 DEF RestartSetup, Takes
<1>4. CASE SidebarTo(v)
  BY <1>1, <1>2, <1>4 DEF SidebarTo
<1> QED BY <1>3, <1>4

LEMMA SetupStepKeeps == SetupInv /\ [SetupNext]_setupVars => SetupInv'
<1> SUFFICES ASSUME SetupInv, [SetupNext]_setupVars PROVE SetupInv'
  OBVIOUS
<1>1. CASE RootSteps
  BY <1>1, RootFamilyKeeps, RootModeKeeps, RootFlavorKeeps, RootProviderKeeps, RootVersionKeeps,
     RootSourceKeeps, SelectFileKeeps, FileSelectedKeeps, RootConfirmsKeeps, RootAsksKeyKeeps,
     RootTurnsKeeps, SuperkeyKeeps, RunIdKeeps, KernelConfirmKeeps, ProbeDoneKeeps DEF RootSteps
<1>2. CASE OtherSteps
  BY <1>2, FolderKeeps, QuietKeeps, UnrootNextKeeps, SysNextKeeps, SysActionKeeps, RegionKeeps,
     LoaderKeeps, RescueLoaderKeeps, SelectLoaderKeeps, ClickKeeps, BackKeeps, CancelKeeps, ResetKeeps
  DEF OtherSteps
<1>3. CASE UNCHANGED setupVars
  BY <1>3 DEF SetupInv, FlowTypes, Asked, setupVars, wizardVars, givenVars
<1> QED BY <1>1, <1>2, <1>3 DEF SetupNext

\* The inductive invariant of the wizards of Root, Unroot and System Update
\* (RootWizard::next and back, Message::RootNext, SysUpdateWizard).
THEOREM SetupKeepsItsRoute == SetupSpec => []SetupInv
BY SetupInitIsOK, SetupStepKeeps, PTL DEF SetupSpec

\* The step bar names the page on show: active_steps, display_step, next, back
\* and view_root_wizard agree on every route, whatever is changed, skipped,
\* replayed or thrown back.
THEOREM BarIsRight == SetupSpec => []BarNamesThePage
<1>1. SetupInv => BarNamesThePage
  BY RouteNamesPages DEF SetupInv, RootOK, BarNamesThePage
<1> QED BY <1>1, SetupKeepsItsRoute, PTL

\* A root run that the worker lets through follows one route, and a rescue runs
\* for the region that was confirmed for the very loader it uses.
THEOREM OrdersFollowTheRoute == SetupSpec => []OrdersAreWhole
<1>1. SetupInv => OrdersAreWhole
  BY DEF SetupInv, OrderOK, OrdersAreWhole
<1> QED BY <1>1, SetupKeepsItsRoute, PTL
=============================================================================
