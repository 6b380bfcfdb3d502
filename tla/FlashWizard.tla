----------------------------- MODULE FlashWizard -----------------------------
(***************************************************************************)
(* The flash wizard: what the user picks on its pages, the background jobs *)
(* that inspect the firmware folder and a picked bootloader, the native    *)
(* dialogs whose replies come whenever the user answers them, and the run  *)
(* that is started from all of it.  A Next clicked while the USB poll is   *)
(* in flight waits in the queue and is replayed on whatever page is then   *)
(* current.  The connected device is that of DeviceSession.                *)
(***************************************************************************)
EXTENDS DeviceSession, Sequences, FiniteSets

CONSTANTS
  Folders,       \* firmware folders, each named for what its images tell
  Loaderless,    \* those that ship no EDL loader
  DefaultLoader, \* whether the settings name a loader that fits the device
  Abls,          \* bootloader files, each named for what its analysis tells
  DeviceRegions, Targets, DataModes, Countries, \* the cards the user may pick
  Edits,         \* the rows of the confirm page he may edit
  Pickers,       \* the native dialogs he may open
  PrcOnly,       \* devices that are sold with PRC firmware only
  MaxOpen,       \* native dialogs open at a time
  MaxJobs,       \* jobs under way at a time
  MaxQueued,     \* clicks that may wait for a poll
  MaxRuns

ASSUME WizardAssumption ==
  /\ Folders \subseteq {"Signed", "Lenovo", "GblYes", "GblNo", "GblUnknown", "Unreadable"}
  /\ Abls \subseteq {"Testkey", "Efisp", "Foreign"}
  /\ Loaderless \subseteq Folders /\ DefaultLoader \in BOOLEAN /\ PrcOnly \subseteq Serials
  /\ Targets \subseteq {"OtherRegion", "SameRegion"} /\ DataModes \subseteq {"Keep", "Wipe"}
  /\ DeviceRegions \subseteq {"Prc", "Row"} /\ Countries \subseteq {"Skip", "CN", "Other"}
  /\ Pickers \subseteq {"FlashFolder", "UnrootFolder", "Loader", "Bootloader"}
  /\ Edits \subseteq {"Region", "Target", "Data", "Rollback", "Country"}
  /\ {MaxOpen, MaxJobs, MaxQueued, MaxRuns} \subseteq Nat

VARIABLES
  flash,              \* FlashWizard
  wf_config,          \* WorkflowConfig
  confirm_baseline,   \* the configuration the confirm page compares with, or NoConfig
  confirm_edit_field, \* the editor open over the confirm page, or "None"
  country_popup_open,
  flash_serial_prompt,
  dialogs,            \* native dialogs that are open
  picker_target,      \* where the reply of a folder dialog goes
  jobs,               \* inspections and analyses under way
  running,            \* the flash operation
  runs,
  astray,             \* the pages and the configuration have parted: a run that ended well
                      \* cleared it, or a folder's late reply skipped the pages that set it
  queued              \* clicks on Next that wait for the poll to end

popupVars  == <<confirm_edit_field, country_popup_open, flash_serial_prompt>>
pickerVars == <<dialogs, picker_target>>
runVars    == <<running, runs, astray>>
wizardVars == <<flash, wf_config, confirm_baseline, popupVars, pickerVars, jobs, runVars, queued>>
vars == <<sessionVars, wizardVars>>

-----------------------------------------------------------------------------
(* The pages.                                                              *)

Fresh == [step |-> 0, device_region |-> "None", target |-> "None", data_mode |-> "None",
          folder |-> "None", loader_override |-> FALSE,
          identity |-> "None", pending |-> FALSE, dialog |-> "None",
          abl |-> "None", analyzing |-> FALSE, judged |-> "None", no_efisp_load |-> FALSE]

DefaultConfig == [modify_region |-> FALSE, device_region |-> "None",
                  modify_rollback |-> "Off", wipe |-> FALSE, country |-> "Unset"]
NoConfig == [wipe |-> "NoConfig"]

uses_gbl(f) == f.identity \in {"GblYes", "GblNo", "GblUnknown"}
needs_bootloader_step(identity) == identity \in {"Lenovo", "GblNo", "GblUnknown"}

visible_steps(f) ==
  <<"Region", "Target", "Data", "Folder">>
    \o (IF needs_bootloader_step(f.identity) THEN <<"Bootloader">> ELSE <<>>)
    \o <<"Confirm", "Flash">>

LastStep(f) == Len(visible_steps(f)) - 1
StepOf(f) == IF f.step <= LastStep(f) THEN visible_steps(f)[f.step + 1] ELSE "Flash"
current_step == StepOf(flash)

next(f) == [f EXCEPT !.step = IF f.step < LastStep(f) THEN f.step + 1 ELSE f.step]
back(f) == [f EXCEPT !.step = IF f.step > 0 THEN f.step - 1 ELSE 0]
is_in_exec == flash.step = LastStep(flash)
is_on_confirm_step == flash.step = LastStep(flash) - 1

clear_bootloader(f) ==
  [f EXCEPT !.abl = "None", !.analyzing = FALSE, !.judged = "None", !.no_efisp_load = FALSE]
reset_firmware_identity(f) ==
  clear_bootloader([f EXCEPT !.identity = "None", !.pending = FALSE, !.dialog = "None"])

\* The picked bootloader is judged by its key, or by whether it loads efisp.
bootloader_can_next(f) ==
  /\ ~f.analyzing
  /\ IF uses_gbl(f)
     THEN IF f.abl # "None" THEN f.judged = "Efisp" ELSE f.identity # "GblUnknown"
     ELSE f.abl = "None" \/ f.judged = "Testkey"

record_bootloader_decision(f) ==
  [f EXCEPT !.no_efisp_load = (f.abl = "None" /\ f.identity = "GblNo")]

bootloader_execution_allowed(f) ==
  /\ bootloader_can_next(f)
  /\ uses_gbl(f) => \/ f.abl # "None"
                    \/ f.identity = "GblYes"
                    \/ f.identity = "GblNo" /\ f.no_efisp_load

FolderIsComplete == /\ flash.folder # "None"
                    /\ flash.folder \in Loaderless => flash.loader_override

can_next ==
  CASE current_step = "Region"     -> flash.device_region # "None"
    [] current_step = "Target"     -> flash.target # "None"
    [] current_step = "Data"       -> flash.data_mode # "None"
    [] current_step = "Folder"     -> FolderIsComplete /\ ~flash.pending
    [] current_step = "Bootloader" -> bootloader_can_next(flash)
    [] current_step = "Confirm"    -> /\ flash.identity # "None" /\ FolderIsComplete
                                      /\ bootloader_execution_allowed(flash)
    [] OTHER                       -> FALSE

device_reachable == device.connection \in {"Adb", "Fastboot", "Edl"}
is_prc_only == device.serial \in PrcOnly

\* The pages take clicks unless a popup lies over them or a run owns the wizard;
\* while a poll is in flight every click is put off.
NoPopup == /\ confirm_edit_field = "None" /\ ~country_popup_open
           /\ ~flash_serial_prompt /\ flash.dialog = "None" /\ ~running
PageIsFree == NoPopup /\ runs < MaxRuns \* the bound: no walk that leads to no run
Quiet == reading = NoPoll /\ queued = 0
\* Nothing comes between the clicks that are replayed.
Replaying == reading = NoPoll /\ queued > 0
On(step) == PageIsFree /\ Quiet /\ current_step = step

-----------------------------------------------------------------------------
(* Entering and leaving.                                                   *)

\* begin_flash_region_auto
BeginRegionAuto ==
  /\ astray' = FALSE
  /\ CASE is_prc_only ->
           /\ flash' = [Fresh EXCEPT !.device_region = "Prc", !.step = 1]
           /\ flash_serial_prompt' = FALSE
           /\ region_pending' = 0
           /\ UNCHANGED <<sequence, pending, workers, popup, cache>>
      [] ~is_prc_only /\ has_pollable_serial ->
           /\ flash' = Fresh /\ flash_serial_prompt' = FALSE
           /\ start_region_probe(device.serial)
      [] OTHER ->
           /\ flash' = Fresh /\ flash_serial_prompt' = TRUE
           /\ region_pending' = 0
           /\ UNCHANGED <<sequence, pending, workers, popup, cache>>

\* Navigate(View::Flash), from the same page or from another view, where the
\* unroot wizard may have been asked to open its own dialog.  A finished wizard
\* and one at its confirm page are kept.
EnterFlash(opened) ==
  /\ PageIsFree /\ Quiet
  /\ opened \cap dialogs = {} /\ Cardinality(dialogs \cup opened) <= MaxOpen
  /\ dialogs' = dialogs \cup opened
  /\ picker_target' = IF opened = {} THEN picker_target ELSE "UnrootFolder"
  /\ IF is_in_exec \/ is_on_confirm_step
     THEN UNCHANGED <<queryVars, flash, flash_serial_prompt, astray>>
     ELSE BeginRegionAuto
  /\ UNCHANGED <<cableVars, deviceVars, wf_config, confirm_baseline, confirm_edit_field,
                 country_popup_open, jobs, running, runs, queued>>

\* StartOver, offered by the page of a finished run.
StartOver ==
  /\ NoPopup /\ Quiet /\ current_step = "Flash" /\ flash' = Fresh
  /\ astray' = FALSE
  /\ UNCHANGED <<sessionVars, wf_config, confirm_baseline, popupVars, pickerVars, jobs, running, runs, queued>>

SerialPrompt(serial) ==
  /\ flash_serial_prompt /\ Quiet /\ ~running /\ flash_serial_prompt' = FALSE
  /\ IF serial = NoSerial THEN UNCHANGED queryVars ELSE start_region_probe(serial)
  /\ UNCHANGED <<cableVars, deviceVars, flash, wf_config, confirm_baseline, confirm_edit_field,
                 country_popup_open, pickerVars, jobs, runVars, queued>>

\* The reply of the region probe moves the wizard on only from the first page.
FlashAutoRegionFetched(w, region) ==
  /\ ~Replaying /\ RegionReply(w, region # "None")
  /\ flash' = IF region_pending = w.id /\ flash.step = 0 /\ region # "None"
              THEN [flash EXCEPT !.device_region = region, !.step = 1]
              ELSE flash
  /\ UNCHANGED <<cableVars, deviceVars, wf_config, confirm_baseline, popupVars,
                 pickerVars, jobs, runVars, queued>>

-----------------------------------------------------------------------------
(* Picking.                                                                *)

PicksOnly == UNCHANGED <<sessionVars, wf_config, confirm_baseline, popupVars,
                         pickerVars, jobs, runVars, queued>>

FlashRegion(r) ==
  /\ On("Region") /\ region_pending = 0 /\ ~(is_prc_only /\ r = "Row")
  /\ flash' = [flash EXCEPT !.device_region = r] /\ PicksOnly

FlashTarget(t) ==
  /\ On("Target") /\ ~(is_prc_only /\ t = "OtherRegion")
  /\ flash' = [flash EXCEPT !.target = t] /\ PicksOnly

FlashDataMode(m) == On("Data") /\ flash' = [flash EXCEPT !.data_mode = m] /\ PicksOnly

FlashBack ==
  /\ PageIsFree /\ Quiet /\ flash.step > 0 /\ current_step # "Flash"
  /\ flash' = back(flash) /\ PicksOnly

FlashClearBootloader ==
  /\ On("Bootloader") /\ flash.abl # "None"
  /\ flash' = clear_bootloader(flash) /\ PicksOnly

\* Native dialogs are windows of their own: they stay open while the wizard
\* moves on, and a second one may be opened beside the first.
OpenDialog(d, target) ==
  /\ dialogs' = dialogs \cup {d} /\ picker_target' = target
  /\ UNCHANGED <<sessionVars, flash, wf_config, confirm_baseline, popupVars,
                 jobs, runVars, queued>>

FlashSelect(d) ==
  /\ PageIsFree /\ Quiet /\ d \notin dialogs /\ Cardinality(dialogs) < MaxOpen
  /\ CASE d = "FlashFolder"  -> current_step = "Folder" /\ OpenDialog(d, "FlashFolder")
       [] d = "Loader"       -> current_step = "Folder" /\ flash.folder \in Loaderless
                                /\ OpenDialog(d, picker_target)
       [] OTHER              -> current_step = "Bootloader" /\ OpenDialog(d, picker_target)

\* Fault: the page stays where it was.
KeepsThePage(f, folder) ==
  [reset_firmware_identity(f) EXCEPT !.folder = folder, !.loader_override = FALSE]

\* A page behind the folder page falls back to it, and so does any page when
\* a loader is missing.
set_flash_firmware_folder(f, folder) ==
  LET override == folder \in Loaderless /\ DefaultLoader
      picked == [reset_firmware_identity(f) EXCEPT !.folder = folder, !.loader_override = override]
  IN IF StepOf(f) \in {"Bootloader", "Confirm"} \/ (folder \in Loaderless /\ ~override)
     THEN [picked EXCEPT !.step = 3]
     ELSE picked

IsCancelled(picked) == picked = "None"

\* FolderSelected: dropped while a run is on.
FolderSelected(d, folder) ==
  /\ d \in dialogs \cap {"FlashFolder", "UnrootFolder"} /\ Quiet
  /\ dialogs' = dialogs \ {d}
  /\ IF running THEN UNCHANGED <<flash, picker_target, astray>>
     ELSE /\ picker_target' = "None"
          /\ flash' = IF ~IsCancelled(folder) /\ picker_target = "FlashFolder"
                      THEN set_flash_firmware_folder(flash, folder) ELSE flash
          /\ astray' = (astray \/ flash'.step > flash.step)
  /\ UNCHANGED <<sessionVars, wf_config, confirm_baseline, popupVars, jobs, running, runs, queued>>

RecentFolderPicked(folder) ==
  /\ On("Folder")
  /\ flash' = set_flash_firmware_folder(flash, folder) /\ PicksOnly

\* FlashLoaderChosen, of a loader that fits, of one that is refused, or of none.
FlashLoaderChosen(loader) ==
  /\ "Loader" \in dialogs /\ Quiet
  /\ dialogs' = dialogs \ {"Loader"}
  /\ flash' = IF running \/ IsCancelled(loader) THEN flash
              ELSE [flash EXCEPT !.loader_override = (loader = "Fits")]
  /\ UNCHANGED <<sessionVars, wf_config, confirm_baseline, popupVars, picker_target,
                 jobs, runVars, queued>>

\* The reply of the bootloader dialog, which starts the analysis.
FlashBootloaderChosen(abl) ==
  /\ "Bootloader" \in dialogs /\ Quiet
  /\ dialogs' = dialogs \ {"Bootloader"}
  /\ IF running \/ IsCancelled(abl) THEN UNCHANGED <<flash, jobs>>
     ELSE /\ Cardinality(jobs) < MaxJobs
          /\ flash' = [clear_bootloader(flash) EXCEPT !.abl = abl, !.analyzing = TRUE]
          /\ jobs' = jobs \cup {[job |-> "Analyse", of |-> abl]}
  /\ UNCHANGED <<sessionVars, wf_config, confirm_baseline, popupVars, picker_target,
                 runVars, queued>>

-----------------------------------------------------------------------------
(* The background jobs.                                                    *)

\* Fault: the reply is not asked which folder it is about.
InspectsWhatever(folder) == flash.folder # "None"

ReplyIsForTheFolder(folder) == flash.folder = folder

InspectionFailed(f) == [reset_firmware_identity(f) EXCEPT !.dialog = "Failed"]

Inspected(f, identity) ==
  LET kept == IF needs_bootloader_step(identity) THEN f ELSE clear_bootloader(f) IN
  [kept EXCEPT !.pending = FALSE, !.no_efisp_load = FALSE, !.identity = identity, !.dialog = "Ready"]

\* Not held back by a poll or by a run.
FlashFirmwareIdentityInspected(folder) ==
  LET job == [job |-> "Inspect", of |-> folder] IN
  /\ ~Replaying /\ job \in jobs /\ jobs' = jobs \ {job}
  /\ flash' = CASE ~ReplyIsForTheFolder(folder) -> flash
                [] ReplyIsForTheFolder(folder) /\ folder = "Unreadable" -> InspectionFailed(flash)
                [] OTHER -> Inspected(flash, folder)
  /\ UNCHANGED <<sessionVars, wf_config, confirm_baseline, popupVars, pickerVars, runVars, queued>>

ReplyIsForTheFile(abl) == flash.abl = abl

FlashBootloaderAnalysed(abl) ==
  LET job == [job |-> "Analyse", of |-> abl] IN
  /\ ~Replaying /\ job \in jobs /\ jobs' = jobs \ {job}
  /\ flash' = IF ReplyIsForTheFile(abl) THEN [flash EXCEPT !.judged = abl, !.analyzing = FALSE]
              ELSE flash
  /\ UNCHANGED <<sessionVars, wf_config, confirm_baseline, popupVars, pickerVars, runVars, queued>>

-----------------------------------------------------------------------------
(* Next, and the run.                                                      *)

\* What the confirm page will call the unchanged configuration is taken once,
\* on the first arrival there after the data page.
BaselineOnArrival(f) ==
  confirm_baseline' = IF StepOf(f) = "Confirm" /\ confirm_baseline = NoConfig
                      THEN wf_config ELSE confirm_baseline

ConfigOfPages ==
  [modify_region   |-> flash.target = "OtherRegion",
   device_region   |-> flash.device_region,
   modify_rollback |-> IF flash.target = "OtherRegion" THEN "On" ELSE "Auto",
   wipe            |-> flash.data_mode = "Wipe",
   country         |-> "Unset"]

\* Wiping also asks for the country, over the page that follows.
NextFromData ==
  /\ wf_config' = ConfigOfPages /\ confirm_baseline' = NoConfig
  /\ flash' = next(flash) /\ country_popup_open' = (flash.data_mode = "Wipe")
  /\ UNCHANGED <<jobs, runVars>>

NextFromFolder ==
  /\ IF flash.folder = "None" THEN UNCHANGED <<flash, jobs>>
     ELSE /\ flash' = [flash EXCEPT !.identity = "None", !.no_efisp_load = FALSE,
                                    !.pending = TRUE, !.dialog = "None"]
          /\ jobs' = jobs \cup {[job |-> "Inspect", of |-> flash.folder]}
  /\ UNCHANGED <<wf_config, confirm_baseline, country_popup_open, runVars>>

NextFromBootloader ==
  /\ IF bootloader_can_next(flash)
     THEN /\ flash' = next(record_bootloader_decision(flash)) /\ BaselineOnArrival(flash')
     ELSE UNCHANGED <<flash, confirm_baseline>>
  /\ UNCHANGED <<wf_config, country_popup_open, jobs, runVars>>

\* flash_rollback_policy and effective_rollback_mode, where the firmware
\* decides the policy; a device whose indices are read-only is left out.
effective_rollback_mode(s) == IF uses_gbl(flash) /\ s = "On" THEN "Auto" ELSE s

\* FlashExecStart follows at once, under the same guard.
NextFromConfirm ==
  /\ IF bootloader_execution_allowed(flash)
     THEN /\ runs' = runs + 1 /\ running' = TRUE
          /\ flash' = next(flash)
          /\ wf_config' = [wf_config EXCEPT !.modify_rollback = effective_rollback_mode(@)]
     ELSE UNCHANGED <<flash, wf_config, running, runs>>
  /\ UNCHANGED <<confirm_baseline, country_popup_open, jobs, astray>>

FlashNext ==
  /\ CASE current_step = "Data"       -> NextFromData
       [] current_step = "Folder"     -> NextFromFolder
       [] current_step = "Bootloader" -> NextFromBootloader
       [] current_step = "Confirm"    -> NextFromConfirm
       [] OTHER -> /\ flash' = next(flash)
                   /\ UNCHANGED <<wf_config, confirm_baseline, country_popup_open, jobs, runVars>>
  /\ UNCHANGED <<sessionVars, confirm_edit_field, flash_serial_prompt, pickerVars>>

\* The bound on inspections; a click that waits may lead to one.
RoomForAJob == flash.folder # "None" =>
                 Cardinality(jobs \cup {[job |-> "Inspect", of |-> flash.folder]}) <= MaxJobs

NextIsOffered == /\ PageIsFree /\ can_next
                 /\ current_step = "Confirm" => device_reachable
                 /\ RoomForAJob

ClickNext == NextIsOffered /\ Quiet /\ FlashNext /\ UNCHANGED queued

\* The page shows no sign of a click that waits.
ClickWhilePolling ==
  /\ NextIsOffered /\ reading # NoPoll /\ queued < MaxQueued /\ queued' = queued + 1
  /\ UNCHANGED <<sessionVars, flash, wf_config, confirm_baseline, popupVars, pickerVars, jobs, runVars>>

\* resume_after_device_poll: what reaches a run is dropped.
Replay ==
  /\ Replaying /\ queued' = queued - 1
  /\ IF running THEN UNCHANGED <<sessionVars, flash, wf_config, confirm_baseline, popupVars,
                                 pickerVars, jobs, runVars>>
     ELSE FlashNext

\* FlashFirmwareIdentityDialogAction
DialogAction ==
  /\ flash.dialog # "None" /\ Quiet /\ ~running
  /\ LET shut == [flash EXCEPT !.dialog = "None"] IN
     IF flash.dialog = "Ready" /\ current_step = "Folder"
     THEN flash' = next(shut) /\ BaselineOnArrival(flash')
     ELSE flash' = shut /\ UNCHANGED confirm_baseline
  /\ UNCHANGED <<sessionVars, wf_config, popupVars, pickerVars, jobs, runVars, queued>>

\* FlashExecDone clears the configuration, OperationError leaves it.
FlashExecEnds(ok) ==
  /\ ~Replaying /\ running /\ running' = FALSE
  /\ IF ok THEN /\ wf_config' = DefaultConfig /\ confirm_baseline' = NoConfig
                /\ confirm_edit_field' = "None" /\ astray' = TRUE
     ELSE UNCHANGED <<wf_config, confirm_baseline, confirm_edit_field, astray>>
  /\ UNCHANGED <<sessionVars, flash, country_popup_open, flash_serial_prompt, pickerVars,
                 jobs, runs, queued>>

-----------------------------------------------------------------------------
(* The country popup and the editors of the confirm page.                  *)

PopupsOnly == UNCHANGED <<sessionVars, confirm_baseline, flash_serial_prompt, pickerVars,
                          jobs, runVars, queued>>

\* SelectCountry and SkipCountryPatch; the popup lies below the dialog.
CountryAnswered(country) ==
  /\ country_popup_open /\ Quiet /\ ~running /\ flash.dialog = "None"
  /\ is_prc_only => country # "Other"
  /\ country_popup_open' = FALSE
  /\ wf_config' = [wf_config EXCEPT !.country =
                     IF country = "Skip" /\ ~wf_config.wipe THEN "Unset" ELSE country]
  /\ UNCHANGED <<flash, confirm_edit_field>> /\ PopupsOnly

\* Dismissed over the folder page, it leads back to the data page.
DismissCountryPopup ==
  /\ country_popup_open /\ Quiet /\ ~running /\ flash.dialog = "None"
  /\ country_popup_open' = FALSE
  /\ flash' = IF current_step = "Folder" /\ wf_config.country = "Unset" THEN back(flash) ELSE flash
  /\ UNCHANGED <<wf_config, confirm_edit_field>> /\ PopupsOnly

FlashConfirmOpen(field) ==
  /\ On("Confirm")
  /\ IF field = "Country" THEN country_popup_open' = TRUE /\ UNCHANGED confirm_edit_field
     ELSE confirm_edit_field' = field /\ UNCHANGED country_popup_open
  /\ UNCHANGED <<flash, wf_config>> /\ PopupsOnly

\* FlashConfirmSetTarget and FlashConfirmSetRegionEdit write the same flag.
EditedConfigs ==
  CASE confirm_edit_field = "Region" ->
         {[wf_config EXCEPT !.device_region = r] :
            r \in IF is_prc_only THEN {"Prc"} ELSE DeviceRegions}
    [] confirm_edit_field = "Target" ->
         {[wf_config EXCEPT !.modify_region = b] :
            b \in IF is_prc_only THEN {FALSE} ELSE BOOLEAN}
    [] confirm_edit_field = "Data" ->
         {[wf_config EXCEPT !.wipe = TRUE, !.country = IF @ = "Unset" THEN "Skip" ELSE @],
          [wf_config EXCEPT !.wipe = FALSE, !.country = IF @ = "Skip" THEN "Unset" ELSE @]}
    [] OTHER ->
         {[wf_config EXCEPT !.modify_rollback = s] :
            s \in {s \in {"On", "Auto", "Off", "Manual"} : effective_rollback_mode(s) = s}}

\* The manual editor is opened from the rollback editor and closes with it.
FlashConfirmSet ==
  /\ confirm_edit_field # "None" /\ Quiet /\ ~running
  /\ \/ wf_config' \in EditedConfigs
     \/ UNCHANGED wf_config \* FlashConfirmClose
  /\ confirm_edit_field' = "None"
  /\ UNCHANGED <<flash, country_popup_open>> /\ PopupsOnly

-----------------------------------------------------------------------------
(* The specification.                                                      *)

Init ==
  /\ SessionInit /\ flash = Fresh /\ wf_config = DefaultConfig
  /\ confirm_baseline = NoConfig /\ confirm_edit_field = "None"
  /\ country_popup_open = FALSE /\ flash_serial_prompt = FALSE
  /\ dialogs = {} /\ picker_target = "None"
  /\ jobs = {} /\ running = FALSE /\ runs = 0 /\ astray = FALSE /\ queued = 0

Cable == CableMoves /\ UNCHANGED wizardVars
\* The poll is not started over queued input or a run.
PollStarts == ~running /\ queued = 0 /\ PollDevice /\ UNCHANGED wizardVars
PollEnds == DevicePollFinished(queued = 0 /\ ~running) /\ UNCHANGED wizardVars

PageStep ==
  \/ \E opened \in SUBSET (Pickers \cap {"UnrootFolder"}) : EnterFlash(opened)
  \/ StartOver \/ FlashBack \/ FlashClearBootloader
  \/ \E s \in Serials \cup {NoSerial} : SerialPrompt(s)
  \/ \E r \in DeviceRegions : FlashRegion(r)
  \/ \E t \in Targets : FlashTarget(t)
  \/ \E m \in DataModes : FlashDataMode(m)
  \/ \E f \in Folders : RecentFolderPicked(f)
  \/ \E d \in Pickers \ {"UnrootFolder"} : FlashSelect(d)
  \/ \E country \in Countries : CountryAnswered(country)
  \/ DismissCountryPopup \/ FlashConfirmSet \/ DialogAction \/ ClickNext \/ ClickWhilePolling
  \/ \E field \in Edits : FlashConfirmOpen(field)

ReplyStep ==
  \/ \E d \in {"FlashFolder", "UnrootFolder"}, f \in Folders \cup {"None"} : FolderSelected(d, f)
  \/ \E loader \in {"Fits", "Refused", "None"} : FlashLoaderChosen(loader)
  \/ \E a \in Abls \cup {"None"} : FlashBootloaderChosen(a)
  \/ \E w \in workers, r \in DeviceRegions \cup {"None"} : FlashAutoRegionFetched(w, r)
  \/ \E f \in Folders : FlashFirmwareIdentityInspected(f)
  \/ \E a \in Abls : FlashBootloaderAnalysed(a)
  \/ \E ok \in BOOLEAN : FlashExecEnds(ok)

Next == Replay \/ Cable \/ PollStarts \/ PollEnds \/ PageStep \/ ReplyStep

Spec == Init /\ [][Next]_vars

-----------------------------------------------------------------------------
(* Properties.                                                             *)

Starts == ~running /\ running'

\* The region, target and data pages were answered, and the confirm page started from
\* their answers.
BaselineIsThePages ==
  /\ "None" \notin {flash.device_region, flash.target, flash.data_mode}
  /\ confirm_baseline # NoConfig
  /\ confirm_baseline.modify_region = (flash.target = "OtherRegion")
  /\ confirm_baseline.device_region = flash.device_region
  /\ confirm_baseline.wipe = (flash.data_mode = "Wipe")

\* Every run flashes a folder that was inspected, and the identity the worker is
\* handed is that of this folder.  A bootloader that goes into it is one the folder
\* can use, and firmware that does not load efisp has the user's word for it.  The
\* rows the confirm page marks are the ones the user changed there, against what was
\* picked on the pages, but for the two ways in which pages and configuration part
\* in the code: a run that ends well clears the configuration, and a late inspection
\* may bring its confirm page back; and a folder without a loader that a dialog of an
\* earlier walk answers moves a new walk to the folder page, past the pages before it.
StartsOnWhatWasChecked ==
  [][Starts => /\ astray \/ BaselineIsThePages
               /\ flash.folder \notin {"None", "Unreadable"}
               /\ flash.identity = flash.folder
               /\ CASE flash.abl # "None" ->
                         flash.abl = IF flash.folder \in {"GblYes", "GblNo", "GblUnknown"}
                                     THEN "Efisp" ELSE "Testkey"
                    [] flash.abl = "None" /\ flash.folder = "GblNo" -> flash.no_efisp_load
                    [] OTHER -> flash.folder # "GblUnknown"]_vars

\* The progress page is never shown for a run that was not started: the step
\* number that is the last of one list of pages is the confirm page of another.
ProgressPageMeansRun ==
  [][current_step # "Flash" /\ current_step' = "Flash" => Starts]_vars
=============================================================================
