--------------------------- MODULE AdvancedTools ---------------------------
(***************************************************************************)
(* The tools of the Advanced view that share one wizard: four that build   *)
(* images from files on the computer (convert XML, convert region, patch   *)
(* rollback indices, rebuild vbmeta), the rollback detection, which drives *)
(* the device, the image report, and the change of the country code, whose *)
(* worker is CountryChange.  Each builder has one output folder, which     *)
(* outlives a run and may itself be picked as the next source.             *)
(***************************************************************************)
EXTENDS Naturals

CONSTANTS
  Tools,      \* the tools the user may open
  Sources,    \* folders on the computer
  Picked,     \* the places the user picks from
  Packs,      \* encrypted files a folder may hold
  Indices,    \* rollback indices an image may carry
  MaxToolRuns, MaxToolFaults, MaxDialogs \* bounds: runs, failures, native dialogs

ASSUME ToolsAssumption ==
  /\ Tools \subseteq {"ConvertXml", "RegionConvert", "PatchArb", "RebuildVbmeta",
                      "DetectArb", "ImageInfo", "PatchDevinfo"}
  /\ Indices \subseteq Nat \ {0, 1} /\ {MaxToolRuns, MaxToolFaults, MaxDialogs} \subseteq Nat
  /\ Picked \subseteq Sources \cup {"region_convert", "rb", "convert_xml", "rebuild_vbmeta", "Loader"}
  /\ Sources \cap {"region_convert", "rb", "convert_xml", "rebuild_vbmeta"} = {}

VARIABLES
  adv_wizard,   \* AdvWizard
  popup,        \* the popup over it
  browsing,     \* the native dialog that is open: "None", "One" or "Many"
  clicks,       \* Nexts that wait in the message queue
  disk,         \* the folders
  job,          \* advanced_file_worker, detect_arb_run or image_info_report
  outcome,      \* what the last run reported
  tablet,       \* the device, for DetectArb
  toolRuns, toolFaults, dialogs

pageVars  == <<adv_wizard, popup, browsing, clicks, dialogs>>
toolVars  == <<adv_wizard, popup, browsing, clicks, disk, job, outcome, tablet,
               toolRuns, toolFaults, dialogs>>

-----------------------------------------------------------------------------
(* Folders.                                                                *)

Builders == {"ConvertXml", "RegionConvert", "PatchArb", "RebuildVbmeta"}

\* produces_output, output_slug
OutputOf(tool) == CASE tool = "RegionConvert" -> "region_convert" [] tool = "PatchArb" -> "rb"
                    [] tool = "ConvertXml" -> "convert_xml" [] tool = "RebuildVbmeta" -> "rebuild_vbmeta"
Places == Sources \cup {OutputOf(t) : t \in Builders}

\* An image of a folder.  vendor_boot: the region its markers name, and whether
\* its hash footer is of these bytes; vbmeta: the region of the vendor_boot it
\* pins, and its key; boot and vbmeta_system: the rollback index, 1 for one that
\* is too low to patch, 0 for an image that is missing or cannot be read.
Markers == {"PRC", "ROW", "Mixed", "Unknown"}
NoImage == <<"None", FALSE>>
Broken  == <<"Torn", FALSE>>
Empty   == [vendor_boot |-> NoImage, vbmeta |-> NoImage, boot |-> 0, vbmeta_system |-> 0,
            x |-> {}, xml |-> [p \in Packs |-> "None"]]
Whole(image) == image \notin {NoImage, Broken}

\* detect_region_in_data against matches_target
Matches(image, region) == image[1] = region
\* patch_vendor_boot: how many markers of the other region there were.
Replaces(image, region) == image[1] \in Markers \ {region, "Unknown"}

-----------------------------------------------------------------------------
(* The wizard.                                                             *)

\* `inspected` names the folder whose indices arb_inspect holds.
NoPath == <<"None", "None">>
Loader == <<"Loader", "File">>
Closed == [action |-> "None", step |-> 0, path |-> NoPath, region |-> "None",
           country |-> FALSE, index |-> 0, inspected |-> "None"]
Opened(tool) == [Closed EXCEPT !.action = tool]

NoJob == [tool |-> "None", pc |-> "Idle", from |-> NoPath, region |-> "None", index |-> 0]
NoOutcome == [tool |-> "None", ok |-> FALSE, from |-> NoPath, region |-> "None", index |-> 0,
              report |-> "None"]
Busy == job # NoJob

\* AdvWizard::steps
exec_step(action) == CASE action \in {"ImageInfo", "DetectArb"} -> 1
                       [] action \in {"ConvertXml", "RebuildVbmeta"} -> 2
                       [] OTHER -> 3
is_confirm_step == adv_wizard.action \notin {"ImageInfo", "DetectArb"}
                   /\ adv_wizard.step + 1 = exec_step(adv_wizard.action)

is_tb320fc == tablet.model = "TB320FC"

\* file_paths belong to the image report, file_path to every other tool.
HasPath == adv_wizard.path[2] \in (IF adv_wizard.action = "ImageInfo" THEN {"Files"} ELSE {"File", "Folder"})
FolderOf(tool) == tool \in {"ConvertXml", "PatchArb"} \* is_folder_op

\* AdvWizard::can_next, with what the page asks on top of it.
adv_can_next ==
  LET a == adv_wizard.action IN
  CASE a = "DetectArb" -> is_tb320fc => HasPath
    [] a = "PatchDevinfo" -> CASE adv_wizard.step = 0 -> adv_wizard.country
                               [] adv_wizard.step = 1 -> HasPath
                               [] OTHER -> tablet.seen = "Adb"
    [] adv_wizard.step = 0 -> HasPath
    [] a = "RegionConvert" /\ adv_wizard.step = 1 -> adv_wizard.region # "None"
    [] a = "PatchArb" /\ adv_wizard.step = 1 -> adv_wizard.inspected # "None"
    [] OTHER -> TRUE

device_is_reachable == tablet.seen # "None"

\* The wizard's pages take input.
Attentive == ~Busy /\ clicks = 0 /\ popup = "None" /\ adv_wizard.action # "None"
OnStep(actions, n) == Attentive /\ adv_wizard.action \in actions /\ adv_wizard.step = n

\* What the pages offer: a native dialog on these three,
adv_wiz_source_step     == OnStep(Builders \cup {"ImageInfo"}, 0)
adv_wiz_loader_step     == OnStep({"PatchDevinfo"}, 1)
adv_wiz_detect_arb_step == OnStep({"DetectArb"}, 0) /\ is_tb320fc
\* a popup on these two,
adv_wiz_country_step       == OnStep({"PatchDevinfo"}, 0)
adv_wiz_region_target_step == OnStep({"RegionConvert"}, 1)
\* the way back to the grid on the last one,
adv_image_info_exec_step == Attentive /\ adv_wizard.step = exec_step(adv_wizard.action)
\* and Next, which the detection offers only for a device.
view_adv_wizard == /\ Attentive /\ adv_wizard.step < exec_step(adv_wizard.action)
                   /\ adv_can_next /\ (adv_wizard.action = "DetectArb" => device_is_reachable)
NoRunNow == UNCHANGED <<disk, job, outcome, tablet, toolRuns, toolFaults>>

\* AdvWizOpen.  The settings' loader fills in the first page of a TB320FC.
AdvWizOpen(tool) ==
  /\ ~Busy /\ adv_wizard.action = "None"
  /\ \E path \in {NoPath} \cup (IF tool = "DetectArb" /\ is_tb320fc THEN {Loader} ELSE {}) :
       adv_wizard' = [Opened(tool) EXCEPT !.path = path]
  /\ UNCHANGED <<popup, browsing, clicks, dialogs>> /\ NoRunNow

AdvWizBack ==
  /\ Attentive /\ adv_wizard.step < exec_step(adv_wizard.action)
  /\ adv_wizard' = IF adv_wizard.step = 0 THEN Closed ELSE [adv_wizard EXCEPT !.step = @ - 1]
  /\ UNCHANGED <<popup, browsing, clicks, dialogs>> /\ NoRunNow

StartToolsOver ==
  /\ adv_image_info_exec_step
  /\ adv_wizard' = Closed /\ outcome' = NoOutcome
  /\ UNCHANGED <<popup, browsing, clicks, dialogs, disk, job, tablet, toolRuns, toolFaults>>

\* A click on the sidebar's Advanced, from there or from another view, keeps the
\* wizard on its last two pages and during a run.
NavigateAdvanced ==
  /\ Attentive /\ ~is_confirm_step /\ adv_wizard.step < exec_step(adv_wizard.action)
  /\ adv_wizard' = Closed
  /\ UNCHANGED <<popup, browsing, clicks, dialogs>> /\ NoRunNow

\* AdvWizBrowse
Browse ==
  /\ adv_wiz_source_step \/ adv_wiz_loader_step \/ adv_wiz_detect_arb_step
  /\ browsing = "None" /\ dialogs < MaxDialogs /\ dialogs' = dialogs + 1
  /\ browsing' = CASE adv_wizard.action = "ImageInfo" -> "Files"
                     [] FolderOf(adv_wizard.action) -> "Folder" [] OTHER -> "File"
  /\ UNCHANGED <<adv_wizard, popup, clicks>> /\ NoRunNow

\* AdvWizBrowseDone and AdvWizBrowseManyDone: the reply goes to whatever wizard
\* is open by then; a reply during a run is dropped.  A loader that the model cannot
\* use counts as none; the many files of a report are one place here.
BrowseDone(place) ==
  /\ browsing # "None" /\ browsing' = "None" /\ clicks = 0
  /\ LET path == <<place, browsing>> IN
     adv_wizard' =
       IF Busy \/ (adv_wizard.action = "ImageInfo" /\ browsing # "Files") THEN adv_wizard
       ELSE [adv_wizard EXCEPT !.path =
               IF adv_wizard.action = "PatchDevinfo" /\ path # Loader THEN NoPath ELSE path]
  /\ UNCHANGED <<popup, clicks, dialogs>> /\ NoRunNow

\* The three popups.
OpenPopup(which) ==
  /\ \/ which = "Country" /\ adv_wiz_country_step
     \/ which = "Region" /\ adv_wiz_region_target_step
  /\ popup' = which
  /\ UNCHANGED <<adv_wizard, browsing, clicks, dialogs>> /\ NoRunNow

Dismiss ==
  /\ popup # "None" /\ clicks = 0 /\ popup' = "None"
  /\ UNCHANGED <<adv_wizard, browsing, clicks, dialogs>> /\ NoRunNow

SelectCountry ==
  /\ popup = "Country" /\ popup' = "None" /\ adv_wizard' = [adv_wizard EXCEPT !.country = TRUE]
  /\ UNCHANGED <<browsing, clicks, dialogs>> /\ NoRunNow

SelectRegionTarget(region) ==
  /\ popup = "Region" /\ popup' = "None" /\ adv_wizard' = [adv_wizard EXCEPT !.region = region]
  /\ UNCHANGED <<browsing, clicks, dialogs>> /\ NoRunNow

\* Ten digits make an index, whatever the images carry.
AdvWizArbIndexConfirm(index) ==
  /\ popup = "Index" /\ popup' = "None"
  /\ adv_wizard' = [adv_wizard EXCEPT !.index = index, !.step = @ + 1]
  /\ UNCHANGED <<browsing, clicks, dialogs>> /\ NoRunNow

-----------------------------------------------------------------------------
(* Next and Start.                                                         *)

\* The button is offered when the page says so; a double click while a device
\* poll is in flight queues two of them.
ClickNext ==
  /\ view_adv_wizard
  /\ clicks' \in {1, 2}
  /\ UNCHANGED <<adv_wizard, popup, browsing, dialogs>> /\ NoRunNow

\* A queued Next is dropped while an operation runs, and meets a closed wizard
\* or a popup as it finds them.
DropNext ==
  /\ clicks > 0 /\ (Busy \/ adv_wizard.action = "None"
                         \/ adv_wizard.step >= exec_step(adv_wizard.action))
  /\ clicks' = clicks - 1
  /\ UNCHANGED <<adv_wizard, popup, browsing, dialogs>> /\ NoRunNow

Queued == clicks > 0 /\ clicks' = clicks - 1 /\ ~Busy
          /\ adv_wizard.action # "None" /\ adv_wizard.step < exec_step(adv_wizard.action)
Advance(n) == adv_wizard' = [adv_wizard EXCEPT !.step = @ + n]

Runs(tool) ==
  /\ toolRuns < MaxToolRuns /\ toolRuns' = toolRuns + 1 /\ outcome' = NoOutcome
  /\ job' = [tool |-> tool, pc |-> "Check", from |-> adv_wizard.path,
             region |-> adv_wizard.region, index |-> adv_wizard.index]
  /\ UNCHANGED <<disk, tablet, toolFaults>>

\* The report and the detection start from their first page.
NextStarts ==
  /\ Queued /\ adv_wizard.action \in {"ImageInfo", "DetectArb"}
  /\ Advance(1) /\ Runs(adv_wizard.action)
  /\ UNCHANGED <<popup, browsing, dialogs>>

HoldsPair(path) == /\ path[1] \in Places /\ path[2] = "Folder"
                   /\ disk[path[1]].boot # 0 /\ disk[path[1]].vbmeta_system # 0

\* The source page of PatchArb reads both indices; a folder that lacks an image
\* leaves the wizard where it is.
NextInspects ==
  /\ Queued /\ adv_wizard.action = "PatchArb" /\ adv_wizard.step = 0
  /\ adv_wizard' = IF HoldsPair(adv_wizard.path)
                   THEN [adv_wizard EXCEPT !.inspected = adv_wizard.path[1], !.step = 1]
                   ELSE adv_wizard
  /\ UNCHANGED <<popup, browsing, dialogs>> /\ NoRunNow

NextAsksIndex ==
  /\ Queued /\ adv_wizard.action = "PatchArb" /\ adv_wizard.step = 1
  /\ popup' = "Index"
  /\ UNCHANGED <<adv_wizard, browsing, dialogs>> /\ NoRunNow

\* With a loader in the settings that fits, the country page leads to Confirm.
NextAfterCountry ==
  /\ Queued /\ adv_wizard.action = "PatchDevinfo" /\ adv_wizard.step = 0
  /\ \/ Advance(1)
     \/ adv_wizard' = [adv_wizard EXCEPT !.path = Loader, !.step = 2]
  /\ UNCHANGED <<popup, browsing, dialogs>> /\ NoRunNow

\* Start: a builder without a source moves to the exec page and runs nothing, a
\* country change without its inputs stays where it is.
NextConfirms ==
  /\ Queued /\ is_confirm_step
  /\ IF adv_wizard.action = "PatchDevinfo" /\ ~(adv_wizard.country /\ adv_wizard.path = Loader)
     THEN UNCHANGED adv_wizard /\ NoRunNow
     ELSE Advance(1) /\ IF ~HasPath THEN NoRunNow ELSE Runs(adv_wizard.action)
  /\ UNCHANGED <<popup, browsing, dialogs>>

NextTurns ==
  /\ Queued /\ ~is_confirm_step
  /\ \/ adv_wizard.action \in {"ConvertXml", "RebuildVbmeta", "RegionConvert"}
     \/ adv_wizard.action = "PatchDevinfo" /\ adv_wizard.step = 1
  /\ Advance(1)
  /\ UNCHANGED <<popup, browsing, dialogs>> /\ NoRunNow

-----------------------------------------------------------------------------
(* advanced_file_worker.                                                   *)

At(tool, pc) == job.tool = tool /\ job.pc = pc
Goto(pc) == job' = [job EXCEPT !.pc = pc] /\ UNCHANGED outcome
Reports(ok, report) ==
  /\ job' = NoJob
  /\ outcome' = [tool |-> job.tool, ok |-> ok, from |-> job.from, region |-> job.region,
                 index |-> job.index, report |-> report]
Done == Reports(TRUE, "None")
Refuse == Reports(FALSE, "None")
Fault == toolFaults < MaxToolFaults /\ toolFaults' = toolFaults + 1
\* A file operation works out, or breaks off and leaves the file torn.
Writes(place, name, image, torn, then) ==
  \/ disk' = [disk EXCEPT ![place][name] = image] /\ Goto(then) /\ UNCHANGED toolFaults
  \/ disk' = [disk EXCEPT ![place][name] = torn] /\ Refuse /\ Fault
Working == UNCHANGED <<pageVars, tablet, toolRuns>>

From == disk[job.from[1]]
HasKind(kind) == job.from[1] \in Places /\ job.from[2] = kind

\* A pack is decrypted file by file, over what an earlier pack left.
ConvertXml ==
  /\ At("ConvertXml", "Check") /\ Working
  /\ IF ~(HasKind("Folder") /\ From.x # {}) THEN Refuse /\ UNCHANGED <<disk, toolFaults>>
     ELSE LET Xml(done) == [p \in Packs |-> IF p \in done THEN job.from[1] ELSE disk["convert_xml"].xml[p]] IN
          \/ disk' = [disk EXCEPT !["convert_xml"].xml = Xml(From.x)] /\ Done /\ UNCHANGED toolFaults
          \/ /\ Fault /\ Refuse
             /\ \E done \in SUBSET From.x, last \in From.x :
                  disk' = [disk EXCEPT !["convert_xml"].xml = [Xml(done) EXCEPT ![last] = "Torn"]]

\* Fault: the output folder is not cleared.
RegionKeepsOutput ==
  /\ At("RegionConvert", "Check") /\ Working
  /\ IF job.region = "None" \/ ~HasKind("File") \/ From.vendor_boot = NoImage \/ From.vbmeta = NoImage
     THEN Refuse ELSE Goto("Inspect")
  /\ UNCHANGED <<disk, toolFaults>>

\* build_region_converted_avb_images clears its output folder first, which may be
\* where the source lies.
RegionClears ==
  /\ At("RegionConvert", "Check") /\ Working
  /\ IF job.region = "None" \/ ~HasKind("File") \/ From.vendor_boot = NoImage \/ From.vbmeta = NoImage
     THEN Refuse /\ UNCHANGED <<disk, toolFaults>>
     ELSE \/ disk' = [disk EXCEPT !["region_convert"] = Empty] /\ Goto("Inspect") /\ UNCHANGED toolFaults
          \/ disk' = [disk EXCEPT !["region_convert"].vbmeta = NoImage] /\ Refuse /\ Fault

\* A source that matches is skipped, one without markers is an error that leaves
\* no image behind.
RegionInspects ==
  /\ At("RegionConvert", "Inspect") /\ Working
  /\ LET image == From.vendor_boot IN
     IF ~Whole(image) THEN Refuse /\ UNCHANGED <<disk, toolFaults>>
     ELSE IF Matches(image, job.region) THEN Done /\ UNCHANGED <<disk, toolFaults>>
     ELSE IF Replaces(image, job.region)
     THEN Writes("region_convert", "vendor_boot", <<job.region, FALSE>>, Broken, "Seal")
     ELSE Refuse /\ UNCHANGED <<disk, toolFaults>>

RegionSeals ==
  /\ At("RegionConvert", "Seal") /\ Working
  /\ Writes("region_convert", "vendor_boot", <<job.region, TRUE>>, Broken, "Vbmeta")

\* The rebuilt vbmeta pins the new image; an unsigned one is copied as it is.
RegionPins ==
  /\ At("RegionConvert", "Vbmeta") /\ Working
  /\ LET signed == From.vbmeta[2] IN
     IF ~Whole(From.vbmeta) THEN Refuse /\ UNCHANGED <<disk, toolFaults>>
     ELSE Writes("region_convert", "vbmeta",
            IF signed THEN <<disk["region_convert"].vendor_boot[1], TRUE>> ELSE From.vbmeta, Broken, "Finish")

\* PatchArb copies an image to its output folder and signs the copy; an image
\* that lies there already is truncated by that copy, or refused.
Copied(name) == IF job.from[1] = "rb" THEN 0 ELSE From[name]

ArbChecks ==
  /\ At("PatchArb", "Check") /\ Working /\ UNCHANGED <<disk, toolFaults>>
  /\ IF job.index = 0 \/ ~HoldsPair(job.from) \/ From.boot = 1 \/ From.vbmeta_system = 1
     THEN Refuse ELSE Goto("Boot")

ArbCopies(name, this, then) ==
  /\ At("PatchArb", this) /\ Working
  /\ Writes("rb", name, Copied(name), 0, then)

ArbSigns(name, this, then) ==
  /\ At("PatchArb", this) /\ Working
  /\ IF disk["rb"][name] = 0 THEN Refuse /\ UNCHANGED <<disk, toolFaults>>
     ELSE Writes("rb", name, job.index, 0, then)

\* RebuildVbmeta: with no image beside it the vbmeta itself is signed anew.
RebuildVbmeta ==
  /\ At("RebuildVbmeta", "Check") /\ Working
  /\ IF ~HasKind("File") \/ ~Whole(From.vbmeta) \/ ~From.vbmeta[2]
     THEN Refuse /\ UNCHANGED <<disk, toolFaults>>
     ELSE IF From.vendor_boot = NoImage /\ From.boot = 0
     THEN Writes(job.from[1], "vbmeta", From.vbmeta, Broken, "Finish")
     ELSE \/ Writes("rebuild_vbmeta", "vbmeta",
                    IF From.vendor_boot = NoImage THEN From.vbmeta ELSE <<From.vendor_boot[1], TRUE>>,
                    Broken, "Finish")
          \/ Refuse /\ UNCHANGED <<disk, toolFaults>> \* an image it cannot read

BuilderEnds == job.pc = "Finish" /\ Done /\ Working /\ UNCHANGED <<disk, toolFaults>>

-----------------------------------------------------------------------------
(* The other workers.                                                      *)

\* image_info_report reads; the country change does as CountryChange says and
\* leaves the device where it left it.
OthersEnd(ok) ==
  /\ job.tool \in {"ImageInfo", "PatchDevinfo"} /\ Reports(ok, "None")
  /\ UNCHANGED <<pageVars, disk, tablet, toolRuns, toolFaults>>

Detecting == UNCHANGED <<pageVars, disk, toolRuns, toolFaults>>
Moves(modes) == \E at \in modes : tablet' = [tablet EXCEPT !.at = at]
is_rollback_protected_model == tablet.model # "TB322FC"

\* Step 1 of detect_arb_run, on the connection that the last poll saw.
DetectReaches ==
  /\ At("DetectArb", "Check") /\ Detecting
  /\ CASE tablet.seen = "Fastboot" -> Goto("Vars") /\ UNCHANGED tablet
       [] tablet.seen = "Adb" /\ tablet.at = "System" ->
            \/ Moves({"Fastboot"}) /\ Goto("Vars")
            \/ Moves({"System"}) /\ Refuse
       [] OTHER -> Refuse /\ UNCHANGED tablet

\* Steps 2 and 4: any stored index makes the device one with rollback protection;
\* a model that hides its indices is asked over EDL.
DetectReadsVars ==
  /\ At("DetectArb", "Vars") /\ Detecting
  /\ IF tablet.at # "Fastboot" THEN Refuse /\ UNCHANGED tablet
     ELSE IF tablet.stored THEN Moves({"System", "Fastboot"}) /\ Reports(TRUE, "Anti")
     ELSE IF ~is_rollback_protected_model THEN Moves({"System", "Fastboot"}) /\ Reports(TRUE, "Not")
     ELSE IF job.from[2] = "None" THEN Refuse /\ UNCHANGED tablet
     ELSE \/ Moves({"Edl"}) /\ Goto("Dump")
          \/ Moves({"Fastboot", "Edl"}) /\ Refuse

\* Step 3: two dumps over EDL and a reset that may fail.
DetectDumps ==
  /\ At("DetectArb", "Dump") /\ Detecting
  /\ \/ job.from = Loader /\ Moves({"System", "Edl"}) /\ Reports(TRUE, "Anti")
     \/ Refuse /\ UNCHANGED tablet

-----------------------------------------------------------------------------
(* Surroundings.                                                           *)

\* The application is killed, and started again.
Killed ==
  /\ Fault /\ Busy /\ job' = NoJob /\ outcome' = NoOutcome
  /\ adv_wizard' = Closed /\ popup' = "None" /\ browsing' = "None" /\ clicks' = 0
  /\ UNCHANGED <<disk, tablet, toolRuns, dialogs>>

SeenAs == CASE tablet.at = "System" -> "Adb" [] OTHER -> tablet.at
Poll ==
  /\ ~Busy /\ tablet.seen # SeenAs /\ tablet' = [tablet EXCEPT !.seen = SeenAs]
  /\ UNCHANGED <<pageVars, disk, job, outcome, toolRuns, toolFaults>>

-----------------------------------------------------------------------------
\* A stock folder of either region, one that holds a vbmeta alone, one that is
\* unsigned and too old to patch.
Stock(region) == [Empty EXCEPT !.vendor_boot = <<region, TRUE>>, !.vbmeta = <<region, TRUE>>,
                              !.boot = 2, !.vbmeta_system = 2, !.x = Packs]
Folders ==
  {Empty, Stock("PRC"), [Empty EXCEPT !.vbmeta = <<"ROW", TRUE>>],
   [Stock("Mixed") EXCEPT !.vbmeta = <<"PRC", FALSE>>, !.boot = 1],
   [Stock("Unknown") EXCEPT !.vbmeta_system = 0, !.x = {}]}

ToolsInit ==
  /\ adv_wizard = Closed /\ popup = "None" /\ browsing = "None" /\ clicks = 0
  /\ \E content \in Folders :
       disk = [p \in Places |-> IF p \in Sources THEN content ELSE Empty]
  /\ job = NoJob /\ outcome = NoOutcome
  /\ \E at \in {"System", "Fastboot"}, stored \in BOOLEAN, model \in {"TB320FC", "TB322FC"} :
       tablet = [at |-> at, stored |-> stored, model |-> model,
                 seen |-> IF at = "System" THEN "Adb" ELSE at]
  \* The folders matter to the builders, the device to the detection alone.
  /\ \/ tablet.at = "Fastboot" /\ tablet.stored /\ tablet.model = "TB322FC"
     \/ \A p \in Sources : disk[p] = Empty
  /\ toolRuns = 0 /\ toolFaults = 0 /\ dialogs = 0

WizardSteps ==
  \/ \E tool \in Tools : AdvWizOpen(tool)
  \/ AdvWizBack \/ NavigateAdvanced \/ StartToolsOver \/ Browse \/ Dismiss \/ SelectCountry
  \/ \E place \in Picked : BrowseDone(place)
  \/ \E which \in {"Country", "Region"} : OpenPopup(which)
  \/ \E region \in {"PRC", "ROW"} : SelectRegionTarget(region)
  \/ \E index \in Indices : AdvWizArbIndexConfirm(index)
  \/ ClickNext \/ DropNext \/ NextStarts \/ NextInspects \/ NextAsksIndex
  \/ NextAfterCountry \/ NextConfirms \/ NextTurns

WorkerSteps ==
  \/ ConvertXml \/ RegionClears \/ RegionInspects \/ RegionSeals \/ RegionPins \/ ArbChecks
  \/ ArbCopies("boot", "Boot", "SignBoot") \/ ArbSigns("boot", "SignBoot", "Vbs")
  \/ ArbCopies("vbmeta_system", "Vbs", "SignVbs") \/ ArbSigns("vbmeta_system", "SignVbs", "Finish")
  \/ RebuildVbmeta \/ BuilderEnds \/ (\E ok \in BOOLEAN : OthersEnd(ok))
  \/ DetectReaches \/ DetectReadsVars \/ DetectDumps

ToolsNext == WizardSteps \/ WorkerSteps \/ Killed \/ Poll
ToolsSpec == ToolsInit /\ [][ToolsNext]_toolVars

-----------------------------------------------------------------------------
(* Properties.                                                             *)

\* What a finished run leaves is what it said: a region conversion leaves a pair
\* of the region asked for, or nothing when there was nothing to do; both
\* patched images carry the index asked for; a rebuilt vbmeta pins the images
\* beside its source; a pack is decrypted whole; and a device is called free of
\* rollback protection only when it is.  Whatever runs, failures, kills and picks
\* of an output folder came before (advanced_file_worker, detect_arb_run).
OkMeansBuilt ==
  outcome.ok =>
    LET t == outcome.tool out == disk[OutputOf(t)] from == disk[outcome.from[1]] IN
    CASE t = "RegionConvert" ->
           IF out = Empty THEN Matches(from.vendor_boot, outcome.region)
           ELSE /\ out.vendor_boot = <<outcome.region, TRUE>>
                /\ out.vbmeta[2] => out.vbmeta[1] = outcome.region
      [] t = "PatchArb" -> out.boot = outcome.index /\ out.vbmeta_system = outcome.index
      [] t = "RebuildVbmeta" ->
           LET signed == IF from.vendor_boot = NoImage /\ from.boot = 0 THEN from ELSE out IN
           /\ Whole(signed.vbmeta)
           /\ from.vendor_boot # NoImage => signed.vbmeta[1] = from.vendor_boot[1]
      [] t = "ConvertXml" -> \A p \in from.x : out.xml[p] = outcome.from[1]
      [] t = "DetectArb" -> outcome.report = "Not" => ~tablet.stored /\ ~is_rollback_protected_model
      [] OTHER -> TRUE
=============================================================================
