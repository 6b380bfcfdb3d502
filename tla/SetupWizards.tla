---------------------------- MODULE SetupWizards ----------------------------
(***************************************************************************)
(* The wizards of the Root, Unroot and System Update views: their pages,   *)
(* which are not in order for Root, the popups over them, the native       *)
(* dialogs that answer late, the default loader that skips a page, the     *)
(* probe of the kernel version, and the sidebar.  What a run then does is  *)
(* RootUnroot.                                                             *)
(***************************************************************************)
EXTENDS Naturals, Sequences

CONSTANTS
  Setups,       \* the wizards the user may use
  Families,     \* of root solutions
  DefaultFits,  \* whether the settings name a loader that fits the device
  DeviceModels, \* "Plain", "Canoe" (TB323FU) or "Xiaoxin"
  Loaders,      \* the loader files he may pick for a rescue
  MaxAsked, MaxOrders, MaxMoves \* bounds: native dialogs, runs, sidebar clicks

ASSUME SetupAssumption ==
  /\ Setups \subseteq {"Root", "Unroot", "SystemUpdate"}
  /\ Families \subseteq {"Magisk", "KernelSU", "APatch", "Skroot"}
  /\ DefaultFits \subseteq BOOLEAN /\ DeviceModels \subseteq {"Plain", "Canoe", "Xiaoxin"}
  /\ "None" \notin Loaders /\ {MaxAsked, MaxOrders, MaxMoves} \subseteq Nat

VARIABLES
  setup,        \* the wizard of this behaviour
  default_fits, \* resolved_default_loader finds one
  current_view, \* its view, or "Elsewhere"
  root, unroot, sysupdate, \* RootWizard, UnrootWizard, SysUpdateWizard
  overlay,      \* the popup over the wizard
  picker,       \* the native dialog that is open
  nexts,        \* clicks on Next that wait in the message queue
  busy,         \* "No", "Probe" or "Run"
  order,        \* what the run was started with
  device_model,
  asked, orders, moves

givenVars  == <<setup, default_fits>>
wizardVars == <<root, unroot, sysupdate>>
countVars  == <<asked, orders, moves>>
setupVars  == <<givenVars, current_view, wizardVars, overlay, picker, nexts, busy, order,
                device_model, countVars>>

NoOrder == [of |-> "None"]
NoPicker == [for |-> "None", kind |-> "None"]

\* RootWizard::reset: each page's answer, "None" before it is given.
RootReset == [step |-> 0, family |-> "None", mode |-> "None", flavor |-> "None",
              provider |-> "None", version |-> "None", source |-> "None", file |-> "None",
              loader |-> "None", kernel |-> FALSE, run_id |-> FALSE, superkey |-> FALSE]
UnrootReset == [step |-> 0, type |-> "None", folder |-> "None", loader |-> "None"]
\* region_for is the loader the region was confirmed for.
SysReset == [step |-> 0, action |-> "None", loader |-> "None", region |-> "None",
             confirmed |-> FALSE, region_for |-> "None"]

capabilities == [root     |-> device_model # "Xiaoxin",
                 gki_root |-> device_model = "Plain",
                 rescue   |-> device_model = "Plain"]

-----------------------------------------------------------------------------
(* The routes of RootWizard.                                               *)

providers(family) == CASE family = "Magisk"   -> {"Magisk", "MagiskForks"}
                       [] family = "KernelSU" -> {"KernelSU", "ReSukiSU"}
                       [] family = "APatch"   -> {"APatch"}
                       [] OTHER               -> {}
has_modes(r)  == r.family \in {"KernelSU", "Skroot"}
is_skroot(r)  == r.family = "Skroot"
is_gki(r)     == r.mode = "Gki"
is_forks(r)   == r.provider = "MagiskForks"
is_nightly(r) == r.version = "Nightly"
is_apatch(r)  == r.family = "APatch"
needs_ksu_lkm_kernel_version(r) == r.family = "KernelSU" /\ r.mode = "Lkm" /\ ~r.kernel

\* The labels of the step bar.
active_steps(r) ==
  LET Tail3 == <<"Loader", "Confirm", "Flash">>
      If(cond, page) == IF cond THEN <<page>> ELSE <<>> IN
  IF is_skroot(r) THEN <<"Type", "Flavor">> \o Tail3
  ELSE IF is_gki(r) THEN <<"Type", "Mode", "Kernel">> \o Tail3
  ELSE IF is_forks(r) THEN <<"Type", "Provider", "Apk">> \o Tail3
  ELSE <<"Type">> \o If(has_modes(r), "Mode") \o <<"Provider", "Version">>
       \o If(is_nightly(r), "Source") \o If(is_apatch(r), "Kpm") \o Tail3

\* The step numbers in the order in which the bar shows them.
Numbering(r) ==
  IF is_skroot(r) THEN <<0, 1, 5, 6, 7>>
  ELSE IF is_gki(r) THEN <<0, 1, 2, 5, 6, 7>>
  ELSE IF is_forks(r) THEN <<0, 2, 3, 5, 6, 7>>
  ELSE IF is_apatch(r) THEN IF is_nightly(r) THEN <<0, 2, 3, 4, 8, 5, 6, 7>> ELSE <<0, 2, 3, 8, 5, 6, 7>>
  ELSE IF ~has_modes(r) THEN IF is_nightly(r) THEN <<0, 2, 3, 4, 5, 6, 7>> ELSE <<0, 2, 3, 5, 6, 7>>
  ELSE IF is_nightly(r) THEN <<0, 1, 2, 3, 4, 5, 6, 7>> ELSE <<0, 1, 2, 3, 5, 6, 7>>
display_step(r) ==
  IF \E i \in DOMAIN Numbering(r) : Numbering(r)[i] = r.step
  THEN (CHOOSE i \in DOMAIN Numbering(r) : Numbering(r)[i] = r.step) - 1 ELSE r.step

\* The page that view_root_wizard draws.
PageOf(r) ==
  CASE r.step = 0 -> "Type"
    [] r.step = 1 -> IF is_skroot(r) THEN "Flavor" ELSE "Mode"
    [] r.step = 2 -> IF is_gki(r) THEN "Kernel" ELSE "Provider"
    [] r.step = 3 -> IF is_forks(r) THEN "Apk" ELSE "Version"
    [] r.step = 4 -> "Source" [] r.step = 5 -> "Loader" [] r.step = 6 -> "Confirm"
    [] r.step = 8 -> "Kpm" [] OTHER -> "Flash"

\* Fault: a fork's APK page leads where the leftover channel says.
NextForgetsForks(r) ==
  CASE r.step = 0 -> IF r.family # "None" /\ ~has_modes(r)
                     THEN [r EXCEPT !.mode = "None", !.step = 2] ELSE [r EXCEPT !.step = 1]
    [] r.step = 1 -> [r EXCEPT !.step = IF is_skroot(r) THEN 5 ELSE 2]
    [] r.step = 2 -> [r EXCEPT !.step = IF is_gki(r) THEN 5 ELSE 3]
    [] r.step = 3 -> [r EXCEPT !.step = IF is_nightly(r) THEN 4 ELSE IF is_apatch(r) THEN 8 ELSE 5]
    [] r.step = 4 -> [r EXCEPT !.step = IF is_apatch(r) THEN 8 ELSE 5]
    [] r.step \in {5, 6} -> [r EXCEPT !.step = @ + 1]
    [] r.step = 8 -> [r EXCEPT !.step = 5]
    [] OTHER -> r

\* RootWizard::next
root_next(r) ==
  CASE r.step = 0 -> IF r.family # "None" /\ ~has_modes(r)
                     THEN [r EXCEPT !.mode = "None", !.step = 2] ELSE [r EXCEPT !.step = 1]
    [] r.step = 1 -> [r EXCEPT !.step = IF is_skroot(r) THEN 5 ELSE 2]
    [] r.step = 2 -> [r EXCEPT !.step = IF is_gki(r) THEN 5 ELSE 3]
    [] r.step = 3 -> [r EXCEPT !.step = IF is_forks(r) THEN 5 ELSE IF is_nightly(r) THEN 4
                                     ELSE IF is_apatch(r) THEN 8 ELSE 5]
    [] r.step = 4 -> [r EXCEPT !.step = IF is_apatch(r) THEN 8 ELSE 5]
    [] r.step \in {5, 6} -> [r EXCEPT !.step = @ + 1]
    [] r.step = 8 -> [r EXCEPT !.step = 5]
    [] OTHER -> r

\* RootWizard::back
root_back(r) ==
  [r EXCEPT !.step =
     CASE r.step = 2 -> IF r.family # "None" /\ ~has_modes(r) THEN 0 ELSE 1
       [] r.step = 5 -> IF is_skroot(r) THEN 1 ELSE IF is_gki(r) THEN 2
                        ELSE IF is_forks(r) THEN 3 ELSE IF is_apatch(r) THEN 8
                        ELSE IF is_nightly(r) THEN 4 ELSE 3
       [] r.step = 8 -> IF is_nightly(r) THEN 4 ELSE 3
       [] r.step = 0 -> 0
       [] OTHER -> r.step - 1]

root_can_next(r) ==
  LET page == PageOf(r) IN
  CASE page = "Type"     -> r.family # "None"
    [] page = "Flavor"   -> r.flavor = "Lite"
    [] page = "Mode"     -> r.mode # "None"
    [] page \in {"Kernel", "Apk"} -> r.file # "None"
    [] page = "Provider" -> r.provider # "None"
    [] page = "Version"  -> r.version # "None"
    [] page = "Source"   -> r.source = "Auto" \/ (r.source = "Manual" /\ r.run_id)
    [] page = "Loader"   -> r.loader # "None"
    [] OTHER             -> page # "Flash"

-----------------------------------------------------------------------------
(* The pages and what they offer.                                          *)

\* A page takes clicks when nothing runs, no popup covers it and no earlier
\* click waits.
Takes(k) == setup = k /\ current_view = k /\ busy = "No" /\ overlay = "None" /\ nexts = 0
RootPage(page) == Takes("Root") /\ PageOf(root) = page
OnlyWizards == UNCHANGED <<givenVars, current_view, overlay, picker, nexts, busy, order,
                           device_model, countVars>>
RootBecomes(r) == root' = r /\ UNCHANGED <<unroot, sysupdate>> /\ OnlyWizards

\* What a page offers besides Next and Back; a card can be barred by the model
\* or by the answers before it.
root_family_step         == RootPage("Type") /\ capabilities.root
root_skroot_flavor_step  == RootPage("Flavor")
root_mode_step(mode)     == RootPage("Mode") /\ capabilities.root /\ (mode = "Gki" => capabilities.gki_root)
root_provider_step       == RootPage("Provider")
root_file_step           == RootPage("Kernel") \/ RootPage("Apk")
root_version_step(v)     == RootPage("Version") /\ (v = "Stable" => root.provider # "ReSukiSU")
root_nightly_source_step == RootPage("Source")
root_folder_step         == RootPage("Loader")
unroot_type_step         == Takes("Unroot") /\ unroot.step = 0 /\ capabilities.root
unroot_loader_step       == Takes("Unroot") /\ unroot.step = 1
unroot_folder_step       == Takes("Unroot") /\ unroot.step = 2
sysupdate_action_step(a) == Takes("SystemUpdate") /\ sysupdate.step = 0 /\ (a = "Rescue" => capabilities.rescue)
sysupdate_rescue_folder_step == Takes("SystemUpdate") /\ sysupdate.action = "Rescue" /\ sysupdate.step = 1

\* The loader, the modules and the superkey outlast a change of family.
RootFamily(f) ==
  /\ root_family_step
  /\ RootBecomes([RootReset EXCEPT !.family = f, !.loader = root.loader, !.superkey = root.superkey])

RootMode(mode) ==
  /\ root_mode_step(mode)
  /\ RootBecomes([root EXCEPT !.mode = mode, !.file = "None", !.kernel = FALSE])

RootSkrootFlavor == root_skroot_flavor_step /\ RootBecomes([root EXCEPT !.flavor = "Lite"])

\* ReSukiSU has no stable channel.
RootProvider(p) ==
  /\ root_provider_step /\ p \in providers(root.family)
  /\ LET chosen == [root EXCEPT !.provider = p, !.file = "None"] IN
     RootBecomes(IF p = "ReSukiSU" /\ root.version = "Stable"
                 THEN [chosen EXCEPT !.version = "Nightly", !.source = "None", !.run_id = FALSE]
                 ELSE chosen)

RootVersion(v) ==
  /\ root_version_step(v)
  /\ RootBecomes([root EXCEPT !.version = v, !.source = "None", !.run_id = FALSE])

RootNightlySource(s) ==
  /\ root_nightly_source_step
  /\ root' = [root EXCEPT !.source = s, !.run_id = IF s = "Auto" THEN FALSE ELSE @]
  /\ overlay' = IF s = "Manual" THEN "RunId" ELSE "None"
  /\ UNCHANGED <<givenVars, current_view, unroot, sysupdate, picker, nexts, busy, order,
                 device_model, countVars>>

-----------------------------------------------------------------------------
(* Native dialogs.                                                         *)

Opens(for, kind) ==
  /\ picker = NoPicker /\ asked < MaxAsked /\ asked' = asked + 1
  /\ picker' = [for |-> for, kind |-> kind]
  /\ UNCHANGED <<givenVars, current_view, wizardVars, overlay, nexts, busy, order, device_model,
                 orders, moves>>

RootSelectFile == root_file_step /\ Opens("RootFile", IF is_gki(root) THEN "Kernel" ELSE "Apk")

\* pick_loader_with_default: a default that fits is the answer.
SelectLoader(k) ==
  /\ CASE k = "Root" -> root_folder_step [] k = "Unroot" -> unroot_loader_step
       [] OTHER -> sysupdate_rescue_folder_step
  /\ IF ~default_fits THEN Opens(k, "Loader")
     ELSE /\ OnlyWizards
          /\ root' = IF k = "Root" THEN [root EXCEPT !.loader = "Default"] ELSE root
          /\ unroot' = IF k = "Unroot" THEN [unroot EXCEPT !.loader = "Default"] ELSE unroot
          /\ sysupdate' = IF k = "SystemUpdate"
                          THEN [sysupdate EXCEPT !.loader = "Default", !.region = "None", !.confirmed = FALSE]
                          ELSE sysupdate

UnrootSelectFolder == unroot_folder_step /\ Opens("UnrootFolder", "Folder")

\* A reply during an operation is dropped, and so is a cancelled dialog.
Replies(for) == /\ picker.for = for /\ busy = "No" /\ nexts = 0 /\ picker' = NoPicker
                /\ UNCHANGED <<givenVars, current_view, overlay, nexts, busy, order, device_model, countVars>>
PickerIsIgnored ==
  /\ picker # NoPicker /\ picker' = NoPicker
  /\ UNCHANGED <<givenVars, current_view, wizardVars, overlay, nexts, busy, order, device_model, countVars>>

FileSelected == /\ Replies("RootFile") /\ root' = [root EXCEPT !.file = picker.kind]
                /\ UNCHANGED <<unroot, sysupdate>>
FolderSelected == /\ Replies("UnrootFolder") /\ unroot' = [unroot EXCEPT !.folder = "Folder"]
                  /\ UNCHANGED <<root, sysupdate>>
\* A file that is no loader drops the one before.
RootLoaderChosen(loader) == /\ Replies("Root") /\ root' = [root EXCEPT !.loader = loader]
                            /\ UNCHANGED <<unroot, sysupdate>>
UnrootLoaderChosen(loader) == /\ Replies("Unroot") /\ unroot' = [unroot EXCEPT !.loader = loader]
                              /\ UNCHANGED <<root, sysupdate>>

\* Fault: the region of the loader before is kept.
LoaderKeepsRegion(file) ==
  /\ Replies("SystemUpdate")
  /\ sysupdate' = [sysupdate EXCEPT !.loader = file]
  /\ UNCHANGED <<root, unroot>>

\* Another loader asks for the region again.
SysRescueFolderChosen(file) ==
  /\ Replies("SystemUpdate")
  /\ sysupdate' = [sysupdate EXCEPT !.loader = file, !.region = "None", !.confirmed = FALSE]
  /\ UNCHANGED <<root, unroot>>

-----------------------------------------------------------------------------
(* Starting.                                                               *)

\* begin_phased_op, or a refusal that leaves the wizard on its last page.
Starts(allowed, what) ==
  IF allowed THEN /\ orders < MaxOrders /\ orders' = orders + 1 /\ busy' = "Run" /\ order' = what
  ELSE busy' = "No" /\ UNCHANGED <<order, orders>>

\* A GKI route on a model that turned out not to take it goes back to the mode.
RootExecStart(r) ==
  LET barred == is_gki(r) /\ ~capabilities.gki_root IN
  /\ root' = IF capabilities.root /\ barred THEN [r EXCEPT !.mode = "None", !.step = 1] ELSE r
  /\ Starts(capabilities.root /\ ~barred /\ r.loader # "None",
            [of |-> "Root", route |-> [r EXCEPT !.step = 0]])

UnrootExecStart(u) ==
  /\ unroot' = u
  /\ Starts(capabilities.root /\ "None" \notin {u.type, u.folder, u.loader}, [of |-> "Unroot"])

SysExecStart(s) ==
  /\ sysupdate' = s
  /\ Starts(s.action = "Rescue" => capabilities.rescue /\ s.loader # "None",
            [of |-> s.action, loader |-> s.loader, region |-> s.region, region_for |-> s.region_for])

-----------------------------------------------------------------------------
(* Next and Back.                                                          *)

sys_steps(s) == IF s.action = "Rescue" THEN 4 ELSE 3
sys_can_next(s) ==
  CASE s.step = 0 -> s.action # "None"
    [] s.action = "Rescue" -> CASE s.step = 1 -> s.loader # "None" [] s.step = 2 -> s.region # "None"
                                [] OTHER -> FALSE
    [] OTHER -> s.step = 1
unroot_can_next(u) ==
  CASE u.step = 0 -> u.type # "None" [] u.step = 1 -> u.loader # "None"
    [] u.step = 2 -> u.folder # "None" [] OTHER -> u.step = 3

\* When the views offer Next; the device is taken to be reachable.
view_root_wizard      == Takes("Root") /\ root_can_next(root) /\ capabilities.root
view_unroot_wizard    == Takes("Unroot") /\ unroot_can_next(unroot) /\ capabilities.root
view_sysupdate_wizard == Takes("SystemUpdate") /\ sys_can_next(sysupdate)

\* One click, or two when a device poll keeps the first one waiting.
ClickSetupNext(k) ==
  /\ CASE k = "Root" -> view_root_wizard [] k = "Unroot" -> view_unroot_wizard
       [] OTHER -> view_sysupdate_wizard
  /\ nexts' \in {1, 2}
  /\ UNCHANGED <<givenVars, current_view, wizardVars, overlay, picker, busy, order, device_model, countVars>>

Handles(k) == setup = k /\ nexts > 0 /\ nexts' = nexts - 1 /\ busy = "No"
Untouched  == UNCHANGED <<givenVars, current_view, picker, device_model, asked, moves>>
NoStart    == UNCHANGED <<busy, order, orders>>

NextIsDropped ==
  /\ nexts > 0 /\ busy # "No" /\ nexts' = nexts - 1
  /\ UNCHANGED <<givenVars, current_view, wizardVars, overlay, picker, busy, order, device_model, countVars>>

\* The probe holds the operation while it asks the device.
RootNextConfirms ==
  /\ Handles("Root") /\ root.step = 6 /\ Untouched /\ UNCHANGED <<unroot, sysupdate, overlay>>
  /\ IF needs_ksu_lkm_kernel_version(root)
     THEN busy' = "Probe" /\ UNCHANGED <<root, order, orders>>
     ELSE RootExecStart(root_next(root))

\* The page of the modules is left through the superkey.
RootNextAsksKey ==
  /\ Handles("Root") /\ root.step = 8 /\ overlay' = "Superkey"
  /\ UNCHANGED wizardVars /\ Untouched /\ NoStart

RootNextTurns ==
  /\ Handles("Root") /\ root.step \notin {6, 8}
  /\ LET r == root_next(root) IN
     root' = IF r.step = 5 /\ r.loader = "None" /\ default_fits
             THEN root_next([r EXCEPT !.loader = "Default"]) ELSE r
  /\ UNCHANGED <<unroot, sysupdate, overlay>> /\ Untouched /\ NoStart

UnrootNext ==
  /\ Handles("Unroot") /\ Untouched /\ UNCHANGED <<root, sysupdate, overlay>>
  /\ CASE unroot.step = 3 -> UnrootExecStart([unroot EXCEPT !.step = 4])
       [] unroot.step = 0 /\ unroot.loader = "None" /\ default_fits ->
            unroot' = [unroot EXCEPT !.step = 2, !.loader = "Default"] /\ NoStart
       [] unroot.step = 4 -> UNCHANGED unroot /\ NoStart
       [] OTHER -> unroot' = [unroot EXCEPT !.step = @ + 1] /\ NoStart

\* The region is preselected from what is known of the device, and still asked.
SysNext ==
  /\ Handles("SystemUpdate") /\ Untouched /\ UNCHANGED <<root, unroot>>
  /\ LET s == sysupdate IN
     CASE s.action = "Rescue" /\ s.step = 1 /\ ~s.confirmed ->
            /\ \E inferred \in {"None", "Prc"} :
                 sysupdate' = [s EXCEPT !.region = IF @ = "None" THEN inferred ELSE @]
            /\ overlay' = "Region" /\ NoStart
       [] s.step = sys_steps(s) - 2 -> SysExecStart([s EXCEPT !.step = @ + 1]) /\ UNCHANGED overlay
       [] s.step = sys_steps(s) - 1 -> UNCHANGED <<sysupdate, overlay>> /\ NoStart
       [] OTHER -> sysupdate' = [s EXCEPT !.step = @ + 1] /\ UNCHANGED overlay /\ NoStart

SetupBack(k) ==
  /\ Takes(k) /\ OnlyWizards
  /\ CASE k = "Root" -> /\ PageOf(root) \notin {"Type", "Flash"} /\ root' = root_back(root)
                        /\ UNCHANGED <<unroot, sysupdate>>
       [] k = "Unroot" -> /\ unroot.step \in 1..3 /\ unroot' = [unroot EXCEPT !.step = @ - 1]
                          /\ UNCHANGED <<root, sysupdate>>
       [] OTHER -> /\ sysupdate.step \in 1..(sys_steps(sysupdate) - 2)
                   /\ sysupdate' = [sysupdate EXCEPT !.step = @ - 1]
                   /\ UNCHANGED <<root, unroot>>

-----------------------------------------------------------------------------
(* Cards and popups.                                                       *)

SetUnrootType == /\ unroot_type_step
                 /\ unroot' = [unroot EXCEPT !.type = "MagiskLkm"]
                 /\ UNCHANGED <<root, sysupdate>> /\ OnlyWizards

SysAction(action) ==
  /\ sysupdate_action_step(action)
  /\ sysupdate' = [SysReset EXCEPT !.action = action]
  /\ UNCHANGED <<root, unroot>> /\ OnlyWizards

\* A popup takes clicks like a page; the region's covers its page only.
InPopup(which) == overlay = which /\ busy = "No" /\ nexts = 0
root_superkey_popup       == InPopup("Superkey") \/ InPopup("Verify")
root_run_id_popup         == InPopup("RunId")
root_kernel_version_popup == InPopup("Kernel")
rescue_region_popup_view  == InPopup("Region") /\ current_view = setup
PopupDone == UNCHANGED <<givenVars, current_view, picker, nexts, device_model, asked, moves>>

\* A click on the region turns the page.
SysRescueRegion(region) ==
  /\ rescue_region_popup_view /\ overlay' = "None"
  /\ sysupdate' = [sysupdate EXCEPT !.region = region, !.confirmed = TRUE, !.region_for = sysupdate.loader,
                                    !.step = IF @ = 1 THEN 2 ELSE @]
  /\ UNCHANGED <<root, unroot>> /\ PopupDone /\ NoStart

\* The superkey is typed twice; a second entry that differs starts again.
RootSuperkeyConfirm(same) ==
  /\ root_superkey_popup
  /\ overlay' = IF overlay = "Superkey" THEN "Verify" ELSE IF same THEN "None" ELSE "Superkey"
  /\ root' = IF overlay = "Verify" /\ same THEN root_next([root EXCEPT !.superkey = TRUE]) ELSE root
  /\ UNCHANGED <<unroot, sysupdate>> /\ PopupDone /\ NoStart

RootRunIdConfirm ==
  /\ root_run_id_popup /\ overlay' = "None" /\ root' = [root EXCEPT !.run_id = TRUE]
  /\ UNCHANGED <<unroot, sysupdate>> /\ PopupDone /\ NoStart

\* Without a run ID the source is asked again.
PopupCancelled ==
  /\ overlay # "None" /\ InPopup(overlay) /\ overlay' = "None"
  /\ overlay = "Region" => current_view = setup
  /\ root' = IF overlay = "RunId" /\ ~root.run_id THEN [root EXCEPT !.source = "None"] ELSE root
  /\ UNCHANGED <<unroot, sysupdate>> /\ PopupDone /\ NoStart

RootKernelVersionConfirm ==
  /\ root_kernel_version_popup /\ overlay' = "None"
  /\ LET r == [root EXCEPT !.kernel = TRUE] IN
     IF root.step = 6 THEN RootExecStart(root_next(r)) ELSE root' = r /\ NoStart
  /\ UNCHANGED <<unroot, sysupdate>> /\ PopupDone

\* The probe goes on with the run, or asks the user.
RootKernelVersionProbeDone(detected) ==
  /\ busy = "Probe"
  /\ IF detected
     THEN RootExecStart(root_next([root EXCEPT !.kernel = TRUE])) /\ UNCHANGED overlay
     ELSE busy' = "No" /\ overlay' = "Kernel" /\ UNCHANGED <<root, order, orders>>
  /\ UNCHANGED <<unroot, sysupdate>> /\ PopupDone

-----------------------------------------------------------------------------
(* The end of a run, the sidebar, the device.                              *)

SetupRunEnds ==
  /\ busy = "Run" /\ busy' = "No" /\ order' = NoOrder
  /\ UNCHANGED <<givenVars, current_view, wizardVars, overlay, picker, nexts, device_model, countVars>>

IsInExec == CASE setup = "Root" -> root.step = 7 [] setup = "Unroot" -> unroot.step = 4
              [] OTHER -> sysupdate.step = sys_steps(sysupdate) - 1
IsOnConfirmStep == CASE setup = "Root" -> root.step = 6 [] setup = "Unroot" -> unroot.step = 3
                     [] OTHER -> sysupdate.step = sys_steps(sysupdate) - 2
AllReset == root' = RootReset /\ unroot' = UnrootReset /\ sysupdate' = SysReset /\ overlay' = "None"

\* Popups other than the region's cover the sidebar.
SidebarTo(v) ==
  /\ nexts = 0 /\ overlay \in {"None", "Region"}
  /\ moves < MaxMoves /\ moves' = moves + 1 /\ current_view' = v
  /\ IF v = setup /\ busy = "No" /\ ~IsInExec /\ ~IsOnConfirmStep
     THEN AllReset ELSE UNCHANGED <<wizardVars, overlay>>
  /\ UNCHANGED <<givenVars, picker, nexts, busy, order, device_model, asked, orders>>

RestartSetup ==
  /\ Takes(setup) /\ IsInExec /\ AllReset
  /\ UNCHANGED <<givenVars, current_view, picker, nexts, busy, order, device_model, countVars>>

\* Polls are not applied while an operation runs.
ModelIsSeen(model) ==
  /\ busy = "No" /\ nexts = 0 /\ device_model # model /\ device_model' = model
  /\ moves < MaxMoves /\ moves' = moves + 1
  /\ UNCHANGED <<givenVars, current_view, wizardVars, overlay, picker, nexts, busy, order, asked, orders>>

-----------------------------------------------------------------------------
SetupInit ==
  /\ setup \in Setups /\ default_fits \in DefaultFits /\ current_view = setup
  /\ root = RootReset /\ unroot = UnrootReset /\ sysupdate = SysReset
  /\ overlay = "None" /\ picker = NoPicker /\ nexts = 0 /\ busy = "No" /\ order = NoOrder
  /\ device_model \in DeviceModels /\ asked = 0 /\ orders = 0 /\ moves = 0

RootSteps ==
  \/ \E f \in Families : RootFamily(f)
  \/ \E mode \in {"Lkm", "Gki"} : RootMode(mode)
  \/ RootSkrootFlavor
  \/ \E f \in Families : \E p \in providers(f) : RootProvider(p)
  \/ \E v \in {"Stable", "Nightly"} : RootVersion(v)
  \/ \E s \in {"Auto", "Manual"} : RootNightlySource(s)
  \/ RootSelectFile \/ FileSelected
  \/ RootNextConfirms \/ RootNextAsksKey \/ RootNextTurns
  \/ \E same \in BOOLEAN : RootSuperkeyConfirm(same)
  \/ RootRunIdConfirm \/ RootKernelVersionConfirm
  \/ \E detected \in BOOLEAN : RootKernelVersionProbeDone(detected)

OtherSteps ==
  \/ SetUnrootType \/ UnrootSelectFolder \/ FolderSelected \/ UnrootNext \/ SysNext
  \/ \E action \in {"Disable", "Enable", "Rescue"} : SysAction(action)
  \/ \E region \in {"Prc", "Row"} : SysRescueRegion(region)
  \/ \E loader \in {"File", "None"} : RootLoaderChosen(loader) \/ UnrootLoaderChosen(loader)
  \/ \E file \in Loaders : SysRescueFolderChosen(file)
  \/ \E k \in Setups : SelectLoader(k) \/ ClickSetupNext(k) \/ SetupBack(k)
  \/ PickerIsIgnored \/ NextIsDropped \/ PopupCancelled \/ SetupRunEnds \/ RestartSetup
  \/ \E v \in Setups \cup {"Elsewhere"} : (v \in {setup, "Elsewhere"} /\ SidebarTo(v))
  \/ \E model \in DeviceModels : ModelIsSeen(model)

SetupNext == RootSteps \/ OtherSteps
SetupSpec == SetupInit /\ [][SetupNext]_setupVars

-----------------------------------------------------------------------------
(* Properties.                                                             *)

\* The step bar names the page on show, on every route, whatever is changed on
\* an earlier page, skipped for the default loader, turned twice by a replayed
\* click, or thrown back by the model (active_steps, display_step, next, back
\* and view_root_wizard each number the pages for themselves).
BarNamesThePage ==
  /\ display_step(root) < Len(active_steps(root))
  /\ active_steps(root)[display_step(root) + 1] = PageOf(root)

\* Inputs the worker turns away before it touches the device.
RootAccepts(r) ==
  /\ is_gki(r) => r.file = "Kernel"
  /\ ~is_gki(r) /\ ~is_skroot(r) => r.provider # "None" /\ (is_forks(r) \/ r.version # "None")
  /\ ~is_gki(r) /\ is_forks(r) => r.file = "Apk"
  /\ ~is_gki(r) /\ r.family = "KernelSU" => r.mode = "Lkm"

\* A root run that the worker lets through follows one route: only KernelSU has
\* a kernel image or a module, the module knows its kernel version, the provider
\* is one of its family, APatch has its superkey.  A rescue runs for the region
\* that was confirmed for the very loader it uses ("a stale region from a prior
\* firmware could target the wrong hardware").
OrdersAreWhole ==
  CASE order.of = "Root" /\ RootAccepts(order.route) ->
         LET r == order.route IN
         /\ r.mode # "None" => r.family = "KernelSU"
         /\ r.mode = "Lkm" => r.kernel
         /\ r.provider # "None" => r.provider \in providers(r.family)
         /\ is_apatch(r) => r.superkey
    [] order.of = "Rescue" /\ order.region # "None" -> order.region_for = order.loader
    [] OTHER -> TRUE
=============================================================================
