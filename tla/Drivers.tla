------------------------------- MODULE Drivers -------------------------------
(***************************************************************************)
(* The host's side of the cable: the Qualcomm driver of the selected mode, *)
(* on Windows a signed package, on Linux udev rules or a Debian package.   *)
(* Checks run in the background and read the mode when they run; their     *)
(* replies carry no token.  An install downloads, asks for elevation and   *)
(* runs while the user may go on to another mode.                          *)
(***************************************************************************)
EXTENDS Naturals, Sequences

CONSTANTS
  Hosts,       \* "Windows", "Debian", "Linux" (without Debian's tools)
  Releases,    \* what GitHub lists, see Release
  Disks,       \* what may be installed at the start, see Installation
  MaxSwitches, \* changes of the driver mode
  MaxInstalls  \* installs started

DriverModesOf == {"Userspace", "Kernel"}
NoVersion     == <<>>

\* One release: the system its tag names, the version in its tag (or none), that
\* it is neither a draft nor a prerelease, that it ships this host's installer.
Release == [package : DriverModesOf, system : {"win", "lnx"}, version : Seq(Nat),
            stable : BOOLEAN, asset : BOOLEAN, published : Nat]

\* Rules files: "Stale" has other contents, "Hidden" cannot be read.
Rules == {"None", "Stale", "Good", "Hidden"}
\* A package: that its .inf is in the driver store, and the version it registered.
Package  == [inf : BOOLEAN, version : Seq(Nat)]
NotThere == [inf |-> FALSE, version |-> NoVersion]
Installation == [admin : Rules, package : Rules, installed : [DriverModesOf -> Package]]

\* Of any of the releases one was published last.
ASSUME DriversAssumption ==
  /\ Hosts \subseteq {"Windows", "Debian", "Linux"}
  /\ Releases \subseteq Release /\ Disks \subseteq Installation
  /\ \A some \in (SUBSET Releases) \ {{}} : \E r \in some : \A s \in some : s.published <= r.published
  /\ MaxSwitches \in Nat /\ MaxInstalls \in Nat

VARIABLES
  host,
  qcom_driver_mode, \* the mode, in the settings and in QCOM_DRIVER_MODE
  disk,             \* what is installed, see Installation
  driver_status,    \* the last DriverStatus that arrived, or Unknown
  driver_update,    \* the package an update is offered for, or NoUpdate
  qcom_driver_update_dismissed,
  driver_restart_recommended,
  online,           \* "Unknown", "Yes", "No"
  checks,           \* the background checks, see Check
  install,          \* the installer's worker, see Install
  switches, installs

answers    == <<driver_status, driver_update, online>>
notices    == <<qcom_driver_update_dismissed, driver_restart_recommended>>
driverVars == <<host, qcom_driver_mode, disk, answers, notices, checks, install, switches, installs>>

Unknown  == "Unknown"
NoUpdate == "NoUpdate"
Statuses == {"Present", "Missing", "UdevRulesMissing", "UdevRulesStale",
             "UdevRulesNoPermission", "KernelDriverMissing", "KernelDriverUnsupported"}

\* A check that was spawned with the n-th change of the mode; got is its answer.
CheckKinds == {"Status", "Update", "Online"}
Pending    == "Pending"

\* download_and_install: where it is, the package it works on, how it ended, and
\* that the mode changed since the user asked.
InstallSteps == {"Off", "Begin", "Rules", "Tools", "Fetch", "Download", "Verify", "Run",
                 "Confirm", "Done"}
Install == [pc : InstallSteps, package : DriverModesOf \cup {"None"}, ok : BOOLEAN,
            switched : BOOLEAN]
Off == [pc |-> "Off", package |-> "None", ok |-> FALSE, switched |-> FALSE]
installing_drivers == install.pc # "Off"

-----------------------------------------------------------------------------
(* Releases and versions.                                                  *)

Component(v, i) == IF i <= Len(v) THEN v[i] ELSE 0
version_lt(a, b) ==
  \E i \in 1..Len(b) :
    Component(a, i) < Component(b, i) /\ \A j \in 1..(i - 1) : Component(a, j) = Component(b, j)

Matching(mode) ==
  {r \in Releases : /\ r.package = mode /\ r.stable /\ r.asset
                    /\ r.system = IF host = "Windows" THEN "win" ELSE "lnx"}

\* select_latest_*_release: the one published last, whatever its version.
Latest(mode) ==
  CHOOSE r \in Matching(mode) : \A s \in Matching(mode) : s.published <= r.published

-----------------------------------------------------------------------------
(* What a check reads.                                                     *)

kernel_mode_supported == host \in {"Windows", "Debian"}

check_udev_rules ==
  LET rules == IF disk.admin # "None" THEN disk.admin ELSE disk.package IN
  CASE rules = "None"   -> "UdevRulesMissing"
    [] rules = "Stale"  -> "UdevRulesStale"
    [] rules = "Hidden" -> "UdevRulesNoPermission"
    [] OTHER            -> "Present"

check_kernel_driver ==
  IF ~kernel_mode_supported THEN "KernelDriverUnsupported"
  ELSE IF disk.installed["Kernel"].version # NoVersion THEN "Present" ELSE "KernelDriverMissing"

check_required_drivers ==
  IF host = "Windows" THEN IF disk.installed[qcom_driver_mode].inf THEN "Present" ELSE "Missing"
  ELSE IF qcom_driver_mode = "Kernel" THEN check_kernel_driver
  ELSE check_udev_rules

\* check_driver_update, when the network answers.
check_driver_update ==
  LET current == disk.installed[qcom_driver_mode].version IN
  IF /\ host = "Windows" \/ qcom_driver_mode = "Kernel"
     /\ current # NoVersion /\ Matching(qcom_driver_mode) # {}
     /\ version_lt(current, Latest(qcom_driver_mode).version)
  THEN qcom_driver_mode ELSE NoUpdate

probe_connectivity == IF host # "Windows" /\ qcom_driver_mode = "Userspace" THEN {"Yes"} ELSE {"Yes", "No"}

\* A check reads the mode when its thread gets to run.
Reads(kind) ==
  CASE kind = "Status" -> {check_required_drivers}
    [] kind = "Update" -> {check_driver_update, NoUpdate}
    [] kind = "Online" -> probe_connectivity

Spawned(kinds) == [kind : kinds, switch : {switches'}, install : {installs}, got : {Pending}]

CheckReads ==
  \E c \in checks :
    /\ c.got = Pending
    /\ \E answer \in Reads(c.kind) : checks' = (checks \ {c}) \cup {[c EXCEPT !.got = answer]}
    /\ UNCHANGED <<host, qcom_driver_mode, disk, answers, notices, install, switches, installs>>

\* Fault: a late answer brings a dismissed update back.
AlwaysOffers(update) == driver_update' = update
\* DriverUpdateCheckDone
DriverUpdateCheckDone(update) ==
  driver_update' = IF qcom_driver_update_dismissed THEN driver_update ELSE update

CheckDone ==
  \E c \in checks :
    /\ c.got # Pending
    /\ checks' = checks \ {c}
    /\ \/ c.kind = "Status" /\ driver_status' = c.got /\ UNCHANGED <<driver_update, online>>
       \/ c.kind = "Update" /\ DriverUpdateCheckDone(c.got) /\ UNCHANGED <<driver_status, online>>
       \/ c.kind = "Online" /\ online' = c.got /\ UNCHANGED <<driver_status, driver_update>>
    /\ UNCHANGED <<host, qcom_driver_mode, disk, notices, install, switches, installs>>

-----------------------------------------------------------------------------
(* The banner and the settings.                                            *)

driver_install_banner ==
  IF driver_status \notin {"Present", Unknown} THEN "Warning"
  ELSE IF driver_restart_recommended THEN "Restart"
  ELSE IF driver_update # NoUpdate THEN "Update" ELSE "None"

\* driver_warning_banner: the states an install repairs, those that need GitHub.
CanInstall   == driver_status # "KernelDriverUnsupported"
NeedsNetwork == driver_status \notin {"UdevRulesMissing", "UdevRulesStale", "UdevRulesNoPermission"}

InstallOffered ==
  \/ driver_install_banner = "Warning" /\ CanInstall /\ (NeedsNetwork => online # "No")
  \/ driver_install_banner = "Update" /\ online # "No"

InstallDrivers ==
  /\ InstallOffered /\ ~installing_drivers
  /\ installs < MaxInstalls /\ installs' = installs + 1
  /\ install' = [Off EXCEPT !.pc = "Begin"]
  /\ UNCHANGED <<host, qcom_driver_mode, disk, answers, notices, checks, switches>>

DismissDriverUpdate ==
  /\ driver_install_banner = "Update" /\ ~installing_drivers
  /\ qcom_driver_update_dismissed' = TRUE /\ driver_update' = NoUpdate
  /\ UNCHANGED <<host, qcom_driver_mode, disk, driver_status, online, driver_restart_recommended,
                 checks, install, switches, installs>>

CloseDriverRestartRecommended ==
  /\ driver_install_banner = "Restart" /\ driver_restart_recommended' = FALSE
  /\ UNCHANGED <<host, qcom_driver_mode, disk, answers, qcom_driver_update_dismissed, checks,
                 install, switches, installs>>

\* The picker of the settings, which is locked where there is one mode only and
\* while an operation runs, but not during an install.
SetQcomDriverMode ==
  /\ kernel_mode_supported /\ switches < MaxSwitches /\ switches' = switches + 1
  /\ qcom_driver_mode' \in DriverModesOf \ {qcom_driver_mode}
  /\ driver_status' = Unknown /\ driver_update' = NoUpdate
  /\ qcom_driver_update_dismissed' = FALSE
  /\ checks' = checks \cup Spawned(CheckKinds)
  /\ install' = [install EXCEPT !.switched = installing_drivers]
  /\ UNCHANGED <<host, disk, online, driver_restart_recommended, installs>>

-----------------------------------------------------------------------------
(* download_and_install                                                    *)

On(pc)       == install.pc = pc
To(pc)       == install' = [install EXCEPT !.pc = pc]
Works(p, pc) == install' = [install EXCEPT !.pc = pc, !.package = p]
Ends(ok)     == install' = [install EXCEPT !.pc = "Done", !.ok = ok]
WorkerOnly   == UNCHANGED <<host, qcom_driver_mode, answers, notices, checks, switches, installs>>

InstallBegin ==
  /\ On("Begin") /\ UNCHANGED disk /\ WorkerOnly
  /\ IF host = "Windows" THEN To("Fetch")
     ELSE IF qcom_driver_mode = "Kernel" THEN Works("Kernel", "Tools")
     ELSE Works("Userspace", "Rules")

\* install_udev_rules, up to pkexec.
InstallRules ==
  /\ On("Rules") /\ UNCHANGED disk /\ WorkerOnly
  /\ \/ check_udev_rules = "Present" /\ Ends(TRUE)
     \/ check_udev_rules # "Present" /\ (To("Run") \/ Ends(FALSE))

\* pkexec and apt-get, from a trusted directory.
InstallTools == On("Tools") /\ (To("Fetch") \/ Ends(FALSE)) /\ UNCHANGED disk /\ WorkerOnly

\* fetch_latest_win_release reads the mode again; on Debian the branch is taken.
InstallFetch ==
  LET package == IF host = "Windows" THEN qcom_driver_mode ELSE install.package IN
  /\ On("Fetch") /\ UNCHANGED disk /\ WorkerOnly
  /\ \/ Matching(package) # {} /\ Works(package, "Download")
     \/ Ends(FALSE)

\* The private directory, the download, the package in the archive; Windows then
\* wants a valid signature of Qualcomm's.
InstallDownload ==
  /\ On("Download") /\ UNCHANGED disk /\ WorkerOnly
  /\ To(IF host = "Windows" THEN "Verify" ELSE "Run") \/ Ends(FALSE)
VerifyAuthenticode == On("Verify") /\ (To("Run") \/ Ends(FALSE)) /\ UNCHANGED disk /\ WorkerOnly

Placed(package) ==
  [disk EXCEPT !.installed[package] = [inf |-> TRUE, version |-> Latest(package).version]]

\* ltbox --install-udev: the rules are written and made readable, or the latter
\* failed under a strict umask.
UdevPlaced == {[disk EXCEPT !.admin = r] : r \in {"Good", "Hidden"}}

Places == IF host # "Windows" /\ install.package = "Userspace" THEN UdevPlaced ELSE {Placed(install.package)}

\* Fault: an installer without an exit code counts as successful.
DetachedIsFine ==
  /\ On("Run") /\ WorkerOnly
  /\ \/ disk' \in Places /\ To("Confirm")
     \/ UNCHANGED disk /\ To("Confirm")
     \/ disk' \in Places \cup {disk} /\ Ends(FALSE)
\* The elevated installer exits with 0, is cancelled, fails before or after its
\* work, or leaves no exit code behind: that is a failure, too.
InstallRun ==
  /\ On("Run") /\ WorkerOnly
  /\ \/ disk' \in Places /\ To("Confirm")
     \/ disk' \in Places \cup {disk} /\ Ends(FALSE)

\* Linux looks whether it is there now: the rules by whatever the mode is, the
\* package by itself.  Windows trusts the exit code.
InstallConfirm ==
  LET found == IF host = "Windows" THEN "Present"
               ELSE IF install.package = "Kernel" THEN check_kernel_driver
               ELSE check_required_drivers IN
  On("Confirm") /\ Ends(found = "Present") /\ UNCHANGED disk /\ WorkerOnly

InstallDriversDone ==
  /\ On("Done") /\ install' = Off
  /\ IF install.ok
     THEN /\ driver_update' = NoUpdate /\ driver_restart_recommended' = TRUE
          /\ checks' = checks \cup [kind : {"Status"}, switch : {switches}, install : {installs},
                                    got : {Pending}]
     ELSE UNCHANGED <<driver_update, driver_restart_recommended, checks>>
  /\ UNCHANGED <<host, qcom_driver_mode, disk, driver_status, online,
                 qcom_driver_update_dismissed, switches, installs>>

Installing ==
  \/ InstallBegin \/ InstallRules \/ InstallTools \/ InstallFetch \/ InstallDownload
  \/ VerifyAuthenticode \/ InstallRun \/ InstallConfirm \/ InstallDriversDone

-----------------------------------------------------------------------------
\* No rules on Windows; elsewhere no .inf, and packages on Debian only.
HostHas(d) ==
  /\ host = "Windows" => d.admin = "None" /\ d.package = "None"
  /\ host # "Windows" => d.installed["Userspace"] = NotThere /\ ~d.installed["Kernel"].inf
  /\ host = "Linux" => d.installed["Kernel"] = NotThere

\* App::new: the stored mode as far as the host supports it; a dismissed update is
\* not looked for.
DriversInit ==
  /\ host \in Hosts
  /\ qcom_driver_mode \in IF kernel_mode_supported THEN DriverModesOf ELSE {"Userspace"}
  /\ disk \in Disks /\ HostHas(disk)
  /\ driver_status = Unknown /\ driver_update = NoUpdate /\ online = "Unknown"
  /\ qcom_driver_update_dismissed \in BOOLEAN /\ driver_restart_recommended = FALSE
  /\ switches = 0 /\ installs = 0 /\ install = Off
  /\ checks = [kind : IF qcom_driver_update_dismissed THEN CheckKinds \ {"Update"} ELSE CheckKinds,
               switch : {0}, install : {0}, got : {Pending}]

DriversNext ==
  \/ CheckReads \/ CheckDone \/ InstallDrivers \/ DismissDriverUpdate
  \/ CloseDriverRestartRecommended \/ SetQcomDriverMode \/ Installing

DriversSpec == DriversInit /\ [][DriversNext]_driverVars

-----------------------------------------------------------------------------
(* Properties.                                                             *)

InPlace(package) ==
  IF host # "Windows" /\ package = "Userspace" THEN check_udev_rules = "Present"
  ELSE disk.installed[package].version # NoVersion

\* download_and_install: an install during which the mode stayed and that reports
\* success has left its driver where a check finds it; and an update the user has
\* dismissed is not offered again by an answer that was under way.
SuccessIsInstalled ==
  /\ On("Done") /\ install.ok /\ ~install.switched => InPlace(install.package)
  /\ qcom_driver_update_dismissed => driver_update = NoUpdate

\* driver_install_banner, "switching driver mode surfaces the relevant prompt": where
\* nothing was installed meanwhile, the banner is about the driver of the selected
\* mode once all checks have answered.
BannerIsOfTheMode ==
  checks = {} /\ installs = 0 =>
    /\ driver_status = check_required_drivers
    /\ driver_update \in {NoUpdate, qcom_driver_mode}
=============================================================================
