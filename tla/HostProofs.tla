------------------------------ MODULE HostProofs ------------------------------
(***************************************************************************)
(* Proofs about what LTBox does on the host: a driver it reports as        *)
(* installed is there, the pieces of a root belong together, and nothing   *)
(* it keeps for its user is lost.  Each of the three modules has its own   *)
(* inductive invariant; they share no state.                               *)
(***************************************************************************)
EXTENDS Drivers, RootPayload, AppFiles, SequenceTheorems, WellFoundedInduction, TLAPS

-----------------------------------------------------------------------------
(* Drivers.  What an installer works on once it has begun: the package of  *)
(* the mode it read, and of the mode still selected unless that changed;   *)
(* on Linux the branch it took at the start.                               *)

HostType ==
  /\ host \in {"Windows", "Debian", "Linux"} /\ qcom_driver_mode \in DriverModesOf
  /\ disk \in Installation /\ install \in Install

InstallPhase ==
  /\ install.pc = "Rules" => host # "Windows" /\ install.package = "Userspace"
  /\ install.pc = "Tools" => host # "Windows" /\ install.package = "Kernel"
  /\ install.pc = "Fetch" => host = "Windows" \/ install.package = "Kernel"
  /\ install.pc \in {"Download", "Verify", "Run", "Confirm"} => install.package \in DriverModesOf
  /\ install.pc \in {"Download", "Verify", "Run"} /\ (host = "Windows" \/ install.package = "Kernel")
       => Matching(install.package) # {}
  /\ install.pc \notin {"Off", "Begin"} /\ host # "Windows" /\ ~install.switched
       => install.package = qcom_driver_mode
  /\ install.pc = "Confirm" /\ host = "Windows" => disk.installed[install.package].version # NoVersion

DriversInv == HostType /\ InstallPhase /\ SuccessIsInstalled

-----------------------------------------------------------------------------
\* The release that is installed is one of those that match.
LEMMA LatestMatches ==
  ASSUME NEW package, Matching(package) # {}
  PROVE  Latest(package) \in Matching(package)
<1>1. Matching(package) \in SUBSET Releases /\ Matching(package) \notin {{}}
  BY DEF Matching
<1>2. \E r \in Matching(package) : \A s \in Matching(package) : s.published <= r.published
  BY <1>1, DriversAssumption
<1> QED BY <1>2 DEF Latest

\* What an installer leaves is an installation, and has the version it installed.
LEMMA PlacedIsThere ==
  ASSUME NEW package \in DriverModesOf, Matching(package) # {}, disk \in Installation
  PROVE  /\ Placed(package) \in Installation
         /\ Placed(package).installed[package].version = Latest(package).version
<1> DEFINE put == [inf |-> TRUE, version |-> Latest(package).version]
<1>1. Latest(package) \in Release
  BY LatestMatches, DriversAssumption DEF Matching
<1>2. put \in Package
  BY <1>1 DEF Package, Release
<1>3. Placed(package) = [disk EXCEPT !.installed[package] = put]
  BY DEF Placed
<1>4. put.version = Latest(package).version
  OBVIOUS
<1> HIDE DEF put
<1> QED BY <1>2, <1>3, <1>4 DEF Installation

LEMMA InitDrivers == DriversInit => DriversInv
<1> SUFFICES ASSUME DriversInit PROVE DriversInv
  OBVIOUS
<1>1. install = Off /\ Off \in Install
  BY DEF DriversInit, Off, Install, InstallSteps
<1>2. HostType
  BY <1>1, DriversAssumption DEF DriversInit, HostType, DriverModesOf
<1>3. InstallPhase /\ SuccessIsInstalled
  BY <1>1 DEF Off, InstallPhase, SuccessIsInstalled, DriversInit, On
<1> QED BY <1>2, <1>3 DEF DriversInv

\* A step that leaves the installer and the disk alone, and the mode too.
LEMMA ChecksKeep ==
  ASSUME DriversInv, UNCHANGED <<host, qcom_driver_mode, disk, install>>,
         qcom_driver_update_dismissed' => driver_update' = NoUpdate
  PROVE  DriversInv'
BY DEF DriversInv, HostType, InstallPhase, SuccessIsInstalled, InPlace, On, Matching, check_udev_rules

LEMMA SwitchKeeps == ASSUME DriversInv, SetQcomDriverMode PROVE DriversInv'
<1> USE DEF DriversInv
<1>1. install' = [install EXCEPT !.switched = installing_drivers]
      /\ UNCHANGED <<host, disk>> /\ qcom_driver_mode' \in DriverModesOf
      /\ driver_update' = NoUpdate
  BY DEF SetQcomDriverMode
<1>2. install' \in Install
  BY <1>1 DEF HostType, Install, installing_drivers
<1>3. /\ install'.pc = install.pc /\ install'.package = install.package
      /\ install'.switched = (install.pc # "Off")
  BY <1>1 DEF HostType, Install, installing_drivers
<1>4. HostType'
  BY <1>1, <1>2 DEF HostType
<1>5. InstallPhase'
  BY <1>1, <1>3 DEF InstallPhase, Matching
<1>6. SuccessIsInstalled'
  BY <1>1, <1>3 DEF SuccessIsInstalled, On
<1> QED BY <1>4, <1>5, <1>6

-----------------------------------------------------------------------------
\* A step of the installer, by what it makes of the worker.
LEMMA WorkerKeeps ==
  ASSUME DriversInv, WorkerOnly, disk' \in Installation, install' \in Install,
         install'.switched = install.switched, install.pc # "Off",
         InstallPhase',
         install'.pc = "Done" /\ install'.ok /\ ~install.switched => InPlace(install.package)'
  PROVE  DriversInv'
<1>1. HostType'
  BY DEF DriversInv, HostType, WorkerOnly
<1>2. SuccessIsInstalled'
  BY DEF DriversInv, SuccessIsInstalled, WorkerOnly, On, answers, notices
<1> QED BY <1>1, <1>2 DEF DriversInv

LEMMA WorkingSteps ==
  ASSUME DriversInv, WorkerOnly, install.pc # "Off", UNCHANGED disk
  PROVE  /\ \A pc \in InstallSteps : To(pc) /\ InstallPhase' /\ pc # "Done" => DriversInv'
         /\ \A pc \in InstallSteps, p \in DriverModesOf :
              Works(p, pc) /\ InstallPhase' /\ pc # "Done" => DriversInv'
         /\ \A ok \in BOOLEAN :
              Ends(ok) /\ install.pc # "Begin" /\ (ok /\ ~install.switched => InPlace(install.package)') => DriversInv'
<1>1. install \in Install /\ disk' \in Installation
  BY DEF DriversInv, HostType
<1>2. ASSUME NEW pc \in InstallSteps, To(pc), InstallPhase', pc # "Done" PROVE DriversInv'
  <2>1. install' \in Install /\ install'.switched = install.switched /\ install'.pc = pc
    BY <1>1, <1>2 DEF To, Install
  <2> QED BY <1>1, <1>2, <2>1, WorkerKeeps
<1>3. ASSUME NEW pc \in InstallSteps, NEW p \in DriverModesOf, Works(p, pc), InstallPhase', pc # "Done"
      PROVE  DriversInv'
  <2>1. install' \in Install /\ install'.switched = install.switched /\ install'.pc = pc
    BY <1>1, <1>3 DEF Works, Install
  <2> QED BY <1>1, <1>3, <2>1, WorkerKeeps
<1>4. ASSUME NEW ok \in BOOLEAN, Ends(ok), install.pc # "Begin", ok /\ ~install.switched => InPlace(install.package)'
      PROVE  DriversInv'
  <2>1. install' \in Install /\ install'.switched = install.switched /\ install'.pc = "Done"
        /\ install'.ok = ok /\ install'.package = install.package
    BY <1>1, <1>4 DEF Ends, Install, InstallSteps
  <2>2. InstallPhase'
    BY <1>4, <2>1 DEF InstallPhase, DriversInv, WorkerOnly
  <2> QED BY <1>1, <1>4, <2>1, <2>2, WorkerKeeps
<1> QED BY <1>2, <1>3, <1>4

\* Before the installer runs, nothing on the disk moves.
LEMMA PreparingKeeps ==
  ASSUME DriversInv,
         \/ InstallBegin \/ InstallRules \/ InstallTools \/ InstallFetch \/ InstallDownload
         \/ VerifyAuthenticode
  PROVE  DriversInv'
<1> USE DEF On
<1>0. /\ InstallPhase /\ install \in Install /\ qcom_driver_mode \in DriverModesOf
      /\ DOMAIN install = DOMAIN Off
  BY DEF DriversInv, HostType, Install, Off
<1>1. CASE InstallBegin
  <2>1. CASE host = "Windows"
    <3>1. To("Fetch") /\ WorkerOnly /\ UNCHANGED disk /\ install.pc = "Begin"
      BY <1>1, <2>1 DEF InstallBegin
    <3>2. InstallPhase'
      BY <1>0, <2>1, <3>1 DEF InstallPhase, To, WorkerOnly, Install
    <3> QED BY <3>1, <3>2, WorkingSteps DEF InstallSteps
  <2>2. CASE host # "Windows" /\ qcom_driver_mode = "Kernel"
    <3>1. Works("Kernel", "Tools") /\ WorkerOnly /\ UNCHANGED disk /\ install.pc = "Begin"
      BY <1>1, <2>2 DEF InstallBegin
    <3>2. InstallPhase'
      BY <1>0, <2>2, <3>1 DEF InstallPhase, Works, WorkerOnly, Install
    <3> QED BY <3>1, <3>2, WorkingSteps DEF InstallSteps, DriverModesOf
  <2>3. CASE host # "Windows" /\ qcom_driver_mode # "Kernel"
    <3>1. Works("Userspace", "Rules") /\ WorkerOnly /\ UNCHANGED disk /\ install.pc = "Begin"
      BY <1>1, <2>3 DEF InstallBegin
    <3>2. InstallPhase'
      BY <1>0, <2>3, <3>1 DEF InstallPhase, Works, WorkerOnly, Install, DriverModesOf
    <3> QED BY <3>1, <3>2, WorkingSteps DEF InstallSteps, DriverModesOf
  <2> QED BY <2>1, <2>2, <2>3
<1>2. CASE InstallRules
  <2>1. install.pc = "Rules" /\ WorkerOnly /\ UNCHANGED disk /\ install.package = "Userspace"
        /\ host # "Windows"
    BY <1>0, <1>2 DEF InstallRules, InstallPhase
  <2>2. CASE check_udev_rules = "Present" /\ Ends(TRUE)
    <3>1. InPlace(install.package)'
      BY <1>0, <2>1, <2>2 DEF InPlace, check_udev_rules, WorkerOnly, Ends, Install
    <3> QED BY <2>1, <2>2, <3>1, WorkingSteps
  <2>3. CASE To("Run")
    <3>1. InstallPhase'
      BY <1>0, <2>1, <2>3 DEF InstallPhase, To, WorkerOnly, Install, DriverModesOf
    <3> QED BY <2>1, <2>3, <3>1, WorkingSteps DEF InstallSteps
  <2>4. CASE Ends(FALSE)
    BY <2>1, <2>4, WorkingSteps
  <2> QED BY <1>2, <2>2, <2>3, <2>4 DEF InstallRules
<1>3. CASE InstallTools
  <2>1. install.pc = "Tools" /\ WorkerOnly /\ UNCHANGED disk
    BY <1>3 DEF InstallTools
  <2>2. CASE To("Fetch")
    <3>1. InstallPhase'
      BY <1>0, <2>1, <2>2 DEF InstallPhase, To, WorkerOnly, Install
    <3> QED BY <2>1, <2>2, <3>1, WorkingSteps DEF InstallSteps
  <2> QED BY <1>3, <2>1, <2>2, WorkingSteps DEF InstallTools
<1>4. CASE InstallFetch
  <2> DEFINE package == IF host = "Windows" THEN qcom_driver_mode ELSE install.package
  <2>1. install.pc = "Fetch" /\ WorkerOnly /\ UNCHANGED disk
    BY <1>4 DEF InstallFetch
  <2>2. CASE Matching(package) # {} /\ Works(package, "Download")
    <3>1. package \in DriverModesOf /\ (host # "Windows" => package = install.package)
      BY <1>0, <2>1 DEF InstallPhase, DriverModesOf
    <3> HIDE DEF package
    <3>2. /\ install'.pc = "Download" /\ install'.package = package
          /\ install'.switched = install.switched
      BY <1>0, <2>2 DEF Works, Install
    <3>3. Matching(install.package)' # {}
      BY <2>1, <2>2, <3>2 DEF Matching, WorkerOnly
    <3>4. InstallPhase'
      BY <1>0, <2>1, <3>1, <3>2, <3>3 DEF InstallPhase, WorkerOnly
    <3> QED BY <2>1, <2>2, <3>1, <3>4, WorkingSteps DEF InstallSteps
  <2> QED BY <1>4, <2>1, <2>2, WorkingSteps DEF InstallFetch
<1>5. CASE InstallDownload
  <2>1. install.pc = "Download" /\ WorkerOnly /\ UNCHANGED disk
    BY <1>5 DEF InstallDownload
  <2>2. ASSUME NEW pc \in {"Verify", "Run"}, To(pc) PROVE DriversInv'
    <3>1. InstallPhase'
      BY <1>0, <2>1, <2>2 DEF InstallPhase, To, WorkerOnly, Install, Matching
    <3> QED BY <2>1, <2>2, <3>1, WorkingSteps DEF InstallSteps
  <2> QED BY <1>5, <2>1, <2>2, WorkingSteps DEF InstallDownload
<1>6. CASE VerifyAuthenticode
  <2>1. install.pc = "Verify" /\ WorkerOnly /\ UNCHANGED disk
    BY <1>6 DEF VerifyAuthenticode
  <2>2. CASE To("Run")
    <3>1. InstallPhase'
      BY <1>0, <2>1, <2>2 DEF InstallPhase, To, WorkerOnly, Install, Matching
    <3> QED BY <2>1, <2>2, <3>1, WorkingSteps DEF InstallSteps
  <2> QED BY <1>6, <2>1, <2>2, WorkingSteps DEF VerifyAuthenticode
<1> QED BY <1>1, <1>2, <1>3, <1>4, <1>5, <1>6

\* An elevated installer that exits with 0 has placed its package.
LEMMA RunKeeps ==
  ASSUME DriversInv, InstallRun,
         \A r \in Releases : r.stable /\ r.asset => r.version # NoVersion
  PROVE  DriversInv'
<1> USE DEF On
<1>1. /\ InstallPhase /\ install \in Install /\ disk \in Installation
      /\ install.pc = "Run" /\ WorkerOnly
  BY DEF DriversInv, HostType, InstallRun
<1>2. install.package \in DriverModesOf
  BY <1>1 DEF InstallPhase
<1>3. UdevPlaced \subseteq Installation
  BY <1>1 DEF UdevPlaced, Installation, Rules
<1>4. CASE host # "Windows" /\ install.package = "Userspace"
  <2>1. Places \subseteq Installation
    BY <1>3, <1>4 DEF Places
  <2>2. disk' \in Installation
    BY <1>1, <2>1 DEF InstallRun
  <2>3. CASE To("Confirm")
    <3>1. install' = [install EXCEPT !.pc = "Confirm"]
      BY <2>3 DEF To
    <3>2. install' \in Install /\ install'.pc = "Confirm" /\ install'.package = install.package
          /\ install'.switched = install.switched
      BY <1>1, <3>1 DEF Install, InstallSteps
    <3>3. InstallPhase'
      BY <1>1, <1>2, <1>4, <3>2 DEF InstallPhase, WorkerOnly
    <3> QED BY <1>1, <2>2, <3>2, <3>3, WorkerKeeps
  <2>4. CASE Ends(FALSE)
    <3>1. install' = [install EXCEPT !.pc = "Done", !.ok = FALSE]
      BY <2>4 DEF Ends
    <3>2. install' \in Install /\ install'.pc = "Done" /\ install'.package = install.package
          /\ install'.switched = install.switched /\ install'.ok = FALSE
      BY <1>1, <3>1 DEF Install, InstallSteps
    <3>3. InstallPhase'
      BY <1>1, <1>2, <1>4, <3>2 DEF InstallPhase, WorkerOnly
    <3> QED BY <1>1, <2>2, <3>2, <3>3, WorkerKeeps
  <2> QED BY <2>3, <2>4 DEF InstallRun
<1>5. CASE ~(host # "Windows" /\ install.package = "Userspace")
  <2>1. host = "Windows" \/ install.package = "Kernel"
    BY <1>2, <1>5 DEF DriverModesOf
  <2>2. Matching(install.package) # {}
    BY <1>1, <2>1 DEF InstallPhase
  <2>3. Latest(install.package).version # NoVersion
    BY <2>2, LatestMatches DEF Matching
  <2>4. /\ Placed(install.package) \in Installation
        /\ Placed(install.package).installed[install.package].version # NoVersion
    BY <1>1, <1>2, <2>2, <2>3, PlacedIsThere
  <2>5. Places = {Placed(install.package)}
    BY <1>5 DEF Places
  <2>6. disk' \in Installation
    BY <1>1, <2>4, <2>5 DEF InstallRun
  <2>7. CASE To("Confirm") /\ disk' = Placed(install.package)
    <3>1. install' = [install EXCEPT !.pc = "Confirm"]
      BY <2>7 DEF To
    <3>2. install' \in Install /\ install'.pc = "Confirm" /\ install'.package = install.package
          /\ install'.switched = install.switched
      BY <1>1, <3>1 DEF Install, InstallSteps
    <3>3. InstallPhase'
      BY <1>1, <1>2, <2>4, <2>7, <3>2 DEF InstallPhase, WorkerOnly
    <3> QED BY <1>1, <2>6, <3>2, <3>3, WorkerKeeps
  <2>8. CASE Ends(FALSE)
    <3>1. install' = [install EXCEPT !.pc = "Done", !.ok = FALSE]
      BY <2>8 DEF Ends
    <3>2. install' \in Install /\ install'.pc = "Done" /\ install'.package = install.package
          /\ install'.switched = install.switched /\ install'.ok = FALSE
      BY <1>1, <3>1 DEF Install, InstallSteps
    <3>3. InstallPhase'
      BY <1>1, <1>2, <3>2 DEF InstallPhase, WorkerOnly
    <3> QED BY <1>1, <2>6, <3>2, <3>3, WorkerKeeps
  <2> QED BY <2>5, <2>7, <2>8 DEF InstallRun
<1> QED BY <1>4, <1>5

\* What the confirmation found is what a check would find now.
LEMMA ConfirmKeeps == ASSUME DriversInv, InstallConfirm PROVE DriversInv'
<1> DEFINE found == IF host = "Windows" THEN "Present"
                    ELSE IF install.package = "Kernel" THEN check_kernel_driver
                    ELSE check_required_drivers
<1>1. /\ InstallPhase /\ install \in Install /\ host \in {"Windows", "Debian", "Linux"}
      /\ install.pc = "Confirm" /\ WorkerOnly /\ UNCHANGED disk /\ Ends(found = "Present")
  BY DEF DriversInv, HostType, InstallConfirm, On
<1>2. install.package \in DriverModesOf
  BY <1>1 DEF InstallPhase
<1>3. ASSUME found = "Present", ~install.switched PROVE InPlace(install.package)
  <2>1. CASE host = "Windows"
    BY <1>1, <2>1 DEF InstallPhase, InPlace
  <2>2. CASE host # "Windows" /\ install.package = "Kernel"
    BY <1>1, <1>3, <2>2 DEF InPlace, check_kernel_driver
  <2>3. CASE host # "Windows" /\ install.package = "Userspace"
    <3>1. qcom_driver_mode = "Userspace"
      BY <1>1, <1>3, <2>3 DEF InstallPhase
    <3> QED BY <1>1, <1>3, <2>3, <3>1 DEF InPlace, check_required_drivers
  <2> QED BY <1>2, <2>1, <2>2, <2>3 DEF DriverModesOf
<1>4. InPlace(install.package)' = InPlace(install.package)
  BY <1>1 DEF InPlace, check_udev_rules, WorkerOnly, Ends, Install
<1>5. (found = "Present") \in BOOLEAN
  OBVIOUS
<1> HIDE DEF found
<1> QED BY <1>1, <1>3, <1>4, <1>5, WorkingSteps

LEMMA DoneKeeps == ASSUME DriversInv, InstallDriversDone PROVE DriversInv'
<1>1. install' = Off /\ Off \in Install
  BY DEF InstallDriversDone, Off, Install, InstallSteps
<1>2. HostType'
  BY <1>1 DEF InstallDriversDone, DriversInv, HostType
<1>3. InstallPhase' /\ SuccessIsInstalled'
  BY <1>1 DEF Off, InstallDriversDone, DriversInv, InstallPhase, SuccessIsInstalled, On
<1> QED BY <1>2, <1>3 DEF DriversInv

LEMMA DriversStep ==
  ASSUME DriversInv, [DriversNext]_driverVars,
         \A r \in Releases : r.stable /\ r.asset => r.version # NoVersion
  PROVE  DriversInv'
<1>1. CASE CheckReads \/ CheckDone \/ DismissDriverUpdate \/ CloseDriverRestartRecommended
  BY <1>1, ChecksKeep DEF CheckReads, CheckDone, DriverUpdateCheckDone, DismissDriverUpdate,
     CloseDriverRestartRecommended, answers, notices, DriversInv, SuccessIsInstalled
<1>2. CASE InstallDrivers
  <2>1. install' = [Off EXCEPT !.pc = "Begin"]
    BY <1>2 DEF InstallDrivers
  <2>2. install' \in Install /\ install'.pc = "Begin"
    BY <2>1 DEF Off, Install, InstallSteps
  <2> QED BY <1>2, <2>2 DEF InstallDrivers, DriversInv, HostType, InstallPhase, SuccessIsInstalled,
             On, answers, notices
<1>3. CASE SetQcomDriverMode
  BY <1>3, SwitchKeeps
<1>4. CASE Installing
  BY <1>4, PreparingKeeps, RunKeeps, ConfirmKeeps, DoneKeeps DEF Installing
<1>5. CASE UNCHANGED driverVars
  BY <1>5, ChecksKeep DEF driverVars, answers, notices, DriversInv, SuccessIsInstalled
<1> QED BY <1>1, <1>2, <1>3, <1>4, <1>5 DEF DriversNext

\* download_and_install: where every release that may be installed registers a
\* version, an install that reports success while the mode stayed has left its
\* driver where a check finds it, and a dismissed update stays dismissed.
THEOREM InstalledIsThere ==
  ASSUME \A r \in Releases : r.stable /\ r.asset => r.version # NoVersion
  PROVE  DriversSpec => []SuccessIsInstalled
<1>1. DriversInv /\ [DriversNext]_driverVars => DriversInv'
  BY DriversStep
<1>2. DriversInv => SuccessIsInstalled
  BY DEF DriversInv
<1> QED BY <1>1, <1>2, InitDrivers, PTL DEF DriversSpec

-----------------------------------------------------------------------------
(* LTBox's own files.  While something is copied, its new place holds a    *)
(* part of it and its old place the whole; a key is served, and picks are  *)
(* ahead of what was recorded, only while the program is up.               *)

Marks    == {"None", "Part", "Whole"}
AskSteps == {"Idle", "Look", "Remove", "Write", "Check", "Replace", "Rename"}

FilesType ==
  /\ had \subseteq Legacy /\ old \in [Legacy -> Marks] /\ moved \in [Legacy -> Marks]
  /\ app \in {"Off", "Migrate", "Up"} /\ waiting \subseteq Legacy
  /\ moving \in {Nothing} \cup (Legacy \X {"Copy", "Clean", "Drop"})
  /\ asks \in [Threads -> AskSteps] /\ asked \in Nat
  /\ served \in BOOLEAN /\ unkeyed \in BOOLEAN
  /\ saving \in {"Off", "Write", "Persist"} /\ defaults \in {"No", "InMemory", "InFile"}

Migrating ==
  /\ moving # Nothing => app = "Migrate"
  /\ moving[2] \in {"Copy", "Clean"} => moved[moving[1]] = "Part"
  /\ moving[2] = "Drop" /\ moving[1] \in had \ {"adbkey"} => moved[moving[1]] = "Whole"

Idling == app # "Up" => ~served /\ recent = recorded /\ defaults # "InMemory"

FilesInv ==
  FilesType /\ Migrating /\ Idling /\ BackupsAreKept /\ KeyIsServed /\ RecentsAreKept

LEMMA InitFiles == FilesInit => FilesInv
<1> SUFFICES ASSUME FilesInit PROVE FilesInv
  OBVIOUS
<1>1. FilesType
  BY DEF FilesInit, FilesType, Marks, AskSteps
<1>2. Migrating /\ Idling /\ BackupsAreKept /\ KeyIsServed /\ RecentsAreKept
  BY DEF FilesInit, Migrating, Idling, Nothing, BackupsAreKept, KeyIsServed, RecentsAreKept
<1> QED BY <1>1, <1>2 DEF FilesInv

\* Nothing is copied, or what is copied is known by its place.
LEMMA MovingIs ==
  ASSUME FilesType
  PROVE  /\ moving # Nothing => /\ moving[1] \in Legacy /\ moving[2] \in {"Copy", "Clean", "Drop"}
                                /\ moving = <<moving[1], moving[2]>>
         /\ moving[2] \in {"Copy", "Clean", "Drop"} => moving # Nothing
BY DEF FilesType, Nothing

-----------------------------------------------------------------------------
\* A step of the migration: one entry's two places move, as long as the whole is
\* at one of them, and a key that is there is left alone.
LEMMA MigrationKeeps ==
  ASSUME FilesInv, app = "Migrate", app' = "Migrate", UNCHANGED <<had, keys, settings>>,
         old' \in [Legacy -> Marks], moved' \in [Legacy -> Marks], waiting' \subseteq Legacy,
         moving' \in {Nothing} \cup (Legacy \X {"Copy", "Clean", "Drop"}),
         Migrating', BackupsAreKept', key = "Whole" => key' = "Whole"
  PROVE  FilesInv'
<1>1. FilesType'
  BY DEF FilesInv, FilesType, keys, settings
<1>2. Idling' /\ KeyIsServed'
  BY DEF FilesInv, Idling, KeyIsServed, keys, settings
<1>3. RecentsAreKept'
  BY DEF FilesInv, RecentsAreKept, settings
<1> QED BY <1>1, <1>2, <1>3 DEF FilesInv

LEMMA MigratesKeeps == ASSUME FilesInv, Migrates PROVE FilesInv'
<1>2. PICK i \in waiting : LeaveExisting(i) \/ RenameLegacy(i) \/ CopyBegins(i)
  BY DEF Migrates
<1>1. /\ app = "Migrate" /\ moving = Nothing /\ UNCHANGED <<had, keys, settings>>
      /\ FilesType /\ Migrating /\ BackupsAreKept
  BY <1>2 DEF Migrates, LeaveExisting, RenameLegacy, CopyBegins, FilesInv, filesAt
<1>3. i \in Legacy /\ "adbkey" \in Legacy
  BY <1>1, <1>2, FilesAssumption DEF FilesType
<1>4. CASE LeaveExisting(i)
  <2>1. /\ waiting' \subseteq Legacy /\ moving' = Nothing /\ app' = "Migrate"
        /\ UNCHANGED <<old, moved, had>>
    BY <1>1, <1>4 DEF LeaveExisting, Settle, filesAt, FilesType
  <2>2. Migrating' /\ BackupsAreKept'
    BY <1>1, <2>1 DEF Migrating, Nothing, BackupsAreKept
  <2>3. key' = key /\ old' \in [Legacy -> Marks] /\ moved' \in [Legacy -> Marks]
    BY <1>1, <2>1 DEF key, FilesType
  <2> QED BY <1>1, <2>1, <2>2, <2>3, MigrationKeeps
<1>5. CASE RenameLegacy(i)
  <2>1. /\ waiting' \subseteq Legacy /\ moving' = Nothing /\ app' = "Migrate" /\ moved[i] = "None"
        /\ moved' = [moved EXCEPT ![i] = old[i]] /\ old' = [old EXCEPT ![i] = "None"]
    BY <1>1, <1>5 DEF RenameLegacy, Settle, FilesType
  <2>2. old' \in [Legacy -> Marks] /\ moved' \in [Legacy -> Marks]
    BY <1>1, <1>3, <2>1 DEF FilesType, Marks
  <2>3. Migrating'
    BY <2>1 DEF Migrating, Nothing
  <2>4. BackupsAreKept'
    BY <1>1, <1>3, <2>1 DEF BackupsAreKept, FilesType
  <2>5. key = "Whole" => key' = "Whole"
    BY <1>1, <1>3, <2>1 DEF key, FilesType
  <2> QED BY <1>1, <2>1, <2>2, <2>3, <2>4, <2>5, MigrationKeeps
<1>6. CASE CopyBegins(i)
  <2>1. /\ moved[i] = "None" /\ old' = old /\ waiting' \subseteq Legacy /\ app' = "Migrate"
        /\ \/ moved' = [moved EXCEPT ![i] = "Part"] /\ moving' = <<i, "Copy">>
           \/ moved' = moved /\ moving' = Nothing
    BY <1>1, <1>6 DEF CopyBegins, Settle, FilesType
  <2>2. old' \in [Legacy -> Marks] /\ moved' \in [Legacy -> Marks]
        /\ moving' \in {Nothing} \cup (Legacy \X {"Copy", "Clean", "Drop"})
    BY <1>1, <1>3, <2>1 DEF FilesType, Marks
  <2>3. Migrating'
    BY <1>1, <1>3, <2>1 DEF Migrating, Nothing, FilesType
  <2>4. BackupsAreKept'
    BY <1>1, <1>3, <2>1 DEF BackupsAreKept, FilesType
  <2>5. key = "Whole" => key' = "Whole"
    BY <1>1, <1>3, <2>1 DEF key, FilesType
  <2> QED BY <1>1, <2>1, <2>2, <2>3, <2>4, <2>5, MigrationKeeps
<1> QED BY <1>2, <1>4, <1>5, <1>6

LEMMA CopyKeeps ==
  ASSUME FilesInv, copy_fallback_with \/ CleanPartial \/ DropSource PROVE FilesInv'
<1> DEFINE i == moving[1]
<1>1. FilesType /\ Migrating /\ BackupsAreKept
  BY DEF FilesInv
<1>2. /\ i \in Legacy /\ app = "Migrate" /\ moving = <<i, moving[2]>> /\ "adbkey" \in Legacy
  BY <1>1, MovingIs, FilesAssumption
     DEF copy_fallback_with, CleanPartial, DropSource, Migrating, Nothing
<1>3. UNCHANGED <<had, keys, settings>> /\ app' = "Migrate" /\ waiting' \subseteq Legacy
  BY <1>1, <1>2 DEF copy_fallback_with, CleanPartial, DropSource, Settle, FilesType
<1> SUFFICES /\ old' \in [Legacy -> Marks] /\ moved' \in [Legacy -> Marks]
             /\ moving' \in {Nothing} \cup (Legacy \X {"Copy", "Clean", "Drop"})
             /\ Migrating' /\ BackupsAreKept' /\ (key = "Whole" => key' = "Whole")
  BY <1>2, <1>3, MigrationKeeps
<1>4. CASE copy_fallback_with
  <2>1. moved[i] = "Part" /\ (i \in had \ {"adbkey"} => old[i] = "Whole") /\ old' = old
    BY <1>1, <1>2, <1>4 DEF copy_fallback_with, Migrating, BackupsAreKept
  <2>2. CASE moved' = [moved EXCEPT ![i] = old[i]] /\ moving' = <<i, "Drop">>
    <3>1. moved' \in [Legacy -> Marks] /\ moving' \in Legacy \X {"Copy", "Clean", "Drop"}
      BY <1>1, <1>2, <2>2 DEF FilesType, Marks
    <3>2. moved'[i] = old[i] /\ \A j \in Legacy \ {i} : moved'[j] = moved[j]
      BY <1>1, <1>2, <2>2 DEF FilesType
    <3>3. key = "Whole" => key' = "Whole"
      BY <1>2, <2>1, <3>2 DEF key
    <3>4. moving'[1] = i /\ moving'[2] = "Drop"
      BY <2>2
    <3> HIDE DEF i
    <3>5. Migrating' /\ BackupsAreKept'
      BY <1>1, <1>2, <1>3, <2>1, <3>2, <3>4 DEF Migrating, BackupsAreKept, FilesType
    <3> QED BY <1>1, <2>1, <3>1, <3>3, <3>5 DEF FilesType
  <2>3. CASE moving' = <<i, "Clean">> /\ moved' = moved
    <3>1. moving' \in Legacy \X {"Copy", "Clean", "Drop"} /\ key' = key
      BY <1>2, <2>3 DEF key
    <3>2. moving'[1] = i /\ moving'[2] = "Clean"
      BY <2>3
    <3> HIDE DEF i
    <3>3. Migrating' /\ BackupsAreKept'
      BY <1>1, <1>2, <1>3, <2>1, <2>3, <3>2 DEF Migrating, BackupsAreKept
    <3> QED BY <1>1, <2>1, <2>3, <3>1, <3>3 DEF FilesType
  <2> QED BY <1>4, <2>2, <2>3 DEF copy_fallback_with
<1>5. CASE CleanPartial
  <2>1. moved[i] = "Part" /\ (i \in had \ {"adbkey"} => old[i] = "Whole") /\ old' = old
        /\ moving' = Nothing
    BY <1>1, <1>2, <1>5 DEF CleanPartial, Migrating, BackupsAreKept, Settle
  <2>2. moved' = [moved EXCEPT ![i] = "None"] \/ moved' = moved
    BY <1>5 DEF CleanPartial
  <2>3. moved' \in [Legacy -> Marks] /\ \A j \in Legacy \ {i} : moved'[j] = moved[j]
    BY <1>1, <1>2, <2>2 DEF FilesType, Marks
  <2>4. key = "Whole" => key' = "Whole"
    BY <1>2, <2>1, <2>3 DEF key
  <2>5. Migrating'
    BY <2>1 DEF Migrating, Nothing
  <2> HIDE DEF i
  <2>6. BackupsAreKept'
    BY <1>1, <1>3, <2>1, <2>3 DEF BackupsAreKept, FilesType
  <2> QED BY <1>1, <2>1, <2>3, <2>4, <2>5, <2>6 DEF FilesType
<1>6. CASE DropSource
  <2>1. (i \in had \ {"adbkey"} => moved[i] = "Whole") /\ moved' = moved /\ moving' = Nothing
    BY <1>1, <1>2, <1>6 DEF DropSource, Migrating, Settle
  <2>2. old' = [old EXCEPT ![i] = "None"] \/ old' = [old EXCEPT ![i] = "Part"]
    BY <1>6 DEF DropSource
  <2>3. old' \in [Legacy -> Marks] /\ \A j \in Legacy \ {i} : old'[j] = old[j]
    BY <1>1, <1>2, <2>2 DEF FilesType, Marks
  <2>4. Migrating' /\ key' = key
    BY <2>1 DEF Migrating, Nothing, key
  <2> HIDE DEF i
  <2>5. BackupsAreKept'
    BY <1>1, <1>3, <2>1, <2>3 DEF BackupsAreKept, FilesType
  <2> QED BY <1>1, <2>1, <2>3, <2>4, <2>5 DEF FilesType
<1> QED BY <1>4, <1>5, <1>6

\* A step of a thread that wants the key.
LEMMA KeyKeeps ==
  ASSUME FilesInv, NEW t \in Threads, app = "Up", UNCHANGED <<starting, settings>>,
         NEW s \in AskSteps, Step(t, s), UNCHANGED filesAt \/ \E k \in Marks : KeyIs(k),
         asked' \in Nat, served' \in BOOLEAN, unkeyed' \in BOOLEAN, KeyIsServed'
  PROVE  FilesInv'
<1>1. /\ UNCHANGED had /\ UNCHANGED old
      /\ FilesType /\ Migrating /\ BackupsAreKept /\ RecentsAreKept /\ "adbkey" \in Legacy
  BY FilesAssumption DEF FilesInv, filesAt, KeyIs
<1>2. moved' \in [Legacy -> Marks] /\ \A j \in Legacy \ {"adbkey"} : moved'[j] = moved[j]
  BY <1>1 DEF filesAt, KeyIs, FilesType
<1>3. asks' \in [Threads -> AskSteps]
  BY <1>1 DEF Step, FilesType
<1>4. FilesType'
  BY <1>1, <1>2, <1>3 DEF FilesType, starting, settings
<1>5. Migrating' /\ Idling'
  BY <1>1 DEF Migrating, Idling, starting, FilesType, Nothing
<1>6. BackupsAreKept'
  BY <1>1, <1>2 DEF BackupsAreKept, FilesType
<1>7. RecentsAreKept'
  BY <1>1 DEF RecentsAreKept, settings, starting
<1> QED BY <1>4, <1>5, <1>6, <1>7 DEF FilesInv

\* One who gives up, and one who goes on from where it did not stand in for the key,
\* leave it as it was.
LEMMA KeyStays ==
  ASSUME FilesInv, NEW t \in Threads, NEW s \in AskSteps, Step(t, s), key' = key,
         served' = served,
         \/ unkeyed'
         \/ /\ unkeyed' = unkeyed
            /\ asks[t] \in {"Write", "Check", "Rename"} => s \in {"Write", "Check", "Rename"}
  PROVE  KeyIsServed'
<1>1. asks' = [asks EXCEPT ![t] = s] /\ asks \in [Threads -> AskSteps] /\ KeyIsServed
  BY DEF FilesInv, FilesType, Step
<1>2. (\E u \in Threads : asks[u] \in {"Write", "Check", "Rename"})
        => unkeyed' \/ \E u \in Threads : asks'[u] \in {"Write", "Check", "Rename"}
  BY <1>1
<1> QED BY <1>1, <1>2 DEF KeyIsServed

LEMMA KeyStepKeeps == ASSUME FilesInv, KeyStep PROVE FilesInv'
<1>1. PICK t \in Threads :
        \/ AskForKey(t) \/ LookForKey(t) \/ RemoveKey(t, "Remove", "Write") \/ WriteKey(t)
        \/ CheckKey(t) \/ RemoveKey(t, "Replace", "Rename") \/ RenameKey(t)
  BY DEF KeyStep
<1>2. asked \in Nat /\ served \in BOOLEAN /\ unkeyed \in BOOLEAN /\ asks \in [Threads -> AskSteps]
  BY DEF FilesInv, FilesType
<1>3. app = "Up" /\ UNCHANGED <<starting, settings>> /\ asked' \in Nat
  BY <1>1, <1>2 DEF AskForKey, LookForKey, RemoveKey, WriteKey, CheckKey, RenameKey, OnlyKeys
<1>4. ASSUME GivesUp(t), UNCHANGED filesAt PROVE FilesInv'
  <2>1. Step(t, "Idle") /\ unkeyed' = TRUE /\ served' = served /\ key' = key /\ "Idle" \in AskSteps
    BY <1>4 DEF GivesUp, filesAt, key, AskSteps
  <2>2. KeyIsServed'
    BY <2>1, KeyStays
  <2> QED BY <1>2, <1>3, <1>4, <2>1, <2>2, KeyKeeps
<1>5. ASSUME Finds(t) \/ GivesUp(t), UNCHANGED filesAt \/ \E k \in Marks : KeyIs(k), key' = "Whole"
      PROVE  FilesInv'
  <2>1. Step(t, "Idle") /\ unkeyed' \in BOOLEAN /\ served' \in BOOLEAN /\ "Idle" \in AskSteps
    BY <1>2, <1>5 DEF Finds, GivesUp, AskSteps
  <2>2. KeyIsServed'
    BY <1>5 DEF KeyIsServed
  <2> QED BY <1>3, <1>5, <2>1, <2>2, KeyKeeps
<1>6. ASSUME NEW s \in AskSteps, GoesOn(t, s), UNCHANGED filesAt,
             asks[t] \in {"Write", "Check", "Rename"} => s \in {"Write", "Check", "Rename"}
      PROVE  FilesInv'
  <2>1. Step(t, s) /\ UNCHANGED <<served, unkeyed>> /\ key' = key
    BY <1>6 DEF GoesOn, filesAt, key
  <2>2. KeyIsServed'
    BY <1>6, <2>1, KeyStays
  <2> QED BY <1>2, <1>3, <1>6, <2>1, <2>2, KeyKeeps
<1>7. CASE AskForKey(t) \/ WriteKey(t)
  <2>1. UNCHANGED filesAt /\ (GoesOn(t, "Look") \/ GoesOn(t, "Check") \/ GivesUp(t))
        /\ (GoesOn(t, "Look") => asks[t] = "Idle")
    <3>1. CASE AskForKey(t)
      BY <3>1 DEF AskForKey
    <3>2. CASE WriteKey(t)
      BY <1>2, <3>2 DEF WriteKey, GoesOn, GivesUp, Step
    <3> QED BY <1>7, <3>1, <3>2
  <2> QED BY <1>4, <1>6, <2>1 DEF AskSteps
<1>8. CASE LookForKey(t)
  <2>1. UNCHANGED filesAt /\ asks[t] = "Look" /\ key' = key
    BY <1>8 DEF LookForKey, filesAt, key
  <2>2. \/ key = "Whole" /\ (Finds(t) \/ GivesUp(t))
        \/ GoesOn(t, "Remove") \/ GoesOn(t, "Write")
    BY <1>8 DEF LookForKey
  <2> QED BY <1>5, <1>6, <2>1, <2>2 DEF AskSteps
<1>9. ASSUME NEW from \in AskSteps, NEW to \in {"Write", "Rename"}, RemoveKey(t, from, to)
      PROVE  FilesInv'
  <2>1. CASE KeyIs("None") /\ GoesOn(t, to)
    <3>1. Step(t, to) /\ UNCHANGED <<served, unkeyed>> /\ to \in AskSteps
      BY <1>9, <2>1 DEF GoesOn, AskSteps
    <3>2. key' = "None" /\ asks'[t] = to
      BY <1>2, <2>1, <3>1, FilesAssumption DEF KeyIs, key, FilesInv, FilesType, Step
    <3>3. KeyIsServed'
      BY <3>2 DEF KeyIsServed
    <3> QED BY <1>2, <1>3, <2>1, <3>1, <3>3, KeyKeeps DEF Marks
  <2> QED BY <1>4, <1>9, <2>1 DEF RemoveKey
<1>10. CASE CheckKey(t)
  <2>1. UNCHANGED filesAt /\ asks[t] = "Check" /\ key' = key
    BY <1>10 DEF CheckKey, filesAt, key
  <2>2. CASE key # "None" /\ GoesOn(t, "Replace")
    <3>1. Step(t, "Replace") /\ UNCHANGED <<served, unkeyed>> /\ "Replace" \in AskSteps
      BY <2>2 DEF GoesOn, AskSteps
    <3>2. KeyIsServed'
      BY <2>1, <2>2, <3>1 DEF FilesInv, KeyIsServed
    <3> QED BY <1>2, <1>3, <2>1, <3>1, <3>2, KeyKeeps
  <2>3. CASE (key = "Whole" /\ (Finds(t) \/ GivesUp(t))) \/ GoesOn(t, "Rename")
    BY <1>5, <1>6, <2>1, <2>3 DEF AskSteps
  <2> QED BY <1>10, <2>2, <2>3 DEF CheckKey
<1>11. CASE RenameKey(t)
  <2>1. CASE KeyIs("Whole") /\ (Finds(t) \/ GivesUp(t))
    <3>1. key' = "Whole"
      BY <2>1, FilesAssumption DEF KeyIs, key, FilesInv, FilesType
    <3> QED BY <1>5, <2>1, <3>1 DEF Marks
  <2> QED BY <1>4, <1>11, <2>1 DEF RenameKey
<1> QED BY <1>1, <1>7, <1>8, <1>9, <1>10, <1>11 DEF AskSteps

\* A step of the settings: a start has what was recorded or goes on with defaults,
\* and a save makes the file and the record one.
LEMMA SettingsKeep ==
  ASSUME FilesInv, Load \/ remember_recent \/ WriteTemporary \/ Persist PROVE FilesInv'
<1>1. /\ FilesType /\ Migrating /\ Idling /\ BackupsAreKept /\ KeyIsServed /\ RecentsAreKept
      /\ UNCHANGED <<filesAt, keys, moving, waiting>>
  BY DEF FilesInv, Load, remember_recent, WriteTemporary, Persist, starting
<1>2. app' = "Up" /\ (app = "Up" \/ (app = "Migrate" /\ moving = Nothing))
  BY DEF Load, remember_recent, WriteTemporary, Persist, starting
<1>3. FilesType'
  BY <1>1, <1>2 DEF FilesType, filesAt, keys, Load, remember_recent, WriteTemporary, Persist
<1>4. Migrating' /\ Idling'
  BY <1>1, <1>2 DEF Migrating, Idling, filesAt, Nothing, FilesType
<1>5. BackupsAreKept' /\ KeyIsServed'
  BY <1>1, <1>2 DEF BackupsAreKept, KeyIsServed, filesAt, keys, key
<1>6. RecentsAreKept'
  <2>1. Loaded(File("New", mem)) = mem
    BY DEF Loaded, File
  <2>2. CASE Load
    <3>1. UNCHANGED <<stored, recorded, recent>> /\ app # "Up"
          /\ ((mem' = Loaded(stored) /\ defaults' = defaults) \/ defaults' # "No")
          /\ (defaults' = "InFile" <=> defaults = "InFile")
      BY <2>2 DEF Load
    <3> QED BY <1>1, <3>1 DEF RecentsAreKept, Idling, Loaded
  <2>3. CASE remember_recent
    <3>1. UNCHANGED <<stored, recorded, defaults, app>> /\ app = "Up"
          /\ \E path \in Paths :
               mem' = push_front_dedup(mem, path) /\ recent' = push_front_dedup(recent, path)
      BY <2>3 DEF remember_recent, starting
    <3> QED BY <1>1, <3>1 DEF RecentsAreKept, Loaded
  <2>4. CASE WriteTemporary \/ (Persist /\ UNCHANGED <<stored, recorded, defaults>>)
    <3>1. UNCHANGED <<mem, stored, recent, recorded, defaults, app>>
      BY <2>4 DEF WriteTemporary, Persist, starting
    <3> QED BY <1>1, <3>1 DEF RecentsAreKept, Loaded
  <2>5. CASE /\ Persist /\ stored' = File("New", mem) /\ recorded' = recent
             /\ defaults' = IF defaults = "No" THEN "No" ELSE "InFile"
    <3>1. UNCHANGED <<mem, recent>> /\ app = "Up"
          /\ (defaults' # "InFile" => defaults = "No") /\ (defaults' = "No" => defaults = "No")
      BY <1>1, <2>5 DEF Persist, FilesType
    <3>2. Loaded(stored)' = mem
      BY <2>1, <2>5 DEF Loaded
    <3> QED BY <1>1, <2>5, <3>1, <3>2 DEF RecentsAreKept
  <2> QED BY <2>2, <2>3, <2>4, <2>5 DEF Persist
<1> QED BY <1>3, <1>4, <1>5, <1>6 DEF FilesInv

LEMMA FilesStep == ASSUME FilesInv, [FilesNext]_fileVars PROVE FilesInv'
<1>1. FilesType /\ Migrating /\ Idling /\ BackupsAreKept /\ KeyIsServed /\ RecentsAreKept
  BY DEF FilesInv
<1>2. CASE Launch
  <2>1. /\ UNCHANGED <<filesAt, keys, settings>> /\ app = "Off" /\ app' = "Migrate"
        /\ moving' = Nothing /\ waiting' \subseteq Legacy
    BY <1>2 DEF Launch
  <2>2. FilesType' /\ Migrating' /\ Idling'
    BY <1>1, <2>1 DEF FilesType, Migrating, Idling, Nothing, filesAt, keys, settings
  <2>3. BackupsAreKept' /\ KeyIsServed'
    BY <1>1, <2>1 DEF BackupsAreKept, KeyIsServed, filesAt, keys, key
  <2>4. RecentsAreKept'
    BY <1>1, <2>1 DEF RecentsAreKept, settings
  <2> QED BY <2>2, <2>3, <2>4 DEF FilesInv
<1>3. CASE Kill
  <2>1. /\ app' = "Off" /\ waiting' = {} /\ moving' = Nothing /\ saving' = "Off"
        /\ asks' = [t \in Threads |-> "Idle"] /\ served' = FALSE /\ unkeyed' = FALSE
        /\ UNCHANGED <<filesAt, asked, stored, recorded>> /\ recent' = recorded
        /\ defaults' = IF defaults = "InFile" THEN "InFile" ELSE "No"
    BY <1>3 DEF Kill
  <2>2. FilesType' /\ Migrating' /\ Idling'
    BY <1>1, <2>1 DEF FilesType, Migrating, Idling, Nothing, filesAt, AskSteps
  <2>3. BackupsAreKept' /\ KeyIsServed'
    BY <1>1, <2>1 DEF BackupsAreKept, KeyIsServed, filesAt
  <2>4. RecentsAreKept'
    BY <1>1, <2>1 DEF RecentsAreKept, Loaded
  <2> QED BY <2>2, <2>3, <2>4 DEF FilesInv
<1>4. CASE UNCHANGED fileVars
  <2>1. UNCHANGED <<filesAt, starting, keys, settings>>
    BY <1>4 DEF fileVars
  <2>2. FilesType' /\ Migrating' /\ Idling' /\ BackupsAreKept'
    BY <1>1, <2>1 DEF filesAt, starting, keys, settings, FilesType, Migrating, Idling, BackupsAreKept
  <2>3. KeyIsServed' /\ RecentsAreKept'
    BY <1>1, <2>1 DEF filesAt, starting, keys, settings, KeyIsServed, key, RecentsAreKept
  <2> QED BY <2>2, <2>3 DEF FilesInv
<1> QED BY <1>2, <1>3, <1>4, MigratesKeeps, CopyKeeps, KeyStepKeeps, SettingsKeep DEF FilesNext

\* migrate_legacy_windows_data, ensure_key_at_path, atomic_write_with: through any
\* failures and kills, for any entries, threads and recent files, a backup is whole
\* at one of its places; a key once served is whole, or removed by one who could not
\* read it and about to be published anew or given up; and recent files once saved
\* are what later starts find, until one that could not read them saves its defaults.
THEOREM UserFilesAreKept == FilesSpec => []KeptUnlessUnreadable
<1>1. FilesInv /\ [FilesNext]_fileVars => FilesInv'
  BY FilesStep
<1>2. FilesInv => KeptUnlessUnreadable
  BY DEF FilesInv, KeptUnlessUnreadable
<1> QED BY <1>1, <1>2, InitFiles, PTL DEF FilesSpec

-----------------------------------------------------------------------------
(* The payload of a root.  What a run that began in an empty workspace has *)
(* fetched so far: the manager, and behind it the pieces of one build, or  *)
(* of a later one where a stable KernelSU asks GitHub twice.               *)

Phases == {"Idle", "Pin", "Manager", "Payload", "Init", "Install", "Patch", "Booted", "Done"}
Sources == {"Magisk", "MagiskFork", "KernelSU", "ReSukiSU", "APatch", "Skroot"}

\* The newest builds exist, and no cached answer is ahead of them.
Upstream ==
  /\ latest \in [Channels -> 1..Len(Assets)]
  /\ cached \in [Providers -> [Channels -> Nat]]
  /\ \A p \in Providers, c \in Channels : cached[p][c] <= latest[c]

PayloadShape ==
  /\ phase \in Phases /\ work = [f \in Files |-> work[f]]
  /\ tablet = [kernel |-> tablet.kernel, patches |-> tablet.patches, boot |-> tablet.boot,
               manager |-> tablet.manager]
  /\ tablet.kernel \in Kernels
  /\ cfg = [provider |-> cfg.provider, version |-> cfg.version, run |-> cfg.run, kver |-> cfg.kver,
            branch |-> cfg.branch, adb |-> cfg.adb, placed |-> cfg.placed]

Configured ==
  phase # "Idle" =>
    /\ cfg.provider \in Providers /\ cfg.version \in Versions(cfg.provider)
    /\ cfg.branch # NoBranch => [kver |-> cfg.kver, branch |-> cfg.branch] = tablet.kernel
    /\ phase # "Pin" /\ cfg.version = "Nightly" => cfg.run # 0
    /\ phase = "Init" => Family(cfg.provider) = "KernelSU"
    /\ phase \in {"Pin", "Manager", "Payload", "Init", "Install"} => ~cfg.placed

manager == work["manager.apk"]
StableKsu(run) == Family(run.provider) = "KernelSU" /\ run.version = "Stable"

IsManager(apk, run) ==
  /\ apk.by = run.provider /\ apk.channel = run.version /\ apk.name = Unnamed
  /\ IF run.version = "Nightly" THEN apk.build = run.run ELSE apk.build \in Nat

\* A file of the run that goes with its manager and fits its device.
Belongs(piece, apk, run) ==
  /\ piece.by = run.provider /\ piece.channel = run.version
  /\ IF StableKsu(run) THEN apk.build <= piece.build ELSE apk.build = piece.build
  /\ piece.name.arch = "X86" => FromARelease(piece)
  /\ Accepted(piece.name, piece.genuine)
  /\ piece.name.role = "Ko" => /\ piece.name.kver = run.kver
                               /\ ~branch_rejected(piece.name, run.kver, run.branch)

Wanted(run) == IF Family(run.provider) = "Magisk" THEN {"magiskinit"}
               ELSE IF Family(run.provider) = "KernelSU" THEN {"kernelsu.ko", "init"}
               ELSE IF Family(run.provider) = "APatch" THEN {"kpimg"}
               ELSE {}

\* What a run that began in an empty workspace has by now.
Gathered ==
  /\ phase \in {"Pin", "Manager"} => work = Empty
  /\ phase \in {"Payload", "Init", "Install", "Patch", "Booted", "Done"} => IsManager(manager, cfg)
  /\ phase = "Payload" =>
       /\ \A f \in {"magisk.apk", "magiskinit", "kernelsu.ko", "init"} : work[f] = None
       /\ Family(cfg.provider) = "APatch" => work["kpimg"] = manager
       /\ StableKsu(cfg) => manager.build <= Answer(cfg.provider, "Stable")
  /\ phase = "Init" => /\ Belongs(work["kernelsu.ko"], manager, cfg)
                       /\ work["kernelsu.ko"].build \in DOMAIN Artifacts
  /\ phase \in {"Install", "Patch"} => \A f \in Wanted(cfg) : Belongs(work[f], manager, cfg)
  /\ phase \in {"Booted", "Done"} => \A piece \in tablet.boot : Belongs(piece, manager, cfg)
  /\ phase \in {"Patch", "Booted", "Done"} /\ cfg.placed => tablet.manager = manager

PayloadInv == Upstream /\ PayloadShape /\ Configured /\ (cleared => Gathered)

-----------------------------------------------------------------------------
\* A nonempty set of naturals has a least element.
LEMMA LeastNumber ==
  ASSUME NEW fits, fits \subseteq Nat, fits # {}
  PROVE  \E i \in fits : \A j \in fits : i <= j
<1> DEFINE R == OpToRel(<, Nat)
<1>1. IsWellFoundedOn(R, Nat)
  BY NatLessThanWellFounded
<1>2. \A x, y \in Nat : x < y => <<x, y>> \in R
  BY DEF OpToRel
<1> HIDE DEF R
<1>3. PICK x \in fits : \A y \in fits : ~ (<<y, x>> \in R)
  BY <1>1, WFMin
<1>4. ASSUME NEW k \in fits PROVE x <= k
  <2>1. x \in Nat /\ k \in Nat
    OBVIOUS
  <2>2. ~(k < x)
    BY <1>2, <1>3, <2>1
  <2> QED BY <2>1, <2>2
<1> QED BY <1>4

LEMMA FirstIsListed ==
  ASSUME NEW list, NEW fits, fits \subseteq Nat, fits # {}
  PROVE  \E i \in fits : FirstOf(list, fits) = list[i]
<1>1. \E i \in fits : \A j \in fits : i <= j
  BY LeastNumber
<1> QED BY <1>1 DEF FirstOf

LEMMA InitPayload == PayloadInit => PayloadInv
<1> SUFFICES ASSUME PayloadInit PROVE PayloadInv
  OBVIOUS
<1>1. Len(Assets) \in Nat /\ Len(Assets) # 0
  BY PayloadAssumption, EmptySeq
<1>2. Upstream
  BY <1>1 DEF PayloadInit, Upstream
<1>3. PayloadShape
  BY DEF PayloadInit, PayloadShape, Stock, NoConfig, Phases, Empty
<1>4. Configured /\ Gathered
  BY DEF PayloadInit, Configured, Gathered
<1> QED BY <1>2, <1>3, <1>4 DEF PayloadInv

-----------------------------------------------------------------------------
(* GitHub's answers.                                                       *)

LEMMA AnswerExists ==
  ASSUME Upstream, NEW p \in Providers, NEW c \in Channels
  PROVE  Answer(p, c) \in 1..Len(Assets) /\ Answer(p, c) # 0
<1>1. cached[p][c] \in Nat /\ latest[c] \in 1..Len(Assets) /\ cached[p][c] <= latest[c]
  BY DEF Upstream
<1>2. Len(Assets) \in Nat
  BY PayloadAssumption
<1> QED BY <1>1, <1>2 DEF Answer

\* What was answered is the answer until five minutes pass, and never grows old.
LEMMA AskedKeeps ==
  ASSUME Upstream, NEW p \in Providers, NEW c \in Channels, Asked(p, c), UNCHANGED latest
  PROVE  Upstream' /\ cached'[p][c] = Answer(p, c)
<1>1. cached[p] \in [Channels -> Nat] /\ cached \in [Providers -> [Channels -> Nat]]
  BY DEF Upstream
<1>2. Answer(p, c) \in Nat /\ Answer(p, c) <= latest[c]
  <2>1. cached[p][c] \in Nat /\ latest[c] \in 1..Len(Assets) /\ cached[p][c] <= latest[c]
    BY DEF Upstream
  <2>2. Len(Assets) \in Nat
    BY PayloadAssumption
  <2> QED BY <2>1, <2>2 DEF Answer
<1>3. cached' = [cached EXCEPT ![p][c] = Answer(p, c)]
  BY DEF Asked
<1>4. cached' \in [Providers -> [Channels -> Nat]] /\ cached'[p][c] = Answer(p, c)
  BY <1>1, <1>2, <1>3
<1>5. \A q \in Providers, d \in Channels :
        cached'[q][d] = IF q = p /\ d = c THEN Answer(p, c) ELSE cached[q][d]
  BY <1>1, <1>3
<1> QED BY <1>2, <1>4, <1>5 DEF Upstream

LEMMA NewsKeep ==
  ASSUME PayloadInv, CacheExpires \/ Publish PROVE PayloadInv'
<1>1. UNCHANGED <<tablet, cfg, work, phase, cleared>> /\ Upstream /\ Len(Assets) \in Nat
  BY PayloadAssumption DEF CacheExpires, Publish, PayloadInv
<1>2. /\ Upstream'
      /\ \A p \in Providers, c \in Channels : Answer(p, c) <= Answer(p, c)'
  <2>1. CASE CacheExpires
    <3>1. PICK p \in Providers, c \in Channels : cached' = [cached EXCEPT ![p][c] = 0]
      BY <2>1 DEF CacheExpires
    <3>2. /\ cached' \in [Providers -> [Channels -> Nat]] /\ latest' = latest
          /\ \A q \in Providers, d \in Channels : cached'[q][d] \in {0, cached[q][d]}
      BY <1>1, <2>1, <3>1 DEF Upstream, CacheExpires
    <3>3. \A q \in Providers, d \in Channels :
            /\ cached[q][d] \in Nat /\ latest[d] \in 1..Len(Assets) /\ cached[q][d] <= latest[d]
      BY <1>1 DEF Upstream
    <3>4. \A q \in Providers, d \in Channels : Answer(q, d) <= Answer(q, d)'
      BY <1>1, <3>2, <3>3 DEF Answer
    <3>5. \A q \in Providers, d \in Channels : cached'[q][d] <= latest'[d]
      BY <1>1, <3>2, <3>3
    <3> QED BY <1>1, <3>2, <3>4, <3>5 DEF Upstream
  <2>2. CASE Publish
    <3>1. PICK c \in Channels : latest[c] < Len(Assets) /\ latest' = [latest EXCEPT ![c] = @ + 1]
      BY <2>2 DEF Publish
    <3>2. latest \in [Channels -> 1..Len(Assets)] /\ cached' = cached
      BY <1>1, <2>2 DEF Upstream, Publish
    <3>3. /\ latest' \in [Channels -> 1..Len(Assets)]
          /\ \A d \in Channels : latest[d] <= latest'[d] /\ latest[d] \in Nat /\ latest'[d] \in Nat
      BY <1>1, <3>1, <3>2
    <3>4. \A q \in Providers, d \in Channels : cached[q][d] \in Nat /\ cached[q][d] <= latest[d]
      BY <1>1 DEF Upstream
    <3>5. \A q \in Providers, d \in Channels :
            cached'[q][d] <= latest'[d] /\ Answer(q, d) <= Answer(q, d)'
      BY <3>2, <3>3, <3>4 DEF Answer
    <3> QED BY <1>1, <3>2, <3>3, <3>5 DEF Upstream
  <2> QED BY <2>1, <2>2
<1>3. PayloadShape' /\ Configured'
  BY <1>1 DEF PayloadInv, PayloadShape, Configured
<1>4. ASSUME cleared' PROVE Gathered'
  <2>1. Gathered
    BY <1>1, <1>4 DEF PayloadInv
  <2>2. phase = "Payload" /\ StableKsu(cfg) => manager.build <= Answer(cfg.provider, "Stable")'
    <3>1. SUFFICES ASSUME phase = "Payload", StableKsu(cfg)
                   PROVE  manager.build <= Answer(cfg.provider, "Stable")'
      OBVIOUS
    <3>2. cfg.provider \in Providers
      BY <3>1 DEF PayloadInv, Configured
    <3>3. manager.build <= Answer(cfg.provider, "Stable") /\ manager.build \in Nat
      BY <2>1, <3>1 DEF Gathered, IsManager, StableKsu
    <3>4. PICK p \in Providers : p = cfg.provider /\ p = cfg'.provider
      BY <1>1, <3>2
    <3>5. Answer(p, "Stable") <= Answer(p, "Stable")'
      BY <1>2 DEF Channels
    <3>6. Answer(p, "Stable") \in Nat /\ Answer(p, "Stable")' \in Nat
      <4>1. \A q \in Providers : Answer(q, "Stable") \in Nat
        BY <1>1, AnswerExists DEF Channels
      <4>2. \A q \in Providers : cached'[q]["Stable"] \in Nat /\ latest'["Stable"] \in Nat
        BY <1>1, <1>2 DEF Upstream, Channels
      <4> QED BY <4>1, <4>2 DEF Answer
    <3>7. Answer(cfg.provider, "Stable")' = Answer(p, "Stable")'
      BY <3>4 DEF Answer
    <3>8. Answer(cfg.provider, "Stable") = Answer(p, "Stable")
      BY <3>4
    <3> QED BY <3>3, <3>5, <3>6, <3>7, <3>8
  <2>3. manager' = manager
    BY <1>1 DEF manager
  <2> QED BY <1>1, <2>1, <2>2, <2>3 DEF Gathered
<1> QED BY <1>2, <1>3, <1>4 DEF PayloadInv

\* A run that ends leaves nothing to be said of it.
LEMMA IdleKeeps ==
  ASSUME Upstream', PayloadShape', phase' = "Idle" PROVE PayloadInv'
BY DEF PayloadInv, Configured, Gathered

LEMMA NoConfigShape ==
  ASSUME cfg' = NoConfig
  PROVE  cfg' = [provider |-> cfg'.provider, version |-> cfg'.version, run |-> cfg'.run, kver |-> cfg'.kver,
                 branch |-> cfg'.branch, adb |-> cfg'.adb, placed |-> cfg'.placed]
BY DEF NoConfig

LEMMA RootEndsKeep ==
  ASSUME PayloadInv, RootFails \/ RootEnds \/ (Refuses /\ UNCHANGED latest /\ Upstream') PROVE PayloadInv'
<1>1. phase' = "Idle" /\ cfg' = NoConfig /\ UNCHANGED <<tablet, latest>>
  BY DEF RootFails, RootEnds, Refuses, Settled
<1>2. Upstream'
  BY DEF RootFails, RootEnds, Settled, PayloadInv, Upstream
<1>3. work' = [f \in Files |-> work'[f]]
  BY DEF RootFails, RootEnds, Refuses, PayloadInv, PayloadShape, Clears, Empty
<1>4. PayloadShape'
  BY <1>1, <1>3, NoConfigShape DEF PayloadInv, PayloadShape, Phases
<1> QED BY <1>1, <1>2, <1>4, IdleKeeps

LEMMA RootBeginsKeeps == ASSUME PayloadInv, RootBegins PROVE PayloadInv'
<1>1. /\ phase' = "Pin" /\ UNCHANGED <<latest, cached, tablet>> /\ Clears
      /\ Upstream /\ PayloadShape
  BY DEF RootBegins, PayloadInv
<1>2. PICK p \in Providers, adb \in BOOLEAN : \E v \in Versions(p), k \in Learned(p, adb) :
        \E run \in RunIds(v) :
          cfg' = [NoConfig EXCEPT !.provider = p, !.version = v, !.run = run,
                                  !.kver = k.kver, !.branch = k.branch, !.adb = adb]
  BY DEF RootBegins
<1>3. PICK v \in Versions(p), k \in Learned(p, adb) : \E run \in RunIds(v) :
        cfg' = [NoConfig EXCEPT !.provider = p, !.version = v, !.run = run,
                                !.kver = k.kver, !.branch = k.branch, !.adb = adb]
  BY <1>2
<1>0. PICK run \in RunIds(v) :
        cfg' = [NoConfig EXCEPT !.provider = p, !.version = v, !.run = run,
                                !.kver = k.kver, !.branch = k.branch, !.adb = adb]
  BY <1>3
<1>4. cfg' = [provider |-> p, version |-> v, run |-> run, kver |-> k.kver, branch |-> k.branch,
              adb |-> adb, placed |-> FALSE]
  BY <1>0 DEF NoConfig
<1>5. k.branch # NoBranch => k = tablet.kernel
  BY DEF Learned
<1>6. tablet.kernel = [kver |-> tablet.kernel.kver, branch |-> tablet.kernel.branch]
  BY <1>1, PayloadAssumption DEF PayloadShape, Kernel
<1>7. Configured'
  BY <1>1, <1>4, <1>5, <1>6 DEF Configured
<1>8. PayloadShape'
  <2>1. work' = [f \in Files |-> work'[f]]
    BY <1>1 DEF Clears, Empty
  <2> QED BY <1>1, <1>4, <2>1 DEF PayloadShape, Phases
<1>9. cleared' => Gathered'
  BY <1>1 DEF Clears, Gathered
<1> QED BY <1>1, <1>7, <1>8, <1>9 DEF PayloadInv, Upstream

LEMMA PinKeeps == ASSUME PayloadInv, ensure_nightly_run_id PROVE PayloadInv'
<1>1. /\ phase = "Pin" /\ phase' = "Manager" /\ UNCHANGED <<latest, tablet, work, cleared>>
      /\ Upstream /\ PayloadShape /\ Configured
  BY DEF ensure_nightly_run_id, PayloadInv, AtPhase, Settled
<1>2. cfg.provider \in Providers /\ Channels = {"Stable", "Nightly"}
  BY <1>1 DEF Configured, Channels
<1>3. CASE cfg.version = "Nightly" /\ cfg.run = 0
  <2>1. Asked(cfg.provider, "Nightly") /\ cfg' = [cfg EXCEPT !.run = Answer(cfg.provider, "Nightly")]
    BY <1>3 DEF ensure_nightly_run_id
  <2>2. Upstream'
    BY <1>1, <1>2, <2>1, AskedKeeps
  <2>3. Answer(cfg.provider, "Nightly") # 0
    BY <1>1, <1>2, AnswerExists
  <2>4. /\ cfg'.run = Answer(cfg.provider, "Nightly")
        /\ cfg' = [provider |-> cfg.provider, version |-> cfg.version, run |-> cfg'.run,
                   kver |-> cfg.kver, branch |-> cfg.branch, adb |-> cfg.adb, placed |-> cfg.placed]
    BY <1>1, <2>1 DEF PayloadShape
  <2>5. PayloadShape'
    BY <1>1, <2>4 DEF PayloadShape, Phases
  <2>6. Configured'
    BY <1>1, <2>3, <2>4 DEF Configured
  <2>7. cleared' => Gathered'
    BY <1>1 DEF PayloadInv, Gathered
  <2> QED BY <2>2, <2>5, <2>6, <2>7 DEF PayloadInv
<1>4. CASE ~(cfg.version = "Nightly" /\ cfg.run = 0)
  <2>1. UNCHANGED <<cfg, cached>>
    BY <1>4 DEF ensure_nightly_run_id
  <2>2. Configured'
    BY <1>1, <1>4, <2>1 DEF Configured
  <2>3. Upstream' /\ PayloadShape'
    BY <1>1, <2>1 DEF Upstream, PayloadShape, Phases
  <2>4. cleared' => Gathered'
    BY <1>1 DEF PayloadInv, Gathered
  <2> QED BY <2>2, <2>3, <2>4 DEF PayloadInv
<1> QED BY <1>3, <1>4

-----------------------------------------------------------------------------
(* A fetch: the run's own build, or GitHub's newest answer.                *)

LEMMA TargetIs ==
  ASSUME PayloadInv, phase \notin {"Idle", "Pin"}, LooksUp, UNCHANGED latest
  PROVE  /\ Upstream' /\ cfg.provider \in Providers /\ cfg.version \in Channels
         /\ cfg.version = "Nightly" => Target = cfg.run
         /\ cfg.version = "Stable" =>
              /\ Target = Answer(cfg.provider, "Stable") /\ Target \in 1..Len(Assets)
              /\ cached'[cfg.provider]["Stable"] = Target
<1>1. /\ Upstream /\ cfg.provider \in Providers /\ cfg.version \in Channels
      /\ cfg.version = "Nightly" => cfg.run # 0
  BY DEF PayloadInv, Configured, Versions, Channels
<1>2. CASE cfg.version = "Nightly"
  BY <1>1, <1>2 DEF Target, LooksUp, Upstream
<1>3. CASE cfg.version = "Stable"
  <2>1. Target = Answer(cfg.provider, "Stable") /\ Asked(cfg.provider, "Stable")
    BY <1>3 DEF Target, LooksUp
  <2>2. Upstream' /\ cached'[cfg.provider]["Stable"] = Answer(cfg.provider, "Stable")
    BY <1>1, <1>3, <2>1, AskedKeeps
  <2> QED BY <1>1, <1>3, <2>1, <2>2, AnswerExists
<1> QED BY <1>1, <1>2, <1>3 DEF Channels

\* A step to `ph` that leaves the device and the run's configuration alone.
LEMMA FetchKeeps ==
  ASSUME PayloadInv, phase # "Idle", NEW ph \in {"Payload", "Init", "Install"}, phase' = ph,
         phase \in {"Manager", "Payload", "Init"},
         UNCHANGED <<latest, tablet, cfg, cleared>>, Upstream',
         work' = [f \in Files |-> work'[f]], ph = "Init" => Family(cfg.provider) = "KernelSU",
         cleared => Gathered'
  PROVE  PayloadInv'
<1>1. PayloadShape'
  BY DEF PayloadInv, PayloadShape, Phases
<1>2. Configured'
  BY DEF PayloadInv, Configured
<1> QED BY <1>1, <1>2 DEF PayloadInv

LEMMA ManagerKeeps == ASSUME PayloadInv, stage_root_manager_apk PROVE PayloadInv'
<1>1. /\ phase = "Manager" /\ UNCHANGED <<latest, cleared>> /\ PayloadShape /\ Configured /\ Upstream
      /\ cfg.provider \in Providers /\ cfg.version \in Versions(cfg.provider)
  BY DEF stage_root_manager_apk, PayloadInv, AtPhase, Settled, Configured
<1>2. ASSUME NEW n, cfg.version = "Nightly" => n = cfg.run, cfg.version = "Stable" => n \in Nat,
             Upstream', phase' = "Payload", UNCHANGED <<tablet, cfg>>,
             work' = Staged(Piece(cfg.provider, cfg.version, n, Unnamed, TRUE)),
             StableKsu(cfg) => n <= Answer(cfg.provider, "Stable")'
      PROVE  PayloadInv'
  <2> DEFINE apk == Piece(cfg.provider, cfg.version, n, Unnamed, TRUE)
  <2>1. /\ work' = [f \in Files |-> work'[f]] /\ work'["manager.apk"] = apk
        /\ \A f \in {"magisk.apk", "magiskinit", "kernelsu.ko", "init"} : work'[f] = work[f]
        /\ Family(cfg.provider) = "APatch" => work'["kpimg"] = apk
    BY <1>1, <1>2 DEF PayloadShape, Staged, Files
  <2>2. /\ apk.by = cfg.provider /\ apk.channel = cfg.version /\ apk.name = Unnamed
        /\ apk.build = n
    BY DEF Piece
  <2> HIDE DEF apk
  <2>3. cfg.version \in {"Nightly", "Stable"}
    BY <1>1 DEF Versions, Channels
  <2>4. IsManager(apk, cfg)
    BY <1>2, <2>2, <2>3 DEF IsManager
  <2>5. ASSUME cleared PROVE Gathered'
    <3>1. \A f \in {"magisk.apk", "magiskinit", "kernelsu.ko", "init"} : work[f] = None
      BY <1>1, <2>5 DEF PayloadInv, Gathered, Empty, Files
    <3> QED BY <1>2, <2>1, <2>2, <2>4, <3>1 DEF Gathered, manager
  <2> QED BY <1>1, <1>2, <2>1, <2>5, FetchKeeps
<1>3. CASE cfg.provider = "MagiskFork"
  <2>1. /\ work' = Staged(Piece("MagiskFork", "Stable", 0, Unnamed, TRUE))
        /\ phase' = "Payload" /\ UNCHANGED <<cfg, cached, tablet>>
    BY <1>3 DEF stage_root_manager_apk
  <2>2. cfg.version = "Stable" /\ ~StableKsu(cfg) /\ Upstream'
    BY <1>1, <1>3, <2>1 DEF Versions, StableKsu, Family, Upstream
  <2> QED BY <1>2, <1>3, <2>1, <2>2
<1>4. CASE cfg.provider # "MagiskFork"
  <2>1. LooksUp
    BY <1>4 DEF stage_root_manager_apk
  <2>2. /\ Upstream' /\ cfg.version \in Channels
        /\ cfg.version = "Nightly" => Target = cfg.run
        /\ cfg.version = "Stable" =>
              /\ Target = Answer(cfg.provider, "Stable") /\ Target \in 1..Len(Assets)
              /\ cached'[cfg.provider]["Stable"] = Target
    BY <1>1, <2>1, TargetIs
  <2>3. CASE Refuses
    BY <1>1, <2>2, <2>3, RootEndsKeep
  <2>4. CASE work' = Staged(Piece(cfg.provider, cfg.version, Target, Unnamed, TRUE))
             /\ phase' = "Payload" /\ UNCHANGED <<cfg, tablet>>
    <3>1. Len(Assets) \in Nat
      BY PayloadAssumption
    <3>2. StableKsu(cfg) => Target <= Answer(cfg.provider, "Stable")'
      BY <2>2, <2>4, <3>1 DEF StableKsu, Answer
    <3>3. PICK n : n = Target
      OBVIOUS
    <3>4. /\ cfg.version = "Nightly" => n = cfg.run
          /\ cfg.version = "Stable" => n \in Nat
          /\ work' = Staged(Piece(cfg.provider, cfg.version, n, Unnamed, TRUE))
          /\ StableKsu(cfg) => n <= Answer(cfg.provider, "Stable")'
      BY <2>2, <2>4, <3>1, <3>2, <3>3
    <3> QED BY <1>2, <2>2, <2>4, <3>4
  <2> QED BY <1>4, <2>3, <2>4 DEF stage_root_manager_apk
<1> QED BY <1>3, <1>4

\* The patcher of a family that has no fetch of its own works on the manager itself.
LEMMA ManagerBelongs ==
  ASSUME NEW apk, NEW run, IsManager(apk, run), ~StableKsu(run) PROVE Belongs(apk, apk, run)
BY DEF Belongs, IsManager, Unnamed, Accepted

LEMMA MagiskKeeps == ASSUME PayloadInv, MagiskPayload PROVE PayloadInv'
<1>1. /\ phase = "Payload" /\ phase' = "Install" /\ Family(cfg.provider) = "Magisk"
      /\ UNCHANGED <<latest, cached, tablet, cfg, cleared>> /\ PayloadShape /\ Upstream
  BY DEF MagiskPayload, PayloadInv, AtPhase, Settled
<1>2. work' = [f \in Files |-> work'[f]] /\ Upstream'
  BY <1>1 DEF MagiskPayload, PayloadShape, Upstream
<1>3. ASSUME cleared PROVE Gathered'
  <2>1. IsManager(manager, cfg) /\ work["magiskinit"] = None /\ work["magisk.apk"] = None
    BY <1>1, <1>3 DEF PayloadInv, Gathered
  <2>2. work' = [work EXCEPT !["magisk.apk"] = manager, !["magiskinit"] = manager]
    BY <2>1 DEF MagiskPayload, manager
  <2>3. work'["magiskinit"] = manager /\ manager' = manager
    BY <1>1, <2>2 DEF PayloadShape, Files, manager
  <2>4. Wanted(cfg) = {"magiskinit"} /\ Belongs(manager, manager, cfg)
    BY <1>1, <2>1, ManagerBelongs DEF Wanted, StableKsu
  <2> QED BY <1>1, <2>1, <2>3, <2>4 DEF Gathered
<1> QED BY <1>1, <1>2, <1>3, FetchKeeps

LEMMA NoPayloadKeeps == ASSUME PayloadInv, NoPayload PROVE PayloadInv'
<1>1. /\ phase = "Payload" /\ phase' = "Install"
      /\ UNCHANGED <<latest, cached, tablet, cfg, work, cleared>> /\ PayloadShape /\ Upstream
  BY DEF NoPayload, PayloadInv, AtPhase, Settled
<1>2. work' = [f \in Files |-> work'[f]] /\ Upstream'
  BY <1>1 DEF PayloadShape, Upstream
<1>3. ASSUME cleared PROVE Gathered'
  <2>1. /\ IsManager(manager, cfg) /\ work["kernelsu.ko"] = None
        /\ Family(cfg.provider) = "APatch" => work["kpimg"] = manager
    BY <1>1, <1>3 DEF PayloadInv, Gathered
  <2>2. Family(cfg.provider) \in {"APatch", "Skroot"}
    BY <2>1 DEF NoPayload
  <2>3. \A f \in Wanted(cfg) : Belongs(work[f], manager, cfg)
    BY <2>1, <2>2, ManagerBelongs DEF Wanted, StableKsu
  <2> QED BY <1>1, <2>1, <2>3 DEF Gathered, manager
<1> QED BY <1>1, <1>2, <1>3, FetchKeeps

-----------------------------------------------------------------------------
\* An artifact that is chosen is one that fits, and not for another processor.
LEMMA ArchSafeIs ==
  ASSUME NEW list, NEW fits
  PROVE  ArchSafe(list, fits) \subseteq {i \in fits : list[i].arch # "X86"}
BY DEF ArchSafe

\* What a fetch chooses is listed.
LEMMA ChosenIs ==
  ASSUME NEW list \in Seq(Name), NEW fits, fits \subseteq DOMAIN list, fits # {}
  PROVE  \E i \in fits : FirstOf(list, fits) = list[i] /\ list[i] \in Name
<1>1. DOMAIN list = 1..Len(list) /\ Len(list) \in Nat
  OBVIOUS
<1>2. fits \subseteq Nat
  BY <1>1
<1>3. PICK i \in fits : FirstOf(list, fits) = list[i]
  BY <1>2, FirstIsListed
<1>4. list[i] \in Name
  BY <1>1, <1>3
<1> QED BY <1>3, <1>4

\* How KsuModule chooses: the first fitting asset of a release, or else artifact of a build.
ChosenModule(n, kver, branch, release, built, name) ==
  /\ release \cup built # {}
  /\ release # {} => n \in DOMAIN Assets
  /\ built # {} => n \in DOMAIN Artifacts
  /\ release \subseteq ReleaseKo(n, kver, branch) /\ built \subseteq ArtifactKo(n, kver, branch)
  /\ name = IF release # {} THEN FirstOf(Assets[n], release) ELSE FirstOf(Artifacts[n], built)

\* The module a run fetches is for its kernel, and for its processor if no release lists it.
LEMMA ModuleIs ==
  ASSUME NEW n, NEW kver, NEW branch, NEW release, NEW built, NEW name,
         ChosenModule(n, kver, branch, release, built, name)
  PROVE  /\ name.role = "Ko" /\ name.kver = kver /\ ~branch_rejected(name, kver, branch)
         /\ name.arch = "X86" => release # {} /\ \E i \in DOMAIN Assets[n] : Assets[n][i] = name
<1> USE DEF ChosenModule
<1>1. CASE release # {}
  <2>1. Assets[n] \in Seq(Name) /\ release \subseteq DOMAIN Assets[n]
    BY <1>1, PayloadAssumption DEF ReleaseKo
  <2>2. PICK i \in release : name = Assets[n][i]
    BY <1>1, <2>1, ChosenIs
  <2>3. Ko(kver, branch, Assets[n][i]) /\ i \in DOMAIN Assets[n]
    BY <2>2 DEF ReleaseKo
  <2> QED BY <1>1, <2>2, <2>3 DEF Ko
<1>2. CASE release = {}
  <2>1. Artifacts[n] \in Seq(Name)
    BY <1>2, PayloadAssumption
  <2>2. built \subseteq {i \in DOMAIN Artifacts[n] : /\ Ko(kver, branch, Artifacts[n][i])
                                                     /\ Artifacts[n][i].arch # "X86"}
    BY ArchSafeIs DEF ArtifactKo
  <2>3. PICK i \in built : name = Artifacts[n][i]
    BY <1>2, <2>1, <2>2, ChosenIs
  <2> QED BY <2>2, <2>3 DEF Ko
<1> QED BY <1>1, <1>2

LEMMA KsuModuleKeeps == ASSUME PayloadInv, KsuModule PROVE PayloadInv'
<1> DEFINE release == IF cfg.version = "Stable" THEN ReleaseKo(Target, cfg.kver, cfg.branch) ELSE {}
           built   == IF Exists THEN ArtifactKo(Target, cfg.kver, cfg.branch) ELSE {}
           name    == IF release # {} THEN FirstOf(Assets[Target], release)
                                      ELSE FirstOf(Artifacts[Target], built)
<1>1. /\ phase = "Payload" /\ UNCHANGED <<latest, cleared>> /\ Family(cfg.provider) = "KernelSU"
      /\ LooksUp /\ PayloadShape
  BY DEF KsuModule, PayloadInv, AtPhase, Settled
<1>2. /\ Upstream' /\ cfg.provider \in Providers /\ cfg.version \in {"Nightly", "Stable"}
      /\ cfg.version = "Nightly" => Target = cfg.run
      /\ cfg.version = "Stable" =>
           Target = Answer(cfg.provider, "Stable") /\ Target \in 1..Len(Assets)
  BY <1>1, TargetIs DEF Channels
<1>3. CASE Refuses
  BY <1>1, <1>2, <1>3, RootEndsKeep
<1>4. CASE release \cup built # {} /\ Fetched(name) /\ phase' = "Init" /\ UNCHANGED <<cfg, tablet>>
  <2>1. /\ DOMAIN Assets = 1..Len(Assets) /\ DOMAIN Artifacts = 1..Len(Assets)
    BY PayloadAssumption
  <2>2. /\ release # {} => Target \in DOMAIN Assets
        /\ Target \in DOMAIN Artifacts
        /\ release \subseteq ReleaseKo(Target, cfg.kver, cfg.branch)
        /\ built \subseteq ArtifactKo(Target, cfg.kver, cfg.branch)
        /\ release # {} => cfg.version = "Stable"
    BY <1>2, <1>4, <2>1 DEF Exists, workflow_run_matches
  <2> HIDE DEF release, built
  <2>3. /\ name.role = "Ko" /\ name.kver = cfg.kver
        /\ ~branch_rejected(name, cfg.kver, cfg.branch)
        /\ name.arch = "X86" => /\ cfg.version = "Stable"
                                /\ \E i \in DOMAIN Assets[Target] : Assets[Target][i] = name
    <3>1. ChosenModule(Target, cfg.kver, cfg.branch, release, built, name)
      BY <1>4, <2>2 DEF ChosenModule
    <3> QED BY <2>2, <3>1, ModuleIs
  <2> HIDE DEF name
  <2>4. PICK genuine \in BOOLEAN :
          /\ Accepted(name, genuine)
          /\ work' = [work EXCEPT !["kernelsu.ko"] =
                        Piece(cfg.provider, cfg.version, Target, name, genuine)]
    BY <1>4, <2>3 DEF Fetched
  <2> DEFINE ko == Piece(cfg.provider, cfg.version, Target, name, genuine)
  <2>5. /\ ko.by = cfg.provider /\ ko.channel = cfg.version /\ ko.build = Target
        /\ ko.name = name /\ ko.genuine = genuine
    BY DEF Piece
  <2> HIDE DEF ko
  <2>6. /\ work' = [f \in Files |-> work'[f]] /\ work'["kernelsu.ko"] = ko
        /\ work'["manager.apk"] = work["manager.apk"]
    BY <1>1, <2>4 DEF PayloadShape, Files, ko
  <2>7. ASSUME cleared PROVE Gathered'
    <3>1. IsManager(manager, cfg) /\ (StableKsu(cfg) => manager.build <= Target)
      BY <1>1, <1>2, <2>7 DEF PayloadInv, Gathered, StableKsu
    <3>2. ~StableKsu(cfg) => manager.build = Target
      BY <1>1, <1>2, <3>1 DEF StableKsu, IsManager
    <3>3. Belongs(ko, manager, cfg) /\ ko.build \in DOMAIN Artifacts
      <4>1. ko.name.arch = "X86" => FromARelease(ko)
        BY <2>3, <2>5 DEF FromARelease
      <4> QED BY <2>2, <2>3, <2>4, <2>5, <3>1, <3>2, <4>1 DEF Belongs
    <3> QED BY <1>4, <2>6, <3>1, <3>3 DEF Gathered, manager
  <2> QED BY <1>1, <1>2, <1>4, <2>6, <2>7, FetchKeeps
<1> QED BY <1>3, <1>4 DEF KsuModule

LEMMA KsuInitKeeps == ASSUME PayloadInv, KsuInit PROVE PayloadInv'
<1> DEFINE n    == work["kernelsu.ko"].build
           name == FirstOf(Artifacts[n], ArtifactInit(n))
<1>1. /\ phase = "Init" /\ UNCHANGED <<latest, cached, cleared>> /\ PayloadShape /\ Upstream
      /\ Family(cfg.provider) = "KernelSU"
  BY DEF KsuInit, PayloadInv, AtPhase, Settled, Configured
<1>2. Upstream'
  BY <1>1 DEF Upstream
<1>3. CASE Refuses
  BY <1>1, <1>2, <1>3, RootEndsKeep
<1>4. CASE ~Refuses
  <2>1. ArtifactInit(n) # {} /\ phase' = "Install" /\ UNCHANGED <<cfg, tablet>>
    BY <1>4 DEF KsuInit
  <2>2. PICK genuine \in BOOLEAN :
          /\ Accepted(name, genuine)
          /\ work' = [work EXCEPT !["init"] = Piece(cfg.provider, cfg.version, n, name, genuine)]
    BY <1>4 DEF KsuInit
  <2> DEFINE init == Piece(cfg.provider, cfg.version, n, name, genuine)
  <2>3. /\ init.by = cfg.provider /\ init.channel = cfg.version /\ init.build = n
        /\ init.name = name /\ init.genuine = genuine
    BY DEF Piece
  <2> HIDE DEF init
  <2>4. /\ work' = [f \in Files |-> work'[f]] /\ work'["init"] = init
        /\ work'["manager.apk"] = work["manager.apk"] /\ work'["kernelsu.ko"] = work["kernelsu.ko"]
    BY <1>1, <2>2 DEF PayloadShape, Files, init
  <2>5. ASSUME cleared PROVE Gathered'
    <3>1. /\ IsManager(manager, cfg) /\ Belongs(work["kernelsu.ko"], manager, cfg)
          /\ n \in DOMAIN Artifacts
      BY <1>1, <2>5 DEF PayloadInv, Gathered
    <3>2. Artifacts[n] \in Seq(Name)
      BY <3>1, PayloadAssumption
    <3>3. ArtifactInit(n) \subseteq {i \in DOMAIN Artifacts[n] : /\ Artifacts[n][i].role = "Init"
                                                                 /\ Artifacts[n][i].arch # "X86"}
      BY ArchSafeIs DEF ArtifactInit
    <3>4. PICK i \in ArtifactInit(n) : name = Artifacts[n][i]
      BY <2>1, <3>2, <3>3, ChosenIs
    <3>5. name.role = "Init" /\ name.arch # "X86"
      BY <3>3, <3>4
    <3> HIDE DEF name
    <3>6. Belongs(init, manager, cfg)
      BY <2>2, <2>3, <3>1, <3>5 DEF Belongs
    <3>7. Wanted(cfg) = {"kernelsu.ko", "init"}
      BY <1>1 DEF Wanted
    <3> QED BY <2>1, <2>4, <3>1, <3>6, <3>7 DEF Gathered, manager
  <2> QED BY <1>1, <1>2, <2>1, <2>4, <2>5, FetchKeeps
<1> QED BY <1>3, <1>4

-----------------------------------------------------------------------------
(* On the device.                                                          *)

\* A step behind the fetches: what is installed and patched in is the workspace's.
LEMMA PlaceKeeps ==
  ASSUME PayloadInv, phase \in {"Install", "Patch", "Booted"}, NEW ph \in {"Patch", "Booted", "Done"},
         phase' = ph, UNCHANGED <<latest, cached, work, cleared>>,
         tablet' = [kernel |-> tablet.kernel, patches |-> tablet'.patches, boot |-> tablet'.boot,
                    manager |-> tablet'.manager],
         cfg' = [cfg EXCEPT !.placed = cfg'.placed],
         cfg'.placed /\ tablet'.manager # manager => cfg.placed /\ tablet'.manager = tablet.manager
                                                     /\ phase # "Install",
         ph = "Patch" => phase = "Install",
         ph = "Booted" => phase = "Patch" /\ tablet'.boot = {work[f] : f \in Wanted(cfg)},
         ph = "Done" => phase = "Booted" /\ tablet'.boot = tablet.boot
  PROVE  PayloadInv'
<1>1. Upstream /\ PayloadShape /\ Configured
  BY DEF PayloadInv
<1>2. /\ cfg' = [provider |-> cfg.provider, version |-> cfg.version, run |-> cfg.run, kver |-> cfg.kver,
                 branch |-> cfg.branch, adb |-> cfg.adb, placed |-> cfg'.placed]
  BY <1>1 DEF PayloadShape
<1>3. PayloadShape'
  BY <1>1, <1>2 DEF PayloadShape, Phases
<1>4. Configured' /\ Upstream'
  BY <1>1, <1>2 DEF Configured, Upstream
<1>5. ASSUME cleared PROVE Gathered'
  <2>1. Gathered
    BY <1>5 DEF PayloadInv
  <2>2. /\ manager' = manager /\ Wanted(cfg') = Wanted(cfg) /\ IsManager(manager, cfg') = IsManager(manager, cfg)
        /\ \A piece : Belongs(piece, manager, cfg) => Belongs(piece, manager, cfg')
    BY <1>2 DEF manager, Wanted, IsManager, Belongs, StableKsu
  <2>3. phase' \in {"Install", "Patch"} => \A f \in Wanted(cfg') : Belongs(work'[f], manager', cfg')
    BY <2>1, <2>2 DEF Gathered
  <2>4. phase' \in {"Booted", "Done"} => \A piece \in tablet'.boot : Belongs(piece, manager', cfg')
    BY <2>1, <2>2 DEF Gathered
  <2>5. phase' \in {"Patch", "Booted", "Done"} /\ cfg'.placed => tablet'.manager = manager'
    BY <2>1, <2>2 DEF Gathered
  <2>6. IsManager(manager', cfg')
    BY <2>1, <2>2 DEF Gathered
  <2> QED BY <2>3, <2>4, <2>5, <2>6 DEF Gathered
<1> QED BY <1>3, <1>4, <1>5 DEF PayloadInv

LEMMA InstallsKeep ==
  ASSUME PayloadInv, InstallBeforeEdl \/ NoAdbYet \/ InstallAfterBoot \/ NothingToInstall
  PROVE  PayloadInv'
<1>1. /\ PayloadShape /\ Configured /\ UNCHANGED <<latest, cached, work, cleared>>
      /\ \/ phase = "Install" /\ phase' = "Patch" /\ ~cfg.placed
         \/ phase = "Booted" /\ phase' = "Done"
  BY DEF PayloadInv, InstallBeforeEdl, NoAdbYet, InstallAfterBoot, NothingToInstall, Installs, AtPhase,
     Settled, Configured
<1>2. \/ /\ tablet' = [tablet EXCEPT !.manager = work["manager.apk"]]
         /\ cfg' = [cfg EXCEPT !.placed = TRUE]
      \/ UNCHANGED <<tablet, cfg>>
  BY DEF InstallBeforeEdl, NoAdbYet, InstallAfterBoot, NothingToInstall, Installs
<1>3. /\ tablet' = [kernel |-> tablet.kernel, patches |-> tablet'.patches, boot |-> tablet'.boot,
                    manager |-> tablet'.manager]
      /\ tablet'.boot = tablet.boot /\ cfg' = [cfg EXCEPT !.placed = cfg'.placed]
      /\ cfg'.placed /\ tablet'.manager # manager => cfg.placed /\ tablet'.manager = tablet.manager
  BY <1>1, <1>2 DEF PayloadShape, manager
<1> QED BY <1>1, <1>3, PlaceKeeps

LEMMA PatchesKeep ==
  ASSUME PayloadInv, PatchMagisk \/ PatchKsu \/ PatchApatch \/ PatchSkroot
  PROVE  PayloadInv'
<1>1. ASSUME NEW family, NEW files, files = Wanted(cfg), phase = "Patch",
             UNCHANGED <<latest, cached, cleared>>,
             \/ Refuses
             \/ /\ tablet' = [tablet EXCEPT !.patches = @ \cup {family}, !.boot = {work[f] : f \in files}]
                /\ phase' = "Booted" /\ UNCHANGED <<cfg, work>>
      PROVE  PayloadInv'
  <2>1. PayloadShape /\ Upstream /\ Upstream'
    BY <1>1 DEF PayloadInv, Upstream
  <2>2. CASE Refuses
    BY <1>1, <2>1, <2>2, RootEndsKeep
  <2>3. CASE ~Refuses
    <3>1. /\ tablet' = [tablet EXCEPT !.patches = @ \cup {family}, !.boot = {work[f] : f \in files}]
          /\ phase' = "Booted" /\ UNCHANGED <<cfg, work>>
      BY <1>1, <2>3
    <3>2. /\ tablet' = [kernel |-> tablet.kernel, patches |-> tablet'.patches, boot |-> tablet'.boot,
                        manager |-> tablet'.manager]
          /\ tablet'.boot = {work[f] : f \in Wanted(cfg)} /\ tablet'.manager = tablet.manager
          /\ cfg' = [cfg EXCEPT !.placed = cfg'.placed]
      BY <1>1, <2>1, <3>1 DEF PayloadShape
    <3> QED BY <1>1, <3>1, <3>2, PlaceKeeps
  <2> QED BY <2>2, <2>3
<1>2. phase = "Patch" /\ UNCHANGED <<latest, cached, cleared>>
  BY DEF PatchMagisk, PatchKsu, PatchApatch, PatchSkroot, Patches, AtPhase, Settled
<1>3. CASE PatchMagisk
  <2>1. Wanted(cfg) = {"magiskinit"}
    BY <1>3 DEF PatchMagisk, Patches, Wanted
  <2> QED BY <1>1, <1>2, <1>3, <2>1 DEF PatchMagisk, Patches
<1>4. CASE PatchKsu
  <2>1. Wanted(cfg) = {"kernelsu.ko", "init"}
    BY <1>4 DEF PatchKsu, Patches, Wanted
  <2> QED BY <1>1, <1>2, <1>4, <2>1 DEF PatchKsu, Patches
<1>5. CASE PatchApatch
  <2>1. Wanted(cfg) = {"kpimg"}
    BY <1>5 DEF PatchApatch, Patches, Wanted
  <2> QED BY <1>1, <1>2, <1>5, <2>1 DEF PatchApatch, Patches
<1>6. CASE PatchSkroot
  <2>1. Wanted(cfg) = {}
    BY <1>6 DEF PatchSkroot, Patches, Wanted
  <2> QED BY <1>1, <1>2, <1>6, <2>1 DEF PatchSkroot, Patches
<1> QED BY <1>3, <1>4, <1>5, <1>6

-----------------------------------------------------------------------------
LEMMA PayloadStep == ASSUME PayloadInv, [PayloadNext]_payloadVars PROVE PayloadInv'
<1>1. CASE UNCHANGED payloadVars
  BY <1>1 DEF payloadVars, PayloadInv, Upstream, PayloadShape, Configured, Gathered, manager, Answer
<1> QED BY <1>1, NewsKeep, RootEndsKeep, RootBeginsKeeps, PinKeeps, ManagerKeeps, MagiskKeeps,
           NoPayloadKeeps, KsuModuleKeeps, KsuInitKeeps, InstallsKeep, PatchesKeep
        DEF PayloadNext, RootRun

\* root_worker, "every fetch in this Phase 2 pulls from the same upstream build":
\* whatever upstream publishes meanwhile and whatever failed before, a run that
\* began in an empty workspace and installed its manager leaves it and the payload
\* of one build on the device; a stable KernelSU's manager may be of an older one.
\* Its module is of the run's kernel version and, where ADB gave the branch, for the
\* device's kernel; a module off a release may be for another processor, nothing off
\* a workflow run is; and all is genuine where GitHub reports a digest.
THEOREM PiecesOfOneBuild == PayloadSpec => []PiecesBelongTogether
<1>1. PayloadInv /\ [PayloadNext]_payloadVars => PayloadInv'
  BY PayloadStep
<1>2. PayloadInv => PiecesBelongTogether
  <2>1. SUFFICES ASSUME PayloadInv, phase = "Done", cleared
                 PROVE  /\ cfg.placed => OneBuildOnTheDevice
                        /\ ModuleFitsTheKernel
    BY DEF PiecesBelongTogether, AtPhase
  <2>2. Gathered /\ Configured /\ \A piece \in tablet.boot : Belongs(piece, manager, cfg)
    BY <2>1 DEF PayloadInv, Gathered
  <2>3. cfg.placed => OneBuildOnTheDevice
    BY <2>1, <2>2 DEF Gathered, IsManager, Belongs, StableKsu, OneBuildOnTheDevice
  <2>4. ModuleFitsTheKernel
    BY <2>1, <2>2 DEF Configured, Belongs, ModuleFitsTheKernel, branch_rejected
  <2> QED BY <2>3, <2>4
<1> QED BY <1>1, <1>2, InitPayload, PTL DEF PayloadSpec

=============================================================================
