----------------------------- MODULE RootPayload -----------------------------
(***************************************************************************)
(* What a root run fetches from upstream before it takes the device to     *)
(* EDL, and what of it ends on the device: the manager APK, installed over *)
(* ADB, and the payload, patched into the boot image.  Upstream publishes  *)
(* while the run downloads; GitHub's answers are cached for five minutes;  *)
(* a run may fail or be killed between any two files and leave its         *)
(* workspace to the next one, whose attempt to clear it may fail.          *)
(* RootUnroot has what follows: dumps, backups, signatures and writes.     *)
(***************************************************************************)
EXTENDS Naturals, Sequences

CONSTANTS
  Providers,   \* of "Magisk", "MagiskFork", "KernelSU", "ReSukiSU", "APatch", "Skroot"
  Assets,      \* what each release lists, see Name
  Artifacts,   \* what each workflow run lists; the n-th release was built by the n-th
  Kernels,     \* kernels of devices, see Kernel
  Manual,      \* run ids the user types
  MaxRootRuns, \* root runs
  MaxNews,     \* releases and workflow runs that appear
  MaxMishaps   \* failures, kills, and files a cleared workspace keeps

\* A listed file: its role, the kernel and the branch in its name (or none), its
\* architecture, and whether GitHub reports a digest.
Roles    == {"Ko", "Init", "Manager"}
Archs    == {"Aarch64", "Unmarked", "X86"}
NoBranch == "NoBranch"
Kernel   == [kver : {"5.10", "6.1"}, branch : {"android12", "android13", "android14"}]

Name     == [role : Roles, kver : {"None", "5.10", "6.1"}, arch : Archs, digest : BOOLEAN,
             branch : {NoBranch, "android12", "android13", "android14"}]

\* A module of a release is named by its branch and kernel alone.
ASSUME PayloadAssumption ==
  /\ Providers \subseteq {"Magisk", "MagiskFork", "KernelSU", "ReSukiSU", "APatch", "Skroot"}
  /\ Assets \in Seq(Seq(Name)) /\ Artifacts \in Seq(Seq(Name))
  /\ Assets # <<>> /\ Len(Assets) = Len(Artifacts)
  /\ Kernels \subseteq Kernel
  /\ MaxRootRuns \in Nat /\ MaxNews \in Nat /\ MaxMishaps \in Nat

VARIABLES
  latest,  \* per channel, the newest that upstream has
  cached,  \* per provider and channel, the newest by the cached answer, 0 for none
  tablet,  \* the device, see Tablet
  cfg,     \* the run's RootPipelineConfig, see Config
  work,    \* the workspace: what each file holds
  phase,   \* where the run is
  cleared, \* the workspace was empty when the run began
  rootRuns, news, mishaps

payloadVars == <<latest, cached, tablet, cfg, work, phase, cleared, rootRuns, news, mishaps>>

Channels == {"Stable", "Nightly"}

\* RootFamily of a provider.
Family(p) ==
  CASE p \in {"Magisk", "MagiskFork"}   -> "Magisk"
    [] p \in {"KernelSU", "ReSukiSU"}   -> "KernelSU"
    [] OTHER                            -> p

\* A fetched file: whose, of which channel's which build, under which name, and
\* that it is what upstream built.
Unnamed == [role |-> "Manager", kver |-> "None", branch |-> NoBranch, arch |-> "Unmarked",
            digest |-> FALSE]
Piece(p, channel, n, name, genuine) ==
  [by |-> p, channel |-> channel, build |-> n, name |-> name, genuine |-> genuine]
None  == [by |-> "None"]
Files == {"manager.apk", "magisk.apk", "magiskinit", "kernelsu.ko", "init", "apatch.apk", "kpimg"}
Empty == [f \in Files |-> None]

\* version is the channel, run the nightly run once it is known (0 before), kernel
\* what the run knows of the device's kernel.
NoConfig == [provider |-> "None", version |-> "None", run |-> 0,
             kver |-> "None", branch |-> NoBranch, adb |-> FALSE, placed |-> FALSE]

\* Its kernel, the patches its boot image carries, the payload of the last of
\* them, and the manager that is installed.
Stock(kernel) == [kernel |-> kernel, patches |-> {}, boot |-> None, manager |-> None]

-----------------------------------------------------------------------------
(* GitHub.                                                                 *)

\* get_json: a cached answer, or a new one, which is then cached.
Answer(p, channel)  == IF cached[p][channel] # 0 THEN cached[p][channel] ELSE latest[channel]
Asked(p, channel)   == cached' = [cached EXCEPT ![p][channel] = Answer(p, channel)]

\* Five minutes pass.
CacheExpires ==
  /\ \E p \in Providers, c \in Channels :
       cached[p][c] # 0 /\ cached' = [cached EXCEPT ![p][c] = 0]
  /\ UNCHANGED <<latest, tablet, cfg, work, phase, cleared, rootRuns, news, mishaps>>

Publish ==
  /\ news < MaxNews /\ news' = news + 1
  /\ \E c \in Channels :
       latest[c] < Len(Assets) /\ latest' = [latest EXCEPT ![c] = @ + 1]
  /\ UNCHANGED <<cached, tablet, cfg, work, phase, cleared, rootRuns, mishaps>>

\* workflow_run_matches: every run in the list is one of the provider's workflow.
workflow_run_matches(n) == n \in DOMAIN Artifacts

-----------------------------------------------------------------------------
(* Choosing among the files listed.                                        *)

branch_rejected(name, kver, branch) ==
  IF branch # NoBranch THEN name.branch # branch
  ELSE kver = "5.10" /\ name.branch = "android13"

Ko(kver, branch, name) ==
  name.role = "Ko" /\ name.kver = kver /\ ~branch_rejected(name, kver, branch)

FirstOf(list, fits) == list[CHOOSE i \in fits : \A j \in fits : i <= j]

\* Fault: an x86 module is taken where no other is listed.
AnyArchitecture(list, fits) == fits
\* select_arch_safe_artifact: aarch64 before unmarked, never x86.
ArchSafe(list, fits) ==
  LET with(arch) == {i \in fits : list[i].arch = arch} IN
  IF with("Aarch64") # {} THEN with("Aarch64") ELSE with("Unmarked")

ReleaseKo(n, kver, branch)  ==
  {i \in DOMAIN Assets[n] : Ko(kver, branch, Assets[n][i])}
ArtifactKo(n, kver, branch) ==
  ArchSafe(Artifacts[n], {i \in DOMAIN Artifacts[n] : Ko(kver, branch, Artifacts[n][i])})
ArtifactInit(n) ==
  ArchSafe(Artifacts[n], {i \in DOMAIN Artifacts[n] : Artifacts[n][i].role = "Init"})

\* select_manager_asset; ReSukiSU has no stable channel.
HasManager(p, channel, n) ==
  LET list == IF channel = "Stable" THEN Assets[n] ELSE Artifacts[n] IN
  /\ ~(p = "ReSukiSU" /\ channel = "Stable")
  /\ \E i \in DOMAIN list : list[i].role = "Manager"

\* compare_artifact_digest: a wrong file is found out where a digest is reported.
Accepted(name, genuine) == name.digest => genuine

-----------------------------------------------------------------------------
(* One run.                                                                *)

AtPhase(ph) == phase = ph
Settled == UNCHANGED <<latest, rootRuns, news>>
Careful == UNCHANGED mishaps
Mishap  == mishaps < MaxMishaps /\ mishaps' = mishaps + 1

\* remove_dir_all, its error ignored: what it did not get to is kept.
Clears == \/ work' = Empty /\ cleared' = TRUE /\ Careful
          \/ \E kept \in SUBSET {f \in Files : work[f] # None} :
               /\ kept # {} /\ Mishap
               /\ work' = [f \in Files |-> IF f \in kept THEN work[f] ELSE None]
               /\ cleared' = FALSE

\* resolve_provider_version: Forks and SKRoot have no channel of their own.
Versions(p) == IF p \in {"MagiskFork", "Skroot"} THEN {"Stable"} ELSE Channels
RunIds(v)   == IF v = "Nightly" THEN {0} \cup Manual ELSE {0}

\* What the run learns of the kernel: over ADB, or what the user typed.
Learned(p, adb) ==
  IF Family(p) # "KernelSU" THEN {[kver |-> "None", branch |-> NoBranch]}
  ELSE {[kver |-> k.kver, branch |-> NoBranch] : k \in Kernels}
         \cup {tablet.kernel : ignored \in IF adb THEN {1} ELSE {}}

RootBegins ==
  /\ AtPhase("Idle") /\ rootRuns < MaxRootRuns /\ rootRuns' = rootRuns + 1
  /\ \E p \in Providers, adb \in BOOLEAN : \E v \in Versions(p), k \in Learned(p, adb) :
       \E run \in RunIds(v) :
         cfg' = [NoConfig EXCEPT !.provider = p, !.version = v, !.run = run,
                                 !.kver = k.kver, !.branch = k.branch, !.adb = adb]
  /\ Clears /\ phase' = "Pin"
  /\ UNCHANGED <<latest, cached, tablet, news>>

\* Every error of the run before its write, and a kill: the files stay.
RootFails ==
  /\ phase \notin {"Idle", "Booted", "Done"} /\ Mishap
  /\ phase' = "Idle" /\ cfg' = NoConfig
  /\ UNCHANGED <<cached, tablet, work, cleared>> /\ Settled

Refuses == phase' = "Idle" /\ cfg' = NoConfig /\ UNCHANGED <<tablet, work>>

\* Fault: the nightly run is looked up by each fetch.
PinsNothing ==
  /\ AtPhase("Pin") /\ phase' = "Manager" /\ UNCHANGED <<cfg, cached, tablet, work, cleared>>
  /\ Settled /\ Careful
\* ensure_nightly_run_id
ensure_nightly_run_id ==
  /\ AtPhase("Pin") /\ phase' = "Manager"
  /\ IF cfg.version = "Nightly" /\ cfg.run = 0
     THEN /\ Asked(cfg.provider, "Nightly")
          /\ cfg' = [cfg EXCEPT !.run = Answer(cfg.provider, "Nightly")]
     ELSE UNCHANGED <<cfg, cached>>
  /\ UNCHANGED <<tablet, work, cleared>> /\ Settled /\ Careful

\* Which build a fetch is about: resolve_nightly_run or latest_release_assets.
Target ==
  IF cfg.version = "Nightly" /\ cfg.run # 0 THEN cfg.run ELSE Answer(cfg.provider, cfg.version)
LooksUp ==
  IF cfg.version = "Nightly" /\ cfg.run # 0 THEN UNCHANGED cached ELSE Asked(cfg.provider, cfg.version)
Exists == cfg.version = "Nightly" => workflow_run_matches(Target)

\* download_to_file: a file is there in full, or as it was.
Fetched(name) ==
  \E genuine \in BOOLEAN :
    /\ genuine \/ Mishap
    /\ genuine => Careful
    /\ Accepted(name, genuine)
    /\ work' = [work EXCEPT ![IF name.role = "Ko" THEN "kernelsu.ko" ELSE "init"] =
                              Piece(cfg.provider, cfg.version, Target, name, genuine)]

Staged(piece) ==
  IF Family(cfg.provider) = "APatch"
  THEN [work EXCEPT !["apatch.apk"] = piece, !["kpimg"] = piece, !["manager.apk"] = piece]
  ELSE [work EXCEPT !["manager.apk"] = piece]

\* stage_root_manager_apk; the user brings a fork's APK himself.
stage_root_manager_apk ==
  /\ AtPhase("Manager") /\ UNCHANGED cleared /\ Settled /\ Careful
  /\ IF cfg.provider = "MagiskFork"
     THEN /\ work' = Staged(Piece("MagiskFork", "Stable", 0, Unnamed, TRUE))
          /\ phase' = "Payload" /\ UNCHANGED <<cfg, cached, tablet>>
     ELSE /\ LooksUp
          /\ IF Exists /\ HasManager(cfg.provider, cfg.version, Target)
             THEN /\ work' = Staged(Piece(cfg.provider, cfg.version, Target, Unnamed, TRUE))
                  /\ phase' = "Payload" /\ UNCHANGED <<cfg, tablet>>
             ELSE Refuses

\* stage_root_payload: what is there already is not fetched again.
MagiskPayload ==
  LET apk == IF work["magisk.apk"] # None THEN work["magisk.apk"] ELSE work["manager.apk"] IN
  /\ AtPhase("Payload") /\ Family(cfg.provider) = "Magisk" /\ phase' = "Install"
  /\ work' = IF work["magiskinit"] # None THEN work
             ELSE [work EXCEPT !["magisk.apk"] = apk, !["magiskinit"] = apk]
  /\ UNCHANGED <<cached, tablet, cfg, cleared>> /\ Settled /\ Careful

NoPayload ==
  /\ AtPhase("Payload") /\ phase' = "Install"
  /\ \/ Family(cfg.provider) \in {"APatch", "Skroot"}
     \/ Family(cfg.provider) = "KernelSU" /\ work["kernelsu.ko"] # None /\ work["init"] # None
  /\ UNCHANGED <<cached, tablet, cfg, work, cleared>> /\ Settled /\ Careful

\* download_ksu_payload and its nightly twin: the module, from the release or else
\* from the workflow run, for this kernel only.
KsuModule ==
  LET release == IF cfg.version = "Stable" THEN ReleaseKo(Target, cfg.kver, cfg.branch) ELSE {}
      run     == IF Exists THEN ArtifactKo(Target, cfg.kver, cfg.branch) ELSE {} IN
  /\ AtPhase("Payload") /\ Family(cfg.provider) = "KernelSU"
  /\ work["kernelsu.ko"] = None \/ work["init"] = None
  /\ LooksUp /\ UNCHANGED cleared /\ Settled
  /\ IF release \cup run = {} THEN Refuses /\ Careful
     ELSE /\ Fetched(IF release # {} THEN FirstOf(Assets[Target], release)
                                     ELSE FirstOf(Artifacts[Target], run))
          /\ phase' = "Init" /\ UNCHANGED <<cfg, tablet>>

\* ksuinit, from the run that built the module's release.
KsuInit ==
  LET n == work["kernelsu.ko"].build IN
  /\ AtPhase("Init") /\ UNCHANGED <<cached, cleared>> /\ Settled
  /\ IF ArtifactInit(n) = {} THEN Refuses /\ Careful
     ELSE LET name == FirstOf(Artifacts[n], ArtifactInit(n)) IN
          /\ \E genuine \in BOOLEAN :
               /\ genuine \/ Mishap
               /\ genuine => Careful
               /\ Accepted(name, genuine)
               /\ work' = [work EXCEPT !["init"] = Piece(cfg.provider, cfg.version, n, name, genuine)]
          /\ phase' = "Install" /\ UNCHANGED <<cfg, tablet>>

\* install_root_manager_apk, while ADB is there; a failure does not end the run.
Installs(ph) ==
  /\ \/ tablet' = [tablet EXCEPT !.manager = work["manager.apk"]] /\ cfg' = [cfg EXCEPT !.placed = TRUE]
     \/ UNCHANGED <<tablet, cfg>>
  /\ phase' = ph /\ UNCHANGED <<cached, work, cleared>> /\ Settled /\ Careful

InstallBeforeEdl == AtPhase("Install") /\ cfg.adb /\ Installs("Patch")
NoAdbYet ==
  /\ AtPhase("Install") /\ ~cfg.adb /\ phase' = "Patch"
  /\ UNCHANGED <<cached, tablet, cfg, work, cleared>> /\ Settled /\ Careful

\* The image dumped from the device, patched and written back.  A backend knows its
\* own patch and no other's, and refuses where a payload file is missing.
Patches(family, known, files) ==
  /\ AtPhase("Patch") /\ Family(cfg.provider) = family
  /\ UNCHANGED <<cached, cleared>> /\ Settled /\ Careful
  /\ IF known \/ \E f \in files : work[f] = None THEN Refuses
     ELSE /\ tablet' = [tablet EXCEPT !.patches = @ \cup {family},
                                       !.boot = {work[f] : f \in files}]
          /\ phase' = "Booted" /\ UNCHANGED <<cfg, work>>

\* magiskboot's cpio test tells a ramdisk that Magisk has patched.
PatchMagisk == Patches("Magisk", "Magisk" \in tablet.patches, {"magiskinit"})
\* Only a patched ramdisk has an init.real.
PatchKsu == Patches("KernelSU", "KernelSU" \in tablet.patches, {"kernelsu.ko", "init"})
\* kptools' preset is found in the kernel, or the kernel says that it has no KALLSYMS.
PatchApatch ==
  \E kallsyms \in BOOLEAN : Patches("APatch", "APatch" \in tablet.patches \/ ~kallsyms, {"kpimg"})
\* Nothing is fetched: the kernel's own code is hooked where its symbols are found.
PatchSkroot == \E found \in BOOLEAN : Patches("Skroot", ~found, {})

InstallAfterBoot == AtPhase("Booted") /\ ~cfg.placed /\ ~cfg.adb /\ Installs("Done")
NothingToInstall ==
  /\ AtPhase("Booted") /\ (cfg.placed \/ cfg.adb) /\ phase' = "Done"
  /\ UNCHANGED <<cached, tablet, cfg, work, cleared>> /\ Settled /\ Careful

\* The workspace is removed, unless it holds the only copy of the manager.
RootEnds ==
  /\ AtPhase("Done") /\ phase' = "Idle" /\ cfg' = NoConfig
  /\ \/ Clears
     \/ ~cfg.placed /\ UNCHANGED <<work, cleared>> /\ Careful
  /\ UNCHANGED <<cached, tablet>> /\ Settled

-----------------------------------------------------------------------------
PayloadInit ==
  /\ latest = [c \in Channels |-> 1]
  /\ cached = [p \in Providers |-> [c \in Channels |-> 0]]
  /\ \E k \in Kernels : tablet = Stock(k)
  /\ cfg = NoConfig /\ work = Empty /\ phase = "Idle" /\ cleared = TRUE
  /\ rootRuns = 0 /\ news = 0 /\ mishaps = 0

RootRun ==
  \/ RootBegins \/ ensure_nightly_run_id \/ stage_root_manager_apk \/ MagiskPayload \/ NoPayload
  \/ KsuModule \/ KsuInit \/ InstallBeforeEdl \/ NoAdbYet
  \/ PatchMagisk \/ PatchKsu \/ PatchApatch \/ PatchSkroot \/ InstallAfterBoot \/ NothingToInstall \/ RootEnds \/ RootFails

PayloadNext == RootRun \/ CacheExpires \/ Publish
PayloadSpec == PayloadInit /\ [][PayloadNext]_payloadVars

-----------------------------------------------------------------------------
(* Properties.                                                             *)

\* root_worker, "every fetch in this Phase 2 pulls from the same upstream build":
\* the manager a run installed is of the build it patched into the device, where
\* two answers of GitHub may lie between them (a stable KernelSU) at least not newer.
OneBuildOnTheDevice ==
  \A piece \in tablet.boot :
    /\ piece.by = tablet.manager.by /\ piece.channel = tablet.manager.channel
    /\ IF Family(piece.by) = "KernelSU" /\ piece.channel = "Stable"
       THEN tablet.manager.build <= piece.build
       ELSE tablet.manager.build = piece.build

\* A module that a release lists; its architecture is nobody's question.
FromARelease(piece) ==
  /\ piece.name.role = "Ko" /\ piece.channel = "Stable"
  /\ \E i \in DOMAIN Assets[piece.build] : Assets[piece.build][i] = piece.name

\* branch_rejected, "an LKM built for the wrong one loads and then leaves no root": a
\* module is of the kernel version of the run and, where ADB gave the branch, for the
\* device's kernel, and without ADB never the android13 one for 5.10; what is of a
\* workflow run is not for x86 (select_ksu_release_ko_asset does not ask), and it is
\* genuine where GitHub has a digest.
ModuleFitsTheKernel ==
  \A piece \in tablet.boot :
    /\ piece.name.arch = "X86" => FromARelease(piece)
    /\ Accepted(piece.name, piece.genuine)
    /\ piece.name.role = "Ko" =>
         /\ piece.name.kver = cfg.kver
         /\ IF cfg.branch # NoBranch
            THEN [kver |-> piece.name.kver, branch |-> piece.name.branch] = tablet.kernel
            ELSE ~(piece.name.kver = "5.10" /\ piece.name.branch = "android13")

\* A run that ends, having begun with an empty workspace, leaves pieces on the device
\* that belong together and fit it.
PiecesBelongTogether ==
  AtPhase("Done") /\ cleared => /\ cfg.placed /\ cfg.provider # "Skroot" => OneBuildOnTheDevice
                          /\ ModuleFitsTheKernel
=============================================================================
