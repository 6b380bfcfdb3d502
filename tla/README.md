# LTBox: TLA+ models of boot-vbmeta-patcher

LTBox is a desktop program (Rust, iced) that roots, unroots, flashes and repairs
Lenovo tablets over ADB, fastboot and Qualcomm's EDL mode. It rewrites the images a
bootloader verifies, so most of what can go wrong in it goes wrong *between two
steps*: a write breaks off and the device is reset with half of a pair; a retry
measures what the first attempt left behind; a click is queued behind a device poll and
acts when another workflow owns the cable; a file dialog answers when its page is gone;
the program replaces its own executable and is killed halfway. Unit tests in the
repository cover decisions, one at a time. The modules here cover the orders in which
steps, failures, users and processes meet.

Paths below are relative to `src/crates/`, and `gui/` stands for `ltbox-gui/src/`,
`device/` for `ltbox-device/src/`, `patch/` for `ltbox-patch/src/`, `core/` for
`ltbox-core/src/`.

- [Running the checks](#running-the-checks)
- [The system](#the-system): the inventory of components
- [Modules](#modules): what models what, and how it corresponds to the code
- [Runs](#runs): what is checked, with which bounds, fairness, and the result
- [Where code and comments disagree](#where-code-and-comments-disagree)
- [Proofs](#proofs)
- [What is left out](#what-is-left-out)
- [Plan](#plan)

## Running the checks

In this directory:

    tlc -workers 2 -config MCProgram.cfg MCProgram.tla     # one run, see the table
    tlapm ProgramProofs.tla                                # the proofs of one module

`PROJECT.json` lists components, runs, the mutants that show each property can fail,
the source lines of every definition, hazards and theorems. A definition whose comment
begins with "Fault:" is such a mutant: the same operator with a plausible bug. No
behaviour of a specification uses it.

## The system

### Components, their state and operations

| Component | Code | State it keeps | Operations | Models |
|---|---|---|---|---|
| Input gate | `gui/update/mod.rs`, `device_poll_gate.rs`, `self_update_gate.rs`, `operation_execution.rs`, `software_fix.rs`, `update/settings.rs`, `update/window.rs` | the reservation (`operation.active`, `generation`), device leases (`poll_in_flight`, `adb_server_kill_in_flight`, `software_fix.closing`), the queue `poll_deferred`, `direct_update`, driver and clean-up flags | `App::update`: drop, defer, handle or replay a message; start and finish operations, polls, kills, closes, installs, clean-ups, updates; close the window | `DispatchGate`, `DeviceLease` |
| Self-update | `gui/self_update.rs`, `gui/main.rs` | the executable, its siblings (`.ltbox-new-*`, `.ltbox-old-*`, `.ltbox-failed-*`), the single-instance lock | download, verify, swap, roll back, restart, clean up | `SelfUpdate`, its dialog in `DispatchGate` |
| Device polling and lookups | `gui/device_queries.rs`, `device_snapshot.rs`, `gui/update/mod.rs`, `device/controller.rs` | last snapshot, request tokens, popups, the OTA cache | poll, apply a snapshot, look up OTA, region, info | `DeviceSession`; when a poll may run: `DispatchGate` |
| EDL sessions | `device/edl.rs`, `device/edl/partition_flash.rs`, `gui/workers/edl_transition.rs`, vendored `qdl` | a port, an open Firehose session | route into EDL, watch the port, open, dump, write, erase, reset | `EdlEntry`, `Transfers`, `Firmware` |
| Partition and whole-disk transfers | `gui/workers/transfer.rs`, `gui/update/advanced.rs` | the table scanned in a paused session, rows with images and marks | scan, sort, pick, dump and flash partitions and disks | `Transfers`, `StorageWizards` |
| KonaBess flow | `gui/update/konabess.rs`, `gui/workers/konabess.rs`, `gui/model/wizard.rs` | wizard step, prepared workspace, target and popup; scratch files `work/konabess`; `backup/konabess`; the device paused in EDL | inspect, pick, edit, flash, back, dismiss, cancel, navigate | `KonaBess` |
| GPU table patcher | `patch/konabess/` | the table being edited, its texts | parse, validate, normalise, edit, import, export, splice, rebuild | `Fdt`, `VendorBoot`, `GpuTable` |
| Full firmware flash | `gui/workers/flash/`, `gui/arb_overlay.rs`, `patch/rollback.rs` | one run's floors, plan, staged files | probe, measure, plan, stage, write, activate, reset | `FlashPipeline` |
| Simple flash, country change, ARB detection | `gui/workers/flash/mod.rs`, `full.rs`, `gui/workers/advanced.rs`, `country.rs`, `gui/arb.rs` | the firmware folder, `backup/country` | decrypt, unpack, choose rawprograms, write node by node; dump, back up, patch, write; detect | `Firmware`, `CountryChange`, `AdvancedTools` |
| Root, unroot | `gui/workers/root.rs`, `unroot.rs`, `root_backup.rs`, `patch/root_pipeline/`, `gui/backup.rs` | `backup/root`, a run's dumps and artifacts | fetch, dump, back up, patch, rebuild vbmeta, write; compare a folder with the device, lift its index, restore | `RootUnroot`, `RootPayload` |
| Boot rescue, update switch | `gui/workers/sysupdate.rs`, `gui/update/sys.rs` | a run's dumps | convert vendor_boot's region; switch system updates over ADB | rescue in `RootUnroot` |
| Wizards and pickers | `gui/update/`, `gui/model/wizard.rs`, `gui/view/`, `gui/pickers.rs` | answers, pages, `picker_target`, jobs under way | next, back, pick, edit, start | `FlashWizard`, `StorageWizards`, `AdvancedTools`, `SetupWizards` |
| Image tools | `patch/avb.rs`, `boot.rs`, `region.rs`, `key_map.rs`, `rollback.rs` | none (pure) | parse, patch, re-sign, rebuild | decisions in `FlashPipeline`, `CountryChange`, `VendorBoot`, `AdvancedTools` |
| USB drivers and udev rules | `device/driver/`, `gui/update/mod.rs` | the installed package, the mode, the answers of checks | check, install, switch the mode | `Drivers` |
| Working files, backups, settings | `core/app_paths.rs`, `gui/backup.rs`, `gui/settings_store.rs`, `device/adb.rs` | the data directory, the settings file, the ADB key | migrate, save, publish a key, sweep | `AppFiles`, sweeps in `KonaBess` |
| Root patchers | `patch/ksu.rs`, `magisk.rs`, `apatch.rs`, `skroot/` | none (pure) | rewrite ramdisks and kernels | what they are given: `RootPayload` |
| Downloads, Lenovo services | `core/downloader.rs`, `github.rs`, `lenovo_*.rs` | partial files, caches | fetch, verify | `RootPayload`, `SelfUpdate`, `Drivers`; answers in `DeviceSession` |
| ADB, fastboot, Software Fix | `device/adb.rs`, `fastboot.rs`, `software_fix.rs` | none of their own | ask the device; find and end processes | as inputs; the close in `DispatchGate` |
| Progress, views, translations, packaging, demo | `gui/operation_phase.rs`, `gui/view/`, `core/i18n.rs`, `packaging/` | presentation | | page lists and banners only |

### How they interact

One UI thread runs `App::update`, one message at a time. Anything slow is a worker on a
blocking thread (`tokio::task::spawn_blocking`) whose completion is a message again,
delivered in any order relative to the user's. A workflow's worker talks to the device
through `device/` and to files through `core/`, then reports once. There are no shared
data structures between worker and UI beyond arguments and result; what they *do*
share is the device, the directories under the application's home, and, for
self-updates, the install directory with other processes. So the models fall into
three sorts: the gate, which decides who may use the device when; one model per worker,
which takes the device, the files and the user as its environment; and one model per
wizard, which takes the dialogs and background jobs as its environment and says what a
worker is started with.

### What is hard

- **Interleaving**: input against worker completions, polls, dialogs and replays
  (`gui/update/mod.rs:66-146`); several processes in one install directory; two threads
  that want one ADB key.
- **Partial failure**: every EDL write may break off and leave a torn image; the
  worker must not reset a device whose images do not verify together.
- **Stale state**: floors, slots and bootloaders are measured before the writes that
  use them; a wizard keeps an inspection while other workflows change the device; a
  popup waits for a device that was unplugged; a backup holds the vbmeta of the day it
  was made.
- **Unreliable delivery**: a Firehose reply that comes late is taken for the next one.
- **Sequences of legal runs**: retry after failure, root after root, rescue between
  root and unroot, a tool whose output folder is the next one's source.
- **Numeric edges**: rollback indices compared with floors in four modes; a table that
  outgrows its section.
- **Crash**: a self-updating process killed between two renames, a migration or a
  settings file cut off.

`PROJECT.json` lists the hazards one by one at their lines, with the properties that
would catch them, and the few that no property covers with the reason.

### What makes each component correct

- *Gate*: one holder of the device at a time (an operation may join a driver install);
  no message stranded in the queue; no handler reaches the assertion in
  `OperationExecution::start`; every operation ends.
- *Self-update*: a whole program remains; reports are true; an update that restarts leaves an
  instance running.
- *Device and popups*: no session on the handle of a port that is gone; what is shown
  belongs to the device connected; nothing loads for ever.
- *Transfers*: what is reported as written or dumped is; a failure that claims to have
  left the device alone has.
- *KonaBess*: the stock pair stays recoverable; success means a whole pair; no reset
  over a half pair; what is flashed is what was shown, and nothing else changes.
- *Full flash*: what finishes boots (chain of trust, committed floors); what fails after
  a write stays in EDL with its bootloader restored.
- *Simple flash, country*: success means every named image, whole; guarded partitions
  are untouched; the country partitions can be put back.
- *Root, unroot, rescue*: the stock image stays recoverable through retries; vbmeta
  follows the image it hashes; nothing below the floor; no reset over a half-written
  set; the pieces of a root come from one release and fit the kernel.
- *Wizards*: a run starts with answers that belong together and on what was inspected;
  the page's name is the page's.
- *Host*: a driver reported as installed is; what is kept for the user survives failures
  and kills, as far as it can be read.

## Modules

All state is in plain TLA+. A message, an image, a file or a package is named by what
the properties tell apart: a class of messages, the build and the run that wrote an
image, the key that signed it, its rollback index, and whether a write tore it. The
MC modules give values to the constants; those that run several modules
(`MCProgram`, `MCDevice`, `MCTables`, `MCHost`, `MCWizards`) let a behaviour stay within
one of them, because the program does: a worker keeps polls away, one wizard is open at
a time. The part at rest has one state, so the union adds no interleavings.

### The program: `DispatchGate`, `DeviceLease`, `SelfUpdate`

`DispatchGate` translates `App::update` and `dispatch_message` as far as they decide
who acts. A message is one of fourteen classes with the same effect on the gate (for
instance `ExecStart` stands for the start messages of all wizards). The pieces:

- `blocks_message`, `defers_message`, `Dropped`, `Deferred`, `Handled` are the
  dispatcher's tests in their order (`gui/update/mod.rs:95-119`).
- One operator per handler (`KillAdbServer`, `InstallSelfUpdate`, `PollDevice`, ...).
  A handler is used twice: by `Receive`, for a fresh message, and by `Drain`, for one
  taken from the queue. `Drain` is one turn of the loop in
  `resume_after_device_poll`. While `draining` holds, the UI thread is inside that
  call, so nothing else is delivered. A replayed message goes through the dispatcher
  again: it may be dropped, and it may close the gate, which ends the loop.
- One operator per completion, which looks for its worker in `workers`. Operations
  carry ids; `OperationEvent` drops the event of an operation that is over. The
  kernel-version probe may hand its reservation over within one dispatch
  (`RootKernelVersionProbeDone`).
- `start` is `OperationExecution::start` with its assertion: it fires as
  `process = "Panicked"`.

`DeviceLease` is what the gate promises, without queue, ids or messages: six clients,
of which one at a time holds the device; work never starts over another holder, apart
from an operation that joins a driver install. `Holders` maps the flags of the code to
it; `LeaseSpec` (`Lease!Spec`) is checked as a property and proved.

`SelfUpdate`: several processes in one install directory. Files are `Old`, `New`, `Bad` or
`Torn`; each rename, copy and removal succeeds, fails, or (a copy) breaks off. `Swap`,
`Place`, `Restore`, `CopyBack`, `Retain`, `Roll`, ... are the branches of
`gui/self_update.rs:480-760` with their fall-backs, for both ways a platform swaps
(`AtomicFile`: rename over; `MoveAside`: move aside, then place). A process takes the
single-instance lock, cleans up copies, may begin an update, spawns a child and
exits, or is killed at any point.

### The cable: `EdlEntry`, `DeviceSession`, `Transfers`

`EdlEntry` takes the device into EDL by the route the last poll suggests (`ensure_edl`) and
watches the enumerated port (`wait_for_stable_port_with`) in ticks of
`EDL_STABILITY_INTERVAL`; the old handle may stay listed for `MaxLag` ticks. `Transfers`
extends it with the session itself: commands and replies one by one over a channel
without message numbers, the GPT scan, the bounce, the four workers. `DeviceSession` has
polls, what a snapshot carries over or resets, the lookups with their tokens, popups,
cache and region probe, while devices are swapped.

### The workers: `KonaBess`, `FlashPipeline`, `Firmware`, `CountryChange`, `RootUnroot`, `RootPayload`

`KonaBess`: wizard, three workers, scratch directory, backups and device together. `pc`
walks each worker's stages (`TransitionToEdl`, `DumpPair`, `ExploitGate`, `Provision`,
`PersistBackup`, ... as in `gui/workers/konabess.rs`); each stage succeeds or fails,
and a failing write leaves the old, the new or a torn image. `Navigate`, `Back`,
`TargetDismiss` and `StartOver` act between any two stages. `OtherWorkflow` stands
for anything else the program may run in between on the same device, `UserReboots` for
the user's hand, `CleanupTempFiles` for the sweep of the work directory. Two routes: on
"Avb" vendor_boot and vbmeta are a pair, on "Gbl" the GBL on efisp verifies and only
vendor_boot is written.

`Fdt`, `VendorBoot` and `GpuTable` are the table behind it: device-tree tokens, one cell per
token; the sections of vendor_boot with the authenticated payload behind them; the
editor, whose texts are kept by position apart from the table. The recursive parsers
are RECURSIVE operators, so these three are outside the prover's reach.

`FlashPipeline`: `flash_worker` from its argument checks to the reset, fifteen stages in
program order, on four kinds of device (`Generic` with key-chained images, `Canoe` whose
abl loads efisp, `Xiaoxin` with its own key policy, `Unprotected`). The run's arguments
(rollback mode, package key and indices, region conversion, user abl, wipe, refusing
efisp) are chosen at `StartRun`, and every stage has its failing disjunct. Rollback
floors are modelled in full: the fastboot probe that hides low indices (`Stocks`), the
indices measured in EDL, the four modes, overlays re-signed with the testkey. The boot
chain (`ChainHolds`, `BootUp`, `MeetsFloors`) is external: it starts images whose root its
bootloader trusts and whose indices are not below the committed floors, and commits
them. `Faults` allows a silent fastboot and dumps that fail.

`Firmware` has the folder that `FlashPipeline` takes as given (its packs, compressed images,
XML variants) and the node-by-node write under the simple, keep and wipe policies. A node is
known by its place: the rank of its XML file and its number in it.
`CountryChange` adds the country partitions: dump, save, scan, patch, write, with the
program killed at any point and the folder, the device and the backups left to the next
run.

`RootUnroot`: `root_worker`, `unroot_worker` and the rescue branch of `sysupdate_worker`
over one slot. They share the phases `EnterEdl`, `WriteNext` (a list of writes, each of
which may break off) and `Reset`, and differ in what comes before: root dumps, backs up
into a fresh folder, patches and rebuilds vbmeta; unroot compares the image of a folder
with the device's and restores it as it is or at the device's rollback index
(`Agrees`, `RestorePatched`: `unroot_prep` and `verify_against_device`); rescue converts
vendor_boot. The folder of an unroot is any backup, whole or cut off by a failed copy,
or the images of a firmware package. Three kinds of device differ in what vbmeta hashes
(`Hashed`). Between runs the device is power-cycled, boots and commits its index, or
gets other firmware. `RootPayload` is what a root run fetches first: releases and workflow
runs that change while it downloads, cached answers, digests, leftovers in the
workspace.

### The wizards: `FlashWizard`, `StorageWizards`, `AdvancedTools`, `SetupWizards`

Pages as the page lists of the model give them, native dialogs that reply whenever
the user answers them (through one `picker_target` for all), background jobs, clicks on
Next that a poll puts off, sidebar bounces, and the runs they start. `FlashWizard` extends
`DeviceSession` (whose device it flashes); `StorageWizards` has the partition tables
with their sorting and marks; `AdvancedTools` runs its tools on real folders (what each
copies, patches, signs or leaves behind) and the detection of anti-rollback;
`SetupWizards` numbers its pages three times, as `active_steps`, `display_step` and the
view do.

### The host: `Drivers`, `AppFiles`

`Drivers`: checks that read the mode when they run and answer late, three systems with
their installations, an update that is dismissed. `AppFiles`: the migration of an older
version's data, the settings with their recent files, the ADB key that several threads
may ask for at once; each file operation may fail and the program may be killed between
any two.

## Runs

| Run | Module | Distinct states | Result |
|---|---|---|---|
| `program` | `MCProgram` (`DispatchGate`, `SelfUpdate`) | 460 thousand | `OneDeviceHolder`, `NoStrandedInput`, `NeverPanics`, the refinement `LeaseSpec`, `OperationEnds`; `AProgramSurvives`, `ReportIsTrue`, `RestartLeavesAnInstance` |
| `device` | `MCDevice` (`EdlEntry`, `DeviceSession`, `KonaBess`) | 608 thousand | `NeverOpensAGhost`, `EntryEnds`; `ViewsAreOfTheDevice`, `WaitsHaveAWorker`, `LoadingEnds`; `StockIsNeverLost`, `SuccessMeansWholePair`, `FlashNeverResetsHalfPair` |
| `tables` | `MCTables` (`Transfers`, `GpuTable`) | 2.2 million | `OkMeansDone`, `UnmarkedMeansUntouched`; `WrittenIsShown`, `OnlyTheTableChanges` |
| `flash` | `FlashPipeline` | 1.3 million | `FinishedBoots`, `FailedFlashStaysInEdl`, `BootloaderIsRestored` |
| `country` | `MCCountryChange` (`Firmware`, `CountryChange`) | 5.5 million | `OkMeansFlashed`, `GuardedStaysUntouched`; `StockIsRecoverable`, `OkMeansCountry` |
| `host` | `MCHost` (`Drivers`, `RootPayload`, `RootUnroot`, `AppFiles`) | 4.9 million | `SuccessIsInstalled`; `PiecesBelongTogether`; `StockIsRecoverable`, `FinishedPairsInSync`, `NeverBelowFloor`, `ResetOnlyWhole`; `KeptUnlessUnreadable` |
| `flash_wizard` | `FlashWizard` | 3.5 million | `StartsOnWhatWasChecked`, `ProgressPageMeansRun` |
| `wizards` | `MCWizards` (`StorageWizards`, `AdvancedTools`, `SetupWizards`) | 2.1 million | `BounceKeepsPlace`; `OkMeansBuilt`; `BarNamesThePage`, `OrdersAreWhole` |
| `update_cleanup`, `flash_retry`, `flash_rows`, `driver_mode` | `SelfUpdate`, `FlashPipeline`, `StorageWizards`, `MCDrivers` | | each finds the counterexample described [below](#where-code-and-comments-disagree) |

**Bounds, and why they are enough.**

- `program`: two operations the user may start (a third can follow inside a replay and by
  hand-over), two polls (an old and a new one, for their order), two queued messages (a
  replayed one that closes the gate with one left behind it): every pair of holders with
  input queued behind either. On disk two processes, two attempts and one kill on both
  kinds of platform: one kill at every point covers each single crash, the second
  attempt starts from whatever the first left, and the other process may be launched at any
  step of an update, before its renames or between them.
- `device`: two port names, a device that comes, goes and moves twice, a ghost that lasts
  two ticks against an observation window of three (the code's proportions, see
  `EntryAssumption`). Two devices, three lookups and three cable moves, so that a reply
  may be one device and one token late.
  Of the KonaBess flow two flashes and four operations, so a failed flash is followed by
  a whole inspection and another flash, or by other workflows on both sides; two reboots,
  one away and one back.
- `tables`: two LUNs of one partition each, so a run can stop between two; two faults,
  so a late reply meets a refusal; two jobs, so the second inherits what the first left
  on the wire and on the disk. Of the GPU table, five layouts of vendor_boot (two trees,
  duplicate frequencies, a full partition, a bootconfig), three edits and two flashes.
- `flash`: one run of the worker, all families, modes and options. Indices 1..2 give
  each comparison of image, floor and target its three outcomes. It starts on slot b,
  which is the harder case (the flash writes the other slot); `flash_retry` has both
  slots and two runs.
- `country`: two runs, one fault or kill in either; six folders (sealed, ported, with a
  missing split piece, with the variants that write persist only, odd nodes, without a
  loader); three layouts of the country partitions; a picked country that no scan knows.
- `host`: four device runs: a root, a failed retry, a rescue or new firmware, and an
  unroot. Two builds and two indices make "same build, other index" and "other build"
  both happen, and firmware flashed in between may have either index, also one below the
  floor. This bound shaped the properties: a root of an already torn image backs
  up a torn image, so `StockIsRecoverable` asks for a whole backup only under a whole
  image. Drivers: three systems, four installations, one mode switch under one install.
  Payload: five providers, two releases and one publication, two runs. Files: one
  migration with two old entries, two threads that ask for the key, three recent files of
  which two are kept, two failures and one kill: a start that cannot read its settings, the
  save of its defaults and a start after it; a key that one thread served cannot be read
  by another, whose replacement fails.
- `flash_wizard`: two folders (one signed for the device and without a loader, one that
  needs efisp), two bootloaders, one dialog and two jobs under way, one queued click, and
  two runs, so a dialog or an inspection of the first walk may answer in the second. To
  leave room for the second walk the settings name a loader, and one device region, target
  and data mode can be picked, of which the confirm page edits the data mode. With no
  loader in the settings TLC was run to the end over one run.
- `wizards`: one or two of each: rows, dialogs, tool runs, orders, asked probes; two
  loaders of two models; three sources for a tool, one of which is another tool's output.

`CHECK_DEADLOCK FALSE` is set where the system really stops: an exited process, an
exhausted bound on runs, a finished wizard.

**Fairness.** `program` assumes weak fairness of the replay loop (it is one call on the UI
thread), of the completions of poll, kill and close, of operation events, of the exit
timer, and of each updating process's own work. The code justifies it: each worker is a
blocking task that returns or panics, a panic of the task is turned into its error
message (`unwrap_or_else(|_| Err(...))` after `spawn_blocking`), iced delivers the message,
and the timer re-arms itself. `RestartLeavesAnInstance` claims nothing of behaviours in
which a process is killed (`stops`). A child that gives up after its deadline is turned
away by whoever holds the lock, and the property has to find that holder; it never gives up while
its parent still holds the lock, as the parent exits long before that deadline (15 seconds,
`gui/main.rs:279`).
`device` assumes it of the entering worker's own steps, of the ghost's disappearance and
of each lookup's reply (each request has a timeout). No fairness is assumed of the user,
and none of the device: `EntryEnds` holds because every wait has a deadline.

**What the properties say** stands in the comment before each of them. Some words on
their exclusions: `FinishedBoots` excludes a testkey canoe package flashed without a GBL at
the user's wish, as which key that abl trusts the worker cannot know, and a device silent
in fastboot is measured on slot `_a`. `OkMeansCountry` promises that no other code is left
only where each partition had one code and no write broke off. `PiecesBelongTogether`
speaks of runs that began in an empty workspace. Others name in their formula what the code
gives up, each in a history variable, so that the rest is still claimed of every
behaviour: `AProgramSurvives` a lock that was taken while no program was installed
(`late`); `KeptUnlessUnreadable` settings that a start could not read and then
saved as defaults (`defaults`), and a served ADB key that is being replaced or whose
replacement failed (`unkeyed`); `StartsOnWhatWasChecked` the rows of the confirm page, once
a finished run has cleared them or a late folder reply has skipped the pages before it
(`astray`). `NeverBelowFloor` speaks of the steps of root, unroot and rescue: firmware flashed
in between may lie below the committed floor itself, as `flash_retry` shows.
`BootloaderIsRestored` excepts a failing write of the bootloader itself; that is the
outcome `ErrNoAbl` of the model, while `restore_abl_best_effort` drops the result
(`gui/workers/flash/mod.rs:454-473`) and the first error is what the user sees.
`FlashNeverResetsHalfPair` speaks of a flash that has written itself.
Every module also has a type predicate;
those of the proved modules are part of their inductive invariants.

## Where code and comments disagree

Four runs each check one sentence of the repository and find a behaviour of the code
that contradicts it.

- **`update_cleanup`** (`CopyOutlivesTheSwap`). Copies of the program are deleted by whoever
  holds the lock, and a comment says that the new executable has then proved that it can
  start (`gui/self_update.rs:801-803`). A launch that reached the lock before the updater
  moved the program aside gets it when the updater is killed between its two renames: it
  is the old program, nothing is installed, and it deletes the only copy.
- **`flash_retry`** (`FloorsAreCommitted`). The rollback floor is the larger of the indices
  found on the two slots, which a comment calls the device's true committed floor
  (`gui/workers/flash/mod.rs:363`). After a flash that broke off, slot `_a` holds what that
  flash wrote, and the retry from EDL measures these, lower, indices.
- **`flash_rows`** (`ImageGoesToItsRow`). The reply of a row's file dialog is put at the
  place the row had when the dialog was opened (`gui/update/advanced.rs:370`). Sorting the
  table meanwhile attaches the image to another partition and marks that for flashing.
- **`driver_mode`** (`BannerIsOfTheMode`). The answer of a driver check carries no token
  (`gui/update/mod.rs:1024`). The check of the mode that was left may answer after the one
  of the mode that is selected, and its banner stays.

Noted while modelling, without a run of their own. They are listed because a reader of
the code may take the comment or the page for what happens.

*KonaBess.* Leaving the view during the pause in EDL discards a prepared table
(`gui/main.rs:2616`), as nothing polls while it is prepared. "Never reset"
(`gui/workers/konabess.rs:568`) is kept by each worker for its own writes: after a
half-written flash a second inspection that fails resets the device (`:334`). The sweep of
temporary files may delete `work/konabess` under a prepared inspection; the flash that
follows fails before its first write. On the GBL route the rebuilt file has no footer, so
growth past the original size may overwrite the old vbmeta, and a second build is refused.

*Full flash.* With a silent fastboot the overlay's floors are read from slot `_a`
(`gui/main.rs:1496`, against `gui/arb_overlay.rs:525`). A dump that fails on one slot is
skipped (`gui/workers/flash/mod.rs:395`). A second flash after one that could not restore
the bootloader saves the wrong one (`:436`). A torn efisp is not empty, so it is taken for
provisioned (`gui/arb_overlay.rs:160`). `<erase>` nodes run in keep mode whatever their
label is (the comment near `device/edl.rs:1957` says otherwise); a missing image that is
not part of a split one is skipped with a warning, and success is reported.

*Country.* The picker offers 89 codes, the scan knows 41 (`patch/region.rs:388-392`): a
device set to one of the others cannot be changed again. A persist without a known code
counts as handled.

*Root and unroot.* Backups of GBL devices are said to hold no AVB metadata
(`gui/workers/unroot.rs:146`), but `root.rs:394-408` demands a fingerprint of every dumped
image; an old backup is restored there unchecked though it could be compared. A backup
whose vbmeta copy failed looks like one that needs none (`unroot.rs:40`). "Device and
backup agree" compares the root image alone: after a rescue converted vendor_boot, the
as-is restore takes back the vbmeta of before (`unroot.rs:322`). A firmware folder holds
boot and init_boot; unrooting an LKM root from it restores boot and leaves the rooted
init_boot. A second root backs up the rooted image under the name of the stock one.
`err_root_partial_write_recovery` sends the user from EDL to unroot, which asks for the
active slot over ADB or fastboot first. Leftovers of a root's workspace are reused, as its
removal may fail (`gui/workers/root.rs:160`), though the pipeline's configuration says
"Cleaned on entry."; a KernelSU release module is chosen without its architecture; the
apk chooser takes the last of the best where its comment says the first.

*Self-update and files.* A candidate left by a killed process is never cleaned up.
Settings that cannot be read for a moment become defaults, and the next save writes them.
The fold of the old recent-files list reverses it and keeps three
(`gui/settings_store.rs:231-233` says no history is lost). A kill during the copying
fall-back of the migration leaves a partial file that later starts keep, with the whole
one at its old place. An ADB key that cannot be read is removed as corrupt, and the time
between check and rename lets one thread clobber a key another has published (against
`device/adb.rs` near 628).

*Wizards.* A click on Next that was queued behind a poll is replayed without
`can_next` (`gui/update/device_poll_gate.rs:58`): a storage wizard starts its write without
the confirm page, the root wizard with a default loader starts its run. A late reply of the
folder dialog jumps to the folder page, back with the answers of a later one or forward
past pages that were not answered (`gui/main.rs:2759-2762`). A flash that ended well
returns `wf_config` to its defaults and `confirm_baseline` to none
(`gui/update/flash.rs:426`) but leaves the wizard on its last page. A dialog left open since
before it may then answer, which keeps the page (`gui/main.rs:2738`), and the inspection of
its folder may add a bootloader page: the last page but one is the confirm page, and Next
starts a second run with the default configuration. All pickers share one `picker_target`. Early returns of
the exec-start handlers leave the exec page open without an operation, where the update
switch reads "Done" (`gui/view/sysupdate.rs:264`). A late dump-folder reply after Close
starts a dump with no loader and no rows (`gui/update/advanced.rs:303`). A loader
picked for one model is not checked again for another (`gui/main.rs:2941`).

*Device.* A fastboot poll without values keeps the former device's floors and identity
(`gui/device_snapshot.rs:106`). After a failed transfer the device stays in Firehose,
so the open of a retry fails though it is "left in EDL for retry"
(`gui/workers/transfer.rs:292`).

*Tools.* The ARB detection takes any stored index for anti-rollback, unlike step 2 of its
doc (`gui/arb.rs:49-51`), and its error paths leave the device in fastboot or EDL against
step 5. `outputs/region_convert` is one directory for the tool and the full flash.
Patching an image onto itself truncates it; failing after boot leaves a mixed
pair. On Linux, `device/driver/linux.rs` means to confirm that the rules landed, but
re-reads the mode it checks for.

## Proofs

Eight modules hold 49 listed theorems. TLC checks a property on the small instance above; a
theorem states it for every value of the constants, under the `ASSUME` of its module,
which the runs evaluate.

| Module | Theorems | What they say |
|---|---|---|
| `ProgramProofs`, the gate | `Invariance`, `TypeCorrectness`, `Exclusive`, `InputNotStranded`, `StartNeverPanics`, `UpdateOwnership`, `GateImplementsLease` | the gate's types and safety properties, and that it implements `DeviceLease` |
| `ProgramProofs`, the update | `UpdateInvariance`, `ProgramSurvives`, `ReportsAreTrue` | a whole program or copy remains; reports are true |
| `DeviceProofs` | `EntryKeepsItsTypes`, `NoGhostIsOpened`, `SessionKeepsItsTypes`, `ViewsStayWithTheirDevice`, `WhatWaitsHasAWorker`, `NothingUnannounced`, `OkIsDone` | entering EDL, lookups and popups; a transfer that fails before it announced its writes changed nothing, one that reports success did what its rows asked for |
| `KonaBessProofs` | `FlowInvariance`, `FlowKeepsItsTypes`, `StockSurvives`, `ReportedPairIsWhole`, `HalfPairStaysInEdl` | all safety properties of the flow, one of them of its steps |
| `RootUnrootProofs` | `RootInvariance`, `RootKeepsItsTypes`, `RootsAreRecoverable`, `FinishedRunsLeavePairs`, `FloorIsKept`, `BrokenRunsStayInEdl` | all properties of root, unroot and rescue |
| `FlashPipelineProofs` | `FlowInvariance`, `FlashKeepsItsTypes`, `BrokenFlashesStayInEdl`, `BootloadersReturn`, `FirstFlashBoots` | the flash worker's order for any number of runs; that the first flash boots |
| `CountryChangeProofs` | `CountryInvariance`, `CountryIsRecoverable`, `ReportedCountryIsSet`, `FirmwareInvariance`, `ReportedFlashIsWhole`, `GuardedIsUntouched` | all properties of the country change and of the firmware flash |
| `HostProofs` | `InstalledIsThere`, `PiecesOfOneBuild`, `UserFilesAreKept` | drivers, what a root is made of, working files |
| `WizardProofs` | `SnapshotFollowsTheScan`, `BounceIsHarmless`, `ToolsKeepTheirTypes`, `ToolsBuildWhatTheySay`, `SetupKeepsItsRoute`, `BarIsRight`, `OrdersFollowTheRoute` | the storage wizards' tables, the tools' outputs, the pages and orders of root, unroot and system update |

None of the properties is inductive alone. Each module strengthens what it proves to an
inductive invariant of named parts; the initial states satisfy it, one lemma per action
or class of actions shows that a step keeps it, and the theorems are read off it. Where a
step class leaves a part's variables alone, one frame lemma serves all of them.

**`ProgramProofs`, the gate.** That `start` finds no operation follows from the dispatcher only
for the messages it blocks; `InstallSelfUpdate` and picker replies are not among them,
and a *replayed* message arrives while an earlier one of the same queue may have taken the
reservation. `IInv == Core /\ Queue` adds `Exclusion` (which flags exclude which: a closed
gate means no reservation and no driver install, and `direct_update` moves with the
reservation's kind), `PollOrder` (the poll in flight is the newest), `QueueType` and
`ReplayOpen` (poll requests are never queued; a replay runs only with the gate open and
input left). Fresh and replayed messages share one lemma per handler, under what the
dispatcher grants (`HandledMeans`, `NothingHeld`). The same invariant gives the step
refinement of `DeviceLease`: every step is one holder coming, one going, the window
closing, or a stutter.

**`ProgramProofs`, the update.** The central notion is a *stable copy*: a whole backup that nobody
will move or delete. Who takes the program aside holds the only right to it, because
one process works behind the lock; so a torn or missing program always has a stable copy,
until somebody takes the lock while no program is installed (`late`): he was launched
before, the updater ended between its renames, and he will delete that copy. No
hypothesis excludes such launches; `ProgramSurvives` speaks of what was there before the
first of them, and `ReportsAreTrue` holds with them, too.

**`DeviceProofs`.** Three specifications, three invariants. `EntryInv`: what the worker has
watched is as old as it thinks, hence, as a dead handle is listed for less than the
observation window (`EntryAssumption`), a watched port is alive. The session's: views are
of the device of their token, each wait has its request under way, tokens are unique.
`TransferInv`: while a job has not announced its writes, every cell is as it was, no
writing command is on the wire or in the device's inbox, and the device waits for no
data; a worker has a command out only inside a session.

`OkIsDone` is the largest proof: a reply of the device carries no number, so that a row is
done when its reply says so has to follow from what is on the channel. It stands on four more
layers, each inductive over those before it, for any number of LUNs, wizards, losses and jobs:

- `TransferTypes`: the types of the job, the table and both directions of the channel.
- `LinkInv`: a device that no programmer runs on has been told nothing and waits for no
  data, and so it is when a session is configured: no command of an earlier session can
  be carried out in a later one.
- `ScanInv`: the tables on the wire and the requests in the inbox stay in the order in
  which the LUNs were asked for, above all that was read before. After a lost reply a
  table may be labelled with the wrong LUN, but never two with the same one: rows are
  distinct, and so is what is selected from them. Otherwise a later row could undo an
  earlier one.
- `WorkInv`: unless something went wrong (`Off`), host and device are in step for the row
  at hand (`Turn`: for each stage of its command, what is on the wire, in the inbox and
  written) and the rows before it are done (`Earlier`). Once the last row is through,
  nothing on the channel writes any more (`Still`).

**`KonaBessProofs`.** `FlowInv` follows the images through the worker: from the dump to the
backup an inspection holds what the device holds; whoever may still write follows a
backup that has the stock pair; a flash past a write left its own image there.

`HalfPairStaysInEdl` is about a flash
that has written itself: a later one that fails before its first write, or an inspection,
resets what an earlier one left (see above).

**`RootUnrootProofs`.** `RootInv`: every image that may come to the device, from a dump, an
artifact, a folder or a plan, has its stock in a backup; a plan has one of four shapes,
and carries the vbmeta it owes; what vbmeta agreed with at the start of a run it still
agrees with until the plan reaches it. `FloorIsKept` needs nothing of the firmware that is
flashed in between: a plan's boot image has the index of the one on the device, dumped or
compared, and so has a torn one.

**`FlashPipelineProofs`.** `FlowInv` (types and `Phase`) holds for any runs: the device is in EDL
from the opening of the session to the end, `written` is set exactly in the writing stages,
the region batch never touches the bootloader. `FirstFlashBoots` needs more, the `Promise`: before
the first write, the plan and its overlays turn the firmware into images that are
sound (signed for this device, not below its floors); later, what is left of the batch
does; in the end the slot holds them. It is stated for the first flash of a device that
runs and for `"DumpFails" \notin Faults`. Both hypotheses are needed: with a lost dump, or
after a torn flash, the measured floors may be low or the saved bootloader torn
(`flash_retry`).

**`CountryChangeProofs`.** Each partition is in one of the worker's lists at most; what is staged
is what the partition holds and what a backup keeps; a partition that is done carries
the target. Known codes are a sequence and "no code" is none of them (`CountryAssumption`).
For the flash beside it, `FirmwareInv`: an image is whole or not in the folder; what each
stage found there (the XML files decrypted, the packs unpacked, the selection, the images of
a split super) still holds in the later ones (`Prepared`); nothing is flashed before the wipe
is through, and a node that has left the plan has its image on the device (`Walked`), unless
the folder also has an erase node of its label (`Rubbed`). `ReportedFlashIsWhole` is about every
XML file of the folder, while the code selects one of each family of rawprograms and says
that it supersedes the others (`edl.rs:1945`). So the theorem has the hypothesis
`SelectionIsWhole`: what a file passed over names, a selected one names too.
`MCCountryChange` assumes it of its folders, and TLC evaluates it there.

**`HostProofs`.** Three specifications again. Drivers: what package each stage of an
installation works on, and that a reported success is in place, for releases that
all have a version (without one nothing can be compared with the disk). Files: an entry is
whole at its old or its new place throughout; a thread on its way to a key publishes it
by a rename; the file holds what the last save recorded until defaults of an unreadable
start were saved over it (`UserFilesAreKept`, with the exceptions that
[the property](#runs) names). Payload: in a run that began in an
empty workspace the manager is the run's; a stable KernelSU module is at least as new as
the manager, because answers never grow older; init and boot get what the module's
build ships. `PiecesOfOneBuild` leaves to a module off a
release that it may be for x86, as `select_ksu_release_ko_asset` does not ask
(`patch/ksu.rs:285-300`), and to a run without ADB that only its kernel version is known;
`PayloadAssumption` says nothing of what upstream publishes beyond the shape of the lists.

**`WizardProofs`.** Three specifications. `StorageInv`: as long as the device has not left EDL
since a table was read (`stayed`), the snapshot says EDL and no poll is out that read
something else, because no poll runs beside an operation; so a bounce through the sidebar
still finds a device over EDL and keeps table and page. `BounceKeepsPlace`, a property of
steps, follows from that. `ToolsInv`: what each worker has built by the stage it is in
(`SoFar`), also where the source is another tool's output or lies in the folder that the
run clears. `SetupInv`: which pages a route of the root wizard has and which answers it
needs there (`OnRoute`), that the region of a rescue is its loader's from the moment it was
confirmed (`RegionIsOfLoader`), what waits on which page (`Asked`), and what an order
carries (`OrderOK`). The bar's list is a concatenation of parts that depend on the route;
`BarIsRight` finds the page in it part by part (the `Joins` lemmas), for every provider.

**Only model-checked**, and why:

- All liveness (`OperationEnds`, `RestartLeavesAnInstance`, `EntryEnds`, `LoadingEnds`): the
  prover has no rules for fairness and ENABLED.
- `WrittenIsShown`, `OnlyTheTableChanges` of `GpuTable`: its parsers are RECURSIVE.
- `StartsOnWhatWasChecked`, `ProgressPageMeansRun` of `FlashWizard`: TLC finds no
  counterexample over two runs of the wizard, late replies of the first in the second
  included; a proof for every number of runs is the first item of the [plan](#plan). What
  the former excepts is real: the two ways under *Wizards* [above](#where-code-and-comments-disagree),
  one by the reset at the end of a run, one by the jump of a late folder reply. No comment,
  doc or test speaks of a wizard that is used again without starting over.

## What is left out

- *Bytes*: footers, signatures, ramdisk and kernel patching. Models name an image by what
  its bytes decide. Device-tree tokens and vendor_boot's sections are modelled; the text
  of a frequency and the strings block are not.
- *Protocols*: Sahara, ADB and fastboot framing. `Transfers` has Firehose's commands and
  replies; elsewhere a session opens or not, a read succeeds or not, a write succeeds
  or breaks off.
- *Presentation*: views, translations, logs and progress, apart from page lists, names of
  pages and the driver banner.
- *A second device* takes part only in `DeviceSession`, `FlashWizard` and `EdlEntry`.
  Swapping devices during a pause in EDL is not modelled.
- *Both slots of root and rescue*: `RootUnroot` keeps the active slot; the rescue does the
  same to each slot.
- *Torn images*: a torn vbmeta does not parse; a torn boot image may still be dumped and
  patched, as the code does not check its digest; what a GBL makes of a torn efisp is
  not known here; a torn program bundle does not start.
- *Unsigned vbmeta* (algorithm NONE), and manager packages installed on Android after a root,
  which cannot change the verified images.
- *Dump failures in the run `flash`*: with a slot unread the floor is the other slot's,
  which the code intends; the fault exists in the module.
- *Windows refusing* to delete a running image, and children that give up after 15 seconds:
  counted as failures and as launches that the lock turned away.
- *Folders* are taken to keep their content during one wizard session and run.
- *System update switch*: its `pm` commands' results are not used by the code, and it keeps
  no state; only the rescue beside it is modelled. *macOS* is not modelled for drivers.
- *Packaging and the demo mode*.

## Plan

The modules were written in the order gate, KonaBess, full flash, self-update, root;
then the cable and the transfers, the other workers, the wizards, the host. The proofs
followed what can do most harm: the gate, the program itself, the workers that write,
then the session and the host. What is left, in this order:

1. The two step properties of `FlashWizard`, for any number of runs.
2. Steps of the proved modules beyond what the runs check: that a cached answer is never
   replaced by an older one, that a whole backup is never overwritten.
