----------------------------- MODULE RootUnroot -----------------------------
(***************************************************************************)
(* Rooting, unrooting and boot rescue: three workers of LTBox that replace *)
(* one image of the active slot, and the vbmeta that hashes it.  Root dumps*)
(* and backs up the image before it patches it; unroot writes an image from*)
(* a folder of the user's after comparing it with the device's; rescue     *)
(* converts the region of vendor_boot.  The device may be power-cycled, get*)
(* new firmware and boot in between.                                       *)
(*                                                                         *)
(* An image is named by its build, the run that changed it last (0 for     *)
(* stock) and its rollback index; it may be torn by a write that broke off.*)
(* vbmeta remembers the images it was built for.                           *)
(***************************************************************************)
EXTENDS Naturals, Sequences, Functions

CONSTANTS
  Models,   \* kinds of device, a subset of AllModels
  MaxBuild, \* firmware builds 1..MaxBuild; build b has the rollback index b
  MaxIndex, \* rollback indices, at least MaxBuild
  MaxRuns   \* workers and firmware updates started in a behaviour

\* "TB320FC" hashes boot in vbmeta, "Generic" devices chain it, and "Gbl"
\* devices leave verification to the GBL on efisp.
AllModels == {"TB320FC", "Generic", "Gbl"}

ASSUME RootAssumption ==
  /\ Models \subseteq AllModels
  /\ MaxBuild \in Nat /\ MaxIndex \in Nat /\ MaxBuild <= MaxIndex /\ MaxRuns \in Nat

VARIABLES
  model,
  mode,      \* "Edl", or "Boot" when the device is left to its boot chain
  image,     \* boot, init_boot and vendor_boot of the active slot
  vbmeta,    \* its vbmeta: whole, and the images it covers
  efisp,     \* "empty", "gbl" or "torn"
  committed, \* the rollback floor of boot
  backups,   \* folders under backup/root
  worker,    \* the worker's locals, see Locals
  runs       \* runs started, which also names the images they write

device == <<mode, image, vbmeta, efisp, committed>>
vars   == <<model, device, backups, worker, runs>>

pc     == worker.pc     \* the next phase, "Done" between runs
op     == worker.op     \* "Root", "Unroot" or "Rescue"
target == worker.target \* the partition it replaces
folder == worker.folder \* the folder an unroot restores
held   == worker.held   \* the dumped image and vbmeta, in the work directory
todo   == worker.todo   \* the writes to come

-----------------------------------------------------------------------------
(* Images and vbmeta.                                                      *)

Parts   == {"boot", "init_boot", "vendor_boot"}
Targets == {"boot", "init_boot"}
Image   == [build : 1..MaxBuild, mark : 0..MaxRuns, idx : 0..MaxIndex, whole : BOOLEAN]
Vbmeta  == [whole : BOOLEAN, covers : [Parts -> Image]]

Gbl == model = "Gbl"

\* Only boot has an index that counts here.
Firmware(b, i) ==
  [p \in Parts |-> [build |-> b, mark |-> 0, idx |-> IF p = "boot" THEN i ELSE 0,
                    whole |-> TRUE]]
Covering(images) == [whole |-> TRUE, covers |-> images]

\* What the device's vbmeta hashes; the other images carry their own signature.
Hashed == CASE Gbl -> {}
            [] model = "Generic" -> {"init_boot", "vendor_boot"}
            [] OTHER -> {"boot", "vendor_boot"}

\* The images the vbmeta agrees with.
InSync == {p \in Hashed : vbmeta.whole /\ vbmeta.covers[p] = image[p]}

Boots == /\ \A p \in Parts : image[p].whole
         /\ InSync = Hashed
         /\ Gbl \/ image["boot"].idx >= committed
         /\ (\A p \in Parts : image[p].mark = 0) \/ ~Gbl \/ efisp = "gbl"

\* A write that breaks off: the old image or the new one, torn.
Torn(old, new) == {[old EXCEPT !.whole = FALSE], [new EXCEPT !.whole = FALSE]}

\* rebuild_vbmeta_with_partition_descriptors: the descriptor of one image is
\* refreshed, every other is taken over from the original.
rebuild_vbmeta(original, part, new) == [original EXCEPT !.covers[part] = new]

-----------------------------------------------------------------------------
(* The workers' arguments.                                                 *)

\* resolve_root_image_target, over the routes a model offers.
RootTargets == IF model = "TB320FC" THEN {"boot"} ELSE Targets

\* root_run_rebuilds_vbmeta, on a device whose vbmeta verifies.
RebuildsVbmeta(t) == ~Gbl /\ (t = "init_boot" \/ model = "TB320FC")

\* A folder holds images and perhaps a vbmeta.  Beside the backups the user may
\* pick the images of a firmware package.
NoFolder == [images |-> <<>>, vbmeta |-> {}]
FirmwareFolders ==
  {[images |-> Restrict(Firmware(b, b), RootTargets), vbmeta |-> {Covering(Firmware(b, b))}] :
     b \in 1..MaxBuild}

\* resolve_backup_contents: boot is preferred to init_boot when both are there,
\* and vbmeta is restored when a root of that target would have changed it.
ResolvedTarget(f) == IF "boot" \in DOMAIN f.images THEN "boot" ELSE "init_boot"
RestoredVbmeta(f) == IF RebuildsVbmeta(ResolvedTarget(f)) THEN f.vbmeta ELSE {}

NothingHeld == [image |-> {}, vbmeta |-> {}, provision |-> FALSE]
Locals(at, kind, t, f) ==
  [pc |-> at, op |-> kind, target |-> t, folder |-> f, held |-> NothingHeld, todo |-> <<>>,
   written |-> FALSE, as_is |-> FALSE, before |-> InSync]

Start(at, kind, t, f) ==
  /\ pc = "Done" /\ runs < MaxRuns /\ runs' = runs + 1
  /\ worker' = Locals(at, kind, t, f)
  /\ UNCHANGED <<model, device, backups>>

\* RootExecStart, UnrootStart and SysExecStart.
StartRoot   == \E t \in RootTargets : Start("Slot", "Root", t, NoFolder)
StartUnroot == \E f \in backups \cup FirmwareFolders :
                 f.images # <<>> /\ Start("Slot", "Unroot", ResolvedTarget(f), f)
StartRescue == ~Gbl /\ Start("Enter", "Rescue", "vendor_boot", NoFolder)

-----------------------------------------------------------------------------
(* Phases all three share.                                                 *)

In(kind, at)   == op = kind /\ pc = at /\ UNCHANGED <<model, runs>>
Goto(at)       == worker' = [worker EXCEPT !.pc = at]
Finish         == worker' = Locals("Done", op, target, NoFolder)
Untouched      == UNCHANGED <<image, vbmeta, efisp, committed>>

\* A failure before the first write: root tries to boot the device again, the
\* others return.
Fail == IF op = "Root" THEN Goto("Recover") ELSE Finish

\* poll_active_slot, which a device in EDL cannot answer; then the downloads.
\* Nothing resets the device when either fails.
ResolveSlot ==
  /\ pc = "Slot" /\ UNCHANGED <<model, runs>>
  /\ (mode = "Boot" /\ Goto("Enter")) \/ Finish
  /\ UNCHANGED <<mode, backups>> /\ Untouched

\* transition_to_edl and open_edl_session.
EnterEdl ==
  /\ pc = "Enter" /\ UNCHANGED <<model, runs>>
  /\ \/ mode' = "Edl" /\ Goto("Dump")
     \/ mode' \in {mode, "Edl"} /\ Fail
  /\ UNCHANGED backups /\ Untouched

\* flash_partition, one image of the plan after the other.
WriteNext ==
  /\ pc = "Write" /\ UNCHANGED <<model, runs>> /\ todo # <<>>
  /\ LET part == Head(todo)[1]
         new  == Head(todo)[2]
         rest == Tail(todo)
     IN \/ /\ worker' = [worker EXCEPT !.todo = rest, !.written = TRUE,
                                       !.pc = IF rest = <<>> THEN "Reset" ELSE pc]
           /\ image' = (IF part \in Parts THEN [image EXCEPT ![part] = new] ELSE image)
           /\ vbmeta' = (IF part = "vbmeta" THEN new ELSE vbmeta)
           /\ efisp' = (IF part = "efisp" THEN new ELSE efisp)
        \/ /\ worker' = (IF op = "Root" THEN [worker EXCEPT !.pc = "Recover", !.written = TRUE]
                         ELSE Locals("Done", op, target, NoFolder))
           /\ image' \in {image} \cup (IF part \notin Parts THEN {}
                            ELSE {[image EXCEPT ![part] = i] : i \in Torn(image[part], new)})
           /\ vbmeta' \in {vbmeta, IF part = "vbmeta" THEN [vbmeta EXCEPT !.whole = FALSE]
                                   ELSE vbmeta}
           /\ efisp' \in {efisp, IF part = "efisp" THEN "torn" ELSE efisp}
  /\ UNCHANGED <<mode, committed, backups>>

\* The reset at the end; whether the device takes it is not known.
Reset ==
  /\ pc = "Reset" /\ UNCHANGED <<model, runs>>
  /\ mode' \in {"Edl", "Boot"} /\ Finish
  /\ UNCHANGED backups /\ Untouched

-----------------------------------------------------------------------------
(* root_worker.                                                            *)

\* The image must carry a fingerprint of this model; vbmeta is read when it will
\* be rebuilt, and on a GBL device abl must load efisp, and the GBL for an empty
\* efisp is fetched.
DumpStock ==
  /\ In("Root", "Dump")
  /\ \/ worker' = [worker EXCEPT !.pc = "Backup",
           !.held = [image |-> {image[target]},
                     vbmeta |-> IF RebuildsVbmeta(target) THEN {vbmeta} ELSE {},
                     provision |-> Gbl /\ efisp = "empty"]]
     \/ Fail
  /\ UNCHANGED <<mode, backups>> /\ Untouched

HeldImage == CHOOSE i \in held.image : TRUE

\* A folder made from the dumps, whole or as far as the copies got.
FolderOf(i, v) == [images |-> [t \in {target} |-> i], vbmeta |-> v]
PartialFolders ==
  {NoFolder, FolderOf([HeldImage EXCEPT !.whole = FALSE], {}), FolderOf(HeldImage, {})}
  \cup {FolderOf(HeldImage, {[v EXCEPT !.whole = FALSE]}) : v \in held.vbmeta}

\* Fault: every backup goes to the same folder.
BackupInFixedFolder ==
  /\ In("Root", "Backup")
  /\ backups' = {FolderOf(HeldImage, held.vbmeta)} /\ Goto("Build")
  /\ UNCHANGED mode /\ Untouched

\* create_backup_dir reserves a new folder; a copy that fails ends the run.
PersistBackup ==
  /\ In("Root", "Backup")
  /\ \/ backups' = backups \cup {FolderOf(HeldImage, held.vbmeta)} /\ (Goto("Build") \/ Fail)
     \/ \E f \in PartialFolders : backups' = backups \cup {f} /\ Fail
     \/ UNCHANGED backups /\ Fail
  /\ UNCHANGED mode /\ Untouched

\* The three writes: the GBL for an empty efisp, the patched image, and the
\* vbmeta rebuilt for it.
GblWrite == IF held.provision THEN << <<"efisp", "gbl">> >> ELSE <<>>
ImageWrites(patched) ==
  << <<target, patched>> >>
  \o (IF held.vbmeta = {} THEN <<>>
      ELSE LET v == CHOOSE v \in held.vbmeta : TRUE
           IN  << <<"vbmeta", rebuild_vbmeta(v, target, patched)>> >>)

Built(writes) ==
  /\ In("Root", "Build")
  /\ \/ /\ \A v \in held.vbmeta : v.whole
        /\ worker' = [worker EXCEPT !.pc = "Write", !.todo = writes]
     \/ Fail
  /\ UNCHANGED <<mode, backups>> /\ Untouched

\* build_patched_artifacts on the dumps, and the session for the writes.  The
\* index stays; a torn vbmeta cannot be rebuilt.
BuildPatched == Built(GblWrite \o ImageWrites([HeldImage EXCEPT !.mark = runs]))

\* Fault: the device is reset whatever was written.
RecoverByReset ==
  /\ In("Root", "Recover")
  /\ mode' \in {mode, "Boot"} /\ Finish
  /\ UNCHANGED backups /\ Untouched

\* should_reset_after_root_device_error: once a write began the device stays in
\* EDL, before it a fresh session resets it, if one opens.
Recover ==
  /\ In("Root", "Recover")
  /\ mode' \in (IF worker.written THEN {mode} ELSE {mode, "Boot"})
  /\ Finish
  /\ UNCHANGED backups /\ Untouched

-----------------------------------------------------------------------------
(* unroot_worker.                                                          *)

Restored(i, v, as_is) ==
  worker' = [worker EXCEPT !.pc = "Write", !.as_is = as_is,
    !.todo = << <<target, i>> >>
             \o (IF v = {} THEN <<>> ELSE << <<"vbmeta", CHOOSE x \in v : TRUE>> >>)]

\* Fault: the images agree when the builds do.
AgreesOnBuild(dev, new) == dev.build = new.build
\* FlashAsIs: init_boot carries no index.
Agrees(dev, new) == dev.build = new.build /\ (target = "init_boot" \/ dev.idx = new.idx)

\* Fault: the folder's vbmeta goes with a patched image as it is.
RestoreWithoutRebuild(dev, new, vb) ==
  dev.build = new.build /\ Restored([new EXCEPT !.idx = dev.idx], vb, FALSE)

\* PatchRollback: the image takes the device's index, and the folder's vbmeta
\* its new descriptor.
RestorePatched(dev, new, vb) ==
  /\ dev.build = new.build /\ \A v \in vb : v.whole
  /\ LET patched == [new EXCEPT !.idx = dev.idx] IN
     Restored(patched, {rebuild_vbmeta(v, target, patched) : v \in vb}, FALSE)

\* verify_against_device, which a GBL device skips: another build aborts, as
\* does anything that cannot be read.
VerifyAgainstDevice ==
  /\ In("Unroot", "Dump")
  /\ LET dev == image[target]
         new == folder.images[target]
         vb  == RestoredVbmeta(folder)
     IN \/ /\ IF Gbl THEN Restored(new, vb, FALSE)
              ELSE IF Agrees(dev, new) THEN Restored(new, vb, TRUE)
              ELSE RestorePatched(dev, new, vb)
           /\ UNCHANGED mode
        \/ ~Gbl /\ mode' \in {"Edl", "Boot"} /\ Finish
  /\ UNCHANGED backups /\ Untouched

-----------------------------------------------------------------------------
(* The rescue of sysupdate_worker.                                         *)

\* The region bytes of vendor_boot are converted, or it needs no change; the
\* image is hashed as it is.  A model mismatch resets the device.
ConvertRegion ==
  /\ In("Rescue", "Dump")
  /\ \/ /\ vbmeta.whole /\ UNCHANGED mode
        /\ \E mark \in {image[target].mark, runs} :
           LET converted == [image[target] EXCEPT !.mark = mark] IN
           worker' = [worker EXCEPT !.pc = "Write",
             !.todo = << <<target, converted>>,
                         <<"vbmeta", rebuild_vbmeta(vbmeta, target, converted)>> >>]
     \/ mode' \in {"Edl", "Boot"} /\ Finish
  /\ UNCHANGED backups /\ Untouched

-----------------------------------------------------------------------------
(* The user and the device.                                                *)

Idle == pc = "Done" /\ UNCHANGED <<model, backups, worker>>

PowerCycle ==
  /\ Idle /\ mode = "Edl" /\ mode' = "Boot"
  /\ UNCHANGED <<image, vbmeta, efisp, committed, runs>>

\* A boot that succeeds commits the index.
BootUp ==
  /\ Idle /\ mode = "Boot" /\ Boots
  /\ committed' = (IF image["boot"].idx > committed THEN image["boot"].idx ELSE committed)
  /\ UNCHANGED <<mode, image, vbmeta, efisp, runs>>

\* A firmware flash: stock images, whose boot may have been lifted to a floor the
\* flash measured, right or wrong, and a wipe may empty efisp.
FirmwareFlash ==
  /\ Idle /\ runs < MaxRuns /\ runs' = runs + 1
  /\ \E b \in 1..MaxBuild : \E i \in b..MaxIndex :
       /\ image' = Firmware(b, i) /\ vbmeta' = Covering(Firmware(b, i))
  /\ efisp' \in {efisp, "empty"} /\ mode' = "Boot"
  /\ UNCHANGED committed

Init ==
  /\ model \in Models /\ mode = "Boot"
  /\ \E b \in 1..MaxBuild : \E i \in b..MaxIndex :
       /\ image = Firmware(b, i) /\ vbmeta = Covering(Firmware(b, i))
       /\ committed = i
  /\ efisp \in (IF Gbl THEN {"empty", "gbl"} ELSE {"empty"})
  /\ backups = {} /\ runs = 0
  /\ worker = Locals("Done", "Root", "boot", NoFolder)

Next ==
  \/ StartRoot \/ StartUnroot \/ StartRescue
  \/ ResolveSlot \/ EnterEdl \/ WriteNext \/ Reset
  \/ DumpStock \/ PersistBackup \/ BuildPatched \/ Recover
  \/ VerifyAgainstDevice \/ ConvertRegion
  \/ PowerCycle \/ BootUp \/ FirmwareFlash

Spec == Init /\ [][Next]_vars

-----------------------------------------------------------------------------
(* Properties.                                                             *)

\* The values of the state.
TypeOK ==
  /\ model \in Models /\ mode \in {"Edl", "Boot"}
  /\ image \in [Parts -> Image]
  /\ vbmeta.whole \in BOOLEAN /\ vbmeta.covers \in [Parts -> Image]
  /\ efisp \in {"empty", "gbl", "torn"} /\ committed \in 1..MaxIndex
  /\ \A f \in backups : \A t \in DOMAIN f.images : t \in Targets /\ f.images[t] \in Image
  /\ pc \in {"Slot", "Enter", "Dump", "Backup", "Build", "Write", "Recover", "Reset", "Done"}
  /\ op \in {"Root", "Unroot", "Rescue"} /\ target \in Parts
  /\ \A i \in DOMAIN todo : todo[i][1] \in Parts \cup {"vbmeta", "efisp"}
  /\ worker.written \in BOOLEAN /\ runs \in 0..MaxRuns

\* A folder whose own images fit together.
Complete(f, t) ==
  t \in Hashed => \E v \in f.vbmeta : v.whole /\ v.covers[t] = f.images[t]

\* While a root image is on a partition, some backup holds the stock image of its
\* build and, where the device hashes it, a vbmeta: no retry and no later run
\* loses it.  A root of a torn image backs up a torn one; and after a run that
\* broke off between its two writes the vbmeta may be that of an earlier image.
StockIsRecoverable ==
  \A t \in Targets : image[t].mark # 0 =>
    \E f \in backups :
      /\ t \in DOMAIN f.images
      /\ f.images[t].mark = 0 /\ f.images[t].build = image[t].build
      /\ image[t].whole => f.images[t].whole
      /\ t \in Hashed /\ image[t].whole => \E v \in f.vbmeta : v.whole

\* A run that finishes leaves vbmeta in agreement with the image it wrote, and a
\* root or rescue also with every image it agreed with before.
FinishedPairsInSync ==
  pc = "Reset" =>
    /\ op # "Unroot" => worker.before \cup ({target} \cap Hashed) \subseteq InSync
    /\ op = "Unroot" /\ Complete(folder, target) => {target} \cap Hashed \subseteq InSync

\* Where the bootloader checks it, no root, unroot or rescue takes boot below the
\* floor the device committed, whichever folder the user restores; what a firmware
\* flash had left below it is taken no lower.
NeverBelowFloor ==
  [][~Gbl /\ pc # "Done" =>
       image'["boot"].idx >= committed \/ image'["boot"].idx >= image["boot"].idx]_vars

\* A worker that began to write leaves EDL only when it wrote all of its plan.
ResetOnlyWhole ==
  [][worker.written /\ mode' # mode => todo = <<>>]_vars
=============================================================================
