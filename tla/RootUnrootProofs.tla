-------------------------- MODULE RootUnrootProofs --------------------------
(***************************************************************************)
(* Proofs about root, unroot and rescue, for any models, builds, indices   *)
(* and number of runs: a rooted device has a backup of its stock image, a  *)
(* run that finishes leaves vbmeta in agreement with what it wrote, none   *)
(* takes boot below the rollback floor, and no worker that broke off       *)
(* resets the device.  RootInv is inductive; the properties are read off.  *)
(***************************************************************************)
EXTENDS RootUnroot, SequenceTheorems, TLAPS

-----------------------------------------------------------------------------
(* The inductive invariant.                                                *)

Phases == {"Slot", "Enter", "Dump", "Backup", "Build", "Write", "Recover", "Reset", "Done"}
Jobs   == {"Root", "Unroot", "Rescue"}

\* A folder holds at most one vbmeta, a worker at most one dump of each kind.
Pictures == {<<>>} \cup UNION {[S -> Image] : S \in SUBSET Targets}
AtMostOne(S) == {s \in SUBSET S : \A a, b \in s : a = b}
Folder == [images : Pictures, vbmeta : AtMostOne(Vbmeta)]
Held   == [image : AtMostOne(Image), vbmeta : AtMostOne(Vbmeta), provision : BOOLEAN]
Writes == (Parts \X Image) \cup ({"vbmeta"} \X Vbmeta) \cup {<<"efisp", "gbl">>}
Worker == [pc : Phases, op : Jobs, target : Parts, folder : Folder, held : Held,
           todo : Seq(Writes), written : BOOLEAN, as_is : BOOLEAN, before : SUBSET Parts]

DeviceType == /\ model \in Models /\ mode \in {"Edl", "Boot"}
              /\ image \in [Parts -> Image] /\ vbmeta \in Vbmeta
              /\ efisp \in {"empty", "gbl", "torn"} /\ committed \in 1..MaxIndex
              /\ runs \in 0..MaxRuns
FileType   == backups \subseteq Folder
WorkerType == worker \in Worker
Types == DeviceType /\ FileType /\ WorkerType

\* Where the worker is and what it holds there: a root's dumps are what the
\* device holds until its first write, and are backed up before it is planned.
Phase ==
  /\ op = "Rescue" <=> target = "vendor_boot"
  /\ op = "Unroot" /\ pc # "Done" => /\ target \in DOMAIN folder.images
                                     /\ target = ResolvedTarget(folder)
  /\ pc \in {"Backup", "Build"} =>
       /\ op = "Root" /\ held.image = {image[target]}
       /\ held.vbmeta = (IF RebuildsVbmeta(target) THEN {vbmeta} ELSE {})
       /\ held.provision => Gbl
  /\ pc = "Build" => FolderOf(image[target], held.vbmeta) \in backups
  /\ worker.written => pc \in {"Write", "Recover", "Reset"}
  /\ pc = "Reset" => todo = <<>>

\* Some folder of B holds the stock image of i's build, as whole as i is, with a
\* vbmeta where the device hashes the partition.
StockIn(B, hashed, t, i) ==
  i.mark # 0 =>
    \E f \in B :
      /\ t \in DOMAIN f.images
      /\ f.images[t].mark = 0 /\ f.images[t].build = i.build
      /\ i.whole => f.images[t].whole
      /\ hashed /\ i.whole => \E v \in f.vbmeta : v.whole
HasStock(t, i) == StockIn(backups, t \in Hashed, t, i)

\* Whatever image may come to the device has its stock in a backup: those on it,
\* those in the backups and the one of the folder that is restored.
Recoverable ==
  /\ \A t \in Targets : HasStock(t, image[t])
  /\ \A f \in backups : \A t \in DOMAIN f.images : HasStock(t, f.images[t])
  /\ \A t \in DOMAIN folder.images : HasStock(t, folder.images[t])

\* A plan writes one image, and the vbmeta for it where one is owed; a root of a
\* GBL device may provision efisp first.
Owed == (op = "Unroot" => Complete(folder, target)) /\ target \in Hashed
Fits(p) == /\ target \in Targets => HasStock(target, p)
           /\ ~Gbl /\ target = "boot" => p.idx = image["boot"].idx
CoveredBy(p, v) == /\ op # "Unroot" => vbmeta.whole /\ v = rebuild_vbmeta(vbmeta, target, p)
                   /\ Owed => v.whole /\ v.covers[target] = p
Planned(w) ==
  \E p \in Image :
    \/ w = << <<"efisp", "gbl">>, <<target, p>> >> /\ Gbl /\ Fits(p)
    \/ w = << <<target, p>> >> /\ Fits(p) /\ ~Owed
    \/ \E v \in Vbmeta : w = << <<target, p>>, <<"vbmeta", v>> >> /\ Fits(p) /\ CoveredBy(p, v)
    \/ \E v \in Vbmeta : /\ w = << <<"vbmeta", v>> >> /\ worker.written
                         /\ image[target] = p /\ CoveredBy(p, v)
Plan == pc = "Write" => Planned(todo)

\* What vbmeta agreed with at the start it still agrees with, the image under
\* way apart.
Kept ==
  /\ worker.before \subseteq Hashed
  /\ op # "Unroot" /\ pc \notin {"Done", "Recover", "Reset"} =>
       \A q \in worker.before : q \in InSync \/ (worker.written /\ q = target)

RootInv == /\ Types /\ Phase /\ Recoverable /\ Plan /\ Kept
           /\ FinishedPairsInSync
-----------------------------------------------------------------------------
(* Folders, images and vbmeta.                                             *)

\* What is in a folder.
LEMMA FolderFacts ==
  ASSUME NEW f \in Folder
  PROVE  /\ \A t \in DOMAIN f.images : t \in Targets /\ f.images[t] \in Image
         /\ f.vbmeta \subseteq Vbmeta /\ \A a, b \in f.vbmeta : a = b
<1>1. \A t \in DOMAIN f.images : t \in Targets /\ f.images[t] \in Image
  <2>1. CASE f.images = <<>>
    BY <2>1
  <2>2. CASE f.images \in UNION {[S -> Image] : S \in SUBSET Targets}
    <3>1. PICK S \in SUBSET Targets : f.images \in [S -> Image]
      BY <2>2
    <3> QED
      BY <3>1
  <2> QED
    BY <2>1, <2>2 DEF Folder, Pictures
<1> QED
  BY <1>1 DEF Folder, AtMostOne

\* Whoever restores nothing restores the empty folder.
LEMMA NoFolderIsFolder == NoFolder \in Folder /\ DOMAIN NoFolder.images = {}
<1>1. NoFolder.images = <<>> /\ NoFolder.vbmeta = {}
  BY DEF NoFolder
<1>2. NoFolder \in Folder
  BY DEF NoFolder, Folder, Pictures, AtMostOne
<1> QED
  BY <1>1, <1>2

\* A dump and a vbmeta make a folder.
LEMMA FolderOfIsFolder ==
  ASSUME NEW i \in Image, NEW v \in AtMostOne(Vbmeta), target \in Targets
  PROVE  /\ FolderOf(i, v) \in Folder
         /\ DOMAIN FolderOf(i, v).images = {target}
         /\ FolderOf(i, v).images[target] = i /\ FolderOf(i, v).vbmeta = v
<1>1. [t \in {target} |-> i] \in [{target} -> Image] /\ {target} \in SUBSET Targets
  OBVIOUS
<1>2. [t \in {target} |-> i] \in Pictures
  BY <1>1 DEF Pictures
<1> QED
  BY <1>2 DEF FolderOf, Folder

\* The images of a firmware build.
LEMMA FirmwareType ==
  ASSUME NEW b \in 1..MaxBuild, NEW i \in 0..MaxIndex
  PROVE  /\ Firmware(b, i) \in [Parts -> Image]
         /\ \A p \in Parts : Firmware(b, i)[p].mark = 0
         /\ Firmware(b, i)["boot"].idx = i
         /\ Covering(Firmware(b, i)) \in Vbmeta
<1>1. \A p \in Parts : [build |-> b, mark |-> 0, idx |-> IF p = "boot" THEN i ELSE 0,
                        whole |-> TRUE] \in Image
  BY RootAssumption DEF Image
<1>2. Firmware(b, i) \in [Parts -> Image]
  BY <1>1 DEF Firmware
<1> QED
  BY <1>2 DEF Firmware, Parts, Covering, Vbmeta

\* A folder of a firmware package.
LEMMA FirmwareFolderFacts ==
  ASSUME NEW f \in FirmwareFolders
  PROVE  f \in Folder /\ \A t \in DOMAIN f.images : f.images[t].mark = 0
<1>1. PICK b \in 1..MaxBuild : f = [images |-> Restrict(Firmware(b, b), RootTargets),
                                    vbmeta |-> {Covering(Firmware(b, b))}]
  BY DEF FirmwareFolders
<1>2. b \in 0..MaxIndex
  BY RootAssumption
<1>3. RootTargets \in SUBSET Targets /\ RootTargets \subseteq Parts
  BY DEF RootTargets, Targets, Parts
<1>4. Restrict(Firmware(b, b), RootTargets) = [t \in RootTargets |-> Firmware(b, b)[t]]
  BY DEF Restrict
<1>5. f.images \in [RootTargets -> Image] /\ \A t \in RootTargets : f.images[t].mark = 0
  BY <1>1, <1>2, <1>3, <1>4, FirmwareType
<1>6. f.images \in Pictures
  BY <1>3, <1>5 DEF Pictures
<1>7. {Covering(Firmware(b, b))} \in AtMostOne(Vbmeta)
  BY <1>2, FirmwareType DEF AtMostOne
<1> QED
  BY <1>1, <1>5, <1>6, <1>7 DEF Folder

\* What a worker does to an image.
LEMMA ImageEdits ==
  ASSUME NEW i \in Image
  PROVE  /\ [i EXCEPT !.whole = FALSE] \in Image
         /\ \A r \in 0..MaxRuns : [i EXCEPT !.mark = r] \in Image
         /\ \A x \in 0..MaxIndex : [i EXCEPT !.idx = x] \in Image
  BY DEF Image

\* A rebuilt vbmeta covers the new image, and the others as the original did.
LEMMA RebuiltVbmeta ==
  ASSUME NEW v \in Vbmeta, NEW t \in Parts, NEW p \in Image
  PROVE  /\ rebuild_vbmeta(v, t, p) \in Vbmeta
         /\ rebuild_vbmeta(v, t, p).whole = v.whole
         /\ rebuild_vbmeta(v, t, p).covers[t] = p
         /\ \A q \in Parts \ {t} : rebuild_vbmeta(v, t, p).covers[q] = v.covers[q]
<1>1. [v.covers EXCEPT ![t] = p] \in [Parts -> Image]
  BY DEF Vbmeta
<1>2. rebuild_vbmeta(v, t, p) = [v EXCEPT !.covers = [v.covers EXCEPT ![t] = p]]
  BY DEF rebuild_vbmeta
<1> QED
  BY <1>1, <1>2 DEF Vbmeta

\* A stock image kept for i is kept for whatever is no more than i, and for it in
\* any larger set of backups.
LEMMA StockStays ==
  ASSUME NEW B, NEW C, B \subseteq C, NEW h, NEW t, NEW i, NEW j, StockIn(B, h, t, i),
         j.mark = i.mark, j.build = i.build, j.whole => i.whole
  PROVE  StockIn(C, h, t, j)
  BY DEF StockIn

\* Two writes make a plan.
LEMMA TwoWrites ==
  ASSUME NEW a, NEW b
  PROVE  <<a>> \o <<b>> = <<a, b>>
<1>1. <<a>> \in Seq({a, b}) /\ <<b>> \in Seq({a, b}) /\ <<a, b>> \in Seq({a, b})
  OBVIOUS
<1>2. /\ <<a>> \o <<b>> \in Seq({a, b}) /\ Len(<<a>> \o <<b>>) = 2
      /\ (<<a>> \o <<b>>)[1] = a /\ (<<a>> \o <<b>>)[2] = b
  BY <1>1, ConcatProperties
<1>3. Len(<<a, b>>) = 2 /\ <<a, b>>[1] = a /\ <<a, b>>[2] = b
  OBVIOUS
<1>4. \A i \in 1..2 : (<<a>> \o <<b>>)[i] = <<a, b>>[i]
  BY <1>2, <1>3
<1> QED
  BY <1>1, <1>2, <1>3, <1>4, SeqEqual

\* The images vbmeta agrees with are among the hashed ones.
LEMMA SyncFacts == InSync \subseteq Hashed /\ Hashed \subseteq Parts
  BY DEF InSync, Hashed, Parts

\* What vbmeta hashes on each kind of device.
LEMMA HashedIs ==
  /\ Gbl => Hashed = {}
  /\ model = "Generic" => ~Gbl /\ Hashed = {"init_boot", "vendor_boot"}
  /\ ~Gbl /\ model # "Generic" => Hashed = {"boot", "vendor_boot"}
<1>1. Gbl => Hashed = {}
  BY DEF Hashed, Gbl
<1>2. ASSUME model = "Generic" PROVE ~Gbl /\ Hashed = {"init_boot", "vendor_boot"}
  <2>1. ~Gbl
    BY <1>2 DEF Gbl
  <2> QED
    BY <1>2, <2>1 DEF Hashed
<1>3. ASSUME model # "Generic", ~Gbl PROVE Hashed = {"boot", "vendor_boot"}
  BY <1>3 DEF Hashed
<1> QED
  BY <1>1, <1>2, <1>3

\* The targets whose descriptor is in vbmeta are those a root rebuilds it for.
LEMMA HashedTargetsRebuild ==
  ASSUME NEW t \in Targets, t \in Hashed, model \in AllModels
  PROVE  RebuildsVbmeta(t)
<1>1. ~Gbl
  BY HashedIs
<1>2. CASE model = "Generic"
  BY <1>1, <1>2, HashedIs DEF Targets, RebuildsVbmeta
<1>3. CASE model # "Generic"
  BY <1>1, <1>3 DEF RebuildsVbmeta, AllModels, Gbl
<1> QED
  BY <1>2, <1>3

\* The region of vendor_boot is hashed on every device that is not GBL.
LEMMA VendorBootHashed == ~Gbl => "vendor_boot" \in Hashed
  BY HashedIs

-----------------------------------------------------------------------------
(* Steps that leave the images alone.                                      *)

USE DEF pc, op, target, folder, held, todo

\* What such a step may still change: the mode, the floor the device commits
\* when it boots, the count of runs and the backups it adds.
Quiet == /\ UNCHANGED <<model, image, vbmeta, efisp>>
         /\ mode' \in {"Edl", "Boot"} /\ committed' \in 1..MaxIndex /\ runs' \in 0..MaxRuns
         /\ backups \subseteq backups' /\ backups' \subseteq Folder
         /\ \A f \in backups' : \A t \in DOMAIN f.images :
              StockIn(backups', t \in Hashed, t, f.images[t])

\* A worker starts, ends, or goes to a phase in which it plans no write.
Begins(at, kind, t, f) ==
  /\ pc = "Done" /\ worker' = Locals(at, kind, t, f) /\ at \in {"Slot", "Enter"}
  /\ kind = "Rescue" <=> t = "vendor_boot"
  /\ kind = "Unroot" => t \in DOMAIN f.images /\ t = ResolvedTarget(f)
  /\ \A x \in DOMAIN f.images : HasStock(x, f.images[x])
Ends == worker' = Locals("Done", op, target, NoFolder)
Moves(at) ==
  /\ worker' = [worker EXCEPT !.pc = at] /\ at \in {"Enter", "Dump", "Recover"}
  /\ pc \notin {"Done", "Reset"} /\ (at # "Recover" => pc \in {"Slot", "Enter"})

\* Quiet steps keep what is said of the device and the backups.
LEMMA QuietKeeps ==
  ASSUME RootInv, Quiet
  PROVE  /\ DeviceType' /\ FileType'
         /\ Gbl' = Gbl /\ Hashed' = Hashed /\ InSync' = InSync
         /\ \A t \in Targets : HasStock(t, image[t])'
         /\ \A f \in backups' : \A t \in DOMAIN f.images :
              StockIn(backups', t \in Hashed', t, f.images[t])
<1>1. Gbl' = Gbl /\ Hashed' = Hashed
  BY DEF Quiet, Gbl, Hashed
<1>2. InSync' = InSync
  BY <1>1 DEF Quiet, InSync
<1>3. DeviceType' /\ FileType'
  BY DEF RootInv, Types, DeviceType, Quiet, FileType
<1>4. ASSUME NEW t \in Targets
      PROVE  StockIn(backups', t \in Hashed, t, image[t])
  <2>1. StockIn(backups, t \in Hashed, t, image[t]) /\ backups \subseteq backups'
    BY DEF RootInv, Recoverable, HasStock, Quiet
  <2> QED
    BY <2>1, StockStays
<1>5. \A t \in Targets : HasStock(t, image[t])'
  BY <1>1, <1>4 DEF HasStock, Quiet
<1> QED
  BY <1>1, <1>2, <1>3, <1>5 DEF Quiet

\* The locals of a run.
LEMMA LocalsType ==
  ASSUME NEW at \in Phases, NEW kind \in Jobs, NEW t \in Parts, NEW f \in Folder
  PROVE  Locals(at, kind, t, f) \in Worker
<1>1. NothingHeld \in Held
  BY DEF NothingHeld, Held, AtMostOne
<1>2. InSync \in SUBSET Parts
  BY SyncFacts
<1>3. <<>> \in Seq(Writes)
  OBVIOUS
<1> QED
  BY <1>1, <1>2, <1>3 DEF Locals, Worker

\* Quiet steps with which a worker starts keep the invariant.
LEMMA BeginsKeeps ==
  ASSUME RootInv, Quiet, NEW at \in {"Slot", "Enter"}, NEW kind \in Jobs,
         NEW t \in Parts, NEW f \in Folder, Begins(at, kind, t, f)
  PROVE  RootInv'
<1>1. /\ pc' = at /\ op' = kind /\ target' = t /\ folder' = f
      /\ worker'.written = FALSE /\ worker'.before = InSync
  BY DEF Begins, Locals
<1>2. WorkerType'
  <2>1. at \in Phases
    BY DEF Phases
  <2> QED
    BY <2>1, LocalsType DEF Begins, WorkerType
<1>3. Phase'
  BY <1>1 DEF Begins, Phase, Jobs, ResolvedTarget
<1>4. ASSUME NEW x \in DOMAIN f.images
      PROVE  StockIn(backups', x \in Hashed, x, f.images[x])
  <2>1. StockIn(backups, x \in Hashed, x, f.images[x]) /\ backups \subseteq backups'
    BY DEF Begins, HasStock, Quiet
  <2> QED
    BY <2>1, StockStays
<1>5. Recoverable'
  BY <1>1, <1>4, QuietKeeps DEF Recoverable, HasStock
<1>6. Plan' /\ FinishedPairsInSync'
  BY <1>1 DEF Plan, FinishedPairsInSync
<1>7. Kept'
  BY <1>1, QuietKeeps, SyncFacts DEF Kept
<1> QED
  BY <1>2, <1>3, <1>5, <1>6, <1>7, QuietKeeps DEF RootInv, Types

\* Quiet steps with which a worker ends keep the invariant.
LEMMA EndsKeeps ==
  ASSUME RootInv, Quiet, Ends
  PROVE  RootInv'
<1>1. /\ pc' = "Done" /\ op' = op /\ target' = target /\ folder' = NoFolder
      /\ worker'.written = FALSE /\ worker'.before = InSync
  BY DEF Ends, Locals
<1>2. WorkerType'
  <2>1. "Done" \in Phases /\ op \in Jobs /\ target \in Parts
    BY DEF Phases, RootInv, Types, WorkerType, Worker
  <2> QED
    BY <2>1, LocalsType, NoFolderIsFolder DEF Ends, WorkerType
<1>3. Phase'
  BY <1>1 DEF RootInv, Phase
<1>5. Recoverable'
  BY <1>1, QuietKeeps, NoFolderIsFolder DEF Recoverable, HasStock
<1>6. Plan' /\ FinishedPairsInSync'
  BY <1>1 DEF Plan, FinishedPairsInSync
<1>7. Kept'
  BY <1>1, QuietKeeps, SyncFacts DEF Kept
<1> QED
  BY <1>2, <1>3, <1>5, <1>6, <1>7, QuietKeeps DEF RootInv, Types

\* Quiet steps between phases keep the invariant.
LEMMA MovesKeeps ==
  ASSUME RootInv, Quiet, NEW at \in {"Enter", "Dump", "Recover"}, Moves(at)
  PROVE  RootInv'
<1>0. worker \in Worker
  BY DEF RootInv, Types, WorkerType
<1>1. /\ pc' = at /\ op' = op /\ target' = target /\ folder' = folder
      /\ worker'.written = worker.written /\ worker'.before = worker.before
  BY <1>0 DEF Moves, Worker
<1>2. WorkerType'
  BY <1>0 DEF Moves, WorkerType, Worker, Phases
<1>3. Phase'
  BY <1>1 DEF RootInv, Phase, Moves, ResolvedTarget
<1>4. ASSUME NEW x \in DOMAIN folder.images
      PROVE  StockIn(backups', x \in Hashed, x, folder.images[x])
  <2>1. StockIn(backups, x \in Hashed, x, folder.images[x]) /\ backups \subseteq backups'
    BY DEF RootInv, Recoverable, HasStock, Quiet
  <2> QED
    BY <2>1, StockStays
<1>5. Recoverable'
  BY <1>1, <1>4, QuietKeeps DEF Recoverable, HasStock
<1>6. Plan' /\ FinishedPairsInSync'
  BY <1>1 DEF Plan, FinishedPairsInSync
<1>7. Kept'
  <2>1. worker'.before \subseteq Hashed'
    BY <1>1, QuietKeeps DEF RootInv, Kept
  <2>2. CASE at = "Recover"
    BY <1>1, <2>1, <2>2 DEF Kept
  <2>3. CASE at # "Recover"
    <3>1. op # "Unroot" => \A q \in worker.before : q \in InSync \/ (worker.written /\ q = target)
      BY <2>3 DEF RootInv, Kept, Moves
    <3> QED
      BY <1>1, <2>1, <3>1, QuietKeeps DEF Kept
  <2> QED
    BY <2>2, <2>3
<1> QED
  BY <1>2, <1>3, <1>5, <1>6, <1>7, QuietKeeps DEF RootInv, Types

\* A step that leaves the device's partitions and the backups alone is quiet.
LEMMA SameIsQuiet ==
  ASSUME RootInv, UNCHANGED <<model, backups>>, Untouched, mode' \in {"Edl", "Boot"},
         runs' \in 0..MaxRuns
  PROVE  Quiet
<1>1. backups' \subseteq Folder /\ committed \in 1..MaxIndex
  BY DEF RootInv, Types, FileType, DeviceType
<1>2. \A f \in backups : \A t \in DOMAIN f.images : StockIn(backups, t \in Hashed, t, f.images[t])
  BY DEF RootInv, Recoverable, HasStock
<1> QED
  BY <1>1, <1>2 DEF Quiet, Untouched

\* A folder with images resolves to one of them.
LEMMA ResolvedIsInFolder ==
  ASSUME NEW f \in Folder, f.images # <<>>
  PROVE  ResolvedTarget(f) \in DOMAIN f.images
<1>1. f.images \in UNION {[S -> Image] : S \in SUBSET Targets}
  BY DEF Folder, Pictures
<1>2. PICK S \in SUBSET Targets : f.images \in [S -> Image]
  BY <1>1
<1>3. DOMAIN f.images # {}
  <2> SUFFICES ASSUME DOMAIN f.images = {}
               PROVE  f.images = <<>>
    OBVIOUS
  <2>1. f.images \in [1..0 -> Image]
    <3>1. S = {} /\ S = 1..0
      BY <1>2
    <3> QED
      BY <1>2, <3>1
  <2>2. f.images \in Seq(Image) /\ Len(f.images) = 0
    BY <2>1
  <2> QED
    BY <2>2, EmptySeq
<1>4. DOMAIN f.images \subseteq {"boot", "init_boot"}
  BY <1>2 DEF Targets
<1> QED
  BY <1>3, <1>4 DEF ResolvedTarget

\* A root starts on one of the targets its model offers.
LEMMA StartRootKeeps == RootInv /\ StartRoot => RootInv'
<1> SUFFICES ASSUME RootInv, StartRoot
             PROVE  RootInv'
  OBVIOUS
<1>1. PICK t \in RootTargets : Start("Slot", "Root", t, NoFolder)
  BY DEF StartRoot
<1>2. t \in Targets /\ t \in Parts /\ t # "vendor_boot"
  BY DEF RootTargets, Targets, Parts
<1>3. mode \in {"Edl", "Boot"} /\ runs' \in 0..MaxRuns
  BY <1>1, RootAssumption DEF Start, RootInv, Types, DeviceType
<1>4. Quiet
  BY <1>1, <1>3, SameIsQuiet DEF Start, device, Untouched
<1>5. Begins("Slot", "Root", t, NoFolder)
  BY <1>1, <1>2, NoFolderIsFolder DEF Start, Begins
<1> QED
  BY <1>2, <1>4, <1>5, BeginsKeeps, NoFolderIsFolder DEF Jobs

\* An unroot starts on a folder whose images have their stock in a backup.
LEMMA StartUnrootKeeps == RootInv /\ StartUnroot => RootInv'
<1> SUFFICES ASSUME RootInv, StartUnroot
             PROVE  RootInv'
  OBVIOUS
<1>1. PICK f \in backups \cup FirmwareFolders :
        f.images # <<>> /\ Start("Slot", "Unroot", ResolvedTarget(f), f)
  BY DEF StartUnroot
<1>2. f \in Folder
  BY FirmwareFolderFacts DEF RootInv, Types, FileType
<1>3. mode \in {"Edl", "Boot"} /\ runs' \in 0..MaxRuns
  BY <1>1, RootAssumption DEF Start, RootInv, Types, DeviceType
<1>4. Quiet
  BY <1>1, <1>3, SameIsQuiet DEF Start, device, Untouched
<1>5. ResolvedTarget(f) \in DOMAIN f.images
  BY <1>1, <1>2, ResolvedIsInFolder
<1>6. ResolvedTarget(f) \in Parts /\ ResolvedTarget(f) # "vendor_boot"
  BY DEF ResolvedTarget, Parts
<1>7. \A x \in DOMAIN f.images : HasStock(x, f.images[x])
  <2>1. CASE f \in backups
    BY <2>1 DEF RootInv, Recoverable
  <2>2. CASE f \in FirmwareFolders
    BY <2>2, FirmwareFolderFacts DEF HasStock, StockIn
  <2> QED
    BY <2>1, <2>2
<1>8. Begins("Slot", "Unroot", ResolvedTarget(f), f)
  BY <1>1, <1>5, <1>6, <1>7 DEF Start, Begins
<1> QED
  BY <1>2, <1>4, <1>6, <1>8, BeginsKeeps DEF Jobs

\* A rescue starts on vendor_boot.
LEMMA StartRescueKeeps == RootInv /\ StartRescue => RootInv'
<1> SUFFICES ASSUME RootInv, StartRescue
             PROVE  RootInv'
  OBVIOUS
<1>1. Start("Enter", "Rescue", "vendor_boot", NoFolder)
  BY DEF StartRescue
<1>3. mode \in {"Edl", "Boot"} /\ runs' \in 0..MaxRuns
  BY <1>1, RootAssumption DEF Start, RootInv, Types, DeviceType
<1>4. Quiet
  BY <1>1, <1>3, SameIsQuiet DEF Start, device, Untouched
<1>5. Begins("Enter", "Rescue", "vendor_boot", NoFolder)
  BY <1>1, NoFolderIsFolder DEF Start, Begins
<1> QED
  BY <1>4, <1>5, BeginsKeeps, NoFolderIsFolder DEF Jobs, Parts

\* A failed step ends the run, or takes a root to its recovery.
LEMMA FailKeeps ==
  ASSUME RootInv, Quiet, Fail, pc \notin {"Done", "Reset"}
  PROVE  RootInv'
<1>1. CASE op = "Root"
  BY <1>1, MovesKeeps DEF Fail, Goto, Moves
<1>2. CASE op # "Root"
  BY <1>2, EndsKeeps DEF Fail, Finish, Ends
<1> QED
  BY <1>1, <1>2

\* The slot is read, or the run ends.
LEMMA ResolveSlotKeeps == RootInv /\ ResolveSlot => RootInv'
<1> SUFFICES ASSUME RootInv, ResolveSlot
             PROVE  RootInv'
  OBVIOUS
<1>1. Quiet
  BY SameIsQuiet DEF ResolveSlot, RootInv, Types, DeviceType
<1>2. CASE Goto("Enter")
  BY <1>1, <1>2, MovesKeeps DEF ResolveSlot, Goto, Moves
<1>3. CASE Finish
  BY <1>1, <1>3, EndsKeeps DEF Finish, Ends
<1> QED
  BY <1>2, <1>3 DEF ResolveSlot

\* The device enters EDL, or the run fails.
LEMMA EnterEdlKeeps == RootInv /\ EnterEdl => RootInv'
<1> SUFFICES ASSUME RootInv, EnterEdl
             PROVE  RootInv'
  OBVIOUS
<1>1. mode' \in {"Edl", "Boot"} /\ runs' \in 0..MaxRuns
  BY DEF EnterEdl, RootInv, Types, DeviceType
<1>2. Quiet
  BY <1>1, SameIsQuiet DEF EnterEdl
<1>3. CASE Goto("Dump")
  BY <1>2, <1>3, MovesKeeps DEF EnterEdl, Goto, Moves
<1>4. CASE Fail
  BY <1>2, <1>4, FailKeeps DEF EnterEdl
<1> QED
  BY <1>3, <1>4 DEF EnterEdl

\* The reset and the recovery end the run.
LEMMA ResetKeeps == RootInv /\ (Reset \/ Recover) => RootInv'
<1> SUFFICES ASSUME RootInv, Reset \/ Recover
             PROVE  RootInv'
  OBVIOUS
<1>1. mode' \in {"Edl", "Boot"} /\ runs' \in 0..MaxRuns
  BY DEF Reset, Recover, In, RootInv, Types, DeviceType
<1>2. Quiet
  BY <1>1, SameIsQuiet DEF Reset, Recover, In
<1>3. Ends
  BY DEF Reset, Recover, Finish, Ends
<1> QED
  BY <1>2, <1>3, EndsKeeps

\* Quiet steps within a run keep what is not about the phase.
LEMMA AdvancesKeeps ==
  ASSUME RootInv, Quiet, pc \notin {"Done", "Recover", "Reset"}, pc' # "Reset",
         op' = op, target' = target, folder' = folder,
         worker'.written = worker.written, worker'.before = worker.before
  PROVE  /\ DeviceType' /\ FileType' /\ Recoverable' /\ Kept'
         /\ FinishedPairsInSync'
<1>1. ASSUME NEW x \in DOMAIN folder.images
      PROVE  StockIn(backups', x \in Hashed, x, folder.images[x])
  <2>1. StockIn(backups, x \in Hashed, x, folder.images[x]) /\ backups \subseteq backups'
    BY DEF RootInv, Recoverable, HasStock, Quiet
  <2> QED
    BY <2>1, StockStays
<1>2. Recoverable'
  BY <1>1, QuietKeeps DEF Recoverable, HasStock
<1>3. Kept'
  <2>1. worker.before \subseteq Hashed
    BY DEF RootInv, Kept
  <2>2. op # "Unroot" => \A q \in worker.before : q \in InSync \/ (worker.written /\ q = target)
    BY DEF RootInv, Kept
  <2> QED
    BY <2>1, <2>2, QuietKeeps DEF Kept
<1> QED
  BY <1>2, <1>3, QuietKeeps DEF FinishedPairsInSync

\* The only member of a set is the one that is chosen.
LEMMA ChooseOnly ==
  ASSUME NEW x
  PROVE  (CHOOSE i \in {x} : TRUE) = x
  OBVIOUS

\* A root's target is boot or init_boot.
LEMMA RootTarget ==
  ASSUME RootInv, op # "Rescue"
  PROVE  target \in Targets /\ target \in Parts /\ image[target] \in Image
<1>1. target \in Parts /\ target # "vendor_boot"
  BY DEF RootInv, Types, WorkerType, Worker, Phase
<1> QED
  BY <1>1 DEF RootInv, Types, DeviceType, Parts, Targets

\* The dumps are what the device holds.
LEMMA DumpStockKeeps == RootInv /\ DumpStock => RootInv'
<1> SUFFICES ASSUME RootInv, DumpStock
             PROVE  RootInv'
  OBVIOUS
<1>1. Quiet
  BY SameIsQuiet DEF DumpStock, In, RootInv, Types, DeviceType
<1>2. CASE Fail
  BY <1>1, <1>2, FailKeeps DEF DumpStock, In
<1>3. ASSUME worker' = [worker EXCEPT !.pc = "Backup",
           !.held = [image |-> {image[target]},
                     vbmeta |-> IF RebuildsVbmeta(target) THEN {vbmeta} ELSE {},
                     provision |-> Gbl /\ efisp = "empty"]]
      PROVE  RootInv'
  <2>0. /\ worker \in Worker /\ image[target] \in Image /\ vbmeta \in Vbmeta
        /\ op = "Root" /\ pc = "Dump"
    BY RootTarget DEF DumpStock, In, RootInv, Types, WorkerType, DeviceType
  <2>1. /\ pc' = "Backup" /\ op' = op /\ target' = target /\ folder' = folder
        /\ worker'.written = worker.written /\ worker'.before = worker.before
        /\ held'.image = {image[target]}
        /\ held'.vbmeta = (IF RebuildsVbmeta(target) THEN {vbmeta} ELSE {})
    BY <1>3, <2>0 DEF Worker
  <2>2. held'.provision = (Gbl /\ efisp = "empty")
    BY <1>3, <2>0 DEF Worker
  <2>3. WorkerType'
    <3>1. [image |-> {image[target]},
           vbmeta |-> IF RebuildsVbmeta(target) THEN {vbmeta} ELSE {},
           provision |-> Gbl /\ efisp = "empty"] \in Held
      BY <2>0 DEF Held, AtMostOne
    <3>2. "Backup" \in Phases
      BY DEF Phases
    <3> QED
      BY <1>3, <2>0, <3>1, <3>2 DEF WorkerType, Worker
  <2>4. Gbl' = Gbl /\ RebuildsVbmeta(target') = RebuildsVbmeta(target)
    BY <1>1, <2>1, QuietKeeps
  <2>5. RebuildsVbmeta(target)' = RebuildsVbmeta(target)
    BY <1>1, <2>1, <2>4 DEF RebuildsVbmeta, Quiet
  <2>6. (held'.provision => Gbl') /\ ~worker'.written
    BY <2>0, <2>1, <2>2, <2>4 DEF RootInv, Phase
  <2>7. Phase'
    BY <1>1, <2>0, <2>1, <2>5, <2>6 DEF RootInv, Phase, Quiet
  <2>8. Plan'
    BY <2>1 DEF Plan
  <2> QED
    BY <1>1, <2>0, <2>1, <2>3, <2>7, <2>8, AdvancesKeeps DEF RootInv, Types
<1> QED
  BY <1>2, <1>3 DEF DumpStock

\* What a root makes of its dumps.
LEMMA DumpFacts ==
  ASSUME RootInv, pc \in {"Backup", "Build"}
  PROVE  /\ HeldImage = image[target] /\ image[target] \in Image
         /\ target \in Targets /\ target \in Parts
         /\ held.vbmeta \in AtMostOne(Vbmeta)
         /\ FolderOf(image[target], held.vbmeta) \in Folder
         /\ op = "Root"
<1>1. op = "Root" /\ held.image = {image[target]}
  BY DEF RootInv, Phase
<1>2. target \in Targets /\ target \in Parts /\ image[target] \in Image
  BY <1>1, RootTarget
<1>3. held.vbmeta \in AtMostOne(Vbmeta)
  BY DEF RootInv, Types, WorkerType, Worker, Held
<1>4. HeldImage = image[target]
  BY <1>1, ChooseOnly DEF HeldImage
<1> QED
  BY <1>1, <1>2, <1>3, <1>4, FolderOfIsFolder

\* A new folder that holds the device's image, whole or torn, is quiet.
LEMMA NewFolderIsQuiet ==
  ASSUME RootInv, UNCHANGED <<model, mode, runs>>, Untouched, NEW f \in Folder,
         backups' = backups \cup {f},
         \A t \in DOMAIN f.images :
           /\ f.images[t].mark = image[t].mark /\ f.images[t].build = image[t].build
           /\ f.images[t].whole => image[t].whole
  PROVE  Quiet
<1>1. /\ backups' \subseteq Folder /\ committed \in 1..MaxIndex /\ runs \in 0..MaxRuns
      /\ mode \in {"Edl", "Boot"}
  BY DEF RootInv, Types, FileType, DeviceType
<1>2. ASSUME NEW g \in backups', NEW t \in DOMAIN g.images
      PROVE  StockIn(backups', t \in Hashed, t, g.images[t])
  <2>1. CASE g \in backups
    <3>1. StockIn(backups, t \in Hashed, t, g.images[t]) /\ backups \subseteq backups'
      BY <2>1 DEF RootInv, Recoverable, HasStock
    <3> QED
      BY <3>1, StockStays
  <2>2. CASE g = f
    <3>1. t \in Targets
      BY <2>2, FolderFacts
    <3>2. StockIn(backups, t \in Hashed, t, image[t]) /\ backups \subseteq backups'
      BY <3>1 DEF RootInv, Recoverable, HasStock
    <3>3. /\ f.images[t].mark = image[t].mark /\ f.images[t].build = image[t].build
          /\ f.images[t].whole => image[t].whole
      BY <2>2
    <3>4. StockIn(backups', t \in Hashed, t, f.images[t])
      BY <3>2, <3>3, StockStays
    <3> QED
      BY <2>2, <3>4
  <2> QED
    BY <2>1, <2>2
<1> QED
  BY <1>1, <1>2 DEF Quiet, Untouched

\* Whatever a failed copy leaves is a folder of the device's image.
LEMMA PartialFolderFacts ==
  ASSUME RootInv, pc = "Backup", NEW f \in PartialFolders
  PROVE  /\ f \in Folder
         /\ \A t \in DOMAIN f.images :
              /\ f.images[t].mark = image[t].mark /\ f.images[t].build = image[t].build
              /\ f.images[t].whole => image[t].whole
<1>1. /\ HeldImage = image[target] /\ image[target] \in Image
      /\ held.vbmeta \in AtMostOne(Vbmeta) /\ target \in Targets
  BY DumpFacts
<1>2. CASE f = NoFolder
  BY <1>2, NoFolderIsFolder
<1>3. CASE f = FolderOf([HeldImage EXCEPT !.whole = FALSE], {})
  <2>1. [image[target] EXCEPT !.whole = FALSE] \in Image /\ {} \in AtMostOne(Vbmeta)
    BY <1>1, ImageEdits DEF AtMostOne
  <2>2. /\ f \in Folder /\ DOMAIN f.images = {target}
        /\ f.images[target] = [image[target] EXCEPT !.whole = FALSE]
    BY <1>1, <1>3, <2>1, FolderOfIsFolder
  <2> QED
    BY <1>1, <2>2 DEF Image
<1>4. CASE f = FolderOf(HeldImage, {})
  <2>1. {} \in AtMostOne(Vbmeta)
    BY DEF AtMostOne
  <2> QED
    BY <1>1, <1>4, <2>1, FolderOfIsFolder
<1>5. ASSUME NEW v \in held.vbmeta, f = FolderOf(HeldImage, {[v EXCEPT !.whole = FALSE]})
      PROVE  /\ f \in Folder /\ DOMAIN f.images = {target}
             /\ f.images[target] = image[target]
  <2>1. v \in Vbmeta
    BY <1>1 DEF AtMostOne
  <2>2. [v EXCEPT !.whole = FALSE] \in Vbmeta
    BY <2>1 DEF Vbmeta
  <2>3. {[v EXCEPT !.whole = FALSE]} \in AtMostOne(Vbmeta)
    BY <2>2 DEF AtMostOne
  <2> QED
    BY <1>1, <1>5, <2>3, FolderOfIsFolder
<1>6. CASE \E v \in held.vbmeta : f = FolderOf(HeldImage, {[v EXCEPT !.whole = FALSE]})
  BY <1>5, <1>6
<1> QED
  BY <1>2, <1>3, <1>4, <1>6 DEF PartialFolders

\* The backup is kept before anything is built, or the run fails.
LEMMA PersistBackupKeeps == RootInv /\ PersistBackup => RootInv'
<1> SUFFICES ASSUME RootInv, PersistBackup
             PROVE  RootInv'
  OBVIOUS
<1>1. /\ pc = "Backup" /\ op = "Root" /\ UNCHANGED <<model, mode, runs>> /\ Untouched
      /\ mode \in {"Edl", "Boot"} /\ runs \in 0..MaxRuns /\ worker \in Worker
  BY DEF PersistBackup, In, RootInv, Types, DeviceType, WorkerType
<1>2. CASE UNCHANGED backups /\ Fail
  BY <1>1, <1>2, SameIsQuiet, FailKeeps
<1>3. CASE \E f \in PartialFolders : backups' = backups \cup {f} /\ Fail
  <2>1. PICK f \in PartialFolders : backups' = backups \cup {f} /\ Fail
    BY <1>3
  <2>2. Quiet
    BY <1>1, <2>1, PartialFolderFacts, NewFolderIsQuiet
  <2> QED
    BY <1>1, <2>1, <2>2, FailKeeps
<1>4. ASSUME backups' = backups \cup {FolderOf(HeldImage, held.vbmeta)}, Goto("Build") \/ Fail
      PROVE  RootInv'
  <2>1. /\ HeldImage = image[target] /\ FolderOf(image[target], held.vbmeta) \in Folder
        /\ held.vbmeta \in AtMostOne(Vbmeta) /\ image[target] \in Image /\ target \in Targets
    BY <1>1, DumpFacts
  <2>2. Quiet
    BY <1>1, <1>4, <2>1, FolderOfIsFolder, NewFolderIsQuiet
  <2>3. CASE Fail
    BY <1>1, <2>2, <2>3, FailKeeps
  <2>4. CASE Goto("Build")
    <3>1. /\ pc' = "Build" /\ op' = op /\ target' = target /\ folder' = folder /\ held' = held
          /\ worker'.written = worker.written /\ worker'.before = worker.before
      BY <1>1, <2>4 DEF Goto, Worker
    <3>2. WorkerType'
      BY <1>1, <2>4 DEF Goto, WorkerType, Worker, Phases
    <3>3. FolderOf(image[target], held.vbmeta)' = FolderOf(image[target], held.vbmeta)
      BY <2>2, <3>1 DEF FolderOf, Quiet
    <3>4. RebuildsVbmeta(target)' = RebuildsVbmeta(target) /\ Gbl' = Gbl
      BY <2>2, <3>1, QuietKeeps DEF RebuildsVbmeta, Quiet
    <3>5. /\ held.image = {image[target]} /\ ~worker.written
          /\ held.vbmeta = (IF RebuildsVbmeta(target) THEN {vbmeta} ELSE {})
          /\ held.provision => Gbl
      BY <1>1 DEF RootInv, Phase
    <3>6. Phase'
      BY <1>1, <1>4, <2>1, <2>2, <3>1, <3>3, <3>4, <3>5 DEF RootInv, Phase, Quiet
    <3>7. Plan'
      BY <3>1 DEF Plan
    <3> QED
      BY <1>1, <2>2, <3>1, <3>2, <3>6, <3>7, AdvancesKeeps DEF RootInv, Types
  <2> QED
    BY <1>4, <2>3, <2>4
<1> QED
  BY <1>2, <1>3, <1>4 DEF PersistBackup

-----------------------------------------------------------------------------
(* The plans.                                                              *)

\* What a plan owes depends on the device's model and on the run.
LEMMA SameTerms ==
  ASSUME UNCHANGED model, op' = op, target' = target, folder' = folder
  PROVE  Gbl' = Gbl /\ Hashed' = Hashed /\ Owed' = Owed
<1>1. Gbl' = Gbl /\ Hashed' = Hashed
  BY DEF Gbl, Hashed
<1> QED
  BY <1>1 DEF Owed, Complete

\* A step that plans its writes keeps the invariant.
LEMMA PlansKeeps ==
  ASSUME RootInv, UNCHANGED <<model, mode, backups, runs>>, Untouched,
         pc \in {"Dump", "Build"}, NEW w \in Seq(Writes), NEW a \in BOOLEAN,
         worker' = [worker EXCEPT !.pc = "Write", !.todo = w, !.as_is = a], Planned(w)
  PROVE  RootInv'
<1>0. worker \in Worker /\ mode \in {"Edl", "Boot"} /\ runs \in 0..MaxRuns
  BY DEF RootInv, Types, WorkerType, DeviceType
<1>1. /\ pc' = "Write" /\ op' = op /\ target' = target /\ folder' = folder /\ todo' = w
      /\ worker'.written = worker.written /\ worker'.before = worker.before
  BY <1>0 DEF Worker
<1>2. WorkerType'
  BY <1>0 DEF WorkerType, Worker, Phases
<1>3. Phase'
  BY <1>1 DEF RootInv, Phase, ResolvedTarget
<1>4. Quiet
  BY <1>0, SameIsQuiet
<1>5. /\ Gbl' = Gbl /\ Owed' = Owed
      /\ \A p : HasStock(target, p)' = HasStock(target, p)
  BY <1>1, SameTerms DEF HasStock
<1>6. \A p, v : Fits(p)' = Fits(p) /\ CoveredBy(p, v)' = CoveredBy(p, v)
  BY <1>1, <1>5 DEF Fits, CoveredBy, Untouched
<1>7. Planned(w)'
  BY <1>1, <1>5, <1>6 DEF Planned, Untouched
<1>8. Plan'
  BY <1>1, <1>7 DEF Plan
<1> QED
  BY <1>1, <1>2, <1>3, <1>4, <1>8, AdvancesKeeps DEF RootInv, Types

\* A plan is a sequence of writes.
LEMMA PlanType ==
  ASSUME NEW t \in Parts, NEW p \in Image, NEW v \in Vbmeta
  PROVE  /\ << <<t, p>> >> \in Seq(Writes)
         /\ << <<"efisp", "gbl">>, <<t, p>> >> \in Seq(Writes)
         /\ << <<t, p>>, <<"vbmeta", v>> >> \in Seq(Writes)
<1>1. <<t, p>> \in Writes /\ <<"vbmeta", v>> \in Writes /\ <<"efisp", "gbl">> \in Writes
  BY DEF Writes
<1> QED
  BY <1>1

\* A patched image has its stock where its original has, or is.
LEMMA PatchedHasStock ==
  ASSUME NEW B, NEW h \in BOOLEAN, NEW t, NEW i, NEW j, StockIn(B, h, t, i), NEW f \in B,
         t \in DOMAIN f.images, f.images[t] = i,
         h => \E v \in f.vbmeta : v.whole,
         j.build = i.build, j.whole => i.whole
  PROVE  StockIn(B, h, t, j)
<1>1. CASE i.mark # 0
  BY <1>1 DEF StockIn
<1>2. CASE i.mark = 0
  BY <1>2 DEF StockIn
<1> QED
  BY <1>1, <1>2

\* The patched image fits, and is covered where it is hashed.
LEMMA BuildPatchedKeeps == RootInv /\ BuildPatched => RootInv'
<1> SUFFICES ASSUME RootInv, BuildPatched
             PROVE  RootInv'
  OBVIOUS
<1> DEFINE patched == [HeldImage EXCEPT !.mark = runs]
           w == GblWrite \o ImageWrites(patched)
<1>1. /\ pc = "Build" /\ op = "Root" /\ UNCHANGED <<model, mode, runs, backups>> /\ Untouched
      /\ mode \in {"Edl", "Boot"} /\ runs \in 0..MaxRuns /\ worker \in Worker
  BY DEF BuildPatched, Built, In, RootInv, Types, DeviceType, WorkerType
<1>2. /\ HeldImage = image[target] /\ image[target] \in Image /\ vbmeta \in Vbmeta
      /\ target \in Targets /\ target \in Parts /\ held.vbmeta \in AtMostOne(Vbmeta)
  BY <1>1, DumpFacts DEF RootInv, Types, DeviceType
<1>3. /\ held.vbmeta = (IF RebuildsVbmeta(target) THEN {vbmeta} ELSE {})
      /\ held.provision => Gbl
      /\ FolderOf(image[target], held.vbmeta) \in backups
  BY <1>1 DEF RootInv, Phase
<1>4. CASE Fail
  <2>1. Quiet
    BY <1>1, SameIsQuiet
  <2> QED
    BY <1>1, <1>4, <2>1, FailKeeps
<1>5. ASSUME \A v \in held.vbmeta : v.whole,
             worker' = [worker EXCEPT !.pc = "Write", !.todo = w]
      PROVE  RootInv'
  <2>1. /\ patched \in Image /\ patched.idx = image[target].idx
        /\ patched.build = image[target].build /\ patched.whole = image[target].whole
    BY <1>1, <1>2, ImageEdits DEF Image
  <2>2. target \in Hashed => RebuildsVbmeta(target)
    BY <1>2, HashedTargetsRebuild, RootAssumption DEF RootInv, Types, DeviceType
  <2>3. Fits(patched)
    <3>1. StockIn(backups, target \in Hashed, target, image[target])
      BY <1>2 DEF RootInv, Recoverable, HasStock
    <3>2. target \in Hashed => \E v \in held.vbmeta : v.whole
      BY <1>3, <1>5, <2>2
    <3>3. StockIn(backups, target \in Hashed, target, patched)
      <4> DEFINE f == FolderOf(image[target], held.vbmeta)
      <4>1. /\ f \in backups /\ target \in DOMAIN f.images
            /\ f.images[target] = image[target] /\ f.vbmeta = held.vbmeta
        BY <1>2, <1>3, FolderOfIsFolder
      <4>2. (target \in Hashed) \in BOOLEAN
        OBVIOUS
      <4> HIDE DEF f, patched
      <4> QED
        BY <2>1, <3>1, <3>2, <4>1, <4>2, PatchedHasStock
    <3> QED
      BY <2>1, <3>3 DEF Fits, HasStock
  <2>4. CASE RebuildsVbmeta(target)
    <3> DEFINE v == rebuild_vbmeta(vbmeta, target, patched)
    <3>1. ~held.provision /\ held.vbmeta = {vbmeta} /\ vbmeta.whole
      BY <1>3, <1>5, <2>4 DEF RebuildsVbmeta
    <3>2. w = << <<target, patched>>, <<"vbmeta", v>> >>
      BY <3>1, ChooseOnly, TwoWrites, ConcatEmptySeq DEF GblWrite, ImageWrites
    <3>3. v \in Vbmeta /\ v.whole /\ v.covers[target] = patched
      BY <1>2, <2>1, <3>1, RebuiltVbmeta
    <3>4. CoveredBy(patched, v)
      BY <3>1, <3>3 DEF CoveredBy
    <3>5. w \in Seq(Writes)
      <4> HIDE DEF w, v, patched
      <4> QED
        BY <1>2, <2>1, <3>2, <3>3, PlanType
    <3>6. Planned(w)
      <4> HIDE DEF w, v, patched
      <4> QED
        BY <2>1, <2>3, <3>2, <3>3, <3>4 DEF Planned
    <3> QED
      BY <1>1, <1>5, <3>5, <3>6, PlansKeeps DEF Worker
  <2>5. CASE ~RebuildsVbmeta(target)
    <3>1. held.vbmeta = {} /\ ~Owed
      BY <1>3, <2>2, <2>5 DEF Owed
    <3>2. CASE held.provision
      <4>1. w = << <<"efisp", "gbl">>, <<target, patched>> >>
        BY <3>1, <3>2, TwoWrites DEF GblWrite, ImageWrites
      <4>2. Planned(w) /\ w \in Seq(Writes)
        BY <1>2, <1>3, <2>1, <2>3, <3>2, <4>1, PlanType DEF Planned
      <4> QED
        BY <1>1, <1>5, <4>2, PlansKeeps DEF Worker
    <3>3. CASE ~held.provision
      <4>1. w = << <<target, patched>> >>
        BY <3>1, <3>3 DEF GblWrite, ImageWrites
      <4>2. Planned(w) /\ w \in Seq(Writes)
        BY <1>2, <2>1, <2>3, <3>1, <4>1, PlanType DEF Planned
      <4> QED
        BY <1>1, <1>5, <4>2, PlansKeeps DEF Worker
    <3> QED
      BY <3>2, <3>3
  <2> QED
    BY <2>4, <2>5
<1> QED
  BY <1>4, <1>5 DEF BuildPatched, Built

\* A converted vendor_boot is covered by the vbmeta rebuilt for it.
LEMMA ConvertRegionKeeps == RootInv /\ ConvertRegion => RootInv'
<1> SUFFICES ASSUME RootInv, ConvertRegion
             PROVE  RootInv'
  OBVIOUS
<1>1. /\ pc = "Dump" /\ op = "Rescue" /\ UNCHANGED <<model, runs, backups>> /\ Untouched
      /\ mode \in {"Edl", "Boot"} /\ runs \in 0..MaxRuns /\ worker \in Worker
  BY DEF ConvertRegion, In, RootInv, Types, DeviceType, WorkerType
<1>2. /\ target = "vendor_boot" /\ target \in Parts /\ image[target] \in Image
      /\ vbmeta \in Vbmeta
  BY <1>1 DEF RootInv, Types, DeviceType, Phase, Parts
<1>3. CASE mode' \in {"Edl", "Boot"} /\ Finish
  <2>1. Quiet
    BY <1>1, <1>3, SameIsQuiet
  <2> QED
    BY <1>3, <2>1, EndsKeeps DEF Finish, Ends
<1>4. ASSUME vbmeta.whole, UNCHANGED mode, NEW mark \in {image[target].mark, runs},
        worker' = [worker EXCEPT !.pc = "Write",
          !.todo = << <<target, [image[target] EXCEPT !.mark = mark]>>,
                      <<"vbmeta", rebuild_vbmeta(vbmeta, target,
                                    [image[target] EXCEPT !.mark = mark])>> >>]
      PROVE  RootInv'
  <2> DEFINE c == [image[target] EXCEPT !.mark = mark]
             v == rebuild_vbmeta(vbmeta, target, c)
             w == << <<target, c>>, <<"vbmeta", v>> >>
  <2>1. c \in Image
    <3>1. mark \in 0..MaxRuns
      BY <1>1, <1>2 DEF Image
    <3> QED
      BY <1>2, <3>1, ImageEdits
  <2>2. v \in Vbmeta /\ v.whole /\ v.covers[target] = c
    BY <1>2, <1>4, <2>1, RebuiltVbmeta
  <2>3. Fits(c) /\ CoveredBy(c, v)
    BY <1>2, <1>4, <2>2 DEF Fits, CoveredBy, Targets
  <2>4. Planned(w) /\ w \in Seq(Writes)
    BY <1>2, <2>1, <2>2, <2>3, PlanType DEF Planned
  <2> QED
    BY <1>1, <1>4, <2>4, PlansKeeps DEF Worker
<1> QED
  BY <1>3, <1>4 DEF ConvertRegion

\* What an unroot restores fits, and is covered where its folder is complete.
LEMMA RestoredKeeps ==
  ASSUME RootInv, UNCHANGED <<model, mode, runs, backups>>, Untouched,
         pc = "Dump", op = "Unroot", NEW i \in Image, NEW V \in SUBSET Vbmeta,
         NEW a \in BOOLEAN, Restored(i, V, a), Fits(i),
         V = {} => ~Owed, \A v \in V : CoveredBy(i, v)
  PROVE  RootInv'
<1>1. target \in Parts
  BY DEF RootInv, Types, WorkerType, Worker
<1>2. CASE V = {}
  <2>1. worker' = [worker EXCEPT !.pc = "Write", !.as_is = a, !.todo = << <<target, i>> >>]
    BY <1>2 DEF Restored
  <2>2. worker' = [worker EXCEPT !.pc = "Write", !.todo = << <<target, i>> >>, !.as_is = a]
    BY <2>1 DEF RootInv, Types, WorkerType, Worker
  <2>3. Planned(<< <<target, i>> >>) /\ << <<target, i>> >> \in Seq(Writes)
    <3>1. << <<target, i>> >> \in Seq(Writes)
      BY <1>1 DEF Writes
    <3> QED
      BY <1>2, <3>1 DEF Planned
  <2> QED
    BY <2>2, <2>3, PlansKeeps
<1>3. CASE V # {}
  <2> DEFINE v == CHOOSE x \in V : TRUE
             w == << <<target, i>>, <<"vbmeta", v>> >>
  <2>1. v \in V /\ v \in Vbmeta
    BY <1>3
  <2>2. worker' = [worker EXCEPT !.pc = "Write", !.as_is = a, !.todo = w]
    BY <1>3, TwoWrites DEF Restored
  <2>3. worker' = [worker EXCEPT !.pc = "Write", !.todo = w, !.as_is = a]
    <3> HIDE DEF w
    <3> QED
      BY <2>2 DEF RootInv, Types, WorkerType, Worker
  <2>4. Planned(w) /\ w \in Seq(Writes)
    <3> HIDE DEF v
    <3> QED
      BY <1>1, <2>1, PlanType DEF Planned
  <2> QED
    BY <2>3, <2>4, PlansKeeps
<1> QED
  BY <1>2, <1>3

\* The folder's image goes back as it is or with the device's index.
LEMMA VerifyAgainstDeviceKeeps == RootInv /\ VerifyAgainstDevice => RootInv'
<1> SUFFICES ASSUME RootInv, VerifyAgainstDevice
             PROVE  RootInv'
  OBVIOUS
<1> DEFINE dev == image[target]
           new == folder.images[target]
           vb  == RestoredVbmeta(folder)
<1>1. /\ pc = "Dump" /\ op = "Unroot" /\ UNCHANGED <<model, runs, backups>> /\ Untouched
      /\ mode \in {"Edl", "Boot"} /\ runs \in 0..MaxRuns /\ folder \in Folder
  BY DEF VerifyAgainstDevice, In, RootInv, Types, DeviceType, WorkerType, Worker
<1>2. /\ target \in Targets /\ target \in Parts /\ dev \in Image
      /\ target \in DOMAIN folder.images /\ target = ResolvedTarget(folder)
  BY <1>1, RootTarget DEF RootInv, Phase
<1>3. new \in Image /\ HasStock(target, new)
  BY <1>1, <1>2, FolderFacts DEF RootInv, Recoverable
<1>4. /\ vb = (IF RebuildsVbmeta(target) THEN folder.vbmeta ELSE {})
      /\ vb \in SUBSET Vbmeta /\ vb \subseteq folder.vbmeta
      /\ \A v, x \in folder.vbmeta : v = x
  BY <1>1, <1>2, FolderFacts DEF RestoredVbmeta
<1>5. vb = {} => ~Owed
  <2>1. target \in Hashed => RebuildsVbmeta(target)
    BY <1>2, HashedTargetsRebuild, RootAssumption DEF RootInv, Types, DeviceType
  <2> QED
    BY <1>1, <1>4, <2>1 DEF Owed, Complete
<1>6. ASSUME NEW v \in vb, Owed
      PROVE  v.whole /\ v.covers[target] = new
  <2>1. PICK x \in folder.vbmeta : x.whole /\ x.covers[target] = new
    BY <1>1, <1>6 DEF Owed, Complete
  <2> QED
    BY <1>4, <2>1
<1>7. CASE mode' \in {"Edl", "Boot"} /\ Finish
  <2>1. Quiet
    BY <1>1, <1>7, SameIsQuiet
  <2> QED
    BY <1>7, <2>1, EndsKeeps DEF Finish, Ends
<1>8. ASSUME UNCHANGED mode, NEW a \in BOOLEAN, Restored(new, vb, a),
             ~Gbl /\ target = "boot" => new.idx = dev.idx
      PROVE  RootInv'
  <2>1. Fits(new)
    BY <1>3, <1>8 DEF Fits
  <2>2. \A v \in vb : CoveredBy(new, v)
    BY <1>1, <1>6 DEF CoveredBy
  <2> QED
    BY <1>1, <1>3, <1>4, <1>5, <1>8, <2>1, <2>2, RestoredKeeps
<1>9. ASSUME UNCHANGED mode, RestorePatched(dev, new, vb)
      PROVE  RootInv'
  <2> DEFINE p == [new EXCEPT !.idx = dev.idx]
             V == {rebuild_vbmeta(v, target, p) : v \in vb}
  <2>1. Restored(p, V, FALSE) /\ \A v \in vb : v.whole
    BY <1>9 DEF RestorePatched
  <2>2. /\ p \in Image /\ p.idx = dev.idx /\ p.mark = new.mark /\ p.build = new.build
        /\ p.whole = new.whole
    <3>1. dev.idx \in 0..MaxIndex
      BY <1>2 DEF Image
    <3> QED
      BY <1>3, <3>1, ImageEdits DEF Image
  <2>3. HasStock(target, p)
    <3> HIDE DEF p
    <3> QED
      BY <1>3, <2>2, StockStays DEF HasStock
  <2>4. Fits(p)
    BY <2>2, <2>3 DEF Fits
  <2>5. ASSUME NEW x \in V
        PROVE  x \in Vbmeta /\ CoveredBy(p, x)
    <3>1. PICK v \in vb : x = rebuild_vbmeta(v, target, p)
      OBVIOUS
    <3>2. x \in Vbmeta /\ x.whole /\ x.covers[target] = p
      BY <1>2, <1>4, <2>1, <2>2, <3>1, RebuiltVbmeta
    <3> QED
      BY <1>1, <3>2 DEF CoveredBy
  <2>6. V = {} => ~Owed
    BY <1>5
  <2> HIDE DEF p, V
  <2> QED
    BY <1>1, <1>9, <2>1, <2>2, <2>4, <2>5, <2>6, RestoredKeeps
<1> QED
  BY <1>7, <1>8, <1>9 DEF VerifyAgainstDevice, Agrees

-----------------------------------------------------------------------------
(* Writes.                                                                 *)

\* What a write may leave on the device, finished or torn.
Written == /\ UNCHANGED <<model, mode, committed, backups, runs>>
           /\ image' \in [Parts -> Image] /\ vbmeta' \in Vbmeta
           /\ efisp' \in {"empty", "gbl", "torn"}
           /\ \A t \in Targets : StockIn(backups, t \in Hashed, t, image'[t])

\* A write keeps the stock recoverable.
LEMMA WrittenKeeps ==
  ASSUME RootInv, Written, folder' = folder \/ folder' = NoFolder
  PROVE  DeviceType' /\ FileType' /\ Recoverable'
<1>1. Gbl' = Gbl /\ Hashed' = Hashed
  BY DEF Written, Gbl, Hashed
<1>2. DeviceType' /\ FileType'
  BY DEF RootInv, Types, DeviceType, FileType, Written
<1>3. \A t \in Targets : HasStock(t, image[t])'
  BY <1>1 DEF Written, HasStock
<1>4. \A f \in backups' : \A t \in DOMAIN f.images :
        StockIn(backups', t \in Hashed', t, f.images[t])
  BY <1>1 DEF RootInv, Recoverable, Written, HasStock
<1>5. \A t \in DOMAIN folder'.images : StockIn(backups', t \in Hashed', t, folder'.images[t])
  BY <1>1, NoFolderIsFolder DEF RootInv, Recoverable, Written, HasStock
<1> QED
  BY <1>2, <1>3, <1>4, <1>5 DEF Recoverable, HasStock

\* The image under way, its torn forms, and the rest of the device as it was.
LEMMA ImageIsWritten ==
  ASSUME RootInv, NEW p \in Image, Fits(p), NEW j \in {p} \cup Torn(image[target], p),
         UNCHANGED <<model, mode, vbmeta, efisp, committed, backups, runs>>,
         image' = [image EXCEPT ![target] = j]
  PROVE  /\ Written /\ image'[target] = j
         /\ \A q \in Parts \ {target} : image'[q] = image[q]
<1>1. /\ image \in [Parts -> Image] /\ vbmeta \in Vbmeta /\ efisp \in {"empty", "gbl", "torn"}
      /\ target \in Parts /\ image[target] \in Image
  BY DEF RootInv, Types, DeviceType, WorkerType, Worker
<1>2. /\ j \in Image
      /\ \E o \in {p, image[target]} :
           j.mark = o.mark /\ j.build = o.build /\ j.idx = o.idx /\ (j.whole => o.whole)
  <2>1. CASE j = p
    BY <2>1
  <2>2. CASE j = [image[target] EXCEPT !.whole = FALSE]
    BY <1>1, <2>2, ImageEdits DEF Image
  <2>3. CASE j = [p EXCEPT !.whole = FALSE]
    BY <2>3, ImageEdits DEF Image
  <2> QED
    BY <2>1, <2>2, <2>3 DEF Torn
<1>3. /\ image'[target] = j /\ \A q \in Parts \ {target} : image'[q] = image[q]
      /\ image' \in [Parts -> Image]
  BY <1>1, <1>2
<1>4. ASSUME NEW t \in Targets
      PROVE  StockIn(backups, t \in Hashed, t, image'[t])
  <2>1. StockIn(backups, t \in Hashed, t, image[t])
    BY DEF RootInv, Recoverable, HasStock
  <2>2. CASE t # target
    BY <1>3, <2>1, <2>2 DEF Targets, Parts
  <2>3. CASE t = target
    <3>1. StockIn(backups, t \in Hashed, t, p)
      BY <2>3 DEF Fits, HasStock
    <3>2. StockIn(backups, t \in Hashed, t, j)
      BY <1>2, <2>1, <2>3, <3>1, StockStays
    <3> QED
      BY <1>3, <2>3, <3>2
  <2> QED
    BY <2>2, <2>3
<1> QED
  BY <1>1, <1>3, <1>4 DEF Written

\* So is a write of vbmeta or efisp, torn or not.
LEMMA OtherIsWritten ==
  ASSUME RootInv, UNCHANGED <<model, mode, image, committed, backups, runs>>,
         vbmeta' \in Vbmeta, efisp' \in {"empty", "gbl", "torn"}
  PROVE  Written
<1>1. image \in [Parts -> Image]
  BY DEF RootInv, Types, DeviceType
<1>2. \A t \in Targets : StockIn(backups, t \in Hashed, t, image[t])
  BY DEF RootInv, Recoverable, HasStock
<1> QED
  BY <1>1, <1>2 DEF Written

\* A write that breaks off ends the run; a root recovers first, and remembers
\* that it wrote.
Breaks == worker' = (IF op = "Root" THEN [worker EXCEPT !.pc = "Recover", !.written = TRUE]
                     ELSE Locals("Done", op, target, NoFolder))
LEMMA BreaksKeeps ==
  ASSUME RootInv, Written, pc = "Write", Breaks
  PROVE  RootInv'
<1>1. worker \in Worker /\ InSync \subseteq Hashed
  BY SyncFacts DEF RootInv, Types, WorkerType
<1>2. Hashed' = Hashed
  BY DEF Written, Hashed, Gbl
<1>3. CASE op = "Root"
  <2>1. /\ pc' = "Recover" /\ op' = op /\ target' = target /\ folder' = folder
        /\ worker'.before = worker.before
    BY <1>1, <1>3 DEF Breaks, Worker
  <2>2. WorkerType'
    BY <1>1, <1>3 DEF Breaks, WorkerType, Worker, Phases
  <2>3. Phase' /\ Plan' /\ FinishedPairsInSync' /\ Kept'
    BY <1>2, <1>3, <2>1 DEF RootInv, Phase, Plan, FinishedPairsInSync, Kept
  <2> QED
    BY <2>1, <2>2, <2>3, WrittenKeeps DEF RootInv, Types
<1>4. CASE op # "Root"
  <2>1. /\ pc' = "Done" /\ op' = op /\ target' = target /\ folder' = NoFolder
        /\ worker'.written = FALSE /\ worker'.before = InSync
    BY <1>4 DEF Breaks, Locals
  <2>2. WorkerType'
    <3>1. "Done" \in Phases /\ op \in Jobs /\ target \in Parts
      BY <1>1 DEF Phases, Worker
    <3> QED
      BY <1>4, <3>1, LocalsType, NoFolderIsFolder DEF Breaks, WorkerType
  <2>3. Phase' /\ Plan' /\ FinishedPairsInSync' /\ Kept'
    BY <1>1, <1>2, <2>1 DEF RootInv, Phase, Plan, FinishedPairsInSync, Kept
  <2> QED
    BY <2>1, <2>2, <2>3, WrittenKeeps DEF RootInv, Types
<1> QED
  BY <1>3, <1>4

\* A finished write goes on with the rest of the plan, or to the reset.
Wrote(rest) == worker' = [worker EXCEPT !.todo = rest, !.written = TRUE,
                                        !.pc = IF rest = <<>> THEN "Reset" ELSE pc]
LEMMA WroteKeeps ==
  ASSUME RootInv, Written, pc = "Write", NEW rest \in Seq(Writes), Wrote(rest),
         rest # <<>> => Plan' /\ (op # "Unroot" =>
           \A q \in worker.before : q \in InSync' \/ q = target),
         rest = <<>> =>
           /\ op # "Unroot" => worker.before \cup ({target} \cap Hashed) \subseteq InSync'
           /\ Owed => target \in InSync'
  PROVE  RootInv'
<1>1. worker \in Worker
  BY DEF RootInv, Types, WorkerType
<1>2. /\ pc' = (IF rest = <<>> THEN "Reset" ELSE "Write") /\ op' = op /\ target' = target
      /\ folder' = folder /\ todo' = rest /\ worker'.written = TRUE
      /\ worker'.before = worker.before
  BY <1>1 DEF Wrote, Worker
<1>3. WorkerType'
  BY <1>1 DEF Wrote, WorkerType, Worker, Phases
<1>4. Hashed' = Hashed
  BY DEF Written, Hashed, Gbl
<1>5. Phase'
  BY <1>2 DEF RootInv, Phase, ResolvedTarget
<1>6. Kept'
  BY <1>2, <1>4 DEF RootInv, Kept
<1>7. Plan'
  BY <1>2 DEF Plan
<1>8. FinishedPairsInSync'
  <2> SUFFICES ASSUME rest = <<>>
               PROVE  FinishedPairsInSync'
    BY <1>2 DEF FinishedPairsInSync
  <2>1. op = "Unroot" /\ Complete(folder, target)' => {target} \cap Hashed \subseteq InSync'
    BY <1>2, <1>4 DEF Owed, Complete
  <2> QED
    BY <1>2, <1>4, <2>1 DEF FinishedPairsInSync
<1> QED
  BY <1>2, <1>3, <1>5, <1>6, <1>7, <1>8, WrittenKeeps DEF RootInv, Types

\* What WriteNext does to the partitions with its first write: all of it, or,
\* when it breaks off, nothing or a torn image.
LEMMA WriteCases ==
  ASSUME RootInv, WriteNext, NEW part, NEW new, NEW rest \in Seq(Writes),
         Head(todo) = <<part, new>>, Tail(todo) = rest
  PROVE  /\ UNCHANGED <<model, mode, committed, backups, runs>>
         /\ \/ /\ Wrote(rest)
               /\ image' = (IF part \in Parts THEN [image EXCEPT ![part] = new] ELSE image)
               /\ vbmeta' = (IF part = "vbmeta" THEN new ELSE vbmeta)
               /\ efisp' = (IF part = "efisp" THEN new ELSE efisp)
            \/ /\ Breaks
               /\ image' \in {image} \cup (IF part \notin Parts THEN {}
                                ELSE {[image EXCEPT ![part] = i] : i \in Torn(image[part], new)})
               /\ vbmeta' \in {vbmeta, IF part = "vbmeta" THEN [vbmeta EXCEPT !.whole = FALSE]
                                       ELSE vbmeta}
               /\ efisp' \in {efisp, IF part = "efisp" THEN "torn" ELSE efisp}
<1>1. Head(todo)[1] = part /\ Head(todo)[2] = new
  OBVIOUS
<1> QED
  BY <1>1 DEF WriteNext, Wrote, Breaks

\* The first write of a plan is its image.
LEMMA WriteImageKeeps ==
  ASSUME RootInv, WriteNext, NEW p \in Image, Fits(p), NEW rest \in Seq(Writes),
         Head(todo) = <<target, p>>, Tail(todo) = rest,
         \/ rest = <<>> /\ ~Owed
         \/ \E v \in Vbmeta : rest = << <<"vbmeta", v>> >> /\ CoveredBy(p, v)
  PROVE  RootInv'
<1>1. /\ target \in Parts /\ target # "vbmeta" /\ target # "efisp" /\ pc = "Write"
      /\ worker \in Worker /\ image \in [Parts -> Image] /\ vbmeta \in Vbmeta
      /\ efisp \in {"empty", "gbl", "torn"}
  BY DEF RootInv, Types, WorkerType, Worker, DeviceType, WriteNext, Parts
<1>2. UNCHANGED <<model, mode, committed, backups, runs>>
  BY WriteCases
<1>3. ASSUME Breaks, image' \in {image} \cup
               {[image EXCEPT ![target] = i] : i \in Torn(image[target], p)},
             vbmeta' = vbmeta, efisp' = efisp
      PROVE  RootInv'
  <2>1. CASE image' = image
    <3>1. Written
      BY <1>1, <1>2, <1>3, <2>1, OtherIsWritten
    <3> QED
      BY <1>1, <1>3, <3>1, BreaksKeeps
  <2>2. CASE image' # image
    <3>1. PICK i \in Torn(image[target], p) : image' = [image EXCEPT ![target] = i]
      BY <1>3, <2>2
    <3>2. Written
      BY <1>2, <1>3, <3>1, ImageIsWritten
    <3> QED
      BY <1>1, <1>3, <3>2, BreaksKeeps
  <2> QED
    BY <2>1, <2>2
<1>4. ASSUME Wrote(rest), image' = [image EXCEPT ![target] = p], vbmeta' = vbmeta, efisp' = efisp
      PROVE  RootInv'
  <2>1. /\ Written /\ image'[target] = p
        /\ \A q \in Parts \ {target} : image'[q] = image[q]
    BY <1>2, <1>4, ImageIsWritten
  <2>2. /\ op' = op /\ target' = target /\ folder' = folder /\ todo' = rest
        /\ worker'.written = TRUE
    BY <1>1, <1>4 DEF Wrote, Worker
  <2>3. Hashed' = Hashed /\ Owed' = Owed
    BY <1>2, <2>2, SameTerms
  <2>4. \A q \in InSync : q \in InSync' \/ q = target
    BY <1>4, <2>1, <2>3, SyncFacts DEF InSync
  <2>5. op # "Unroot" => \A q \in worker.before : q \in InSync' \/ q = target
    BY <1>1, <2>4 DEF RootInv, Kept
  <2>6. CASE rest = <<>> /\ ~Owed
    <3>1. op # "Unroot" => target \notin Hashed
      BY <2>6 DEF Owed
    <3>2. worker.before \subseteq Hashed
      BY DEF RootInv, Kept
    <3>3. op # "Unroot" => worker.before \cup ({target} \cap Hashed) \subseteq InSync'
      BY <2>5, <3>1, <3>2
    <3> QED
      BY <1>1, <1>4, <2>1, <2>6, <3>3, WroteKeeps
  <2>7. CASE \E v \in Vbmeta : rest = << <<"vbmeta", v>> >> /\ CoveredBy(p, v)
    <3>1. PICK v \in Vbmeta : rest = << <<"vbmeta", v>> >> /\ CoveredBy(p, v)
      BY <2>7
    <3>2. CoveredBy(p, v)'
      BY <1>4, <2>2, <2>3, <3>1 DEF CoveredBy
    <3>3. Planned(rest)'
      BY <2>1, <2>2, <3>1, <3>2 DEF Planned
    <3>4. Plan'
      BY <2>2, <3>3 DEF Plan
    <3>5. rest # <<>>
      BY <3>1
    <3> QED
      BY <1>1, <1>4, <2>1, <2>5, <3>4, <3>5, WroteKeeps
  <2> QED
    BY <2>6, <2>7
<1> QED
  BY <1>1, <1>3, <1>4, WriteCases

\* The last write of a plan is its vbmeta, whose image is there.
LEMMA WriteVbmetaKeeps ==
  ASSUME RootInv, WriteNext, NEW p \in Image, NEW v \in Vbmeta,
         todo = << <<"vbmeta", v>> >>, worker.written, image[target] = p, CoveredBy(p, v)
  PROVE  RootInv'
<1>1. /\ target \in Parts /\ pc = "Write" /\ efisp \in {"empty", "gbl", "torn"}
      /\ worker \in Worker /\ image \in [Parts -> Image] /\ vbmeta \in Vbmeta
  BY DEF RootInv, Types, WorkerType, Worker, DeviceType, WriteNext, Parts
<1>2. Head(todo) = <<"vbmeta", v>> /\ Tail(todo) = <<>> /\ <<>> \in Seq(Writes)
  OBVIOUS
<1>3. UNCHANGED <<model, mode, committed, backups, runs>>
  BY <1>2, WriteCases
<1>4. ASSUME Breaks, image' = image, efisp' = efisp,
             vbmeta' \in {vbmeta, [vbmeta EXCEPT !.whole = FALSE]}
      PROVE  RootInv'
  <2>1. vbmeta' \in Vbmeta
    BY <1>1, <1>4 DEF Vbmeta
  <2>2. Written
    BY <1>1, <1>3, <1>4, <2>1, OtherIsWritten
  <2> QED
    BY <1>1, <1>4, <2>2, BreaksKeeps
<1>5. ASSUME Wrote(<<>>), image' = image, vbmeta' = v, efisp' = efisp
      PROVE  RootInv'
  <2>1. Written
    BY <1>1, <1>3, <1>5, OtherIsWritten
  <2>2. Hashed' = Hashed
    BY <1>3 DEF Hashed, Gbl
  <2>3. Owed => target \in InSync'
    BY <1>5, <2>2 DEF CoveredBy, Owed, InSync
  <2>4. ASSUME op # "Unroot"
        PROVE  worker.before \cup ({target} \cap Hashed) \subseteq InSync'
    <3>1. /\ v = rebuild_vbmeta(vbmeta, target, p) /\ vbmeta.whole
      BY <2>4 DEF CoveredBy
    <3>2. /\ v.whole = vbmeta.whole /\ v.covers[target] = p
          /\ \A q \in Parts \ {target} : v.covers[q] = vbmeta.covers[q]
      <4> DEFINE r == rebuild_vbmeta(vbmeta, target, p)
      <4>1. /\ r.whole = vbmeta.whole /\ r.covers[target] = p
            /\ \A q \in Parts \ {target} : r.covers[q] = vbmeta.covers[q]
        BY <1>1, RebuiltVbmeta
      <4> QED
        BY <3>1, <4>1
    <3>3. worker.before \subseteq Hashed /\ \A q \in worker.before : q \in InSync \/ q = target
      BY <1>1, <2>4 DEF RootInv, Kept
    <3>4. \A q \in InSync : q \in InSync'
      BY <1>5, <2>2, <3>1, <3>2, SyncFacts DEF InSync
    <3>5. target \in Hashed => target \in InSync'
      BY <1>5, <2>2, <3>1, <3>2 DEF InSync
    <3> QED
      BY <3>3, <3>4, <3>5
  <2> QED
    BY <1>1, <1>2, <1>5, <2>1, <2>3, <2>4, WroteKeeps
<1> QED
  BY <1>2, <1>4, <1>5, WriteCases DEF Parts

\* A root that provisions efisp writes it before its image.
LEMMA WriteEfispKeeps ==
  ASSUME RootInv, WriteNext, NEW p \in Image, Gbl, Fits(p),
         todo = << <<"efisp", "gbl">>, <<target, p>> >>
  PROVE  RootInv'
<1> DEFINE rest == << <<target, p>> >>
<1>1. /\ target \in Parts /\ pc = "Write" /\ efisp \in {"empty", "gbl", "torn"}
      /\ worker \in Worker /\ image \in [Parts -> Image] /\ vbmeta \in Vbmeta
  BY DEF RootInv, Types, WorkerType, Worker, DeviceType, WriteNext, Parts
<1>2. Head(todo) = <<"efisp", "gbl">> /\ Tail(todo) = rest /\ rest \in Seq(Writes)
  BY <1>1 DEF Writes
<1>3. UNCHANGED <<model, mode, committed, backups, runs>>
  BY <1>2, WriteCases
<1>4. ASSUME Breaks, image' = image, vbmeta' = vbmeta, efisp' \in {efisp, "torn"}
      PROVE  RootInv'
  <2>1. Written
    BY <1>1, <1>3, <1>4, OtherIsWritten
  <2> QED
    BY <1>1, <1>4, <2>1, BreaksKeeps
<1>5. ASSUME Wrote(rest), image' = image, vbmeta' = vbmeta, efisp' = "gbl"
      PROVE  RootInv'
  <2>1. Written
    BY <1>1, <1>3, <1>5, OtherIsWritten
  <2>2. /\ op' = op /\ target' = target /\ folder' = folder /\ todo' = rest
    BY <1>1, <1>5 DEF Wrote, Worker
  <2>3. Hashed' = Hashed /\ Owed' = Owed /\ Gbl' = Gbl
    BY <1>3, <2>2, SameTerms
  <2>4. Fits(p)' /\ ~Owed
    BY <1>3, <1>5, <2>2, <2>3, HashedIs DEF Fits, HasStock, Owed
  <2>5. Planned(rest)'
    <3> HIDE DEF rest
    <3> QED
      BY <2>2, <2>3, <2>4 DEF Planned, rest
  <2>6. Plan'
    BY <2>2, <2>5 DEF Plan
  <2>7. InSync' = InSync
    BY <1>5, <2>3 DEF InSync
  <2>8. op # "Unroot" => \A q \in worker.before : q \in InSync' \/ q = target
    BY <1>1, <2>7 DEF RootInv, Kept
  <2>9. rest # <<>>
    OBVIOUS
  <2> QED
    BY <1>1, <1>2, <1>5, <2>1, <2>6, <2>8, <2>9, WroteKeeps
<1> QED
  BY <1>2, <1>4, <1>5, WriteCases DEF Parts

\* The next write of any plan.
LEMMA WriteNextKeeps == RootInv /\ WriteNext => RootInv'
<1> SUFFICES ASSUME RootInv, WriteNext
             PROVE  RootInv'
  OBVIOUS
<1>0. target \in Parts
  BY DEF RootInv, Types, WorkerType, Worker
<1>1. Planned(todo)
  BY DEF WriteNext, RootInv, Plan
<1>2. ASSUME NEW p \in Image, todo = << <<"efisp", "gbl">>, <<target, p>> >>, Gbl, Fits(p)
      PROVE  RootInv'
  BY <1>2, WriteEfispKeeps
<1>3. ASSUME NEW p \in Image, todo = << <<target, p>> >>, Fits(p), ~Owed
      PROVE  RootInv'
  <2>1. Head(todo) = <<target, p>> /\ Tail(todo) = <<>> /\ <<>> \in Seq(Writes)
    BY <1>3
  <2> QED
    BY <1>3, <2>1, WriteImageKeeps
<1>4. ASSUME NEW p \in Image, NEW v \in Vbmeta, Fits(p), CoveredBy(p, v),
             todo = << <<target, p>>, <<"vbmeta", v>> >>
      PROVE  RootInv'
  <2>1. /\ Head(todo) = <<target, p>> /\ Tail(todo) = << <<"vbmeta", v>> >>
        /\ << <<"vbmeta", v>> >> \in Seq(Writes)
    BY <1>4 DEF Writes
  <2> QED
    BY <1>4, <2>1, WriteImageKeeps
<1>5. ASSUME NEW p \in Image, NEW v \in Vbmeta, todo = << <<"vbmeta", v>> >>,
             worker.written, image[target] = p, CoveredBy(p, v)
      PROVE  RootInv'
  BY <1>5, WriteVbmetaKeeps
<1> QED
  BY <1>1, <1>2, <1>3, <1>4, <1>5 DEF Planned

-----------------------------------------------------------------------------
(* The user and the device.                                                *)

\* A device that is power-cycled, boots, or gets new firmware: a boot commits no
\* more than the index of the image it verified.
LEMMA IdleKeeps == RootInv /\ (PowerCycle \/ BootUp \/ FirmwareFlash) => RootInv'
<1> SUFFICES ASSUME RootInv, PowerCycle \/ BootUp \/ FirmwareFlash
             PROVE  RootInv'
  OBVIOUS
<1>1. /\ pc = "Done" /\ UNCHANGED <<model, backups, worker>>
  BY DEF PowerCycle, BootUp, FirmwareFlash, Idle
<1>2. /\ worker \in Worker /\ mode \in {"Edl", "Boot"} /\ committed \in 1..MaxIndex
      /\ runs \in 0..MaxRuns /\ image \in [Parts -> Image] /\ vbmeta \in Vbmeta
      /\ efisp \in {"empty", "gbl", "torn"} /\ model \in Models /\ backups \subseteq Folder
  BY DEF RootInv, Types, DeviceType, WorkerType, FileType
<1>3. Gbl' = Gbl /\ Hashed' = Hashed
  BY <1>1 DEF Gbl, Hashed
<1>4. WorkerType' /\ FileType'
  BY <1>1, <1>2 DEF WorkerType, FileType
<1>5. Phase' /\ Plan' /\ Kept' /\ FinishedPairsInSync'
  BY <1>1, <1>3 DEF RootInv, Phase, Plan, Kept, FinishedPairsInSync
<1>6. ASSUME \A t \in Targets : StockIn(backups, t \in Hashed, t, image'[t])
      PROVE  Recoverable'
  BY <1>1, <1>3, <1>6 DEF RootInv, Recoverable, HasStock
<1>7. CASE PowerCycle \/ BootUp
  <2>1. UNCHANGED <<image, vbmeta, efisp, runs>>
    BY <1>7 DEF PowerCycle, BootUp
  <2>2. Recoverable'
    BY <1>6, <2>1 DEF RootInv, Recoverable, HasStock
  <2>3. committed' \in 1..MaxIndex
    <3>1. image["boot"] \in Image /\ image["boot"].idx \in 0..MaxIndex
      BY <1>2 DEF Parts, Image
    <3> QED
      BY <1>2, <1>7, <3>1, RootAssumption DEF PowerCycle, BootUp
  <2>4. DeviceType'
    BY <1>1, <1>2, <1>7, <2>1, <2>3 DEF DeviceType, PowerCycle, BootUp
  <2> QED
    BY <1>4, <1>5, <2>2, <2>4 DEF RootInv, Types
<1>8. CASE FirmwareFlash
  <2>0. PICK b \in 1..MaxBuild : \E i \in b..MaxIndex :
          /\ image' = Firmware(b, i) /\ vbmeta' = Covering(Firmware(b, i))
    BY <1>8 DEF FirmwareFlash
  <2>1. PICK i \in b..MaxIndex :
          /\ image' = Firmware(b, i) /\ vbmeta' = Covering(Firmware(b, i))
    BY <2>0
  <2>2. i \in 0..MaxIndex
    BY RootAssumption
  <2>3. /\ image' \in [Parts -> Image] /\ \A q \in Parts : image'[q].mark = 0
        /\ image'["boot"].idx = i /\ vbmeta' \in Vbmeta
    BY <2>1, <2>2, FirmwareType
  <2>4. Recoverable'
    BY <1>6, <2>3 DEF StockIn, Targets, Parts
  <2>5. runs' \in 0..MaxRuns
    BY <1>2, <1>8, RootAssumption DEF FirmwareFlash
  <2>6. DeviceType'
    BY <1>1, <1>2, <1>8, <2>1, <2>3, <2>5 DEF DeviceType, FirmwareFlash
  <2> QED
    BY <1>4, <1>5, <2>4, <2>6 DEF RootInv, Types
<1> QED
  BY <1>7, <1>8

\* The invariant holds at the start, when everything is stock.
LEMMA InitRootInv == Init => RootInv
<1> SUFFICES ASSUME Init
             PROVE  RootInv
  OBVIOUS
<1>0. PICK b \in 1..MaxBuild : \E i \in b..MaxIndex :
        image = Firmware(b, i) /\ vbmeta = Covering(Firmware(b, i)) /\ committed = i
  BY DEF Init
<1>1. PICK i \in b..MaxIndex :
        image = Firmware(b, i) /\ vbmeta = Covering(Firmware(b, i)) /\ committed = i
  BY <1>0
<1>2. i \in 0..MaxIndex /\ i \in 1..MaxIndex
  BY RootAssumption
<1>3. /\ image \in [Parts -> Image] /\ \A q \in Parts : image[q].mark = 0
      /\ image["boot"].idx = i /\ vbmeta \in Vbmeta
  BY <1>1, <1>2, FirmwareType
<1>4. DeviceType /\ FileType
  BY <1>1, <1>2, <1>3, RootAssumption DEF Init, DeviceType, FileType
<1>5. WorkerType
  BY LocalsType, NoFolderIsFolder DEF Init, WorkerType, Phases, Jobs, Parts
<1>6. /\ pc = "Done" /\ op = "Root" /\ target = "boot" /\ folder = NoFolder
      /\ worker.written = FALSE /\ worker.before = InSync
  BY DEF Init, Locals
<1>7. Phase /\ Plan /\ FinishedPairsInSync
  BY <1>6 DEF Phase, Plan, FinishedPairsInSync
<1>8. Kept
  BY <1>6, SyncFacts DEF Kept
<1>9. Recoverable
  BY <1>3, <1>6, NoFolderIsFolder DEF Init, Recoverable, HasStock, StockIn, Targets, Parts
<1> QED
  BY <1>4, <1>5, <1>7, <1>8, <1>9 DEF RootInv, Types

\* A step in which nothing changes.
LEMMA StutterKeeps == RootInv /\ UNCHANGED vars => RootInv'
<1> SUFFICES ASSUME RootInv, UNCHANGED vars
             PROVE  RootInv'
  OBVIOUS
<1>1. UNCHANGED <<model, mode, image, vbmeta, efisp, committed, backups, worker, runs>>
  BY DEF vars, device
<1>2. Gbl' = Gbl /\ Hashed' = Hashed /\ Owed' = Owed
  BY <1>1, SameTerms
<1>3. Types'
  BY <1>1, <1>2 DEF RootInv, Types, DeviceType, FileType, WorkerType
<1>4. InSync' = InSync
  BY <1>1, <1>2 DEF InSync
<1>5. Recoverable'
  BY <1>1, <1>2 DEF RootInv, Recoverable, HasStock
<1>6. Kept' /\ FinishedPairsInSync'
  BY <1>1, <1>2, <1>4 DEF RootInv, Kept, FinishedPairsInSync, Complete
<1>7. \A p, v : Fits(p)' = Fits(p) /\ CoveredBy(p, v)' = CoveredBy(p, v)
  BY <1>1, <1>2 DEF Fits, CoveredBy, HasStock
<1>8. Plan'
  BY <1>1, <1>2, <1>7 DEF RootInv, Plan, Planned
<1>9. RebuildsVbmeta(target)' = RebuildsVbmeta(target)
      /\ FolderOf(image[target], held.vbmeta)' = FolderOf(image[target], held.vbmeta)
  BY <1>1, <1>2 DEF RebuildsVbmeta, FolderOf
<1>10. Phase'
  BY <1>1, <1>2, <1>9 DEF RootInv, Phase, ResolvedTarget
<1> QED
  BY <1>3, <1>5, <1>6, <1>8, <1>10 DEF RootInv

-----------------------------------------------------------------------------
(* The theorems.                                                           *)

\* Every step of root, unroot, rescue and of the device keeps the invariant.
LEMMA NextRootInv == RootInv /\ [Next]_vars => RootInv'
<1> SUFFICES ASSUME RootInv, [Next]_vars
             PROVE  RootInv'
  OBVIOUS
<1>1. CASE StartRoot \/ StartUnroot \/ StartRescue
  BY <1>1, StartRootKeeps, StartUnrootKeeps, StartRescueKeeps
<1>2. CASE ResolveSlot \/ EnterEdl \/ WriteNext \/ Reset
  BY <1>2, ResolveSlotKeeps, EnterEdlKeeps, WriteNextKeeps, ResetKeeps
<1>3. CASE DumpStock \/ PersistBackup \/ BuildPatched \/ Recover
  BY <1>3, DumpStockKeeps, PersistBackupKeeps, BuildPatchedKeeps, ResetKeeps
<1>4. CASE VerifyAgainstDevice \/ ConvertRegion
  BY <1>4, VerifyAgainstDeviceKeeps, ConvertRegionKeeps
<1>5. CASE PowerCycle \/ BootUp \/ FirmwareFlash
  BY <1>5, IdleKeeps
<1>6. CASE UNCHANGED vars
  BY <1>6, StutterKeeps
<1> QED
  BY <1>1, <1>2, <1>3, <1>4, <1>5, <1>6 DEF Next

\* In every behaviour the plans, dumps, backups and folders are as RootInv says.
THEOREM RootInvariance == Spec => []RootInv
<1>1. Init => RootInv
  BY InitRootInv
<1>2. RootInv /\ [Next]_vars => RootInv'
  BY NextRootInv
<1> QED
  BY <1>1, <1>2, PTL DEF Spec

\* Root, unroot and rescue keep their state within its types: TypeOK.
THEOREM RootKeepsItsTypes == Spec => []TypeOK
<1>1. RootInv => TypeOK
  <2> SUFFICES ASSUME RootInv
               PROVE  TypeOK
    OBVIOUS
  <2>1. /\ model \in Models /\ mode \in {"Edl", "Boot"} /\ image \in [Parts -> Image]
        /\ vbmeta.whole \in BOOLEAN /\ vbmeta.covers \in [Parts -> Image]
        /\ efisp \in {"empty", "gbl", "torn"} /\ committed \in 1..MaxIndex
        /\ runs \in 0..MaxRuns
    BY DEF RootInv, Types, DeviceType, Vbmeta
  <2>2. \A f \in backups : \A t \in DOMAIN f.images : t \in Targets /\ f.images[t] \in Image
    BY FolderFacts DEF RootInv, Types, FileType
  <2>3. /\ pc \in Phases /\ op \in Jobs /\ target \in Parts
        /\ todo \in Seq(Writes) /\ worker.written \in BOOLEAN
    BY DEF RootInv, Types, WorkerType, Worker
  <2>4. \A i \in DOMAIN todo : todo[i] \in Writes
    BY <2>3
  <2>5. \A i \in DOMAIN todo : todo[i][1] \in Parts \cup {"vbmeta", "efisp"}
    BY <2>4 DEF Writes
  <2> QED
    BY <2>1, <2>2, <2>3, <2>5 DEF TypeOK, Phases, Jobs
<1> QED
  BY <1>1, RootInvariance, PTL

\* A root image on a partition has its stock image in a backup, whatever runs
\* failed, were retried or followed: StockIsRecoverable.
THEOREM RootsAreRecoverable == Spec => []StockIsRecoverable
<1>1. RootInv => StockIsRecoverable
  BY DEF RootInv, Recoverable, HasStock, StockIn, StockIsRecoverable
<1> QED
  BY <1>1, RootInvariance, PTL

\* A run that finishes leaves vbmeta in agreement with what it wrote, and takes
\* nothing out of agreement: FinishedPairsInSync.
THEOREM FinishedRunsLeavePairs == Spec => []FinishedPairsInSync
<1>1. RootInv => FinishedPairsInSync
  BY DEF RootInv
<1> QED
  BY <1>1, RootInvariance, PTL

\* A root keeps boot's index and an unroot restores nothing of another, whatever
\* firmware was flashed in between and whatever its index: none takes boot below the
\* committed floor, or lower than it was below it.
THEOREM FloorIsKept == Spec => NeverBelowFloor
<1>1. RootInv /\ [Next]_vars =>
        [~Gbl /\ pc # "Done" =>
           image'["boot"].idx >= committed \/ image'["boot"].idx >= image["boot"].idx]_vars
  <2> SUFFICES ASSUME RootInv, Next, ~Gbl, pc # "Done"
               PROVE  image'["boot"].idx >= image["boot"].idx
    OBVIOUS
  <2>1. /\ image \in [Parts -> Image] /\ image["boot"].idx \in Nat
        /\ image["boot"].idx >= image["boot"].idx
    BY DEF RootInv, Types, DeviceType, Parts, Image
  <2>2. CASE image' = image
    BY <2>1, <2>2
  <2>3. CASE image' # image
    <3>1. WriteNext
      BY <2>3 DEF Next, StartRoot, StartUnroot, StartRescue, Start, device, ResolveSlot,
         EnterEdl, Reset, DumpStock, PersistBackup, BuildPatched, Built, Recover,
         VerifyAgainstDevice, ConvertRegion, Untouched, PowerCycle, BootUp, FirmwareFlash, Idle
    <3>2. pc = "Write" /\ todo # <<>> /\ Planned(todo)
      BY <3>1 DEF RootInv, Plan, WriteNext
    <3>3. Head(todo)[1] \in Parts
      BY <2>3, <3>1 DEF WriteNext
    <3>4. PICK p \in Image : Head(todo) = <<target, p>> /\ Fits(p)
      BY <3>2, <3>3 DEF Planned, Parts
    <3>5. \E i \in {p} \cup Torn(image[target], p) : image' = [image EXCEPT ![target] = i]
      BY <2>3, <3>1, <3>4 DEF WriteNext
    <3>6. PICK i \in {p} \cup Torn(image[target], p) : image' = [image EXCEPT ![target] = i]
      BY <3>5
    <3>7. CASE target = "boot"
      <4>1. p.idx = image["boot"].idx
        BY <3>4, <3>7 DEF Fits
      <4>2. i.idx = image["boot"].idx
        <5>1. image[target] \in Image
          BY <2>1, <3>7 DEF Parts
        <5>2. CASE i = p
          BY <4>1, <5>2
        <5>3. CASE i = [image[target] EXCEPT !.whole = FALSE]
          BY <3>7, <5>1, <5>3, ImageEdits DEF Image
        <5>4. CASE i = [p EXCEPT !.whole = FALSE]
          BY <4>1, <5>4, ImageEdits DEF Image
        <5> QED
          BY <3>6, <5>2, <5>3, <5>4 DEF Torn
      <4> QED
        BY <2>1, <3>6, <3>7, <4>2 DEF Parts
    <3>8. CASE target # "boot"
      BY <2>1, <3>6, <3>8 DEF Parts
    <3> QED
      BY <3>7, <3>8
  <2> QED
    BY <2>2, <2>3
<1> QED
  BY <1>1, RootInvariance, PTL DEF Spec, NeverBelowFloor

\* A worker that began to write takes the device out of EDL only when nothing is
\* left to write: ResetOnlyWhole.
THEOREM BrokenRunsStayInEdl == Spec => ResetOnlyWhole
<1>1. RootInv /\ [Next]_vars => [worker.written /\ mode' # mode => todo = <<>>]_vars
  <2> SUFFICES ASSUME RootInv, Next, worker.written, mode' # mode
               PROVE  todo = <<>>
    OBVIOUS
  <2>1. pc \in {"Write", "Recover", "Reset"} /\ (pc = "Reset" => todo = <<>>)
    BY DEF RootInv, Phase
  <2>2. CASE Reset
    BY <2>1, <2>2 DEF Reset
  <2>3. CASE Recover
    BY <2>3 DEF Recover
  <2>4. CASE WriteNext
    BY <2>4 DEF WriteNext
  <2>5. CASE StartRoot \/ StartUnroot \/ StartRescue
    BY <2>5, <2>1 DEF StartRoot, StartUnroot, StartRescue, Start
  <2>6. CASE ResolveSlot \/ EnterEdl
    BY <2>6, <2>1 DEF ResolveSlot, EnterEdl
  <2>7. CASE DumpStock \/ PersistBackup \/ BuildPatched \/ VerifyAgainstDevice \/ ConvertRegion
    BY <2>7, <2>1 DEF DumpStock, PersistBackup, BuildPatched, Built, VerifyAgainstDevice,
                      ConvertRegion, In
  <2>8. CASE PowerCycle \/ BootUp \/ FirmwareFlash
    BY <2>8, <2>1 DEF PowerCycle, BootUp, FirmwareFlash, Idle
  <2> QED
    BY <2>2, <2>3, <2>4, <2>5, <2>6, <2>7, <2>8 DEF Next
<1> QED
  BY <1>1, RootInvariance, PTL DEF Spec, ResetOnlyWhole

=============================================================================
