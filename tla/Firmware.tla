------------------------------- MODULE Firmware -------------------------------
(***************************************************************************)
(* What becomes of a firmware folder: its sealed rawprogram pack is        *)
(* decrypted, its compressed images are unpacked beside their sources, the *)
(* rawprogram XMLs are chosen among their variants, and the device is      *)
(* written node by node, either verbatim (the simple flash) or under the   *)
(* keep or wipe policy of the full flash.  A run may fail at any call and  *)
(* the program may be killed at any point; the folder and the device then  *)
(* stay as they are for the next run.                                      *)
(*                                                                         *)
(* Every partition a rawprogram names has the name of its image.  The full *)
(* flash's own images, keys and rollback indices are in FlashPipeline.     *)
(***************************************************************************)
EXTENDS Naturals, SequencesExt

CONSTANTS
  Images,     \* the partitions, each named after its image
  SplitSuper, \* those that are one piece of a split super image
  Folders,    \* the firmware folders a user may pick
  Shipped,    \* what each of them holds at first, see Content
  MaxRuns,    \* workers started
  MaxFaults   \* calls refused, programs killed

\* rawprogram0.xml, the two families of variants (by priority), any other
\* rawprogram, and the two that v2 skipped.
Persist  == <<"SavePersistOta", "SavePersist", "Half", "Unsparse0", "WritePersist">>
Devinfo  == <<"Rawprogram4", "Unsparse4", "WriteDevinfo">>
Skipped  == {"WipePartitions", "BlankGpt"}
XmlNames == Range(Persist) \cup Range(Devinfo) \cup Skipped \cup {"Rawprogram0", "Other"}
\* The order of their file names.
ByName == <<"Rawprogram0", "Other", "Rawprogram4", "WriteDevinfo", "SavePersistOta",
            "SavePersist", "Half", "Unsparse0", "Unsparse4", "WritePersist">>

\* A node of a rawprogram; with no coordinates, LUN or start sector is missing.
Node == [tag : {"program", "erase"}, label : Images, coords : BOOLEAN]
Content == [sealed : SUBSET XmlNames, xmls : SUBSET XmlNames, images : SUBSET Images,
            packed : SUBSET Images, loader : BOOLEAN, nodes : [XmlNames -> Seq(Node)]]

ASSUME FirmwareAssumption ==
  /\ SplitSuper \subseteq Images /\ Folders # {}
  /\ Shipped \in [Folders -> Content]
  /\ MaxRuns \in Nat /\ MaxFaults \in Nat

VARIABLES
  disk,  \* what is in each folder now
  cells, \* what each partition holds: a folder's image, or Stock, Erased, Torn or Cut
  slot,  \* the slot the device boots
  job,   \* the worker, see Job
  runs, faults

firmwareVars == <<disk, cells, slot, job, runs, faults>>

Stages == {"Unpack", "Decrypt", "Loader", "Select", "Enter", "Preflight", "Program",
           "Patches", "Country", "Slot", "Reset"}
\* The order of each worker.  The full flash decrypts after its inspections and
\* selects once the session is open.
SimpleOrder == <<"Decrypt", "Unpack", "Loader", "Select", "Enter", "Preflight", "Program",
                 "Patches", "Slot", "Reset">>
FullOrder == <<"Unpack", "Decrypt", "Loader", "Enter", "Select", "Preflight", "Program",
               "Patches", "Country", "Slot", "Reset">>
Flashes == {"Simple", "Keep", "Wipe"}
Order(kind) == IF kind = "Simple" THEN SimpleOrder ELSE FullOrder

\* unpack: the image being unpacked; raws: the XMLs selected; wipe, plan: the nodes
\* still to be erased before the flash, and to be flashed.
Place == (DOMAIN ByName) \X Nat
Job == [kind : Flashes \cup {"None", "Country"}, folder : Folders, stage : Stages,
        unpack : SUBSET Images, raws : SUBSET XmlNames, wipe : SUBSET Place, plan : SUBSET Place,
        result : {"None", "Ok", "Err"}]
Files == [xmls : SUBSET XmlNames, images : [Images -> {"Absent", "Whole", "Cut"}],
          temps : SUBSET Images]
Cell == Folders \cup {"Stock", "Erased", "Torn", "Cut"}

here == disk[job.folder]
At(stage) == job.kind # "None" /\ job.result = "None" /\ job.stage = stage
Fault == faults < MaxFaults /\ faults' = faults + 1 /\ UNCHANGED runs

\* The stage after this one, of a worker that goes through the stages of `order`.
After(order, stage) ==
  order[(CHOOSE i \in 1..(Len(order) - 1) : order[i] = stage) + 1]
Advance(record) == job' = [record EXCEPT !.stage = After(Order(job.kind), job.stage)]
Fails == job' = [job EXCEPT !.result = "Err"]
Calm == UNCHANGED <<runs, faults>>

-----------------------------------------------------------------------------
(* The folder.                                                             *)

\* Every sealed rawprogram is decrypted, again on every run, over what is there; a
\* pack that cannot be opened ends the run after some of them.
Decrypt ==
  /\ At("Decrypt")
  /\ \/ /\ disk' = [disk EXCEPT ![job.folder].xmls = @ \cup Shipped[job.folder].sealed]
        /\ Advance(job) /\ Calm
     \/ \E opened \in SUBSET Shipped[job.folder].sealed :
          /\ disk' = [disk EXCEPT ![job.folder].xmls = @ \cup opened]
          /\ Fails /\ Fault
  /\ UNCHANGED <<cells, slot>>

\* The packed images whose plain form is not there yet.
ToUnpack == {i \in Shipped[job.folder].packed : here.images[i] = "Absent"}

\* Fault: an image is unpacked under its own name.
DecompressInPlace ==
  /\ At("Unpack") /\ job.unpack = {}
  /\ \E i \in ToUnpack : /\ disk' = [disk EXCEPT ![job.folder].images[i] = "Cut"]
                         /\ job' = [job EXCEPT !.unpack = {i}]
  /\ UNCHANGED <<cells, slot>> /\ Calm

\* An image is unpacked into a temporary sibling, over one an earlier run left,
DecompressOpens ==
  /\ At("Unpack") /\ job.unpack = {}
  /\ \E i \in ToUnpack : /\ disk' = [disk EXCEPT ![job.folder].temps = @ \cup {i}]
                         /\ job' = [job EXCEPT !.unpack = {i}]
  /\ UNCHANGED <<cells, slot>> /\ Calm

\* which takes its name when it is whole, synced to the disk.
DecompressPublishes ==
  /\ At("Unpack")
  /\ \E i \in job.unpack : disk' = [disk EXCEPT ![job.folder].temps = @ \ {i},
                                                ![job.folder].images[i] = "Whole"]
  /\ job' = [job EXCEPT !.unpack = {}]
  /\ UNCHANGED <<cells, slot>> /\ Calm

\* A full disk or a corrupt source removes the temporary file and ends the run.
DecompressFails ==
  /\ At("Unpack") /\ job.unpack # {} /\ Fault
  /\ disk' = [disk EXCEPT ![job.folder].temps = @ \ job.unpack]
  /\ Fails
  /\ UNCHANGED <<cells, slot>>

UnpackEnds ==
  /\ At("Unpack") /\ job.unpack = {} /\ ToUnpack = {}
  /\ Advance(job)
  /\ UNCHANGED <<disk, cells, slot>> /\ Calm

\* The loader lies in the folder or beside it, or the user has picked one.
RequireLoader ==
  /\ At("Loader")
  /\ IF Shipped[job.folder].loader THEN Advance(job) ELSE Fails
  /\ UNCHANGED <<disk, cells, slot>> /\ Calm

-----------------------------------------------------------------------------
(* The choice of rawprograms.                                              *)

\* The first of a family that is there.
select_one(family, xmls) ==
  {family[k] : k \in {k \in DOMAIN family : /\ family[k] \in xmls
                                           /\ \A j \in 1..(k - 1) : family[j] \notin xmls}}

\* One variant of each family, with rawprogram0.xml only where no persist variant
\* stands in for it.
collect_firmware_xmls(xmls) ==
  LET persist == select_one(Persist, xmls)
  IN  ({"Other"} \cap xmls)
        \cup (IF persist = {} THEN {"Rawprogram0"} \cap xmls ELSE persist)
        \cup select_one(Devinfo, xmls)

\* The nodes of a selection, each at its place: the rank of its file, in the order
\* of the names, and its number there.
Places(raws) ==
  UNION {{k} \X DOMAIN Shipped[job.folder].nodes[ByName[k]]
         : k \in {k \in DOMAIN ByName : ByName[k] \in raws}}
NodeAt(place) == Shipped[job.folder].nodes[ByName[place[1]]][place[2]]
Before(p, q) == p[1] < q[1] \/ (p[1] = q[1] /\ p[2] < q[2])
IsFirst(p, places) == p \in places /\ \A q \in places \ {p} : Before(p, q)

Nodes(raws) == {NodeAt(p) : p \in Places(raws)}
Programs(nodes) == {n \in nodes : n.tag = "program"}

\* A rawprogram that names persist.img or devinfo.img is refused: the country
\* partitions are dumped, patched and written on their own.
validate_dp_filename_usage(raws) ==
  \A n \in Programs(Nodes(raws)) : n.label \notin {"persist", "devinfo"}

SelectXmls ==
  /\ At("Select")
  /\ LET raws == collect_firmware_xmls(here.xmls)
     IN  IF raws # {} /\ validate_dp_filename_usage(raws)
           THEN Advance([job EXCEPT !.raws = raws])
           ELSE Fails
  /\ UNCHANGED <<disk, cells, slot>> /\ Calm

-----------------------------------------------------------------------------
(* The device.                                                             *)

EnterEdl ==
  /\ At("Enter")
  /\ \/ Advance(job) /\ Calm
     \/ Fails /\ Fault
  /\ UNCHANGED <<disk, cells, slot>>

WipeErase == {"userdata", "metadata", "frp"}
KeepSkip  == {"userdata", "metadata"}

\* flash_one_rawprogram: keep skips the programs of the user's data.  An erase node
\* has no label of its own and is carried out in either mode.
skip_keep_data(raws) ==
  {p \in Places(raws) : ~(/\ job.kind = "Keep" /\ NodeAt(p).tag = "program"
                          /\ NodeAt(p).label \in KeepSkip)}

\* What the full flash erases before it flashes, when it wipes.
collect_wipe_erase_plan(raws) ==
  {p \in Places(raws) : /\ job.kind = "Wipe" /\ NodeAt(p).tag = "program"
                        /\ NodeAt(p).label \in WipeErase}

Planned ==
  Advance([job EXCEPT !.wipe = collect_wipe_erase_plan(job.raws), !.plan = skip_keep_data(job.raws)])

\* Fault: the pieces of a split super image are checked as they are written.
PreflightLater ==
  /\ At("Preflight") /\ Planned
  /\ UNCHANGED <<disk, cells, slot>> /\ Calm

\* Every piece of a split super image must be there, and every erase of a wipe
\* must have its coordinates, before the first command goes out.
Preflight ==
  /\ At("Preflight")
  /\ IF /\ \A n \in Programs(Nodes(job.raws)) :
             n.label \in SplitSuper => here.images[n.label] # "Absent"
        /\ \A p \in collect_wipe_erase_plan(job.raws) : NodeAt(p).coords
       THEN Planned
       ELSE Fails
  /\ UNCHANGED <<disk, cells, slot>> /\ Calm

\* A command writes its image or breaks off.
Writes(label, image, next) ==
  \/ job' = next /\ cells' = [cells EXCEPT ![label] = image] /\ Calm
  \/ Fails /\ cells' = [cells EXCEPT ![label] = "Torn"] /\ Fault

pre_erase_wipe_labels ==
  /\ At("Program")
  /\ \E p \in job.wipe :
       /\ IsFirst(p, job.wipe)
       /\ Writes(NodeAt(p).label, "Erased", [job EXCEPT !.wipe = @ \ {p}])
  /\ UNCHANGED <<disk, slot>>

\* One node.  Without coordinates it ends the run; a program whose image is
\* missing is passed over with a warning.
Missing(n) == n.tag = "program" /\ here.images[n.label] = "Absent"
ImageOf(n) == IF n.tag = "erase" THEN "Erased"
              ELSE IF here.images[n.label] = "Whole" THEN job.folder ELSE "Cut"
FlashNode ==
  /\ At("Program") /\ job.wipe = {}
  /\ \E p \in job.plan :
       /\ IsFirst(p, job.plan)
       /\ LET n == NodeAt(p)
              next == [job EXCEPT !.plan = @ \ {p}]
          IN  \/ ~n.coords /\ Fails /\ Calm /\ UNCHANGED cells
              \/ n.coords /\ Missing(n) /\ job' = next /\ Calm /\ UNCHANGED cells
              \/ n.coords /\ ~Missing(n) /\ Writes(n.label, ImageOf(n), next)
  /\ UNCHANGED <<disk, slot>>

ProgramEnds ==
  /\ At("Program") /\ job.wipe = {} /\ job.plan = {}
  /\ Advance(job)
  /\ UNCHANGED <<disk, cells, slot>> /\ Calm

\* The DISK patches correct the partition table; a refusal ends the run.
ApplyPatches ==
  /\ At("Patches")
  /\ \/ Advance(job) /\ Calm
     \/ Fails /\ Fault
  /\ UNCHANGED <<disk, cells, slot>>

set_active_slot_a ==
  /\ At("Slot")
  /\ \/ slot' = "a" /\ Advance(job) /\ Calm
     \/ Fails /\ Fault /\ UNCHANGED slot
  /\ UNCHANGED <<disk, cells>>

\* A reset the device does not answer is tolerated.
ResetToSystem ==
  /\ At("Reset")
  /\ job' = [job EXCEPT !.result = "Ok"]
  /\ UNCHANGED <<disk, cells, slot>> /\ Calm

-----------------------------------------------------------------------------
NoJob == [kind |-> "None", folder |-> CHOOSE f \in Folders : TRUE, stage |-> "Reset",
          unpack |-> {}, raws |-> {}, wipe |-> {}, plan |-> {}, result |-> "None"]
Ended == job.kind = "None" \/ job.result # "None"
Starts == Ended /\ runs < MaxRuns /\ runs' = runs + 1 /\ UNCHANGED faults

\* The last step of the simple flash wizard, or the full flash with its data mode.
StartFlash ==
  /\ Starts
  /\ \E kind \in Flashes, folder \in Folders :
       job' = [NoJob EXCEPT !.kind = kind, !.folder = folder, !.stage = Head(Order(kind))]
  /\ UNCHANGED <<disk, cells, slot>>

\* The partition that the next command writes.
UnderWay ==
  IF ~At("Program") THEN {}
  ELSE IF job.wipe # {} THEN {NodeAt(p).label : p \in {p \in job.wipe : IsFirst(p, job.wipe)}}
  ELSE {NodeAt(p).label : p \in {p \in job.plan : /\ IsFirst(p, job.plan) /\ NodeAt(p).coords
                                                /\ ~Missing(NodeAt(p))}}

\* The program is killed or the host loses power.
Killed ==
  /\ ~Ended /\ Fault
  /\ job' = NoJob
  /\ cells' \in {cells} \cup {[cells EXCEPT ![label] = "Torn"] : label \in UnderWay}
  /\ UNCHANGED <<disk, slot>>

FirmwareInit ==
  /\ disk = [f \in Folders |->
       [xmls |-> Shipped[f].xmls, temps |-> {},
        images |-> [i \in Images |-> IF i \in Shipped[f].images THEN "Whole" ELSE "Absent"]]]
  /\ cells = [i \in Images |-> "Stock"]
  /\ slot \in {"a", "b"}
  /\ job = NoJob /\ runs = 0 /\ faults = 0

FlashStep ==
  \/ Decrypt \/ DecompressOpens \/ DecompressPublishes \/ DecompressFails \/ UnpackEnds
  \/ RequireLoader \/ SelectXmls \/ EnterEdl \/ Preflight \/ pre_erase_wipe_labels \/ FlashNode \/ ProgramEnds
  \/ ApplyPatches \/ set_active_slot_a \/ ResetToSystem

-----------------------------------------------------------------------------
FirmwareTypeOK ==
  /\ disk \in [Folders -> Files] /\ cells \in [Images -> Cell] /\ slot \in {"a", "b"}
  /\ job.kind \in Flashes \cup {"None", "Country"} /\ job.folder \in Folders
  /\ job.stage \in Stages /\ job.unpack \subseteq Images /\ job.raws \subseteq XmlNames
  /\ job.wipe \subseteq Place /\ job.plan \subseteq Place /\ job.result \in {"None", "Ok", "Err"}

\* The policy of the run that ended.
Guarded(label) == job.kind = "Keep" /\ label \in KeepSkip

AllXmls(f) == Shipped[f].xmls \cup Shipped[f].sealed

\* Of each family of rawprograms one is selected: it names what the others of the
\* folder name, the country partitions apart.
SelectionIsWhole ==
  \A f \in Folders :
    \A x \in AllXmls(f) \ Skipped : \A n \in Programs(Range(Shipped[f].nodes[x])) :
      n.label \notin {"persist", "devinfo"} =>
        \E y \in collect_firmware_xmls(AllXmls(f)) :
          \E m \in Programs(Range(Shipped[f].nodes[y])) : m.label = n.label

\* A flash that reports success left on the device every image of the folder,
\* packed or plain, that some rawprogram which is not excluded names, whole and of
\* this folder whatever earlier runs left behind, save the user's data under the
\* keep policy and what an erase node names; and the device boots the slot written.
OkMeansFlashed ==
  job.result = "Ok" /\ job.kind \in Flashes =>
    /\ slot = "a"
    /\ LET there  == Shipped[job.folder]
           named  == UNION {Range(there.nodes[x]) : x \in AllXmls(job.folder) \ Skipped}
           erased == {n.label : n \in named \ Programs(named)}
       IN  \A n \in Programs(named) :
             /\ n.label \in there.images \cup there.packed
             /\ n.label \notin erased \cup {"persist", "devinfo"}
             /\ ~Guarded(n.label)
             => cells[n.label] = job.folder

\* A step of a flash never touches what its policy guards, unless an erase node
\* says so: the country partitions in any mode, the user's data under keep; and never
\* touches anything while a piece of the split super image it needs is missing.
GuardedStaysUntouched ==
  [][job.kind \in Flashes =>
       \A i \in Images : cells'[i] # cells[i] =>
         /\ i \in {"persist", "devinfo"} \/ Guarded(i)
              => \E n \in Nodes(job.raws) : n.tag = "erase" /\ n.label = i
         /\ \A n \in Programs(Nodes(job.raws)) :
              n.label \in SplitSuper => here.images[n.label] = "Whole"]_firmwareVars
=============================================================================
