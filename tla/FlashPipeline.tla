---------------------------- MODULE FlashPipeline ----------------------------
(***************************************************************************)
(* The full-firmware flash worker: it inspects the firmware and the device *)
(* over ADB and fastboot, measures the device's rollback floors over EDL,  *)
(* plans what has to replace the stock images (overlays, the bootloader,   *)
(* the GBL on efisp), writes the rawprogram package to slot `_a`, puts the *)
(* plan on top of it, makes `_a` active and resets the device.             *)
(*                                                                         *)
(* The boot chain of the device is external: it starts images whose root   *)
(* key its bootloader trusts and whose rollback indices are not below the  *)
(* committed floors, and a successful boot raises the floors.              *)
(***************************************************************************)
EXTENDS Integers, Sequences, FiniteSets, FiniteSetsExt

CONSTANTS
  Families,    \* kinds of device: a subset of AllFamilies
  Modes,       \* rollback modes the user picks from
  ActiveSlots, \* slots a device may run from at first
  MaxIndex,    \* rollback indices are 1..MaxIndex, 0 stands for none
  Stocks,      \* fastboot hides indices up to one of these
  Faults,      \* "FastbootSilent", "DumpFails"
  Options,     \* options open to the user: a subset of AllOptions
  MaxRuns      \* runs of the worker in a behaviour

AllFamilies == {"Generic", "Canoe", "Xiaoxin", "Unprotected"}
AllOptions  == {"region", "user_abl", "no_efisp_load", "wipe"}

ASSUME FlashAssumption ==
  /\ Families \subseteq AllFamilies
  /\ Modes \subseteq {"On", "Off", "Auto", "Manual"}
  /\ ActiveSlots \subseteq {"a", "b"}
  /\ Options \subseteq AllOptions
  /\ MaxIndex \in Nat /\ Stocks \subseteq Nat /\ MaxRuns \in Nat
  /\ Faults \subseteq {"FastbootSilent", "DumpFails"}

VARIABLES
  family,    \* the device's model, and the firmware's
  stock,     \* fastboot hides the device's indices up to this one
  mode,      \* "Edl", or "Boot" when the device is left to its boot chain
  slots,     \* what its two slots hold
  active,    \* the slot it boots from
  efisp,     \* "Empty", "Normal", "Arb" or "Torn"
  committed, \* its rollback floors
  worker,    \* the worker's locals, see Locals
  runs       \* runs started

chain == <<slots, active, efisp, committed>>
vars  == <<family, stock, mode, chain, worker, runs>>

pc       == worker.pc       \* the next stage, "Done" between runs
run      == worker.run      \* the arguments
rb_mode  == worker.rb_mode  \* the rollback mode in force
fastboot == worker.fastboot \* the fastboot probe: reachable, and the floors it showed
floors   == worker.floors   \* edl_floors, measured at the start of the session
checked  == worker.checked  \* the floors the plan was checked against
plan     == worker.plan     \* what goes on top of rawprogram
todo     == worker.todo     \* partitions of the batch under way

-----------------------------------------------------------------------------
(* Images and the boot chain.                                              *)

Index   == 1..MaxIndex
Indices == [boot : Index, vbs : Index]
None    == [boot |-> 0, vbs |-> 0]
Keys    == {"Test", "Lenovo"}
Parts   == {"abl", "boot", "vbmeta_system", "vbmeta", "vendor_boot"}

\* A bootloader is named by the key it trusts; "LenovoGbl" loads efisp too.
Contents ==
  [abl |-> Keys \cup {"LenovoGbl", "Torn"},
   boot |-> 0..MaxIndex,
   vbmeta_system |-> [key : Keys \cup {"Torn"}, idx : 0..MaxIndex],
   vbmeta |-> [key : Keys \cup {"Torn"}, covers : {"Stock", "Converted", "Torn"}],
   vendor_boot |-> {"Stock", "Converted", "Torn"}]

IsSlot(slot) == DOMAIN slot = Parts /\ \A p \in Parts : slot[p] \in Contents[p]

Torn == [abl |-> "Torn", boot |-> 0,
         vbmeta_system |-> [key |-> "Torn", idx |-> 0],
         vbmeta |-> [key |-> "Torn", covers |-> "Torn"], vendor_boot |-> "Torn"]

Package(abl, key, idx) ==
  [abl |-> abl, boot |-> idx.boot,
   vbmeta_system |-> [key |-> key, idx |-> idx.vbs],
   vbmeta |-> [key |-> key, covers |-> "Stock"], vendor_boot |-> "Stock"]

AtLeast(x, y) == x.boot >= y.boot /\ x.vbs >= y.vbs
Higher(x, y)  == [boot |-> Max({x.boot, y.boot}), vbs |-> Max({x.vbs, y.vbs})]
IndicesOf(slot) == [boot |-> slot.boot, vbs |-> slot.vbmeta_system.idx]

Trusted(abl) ==
  CASE abl = "Torn" -> {}
    [] abl = "LenovoGbl" -> {"Lenovo"} \cup (IF efisp = "Arb" THEN {"Test"} ELSE {})
    [] OTHER -> {abl}

ChainHolds(slot) ==
  /\ slot.vbmeta.key \in Trusted(slot.abl)
  /\ slot.vbmeta_system.key = slot.vbmeta.key
  /\ slot.boot # 0
  /\ slot.vendor_boot = slot.vbmeta.covers

is_protected == family # "Unprotected"
MeetsFloors(slot) == ~is_protected \/ AtLeast(IndicesOf(slot), committed)
Boots(slot) == ChainHolds(slot) /\ MeetsFloors(slot)

-----------------------------------------------------------------------------
(* The run's arguments.                                                    *)

target_is_canoe == family = "Canoe"
xiaoxin         == family = "Xiaoxin"
edl_start       == run.conn = "Edl"
firmware        == [boot |-> run.boot, vbs |-> run.vbs]

\* The package's abl trusts the key the package is signed with; on a canoe
\* device it is always the vendor's.
FirmwareAbl == IF ~target_is_canoe THEN run.key
               ELSE IF run.abl_loads THEN "LenovoGbl" ELSE "Lenovo"
FirmwareImages == Package(FirmwareAbl, run.key, firmware)

\* A bootloader the user supplies, in place of the firmware's.
UserAbl == IF target_is_canoe THEN "LenovoGbl" ELSE "Test"

Runs ==
  {r \in [conn : {"Adb", "Edl"}, mode : Modes, key : Keys, boot : Index, vbs : Index,
          targets : Indices \cup {None}, region : BOOLEAN, user_abl : BOOLEAN,
          abl_loads : BOOLEAN, no_efisp_load : BOOLEAN, wipe : BOOLEAN] :
     /\ r.mode = "Manual" <=> r.targets # None
     /\ \A c \in AllOptions \ Options : ~r[c]
     /\ r.user_abl => r.key = "Lenovo" \/ family = "Canoe"
     /\ family # "Canoe" => ~r.abl_loads /\ ~r.no_efisp_load /\ ~r.wipe}

NoRun   == [conn |-> "Edl", mode |-> "Off", key |-> "Test", boot |-> 1, vbs |-> 1,
            targets |-> None, region |-> FALSE, user_abl |-> FALSE,
            abl_loads |-> FALSE, no_efisp_load |-> FALSE, wipe |-> FALSE]
NoProbe == [reachable |-> FALSE, classified |-> None, aggregate |-> 0]
NoPlan  == [overlays |-> <<>>, abl |-> "Keep", needs_arb |-> FALSE, efisp |-> "Keep",
            pair |-> FALSE]

Locals(at, r, res) ==
  [pc |-> at, run |-> r, rb_mode |-> r.mode, fastboot |-> NoProbe, floors |-> None,
   checked |-> None, plan |-> NoPlan, todo |-> <<>>, written |-> FALSE, result |-> res]

\* The worker returns; what it held is gone.
Finish(res) == worker' = Locals("Done", NoRun, res)

\* The ways out before the first write: reset to the system, which may fail,
\* back into EDL on a device that started there, or no reset at all.
Reset == mode' \in {"Edl", "Boot"}
Abort(reset) ==
  /\ Finish("Err")
  /\ IF reset = "None" \/ (reset = "Start" /\ edl_start) THEN UNCHANGED mode ELSE Reset
Goto(w) == worker' = w /\ UNCHANGED mode
Reading(at) == pc = at /\ UNCHANGED <<chain, family, runs>>

-----------------------------------------------------------------------------
(* Before EDL.                                                             *)

\* A replacement that loads efisp, or firmware that does; a package that does
\* not load efisp only when the user accepted it.
validate_canoe_efisp_choice ==
  IF run.user_abl THEN ~run.no_efisp_load ELSE run.abl_loads # run.no_efisp_load

effective_flash_rollback_mode ==
  IF xiaoxin \/ (target_is_canoe /\ run.mode = "On") THEN "Auto" ELSE run.mode

\* stored_rollback_index of a generic bootloader; the others show none.
Probe(reachable) ==
  LET shown == IF reachable /\ family = "Generic"
               THEN {i \in {committed.boot, committed.vbs} : i > stock} ELSE {}
  IN  [reachable |-> reachable,
       classified |-> IF shown # {} /\ committed.boot > stock /\ committed.vbs > stock
                      THEN committed ELSE None,
       aggregate |-> Max(shown \cup {0})]

Reachable == IF edl_start THEN {FALSE}
             ELSE IF "FastbootSilent" \in Faults THEN BOOLEAN ELSE {TRUE}

Accepted(reachable) ==
  /\ target_is_canoe =>
       /\ validate_canoe_efisp_choice
       /\ run.no_efisp_load /\ run.mode = "Manual" => run.targets = firmware
  /\ family = "Unprotected" => ~run.region
  /\ effective_flash_rollback_mode = "On" => reachable \/ edl_start

\* Phases 1 to 4: validate, probe, check, convert the region of a testkey
\* package (skipped when it already is the target's).  Any of it may fail.
Inspect ==
  /\ Reading("Inspect")
  /\ \/ \E reachable \in Reachable :
       \E pair \in (IF run.region /\ family = "Generic" /\ run.key # "Lenovo"
                   THEN BOOLEAN ELSE {FALSE}) :
          /\ Accepted(reachable)
          /\ Goto([worker EXCEPT !.pc = "Enter", !.fastboot = Probe(reachable),
                                !.rb_mode = effective_flash_rollback_mode, !.plan.pair = pair])
     \/ Abort("None")

\* transition_to_edl and open_edl_session.
EnterEdl ==
  /\ Reading("Enter")
  /\ \/ mode' = "Edl" /\ worker' = [worker EXCEPT !.pc = "Measure"]
     \/ mode' \in {mode, "Edl"} /\ Finish("Err")

-----------------------------------------------------------------------------
(* Measuring the device over EDL.                                          *)

\* The slots whose dump of a partition arrives.
Dumps == IF "DumpFails" \in Faults THEN SUBSET {"a", "b"} ELSE {{"a", "b"}}

\* Per location the maximum over the slots; 0 when it parsed on neither.
rollback_floors(bs, vs) ==
  [boot |-> Max({0} \cup {slots[s].boot : s \in bs}),
   vbs  |-> Max({0} \cup {slots[s].vbmeta_system.idx : s \in vs})]

Readable(f) == f.boot # 0 /\ f.vbs # 0

\* The slot the device runs from: fastboot's word, else the only vbmeta_system
\* that parses, else the one with the higher index.
SlotRead(vs) ==
  LET idx(s) == IF s \in vs THEN slots[s].vbmeta_system.idx ELSE 0
  IN  IF fastboot.reachable THEN active ELSE IF idx("b") > idx("a") THEN "b" ELSE "a"

read_device_vbmeta ==
  LET parsed == {p \in Dumps \X Dumps :
                   /\ SlotRead(p[2]) \in p[2]
                   /\ slots[SlotRead(p[2])].vbmeta_system.idx # 0
                   /\ Readable(rollback_floors(p[1], p[2]))}
  IN  {[slot |-> SlotRead(p[2]), class |-> slots[SlotRead(p[2])].vbmeta_system.key,
        floors |-> rollback_floors(p[1], p[2])] : p \in parsed}

\* The vbmeta_system dumps identify the device on a start in EDL.
read_edl_start_device ==
  {f \in {rollback_floors(bs, vs) : bs, vs \in Dumps} :
     f.vbs # 0 /\ (is_protected => Readable(f))}

\* A start in EDL identifies the device by its images and measures its floors;
\* a Xiaoxin is measured on every start and refuses any downgrade.
MeasureFloors ==
  /\ Reading("Measure")
  /\ LET next == IF rb_mode = "Manual" THEN "Manual" ELSE "Key" IN
     IF edl_start \/ xiaoxin
     THEN \/ \E f \in (IF edl_start THEN read_edl_start_device
                      ELSE {d.floors : d \in read_device_vbmeta}) :
               /\ xiaoxin => AtLeast(firmware, f)
               /\ Goto([worker EXCEPT !.pc = next,
                          !.floors = IF is_protected THEN f ELSE None,
                          !.rb_mode = IF is_protected \/ @ = "Manual" THEN @ ELSE "Off"])
          \/ Abort(IF xiaoxin THEN "System" ELSE "Start")
     ELSE Goto([worker EXCEPT !.pc = next])

stored == IF fastboot.classified # None THEN fastboot.classified
          ELSE [boot |-> fastboot.aggregate, vbs |-> fastboot.aggregate]

manual_device_floors ==
  IF ~is_protected THEN {None}
  ELSE IF floors # None \/ stored # None THEN {Higher(floors, stored)}
  ELSE {d.floors : d \in read_device_vbmeta}

\* Manual targets are checked, never clamped.
PlanManual ==
  /\ Reading("Manual")
  /\ \/ \E f \in manual_device_floors :
          /\ AtLeast(run.targets, f)
          /\ Goto([worker EXCEPT !.pc = "Key", !.checked = f])
     \/ Abort("Start")

-----------------------------------------------------------------------------
(* Planning.                                                               *)

\* select_arb_rollback_targets: the indices to write and whether they call for
\* the arb GBL.  Manual targets were checked against fl by the caller's guard.
Targets(fl, manual) == IF manual = None THEN Higher(firmware, fl) ELSE manual
NeedsArb(fl, manual) == IF manual = None THEN ~AtLeast(firmware, fl) ELSE manual # firmware
Allowed(fl, manual)  == manual = None \/ AtLeast(manual, fl)

\* The chain signed with the testkey, the root last.
TestkeyOverlays(targets, converted) ==
  << <<"vbmeta_system", [key |-> "Test", idx |-> targets.vbs]>>, <<"boot", targets.boot>> >>
  \o (IF converted THEN << <<"vendor_boot", "Converted">> >> ELSE <<>>)
  \o << <<"vbmeta", [key |-> "Test", covers |-> IF converted THEN "Converted" ELSE "Stock"]>> >>

\* Only an image whose index changes is signed again, with its own key.
ChangedOverlays(targets) ==
  (IF targets.boot # 0 THEN << <<"boot", targets.boot>> >> ELSE <<>>)
  \o (IF targets.vbs # 0
      THEN << <<"vbmeta_system", [key |-> run.key, idx |-> targets.vbs]>> >> ELSE <<>>)

\* A package signed by the vendor: kept as it is on a device that runs the
\* vendor's chain, signed with the testkey on one that runs a testkey chain or
\* for a bootloader the user supplies, whose abl then goes back on top.
KeepsLenovo(d) ==
  /\ ~run.user_abl /\ d.class = "Lenovo"
  /\ ~run.region \/ xiaoxin
  /\ AtLeast(firmware, d.floors)
  /\ rb_mode = "Manual" => run.targets = firmware

manual_plan == IF rb_mode = "Manual" THEN run.targets ELSE None

\* Fault: the device's bootloader is not put back.
ResignedWithoutAbl(d, converted) ==
  [plan EXCEPT !.overlays = TestkeyOverlays(Targets(d.floors, manual_plan), converted)]
Resigned(d, converted) ==
  [plan EXCEPT !.overlays = TestkeyOverlays(Targets(d.floors, manual_plan), converted),
               !.abl = IF run.user_abl THEN UserAbl ELSE slots[d.slot].abl]

LenovoPlans(d) ==
  (IF KeepsLenovo(d) THEN {plan} ELSE {})
  \cup (IF (run.user_abl \/ d.class = "Test") /\ Allowed(d.floors, manual_plan)
        THEN {Resigned(d, converted) : converted \in (IF run.region THEN BOOLEAN ELSE {FALSE})}
        ELSE {})

KeyGate ==
  /\ Reading("Key")
  /\ IF run.key # "Lenovo" \/ target_is_canoe THEN Goto([worker EXCEPT !.pc = "Stage"])
     ELSE \/ \E d \in read_device_vbmeta : \E p \in LenovoPlans(d) :
               Goto([worker EXCEPT !.pc = "Stage", !.rb_mode = "Off",
                                   !.plan = p, !.checked = d.floors])
          \/ Abort("Start")

\* An abl that loads no efisp cannot run the testkey chain: no downgrade.
validate_no_efisp_rollback(f) ==
  AtLeast(firmware, f) /\ (rb_mode = "Manual" => run.targets = firmware)

Staged(f, p) == Goto([worker EXCEPT !.pc = "Fetch", !.checked = f, !.plan = p])

StageNoEfisp ==
  \/ \E f \in (IF floors # None THEN {floors} ELSE {d.floors : d \in read_device_vbmeta}) :
       validate_no_efisp_rollback(f) /\ Staged(f, plan)
  \/ Abort("Start")

WithTestkeyChain(targets) ==
  [plan EXCEPT !.overlays = TestkeyOverlays(targets, FALSE), !.needs_arb = TRUE]

StageManual ==
  \/ Staged(checked,
       IF run.targets = firmware THEN plan
       ELSE IF target_is_canoe THEN WithTestkeyChain(run.targets)
       ELSE [plan EXCEPT !.overlays = ChangedOverlays(
               [boot |-> IF run.targets.boot # run.boot THEN run.targets.boot ELSE 0,
                vbs  |-> IF run.targets.vbs # run.vbs THEN run.targets.vbs ELSE 0])])
  \/ Abort("Start")

\* active_slot_suffix: `_a` when fastboot gave no slot.
active_slot_suffix == IF fastboot.reachable THEN active ELSE "a"
DumpedFloors == IndicesOf(slots[active_slot_suffix])

StageCanoe ==
  \/ LET fl == IF floors # None THEN floors ELSE DumpedFloors IN
     /\ Readable(fl)
     /\ Staged(fl, IF NeedsArb(fl, None) THEN WithTestkeyChain(Targets(fl, None)) ELSE plan)
  \/ Abort("None")

\* The floors of the On and Auto overlays: measured, shown by fastboot, or one
\* index for both.
LocationFloors ==
  LET both(i) == [boot |-> i, vbs |-> i] IN
  IF floors # None THEN floors
  ELSE IF stored # None THEN stored
  ELSE IF is_protected
  THEN (IF Readable(DumpedFloors) THEN both(Max({DumpedFloors.boot, DumpedFloors.vbs})) ELSE None)
  ELSE None

needs_patch(image, floor) == floor # 0 /\ (rb_mode = "On" \/ image < floor)

StageGeneric ==
  \/ LET fl == LocationFloors IN
     /\ fl = None => ~is_protected
     /\ ~(xiaoxin /\ (needs_patch(run.boot, fl.boot) \/ needs_patch(run.vbs, fl.vbs)))
     /\ Staged(fl, [plan EXCEPT !.overlays = ChangedOverlays(
           [boot |-> IF needs_patch(run.boot, fl.boot) THEN fl.boot ELSE 0,
            vbs  |-> IF needs_patch(run.vbs, fl.vbs) THEN fl.vbs ELSE 0])])
  \/ Abort("System")
  \/ Abort("None")

Stage ==
  /\ Reading("Stage")
  /\ IF run.no_efisp_load THEN StageNoEfisp
     ELSE IF rb_mode = "Manual" THEN StageManual
     ELSE IF rb_mode = "Off" THEN Staged(checked, plan)
     ELSE IF target_is_canoe THEN StageCanoe ELSE StageGeneric

requires_arb_efisp ==
  ~run.no_efisp_load /\ (plan.needs_arb \/ (target_is_canoe /\ run.key = "Test"))

\* The GBL is fetched before the first write; the package is checked last.
FetchEfisp ==
  /\ Reading("Fetch")
  /\ \/ Goto([worker EXCEPT !.pc = "Raw",
             !.plan.abl = IF target_is_canoe /\ run.user_abl THEN UserAbl ELSE @,
             !.plan.efisp = IF ~target_is_canoe \/ run.no_efisp_load THEN "Keep"
                            ELSE IF requires_arb_efisp THEN "Arb"
                            ELSE IF run.region THEN "Normal"
                            ELSE IF run.wipe THEN "Erase" ELSE "Keep"])
     \/ target_is_canoe /\ (Abort("Start") \/ Abort("None"))

-----------------------------------------------------------------------------
(* Writing.  After the first write no failure resets the device.           *)

Writing(at) == pc = at /\ UNCHANGED <<committed, family, runs>>
Advance(at) == worker' = [worker EXCEPT !.pc = at, !.written = TRUE]
Begin(at, batch) == worker' = [worker EXCEPT !.pc = at, !.todo = batch, !.written = TRUE]

WithAbl(slot) == IF plan.abl = "Keep" THEN slot ELSE [slot EXCEPT !.abl = plan.abl]

\* Fault: an error path that forgets the bootloader.
FailWithoutAbl(slot) == slots' = [slots EXCEPT !.a = slot] /\ Finish("Err")

\* restore_abl_best_effort on a slot a failed write left behind.  That its own write
\* failed, too, the model remembers as "ErrNoAbl"; the code drops that result and
\* returns the first error alone.
FailRestoringAbl(slot) ==
  \/ slots' = [slots EXCEPT !.a = WithAbl(slot)] /\ Finish("Err")
  \/ /\ plan.abl # "Keep"
     /\ \E abl \in {slot.abl, "Torn"} : slots' = [slots EXCEPT !.a = [slot EXCEPT !.abl = abl]]
     /\ Finish("ErrNoAbl")

\* flash_rawprogram_with_wipe: the package's order is its own, so a failure
\* leaves any part of it written.
RawProgram ==
  /\ Writing("Raw")
  /\ \/ /\ slots' = [slots EXCEPT !.a = FirmwareImages]
        /\ Begin("Overlay", plan.overlays)
     \/ \E done \in SUBSET Parts : \E broken \in SUBSET (Parts \ done) :
          /\ Cardinality(broken) <= 1
          /\ FailRestoringAbl([p \in Parts |-> CASE p \in done -> FirmwareImages[p]
                                                 [] p \in broken -> Torn[p]
                                                 [] OTHER -> slots.a[p]])
  /\ UNCHANGED <<active, efisp, mode>>

\* flash_partition_batch, one partition at a time.
HeadWritten == [slots.a EXCEPT ![Head(todo)[1]] = Head(todo)[2]]
HeadFailed  == {slots.a, [slots.a EXCEPT ![Head(todo)[1]] = Torn[Head(todo)[1]]]}

FlashOverlay ==
  /\ Writing("Overlay")
  /\ IF todo = <<>> THEN Advance("Abl") /\ UNCHANGED slots
     ELSE \/ slots' = [slots EXCEPT !.a = HeadWritten] /\ Begin("Overlay", Tail(todo))
          \/ \E slot \in HeadFailed : FailRestoringAbl(slot)
  /\ UNCHANGED <<active, efisp, mode>>

\* The bootloader goes back; a failure here is final.
RestoreAbl ==
  /\ Writing("Abl")
  /\ \/ slots' = [slots EXCEPT !.a = WithAbl(@)] /\ Advance("Efisp")
     \/ /\ plan.abl # "Keep"
        /\ \E abl \in {slots.a.abl, "Torn"} : slots' = [slots EXCEPT !.a.abl = abl]
        /\ Finish("ErrNoAbl")
  /\ UNCHANGED <<active, efisp, mode>>

PairOverlays ==
  IF plan.pair THEN << <<"vendor_boot", "Converted">>,
                       <<"vbmeta", [key |-> run.key, covers |-> "Converted"]>> >>
  ELSE <<>>

\* Fault: a failed arb GBL resets the device.
EfispFailureResets ==
  /\ Writing("Efisp")
  /\ efisp' \in IF plan.efisp = "Keep" THEN {efisp} ELSE {efisp, "Arb", "Normal", "Empty"}
  /\ \/ Begin("Region", PairOverlays) /\ UNCHANGED mode
     \/ plan.efisp = "Arb" /\ Reset /\ Finish("Err")
  /\ UNCHANGED <<slots, active>>

\* The GBL: fatal when the chain on the device needs it.
FlashEfisp ==
  /\ Writing("Efisp")
  /\ \/ /\ efisp' \in CASE plan.efisp = "Keep" -> {efisp}
                        [] plan.efisp = "Arb" -> {"Arb"}
                        [] plan.efisp = "Normal" -> {"Normal", efisp, "Torn"}
                        [] plan.efisp = "Erase" -> {"Empty", efisp, "Torn"}
        /\ Begin("Region", PairOverlays)
     \/ plan.efisp = "Arb" /\ efisp' \in {efisp, "Torn"} /\ Finish("Err")
  /\ UNCHANGED <<slots, active, mode>>

\* The converted pair, over what rawprogram and the overlays wrote.
FlashRegionPair ==
  /\ Writing("Region")
  /\ IF todo = <<>> THEN Advance("Country") /\ UNCHANGED slots
     ELSE \/ slots' = [slots EXCEPT !.a = HeadWritten] /\ Begin("Region", Tail(todo))
          \/ \E slot \in HeadFailed : slots' = [slots EXCEPT !.a = slot] /\ Finish("Err")
  /\ UNCHANGED <<active, efisp, mode>>

\* The country change is best effort, but not the folders it works in.
ChangeCountry ==
  /\ Writing("Country")
  /\ Advance("Activate") \/ Finish("Err")
  /\ UNCHANGED <<slots, active, efisp, mode>>

\* Firmware lands on `_a`, which becomes the slot to boot.
set_active_slot_a ==
  /\ Writing("Activate")
  /\ \/ active' = "a" /\ Advance("Reset")
     \/ UNCHANGED active /\ Finish("Err")
  /\ UNCHANGED <<slots, efisp, mode>>

reset_tolerant ==
  /\ Writing("Reset")
  /\ Reset /\ Finish("Ok")
  /\ UNCHANGED <<slots, active, efisp>>

-----------------------------------------------------------------------------
(* The user and the device.                                                *)

\* A device that is up answers on ADB; any device can be taken to EDL.
StartRun ==
  /\ pc = "Done" /\ runs < MaxRuns
  /\ \E r \in Runs :
       /\ worker' = Locals("Inspect", r, "None")
       /\ IF r.conn = "Edl" THEN mode' = "Edl"
          ELSE mode = "Boot" /\ Boots(slots[active]) /\ UNCHANGED mode
  /\ runs' = runs + 1
  /\ UNCHANGED <<chain, family>>

Idle == pc = "Done" /\ UNCHANGED <<family, worker, runs, slots, active, efisp>>

PowerCycle == Idle /\ mode = "Edl" /\ mode' = "Boot" /\ UNCHANGED committed

\* A boot that succeeds commits the indices of what it booted.
BootUp ==
  /\ Idle /\ mode = "Boot" /\ Boots(slots[active])
  /\ committed' = Higher(committed, IndicesOf(slots[active]))
  /\ UNCHANGED mode

\* A device that runs; its other slot is empty or holds something older.
Init ==
  /\ family \in Families
  /\ IF family = "Generic" THEN stock \in Stocks ELSE stock = 0
  /\ active \in ActiveSlots
  /\ efisp \in (IF family = "Canoe" THEN {"Empty", "Arb"} ELSE {"Empty"})
  /\ \E key \in Keys, idx \in Indices :
       LET abls == IF family # "Canoe" THEN {key}
                   ELSE IF key = "Test" \/ efisp = "Arb" THEN {"LenovoGbl"} ELSE {"Lenovo"}
           older == {i \in Indices : AtLeast(idx, i)}
       IN /\ key = "Test" /\ family = "Canoe" => efisp = "Arb"
          /\ \E abl \in abls :
             \E other \in {Torn} \cup {Package(abl, key, i) : i \in older} :
               slots = [s \in {"a", "b"} |->
                          IF s = active THEN Package(abl, key, idx) ELSE other]
          /\ committed = idx
  /\ mode = "Boot" /\ worker = Locals("Done", NoRun, "None") /\ runs = 0

FlashWorker ==
  \/ Inspect \/ EnterEdl \/ MeasureFloors \/ PlanManual \/ KeyGate \/ Stage \/ FetchEfisp
  \/ RawProgram \/ FlashOverlay \/ RestoreAbl \/ FlashEfisp \/ FlashRegionPair
  \/ ChangeCountry \/ set_active_slot_a \/ reset_tolerant

Next == (FlashWorker \/ StartRun \/ PowerCycle \/ BootUp) /\ UNCHANGED stock

Spec == Init /\ [][Next]_vars

-----------------------------------------------------------------------------
(* Properties.                                                             *)

Stages == {"Inspect", "Enter", "Measure", "Manual", "Key", "Stage", "Fetch", "Raw",
           "Overlay", "Abl", "Efisp", "Region", "Country", "Activate", "Reset", "Done"}

\* The values of the state.
TypeOK ==
  /\ family \in Families /\ mode \in {"Edl", "Boot"}
  /\ DOMAIN slots = {"a", "b"} /\ \A s \in {"a", "b"} : IsSlot(slots[s])
  /\ active \in {"a", "b"}
  /\ efisp \in {"Empty", "Normal", "Arb", "Torn"} /\ committed \in Indices
  /\ pc \in Stages /\ rb_mode \in {"On", "Off", "Auto", "Manual"}
  /\ {floors, checked} \subseteq [boot : 0..MaxIndex, vbs : 0..MaxIndex]
  /\ fastboot.reachable \in BOOLEAN /\ fastboot.aggregate \in 0..MaxIndex
  /\ plan.efisp \in {"Keep", "Normal", "Arb", "Erase"} /\ plan.abl \in {"Keep"} \cup Contents.abl
  /\ \A i \in DOMAIN todo : todo[i][1] \in Parts /\ todo[i][2] \in Contents[todo[i][1]]
  /\ worker.written \in BOOLEAN /\ worker.result \in {"None", "Ok", "Err", "ErrNoAbl"}
  /\ runs \in 0..MaxRuns

\* A canoe package signed with the testkey, whose abl loads no efisp, is
\* flashed without a GBL once the user agreed; whose key its abl trusts the
\* worker does not know.
UnknownRoot == target_is_canoe /\ run.no_efisp_load /\ run.key = "Test"

\* A flash the worker finishes boots: slot `_a` is active, its bootloader (with
\* the GBL) trusts the root, the images match the root and, unless the user
\* turned the check off, no index is below a committed floor.  (A device that says
\* nothing in fastboot is measured on slot `_a`, whichever slot it runs from.)
FinishedBoots ==
  pc = "Reset" =>
    /\ active = "a" /\ (UnknownRoot \/ ChainHolds(slots["a"]))
    /\ (run.mode # "Off" /\ (fastboot.reachable \/ edl_start)) \/ xiaoxin
         => MeetsFloors(slots["a"])

\* A flash that failed after its first write leaves the device in EDL, for a
\* second attempt: the worker resets only what it finished.
FailedFlashStaysInEdl ==
  [][worker.written /\ mode' = "Boot" => worker'.result = "Ok"]_vars

\* A flash that failed after a write has tried to put the planned bootloader back,
\* and the vendor's stays under images signed for another only where the write of
\* the bootloader failed itself, which no report tells.
BootloaderIsRestored ==
  [][slots # slots' /\ worker'.result = "Err" /\ plan.abl # "Keep"
       => slots'["a"].abl = plan.abl]_vars

\* The floors a plan is checked against are the device's committed floors.
FloorsAreCommitted ==
  pc = "Raw" /\ is_protected /\ checked # None => AtLeast(checked, committed)

=============================================================================
