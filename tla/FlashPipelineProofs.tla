------------------------- MODULE FlashPipelineProofs -------------------------
(***************************************************************************)
(* Proofs about the full-firmware flash, for any kinds of device, rollback *)
(* modes, indices, faults and number of runs: a flash that fails after a   *)
(* write leaves the device in EDL and, where that write does not fail too, *)
(* its bootloader in place; and the first flash of a device boots when it  *)
(* finishes, unless a dump is lost.                                        *)
(***************************************************************************)
EXTENDS FlashPipeline, SequenceTheorems, TLAPS

-----------------------------------------------------------------------------
(* The inductive invariant.                                                *)

AllModes == {"On", "Off", "Auto", "Manual"}
Floors == [boot : 0..MaxIndex, vbs : 0..MaxIndex]
Slot   == [abl : Contents.abl, boot : Contents.boot, vbmeta_system : Contents.vbmeta_system,
           vbmeta : Contents.vbmeta, vendor_boot : Contents.vendor_boot]
Writes == UNION {{p} \X Contents[p] : p \in Parts}
Arguments ==
  [conn : {"Adb", "Edl"}, mode : AllModes, key : Keys, boot : Index, vbs : Index,
   targets : Indices \cup {None}, region : BOOLEAN, user_abl : BOOLEAN,
   abl_loads : BOOLEAN, no_efisp_load : BOOLEAN, wipe : BOOLEAN]
Probes == [reachable : BOOLEAN, classified : Floors, aggregate : 0..MaxIndex]
Plans  == [overlays : Seq(Writes), abl : {"Keep"} \cup Contents.abl, needs_arb : BOOLEAN,
           efisp : {"Keep", "Normal", "Arb", "Erase"}, pair : BOOLEAN]
Worker == [pc : Stages, run : Arguments, rb_mode : AllModes, fastboot : Probes,
           floors : Floors, checked : Floors, plan : Plans, todo : Seq(Writes),
           written : BOOLEAN, result : {"None", "Ok", "Err", "ErrNoAbl"}]

DeviceType == /\ family \in Families /\ stock \in Nat /\ mode \in {"Edl", "Boot"}
              /\ slots \in [{"a", "b"} -> Slot] /\ active \in {"a", "b"}
              /\ efisp \in {"Empty", "Normal", "Arb", "Torn"} /\ committed \in Indices
              /\ runs \in 0..MaxRuns
WorkerType == worker \in Worker
Types == DeviceType /\ WorkerType

Before  == {"Inspect", "Enter", "Measure", "Manual", "Key", "Stage", "Fetch", "Raw"}
WriteStages == {"Overlay", "Abl", "Efisp", "Region", "Country", "Activate", "Reset"}

\* From the session to the end of the run the device is in EDL; what is written
\* when the bootloader is back keeps it.
Phase ==
  /\ pc \notin {"Inspect", "Enter", "Done"} => mode = "Edl"
  /\ worker.written <=> pc \in WriteStages
  /\ pc # "Done" => worker.result = "None"
  /\ pc \in {"Efisp", "Region", "Country", "Activate", "Reset"} /\ plan.abl # "Keep"
       => slots["a"].abl = plan.abl
  /\ pc = "Region" => \A i \in DOMAIN todo : todo[i][1] # "abl"

\* A device as a user has it: its floors are the indices of what it runs, which
\* the other slot does not exceed, and what was built with the testkey lies under
\* a bootloader that trusts it.
Intact ==
  /\ committed = IndicesOf(slots[active])
  /\ \A s \in {"a", "b"} : AtLeast(committed, IndicesOf(slots[s]))
  /\ family # "Canoe" => \A s \in {"a", "b"} : slots[s].vbmeta_system.idx # 0
       => slots[s].abl = slots[s].vbmeta_system.key

\* What the worker knows of the device, and on which grounds it accepted the run.
NothingPlanned == plan.overlays = <<>> /\ plan.abl = "Keep" /\ ~plan.needs_arb
ModeInForce == \/ rb_mode = effective_flash_rollback_mode
               \/ rb_mode = "Off" /\ ~is_protected /\ run.mode # "Manual"
Floored(f) == f # None => AtLeast(f, committed)
Known ==
  /\ run \in Runs
  /\ pc # "Inspect" => Accepted(fastboot.reachable)
  /\ Floored(stored) /\ Floored(floors)
  /\ plan.pair => run.region /\ family = "Generic" /\ run.key = "Test"
  /\ pc \in {"Inspect", "Enter", "Measure", "Manual", "Key"} => NothingPlanned
  /\ pc \in {"Enter", "Measure"} => rb_mode = effective_flash_rollback_mode
  /\ pc \in {"Manual", "Key"} => ModeInForce
  /\ pc \in {"Manual", "Key", "Stage"} =>
       /\ edl_start /\ is_protected => floors # None
       /\ xiaoxin => AtLeast(firmware, committed)
  /\ pc \in {"Key", "Stage"} /\ rb_mode = "Manual" /\ is_protected
       => AtLeast(run.targets, committed)

\* The checks of the indices are on and the device could be asked.
Guarded == (run.mode # "Off" /\ (fastboot.reachable \/ edl_start)) \/ xiaoxin

\* Images that boot under the bootloader abl, with the arb GBL or without.
Sound(images, abl, arb) ==
  /\ \/ UnknownRoot
     \/ /\ images.vbmeta.key \in Keys /\ images.vbmeta_system.key = images.vbmeta.key
        /\ images.boot # 0 /\ images.vendor_boot = images.vbmeta.covers
        /\ \/ abl = images.vbmeta.key
           \/ abl = "LenovoGbl" /\ (images.vbmeta.key = "Lenovo" \/ arb)
  /\ Guarded => MeetsFloors(images)
  /\ plan.pair => run.key = "Test" /\ images.vbmeta.key = "Test" /\ abl = "Test"

\* The writes w turn a slot into the images.
Becomes(slot, w, images) ==
  /\ \A p \in Parts : slot[p] = images[p] \/ \E i \in DOMAIN w : w[i][1] = p
  /\ \A i \in DOMAIN w : w[i][2] = images[w[i][1]]

AblOver(images) == IF plan.abl = "Keep" THEN images.abl ELSE plan.abl
AblToCome(images) == IF target_is_canoe /\ run.user_abl THEN UserAbl ELSE AblOver(images)

\* The key gate plans for a package of the vendor's, and leaves the others to the
\* stage after it.
Unplanned == NothingPlanned /\ ModeInForce /\ (run.key = "Test" \/ target_is_canoe)
Planned   == /\ rb_mode = "Off" /\ ~target_is_canoe
             /\ \E F \in Slot : /\ Becomes(FirmwareImages, plan.overlays, F)
                                /\ Sound(F, AblToCome(F), FALSE)

\* Before the first write the plan makes sound images of the firmware's, after
\* it what is left of the plan does; at the end the slot holds them.
Promise ==
  /\ pc = "Stage" => Unplanned \/ Planned
  /\ pc = "Fetch" =>
       \E F \in Slot : /\ Becomes(FirmwareImages, plan.overlays, F)
                       /\ Sound(F, AblToCome(F), target_is_canoe /\ requires_arb_efisp)
  /\ pc = "Raw" => \E F \in Slot : /\ Becomes(FirmwareImages, plan.overlays, F)
                                   /\ Sound(F, AblOver(F), plan.efisp = "Arb")
  /\ pc = "Overlay" => \E F \in Slot : /\ Becomes(slots["a"], todo, F)
                                       /\ Sound(F, AblOver(F), plan.efisp = "Arb")
  /\ pc = "Abl" => Sound(slots["a"], AblOver(slots["a"]), plan.efisp = "Arb")
  /\ pc = "Efisp" => Sound(slots["a"], slots["a"].abl, plan.efisp = "Arb")
  /\ pc = "Region" => \E F \in Slot : /\ Becomes(slots["a"], todo, F)
                                      /\ Sound(F, F.abl, efisp = "Arb")
  /\ pc \in {"Country", "Activate", "Reset"} => Sound(slots["a"], slots["a"].abl, efisp = "Arb")
  /\ pc = "Reset" => active = "a"

\* The first run of a behaviour, on a device as a user has it.
FirstRun ==
  runs <= 1 => /\ runs = 0 => pc = "Done"
               /\ runs = 0 \/ pc \in Before => Intact
               /\ pc \in Before => Known
               /\ Promise

FlowInv  == Types /\ Phase
FlashInv == FlowInv /\ FirstRun

-----------------------------------------------------------------------------
(* Slots, indices and writes.                                              *)

\* A slot holds a content for each partition, and equal ones make equal slots.
LEMMA SlotFacts ==
  ASSUME NEW s \in Slot
  PROVE  /\ IsSlot(s) /\ \A p \in Parts : s[p] \in Contents[p]
         /\ \A t \in Slot : (\A p \in Parts : s[p] = t[p]) => s = t
  BY DEF Slot, Parts, IsSlot

\* One partition of a slot is replaced.
LEMMA SlotWrite ==
  ASSUME NEW s \in Slot, NEW p \in Parts, NEW v \in Contents[p]
  PROVE  /\ [s EXCEPT ![p] = v] \in Slot
         /\ [s EXCEPT ![p] = v][p] = v
         /\ \A q \in Parts \ {p} : [s EXCEPT ![p] = v][q] = s[q]
<1>1. [s EXCEPT ![p] = v] \in Slot
  <2>1. CASE p = "abl"
    BY <2>1 DEF Slot
  <2>2. CASE p = "boot"
    BY <2>2 DEF Slot
  <2>3. CASE p = "vbmeta_system"
    BY <2>3 DEF Slot
  <2>4. CASE p = "vbmeta"
    BY <2>4 DEF Slot
  <2>5. CASE p = "vendor_boot"
    BY <2>5 DEF Slot
  <2> QED
    BY <2>1, <2>2, <2>3, <2>4, <2>5 DEF Parts
<1>2. [s EXCEPT ![p] = v][p] = v /\ \A q \in Parts \ {p} : [s EXCEPT ![p] = v][q] = s[q]
  BY DEF Slot, Parts
<1> QED
  BY <1>1, <1>2

\* Torn images and packages are slots.
LEMMA TornIsSlot == Torn \in Slot /\ \A p \in Parts : Torn[p] \in Contents[p]
  BY FlashAssumption DEF Torn, Slot, Contents, Parts

\* So is what a package holds.
LEMMA PackageIsSlot ==
  ASSUME NEW i \in Indices, NEW k \in Keys, NEW a \in Contents.abl
  PROVE  Package(a, k, i) \in Slot
  BY DEF Package, Slot, Contents, Indices, Index, Keys

\* The indices of a slot.
LEMMA IndicesType ==
  ASSUME NEW s \in Slot
  PROVE  IndicesOf(s) \in Floors
  BY DEF IndicesOf, Floors, Slot, Contents

\* The greatest of up to three numbers.
LEMMA MaxFacts ==
  ASSUME NEW x \in Int, NEW y \in Int, NEW z \in Int, NEW S \in SUBSET {x, y, z}, S # {}
  PROVE  Max(S) \in S /\ \A w \in S : Max(S) >= w
<1>1. \E m \in S : \A w \in S : m >= w
  <2>1. CASE x \in S /\ (y \in S => x >= y) /\ (z \in S => x >= z)
    BY <2>1
  <2>2. CASE y \in S /\ (x \in S => y >= x) /\ (z \in S => y >= z)
    BY <2>2
  <2>3. CASE z \in S /\ (x \in S => z >= x) /\ (y \in S => z >= y)
    BY <2>3
  <2>4. x \in S \/ y \in S \/ z \in S
    OBVIOUS
  <2> QED
    BY <2>1, <2>2, <2>3, <2>4
<1> QED
  BY <1>1 DEF Max

\* The higher of two pairs of indices.
LEMMA HigherFacts ==
  ASSUME NEW f \in Floors, NEW g \in Floors
  PROVE  /\ Higher(f, g) \in Floors
         /\ AtLeast(Higher(f, g), f) /\ AtLeast(Higher(f, g), g)
<1>1. ASSUME NEW x \in Int, NEW y \in Int
      PROVE  Max({x, y}) \in {x, y} /\ Max({x, y}) >= x /\ Max({x, y}) >= y
  <2>1. \E m \in {x, y} : \A w \in {x, y} : m >= w
    OBVIOUS
  <2> QED
    BY <2>1 DEF Max
<1>2. f.boot \in Int /\ g.boot \in Int /\ f.vbs \in Int /\ g.vbs \in Int
  BY FlashAssumption DEF Floors
<1>3. /\ Max({f.boot, g.boot}) \in {f.boot, g.boot}
      /\ Max({f.boot, g.boot}) >= f.boot /\ Max({f.boot, g.boot}) >= g.boot
  BY <1>1, <1>2
<1>4. /\ Max({f.vbs, g.vbs}) \in {f.vbs, g.vbs}
      /\ Max({f.vbs, g.vbs}) >= f.vbs /\ Max({f.vbs, g.vbs}) >= g.vbs
  BY <1>1, <1>2
<1> QED
  BY <1>3, <1>4 DEF Higher, AtLeast, Floors

\* Floors are ordered as the numbers are.
LEMMA AtLeastOrder ==
  ASSUME NEW f \in Floors, NEW g \in Floors, NEW h \in Floors
  PROVE  AtLeast(f, f) /\ (AtLeast(f, g) /\ AtLeast(g, h) => AtLeast(f, h))
  BY FlashAssumption DEF AtLeast, Floors

\* Indices are floors, None is, and none of a pair of floors is None that is above
\* indices.
LEMMA IndicesAreFloors == Indices \subseteq Floors /\ None \in Floors /\ None \notin Indices
  BY FlashAssumption DEF Indices, Floors, Index, None

\* Short sequences, put together.
LEMMA Append1 ==
  ASSUME NEW a, NEW b
  PROVE  <<a>> \o <<b>> = <<a, b>>
<1> DEFINE S == {a, b}
<1>1. <<a>> \in Seq(S) /\ <<b>> \in Seq(S) /\ <<a, b>> \in Seq(S)
  OBVIOUS
<1>2. /\ <<a>> \o <<b>> \in Seq(S) /\ Len(<<a>> \o <<b>>) = 2
      /\ (<<a>> \o <<b>>)[1] = a /\ (<<a>> \o <<b>>)[2] = b
  BY <1>1, ConcatProperties
<1>3. /\ Len(<<a, b>>) = 2
      /\ <<a, b>>[1] = a /\ <<a, b>>[2] = b
  OBVIOUS
<1>4. \A i \in 1..2 : (<<a>> \o <<b>>)[i] = <<a, b>>[i]
  BY <1>2, <1>3
<1> HIDE DEF S
<1> QED
  BY <1>1, <1>2, <1>3, <1>4, SeqEqual

\* Two and one.
LEMMA Append2 ==
  ASSUME NEW a, NEW b, NEW c
  PROVE  <<a, b>> \o <<c>> = <<a, b, c>>
<1> DEFINE S == {a, b, c}
<1>1. <<a, b>> \in Seq(S) /\ <<c>> \in Seq(S) /\ <<a, b, c>> \in Seq(S)
  OBVIOUS
<1>2. /\ <<a, b>> \o <<c>> \in Seq(S) /\ Len(<<a, b>> \o <<c>>) = 3
      /\ (<<a, b>> \o <<c>>)[1] = a /\ (<<a, b>> \o <<c>>)[2] = b
      /\ (<<a, b>> \o <<c>>)[3] = c
  BY <1>1, ConcatProperties
<1>3. /\ Len(<<a, b, c>>) = 3
      /\ <<a, b, c>>[1] = a
      /\ <<a, b, c>>[2] = b
      /\ <<a, b, c>>[3] = c
  OBVIOUS
<1>4. \A i \in 1..3 : (<<a, b>> \o <<c>>)[i] = <<a, b, c>>[i]
  BY <1>2, <1>3
<1> HIDE DEF S
<1> QED
  BY <1>1, <1>2, <1>3, <1>4, SeqEqual

\* Three and one.
LEMMA Append3 ==
  ASSUME NEW a, NEW b, NEW c, NEW d
  PROVE  <<a, b, c>> \o <<d>> = <<a, b, c, d>>
<1> DEFINE S == {a, b, c, d}
<1>1. <<a, b, c>> \in Seq(S) /\ <<d>> \in Seq(S) /\ <<a, b, c, d>> \in Seq(S)
  OBVIOUS
<1>2. /\ <<a, b, c>> \o <<d>> \in Seq(S) /\ Len(<<a, b, c>> \o <<d>>) = 4
      /\ (<<a, b, c>> \o <<d>>)[1] = a /\ (<<a, b, c>> \o <<d>>)[2] = b
      /\ (<<a, b, c>> \o <<d>>)[3] = c /\ (<<a, b, c>> \o <<d>>)[4] = d
  BY <1>1, ConcatProperties
<1>3. /\ Len(<<a, b, c, d>>) = 4
      /\ <<a, b, c, d>>[1] = a
      /\ <<a, b, c, d>>[2] = b
      /\ <<a, b, c, d>>[3] = c
      /\ <<a, b, c, d>>[4] = d
  OBVIOUS
<1>4. \A i \in 1..4 : (<<a, b, c>> \o <<d>>)[i] = <<a, b, c, d>>[i]
  BY <1>2, <1>3
<1> HIDE DEF S
<1> QED
  BY <1>1, <1>2, <1>3, <1>4, SeqEqual

\* Nothing changes a short sequence.
LEMMA Append0 ==
  ASSUME NEW a, NEW b
  PROVE  /\ <<a, b>> \o <<>> = <<a, b>> /\ <<a>> \o <<>> = <<a>>
         /\ <<>> \o <<a>> = <<a>> /\ <<>> \o <<>> = <<>>
<1>1. <<a, b>> \in Seq({a, b}) /\ <<a>> \in Seq({a, b}) /\ <<>> \in Seq({a, b})
  OBVIOUS
<1> QED
  BY <1>1, ConcatEmptySeq

\* The overlays of a plan, spelt out.
LEMMA TestkeyIs ==
  ASSUME NEW t
  PROVE  /\ TestkeyOverlays(t, FALSE) =
              << <<"vbmeta_system", [key |-> "Test", idx |-> t.vbs]>>, <<"boot", t.boot>>,
                 <<"vbmeta", [key |-> "Test", covers |-> "Stock"]>> >>
         /\ TestkeyOverlays(t, TRUE) =
              << <<"vbmeta_system", [key |-> "Test", idx |-> t.vbs]>>, <<"boot", t.boot>>,
                 <<"vendor_boot", "Converted">>,
                 <<"vbmeta", [key |-> "Test", covers |-> "Converted"]>> >>
<1> DEFINE a == <<"vbmeta_system", [key |-> "Test", idx |-> t.vbs]>>
           b == <<"boot", t.boot>>
           c == <<"vendor_boot", "Converted">>
<1>1. TestkeyOverlays(t, FALSE) =
        (<<a, b>> \o <<>>) \o << <<"vbmeta", [key |-> "Test", covers |-> "Stock"]>> >>
  BY DEF TestkeyOverlays
<1>2. TestkeyOverlays(t, TRUE) =
        (<<a, b>> \o <<c>>) \o << <<"vbmeta", [key |-> "Test", covers |-> "Converted"]>> >>
  BY DEF TestkeyOverlays
<1> HIDE DEF a, b, c
<1>3. (<<a, b>> \o <<>>) = <<a, b>> /\ <<a, b>> \o <<c>> = <<a, b, c>>
  BY Append0, Append2
<1>4. TestkeyOverlays(t, FALSE) = <<a, b, <<"vbmeta", [key |-> "Test", covers |-> "Stock"]>> >>
  BY <1>1, <1>3, Append2
<1>5. TestkeyOverlays(t, TRUE) =
        <<a, b, c, <<"vbmeta", [key |-> "Test", covers |-> "Converted"]>> >>
  BY <1>2, <1>3, Append3
<1> QED
  BY <1>4, <1>5 DEF a, b, c

\* The changed indices, spelt out.
LEMMA ChangedIs ==
  ASSUME NEW t
  PROVE  ChangedOverlays(t) =
           IF t.boot # 0
           THEN IF t.vbs # 0
                THEN << <<"boot", t.boot>>,
                        <<"vbmeta_system", [key |-> run.key, idx |-> t.vbs]>> >>
                ELSE << <<"boot", t.boot>> >>
           ELSE IF t.vbs # 0
                THEN << <<"vbmeta_system", [key |-> run.key, idx |-> t.vbs]>> >>
                ELSE <<>>
<1> DEFINE a == <<"boot", t.boot>>
           b == <<"vbmeta_system", [key |-> run.key, idx |-> t.vbs]>>
<1>1. ChangedOverlays(t) = (IF t.boot # 0 THEN <<a>> ELSE <<>>)
                            \o (IF t.vbs # 0 THEN <<b>> ELSE <<>>)
  BY DEF ChangedOverlays
<1> HIDE DEF a, b
<1>2. ChangedOverlays(t) = IF t.boot # 0 THEN (IF t.vbs # 0 THEN <<a, b>> ELSE <<a>>)
                            ELSE (IF t.vbs # 0 THEN <<b>> ELSE <<>>)
  BY <1>1, Append0, Append1
<1> QED
  BY <1>2 DEF a, b

\* The overlays are writes.
LEMMA OverlayType ==
  ASSUME NEW t \in Floors, run.key \in Keys, NEW c \in BOOLEAN
  PROVE  TestkeyOverlays(t, c) \in Seq(Writes) /\ ChangedOverlays(t) \in Seq(Writes)
<1> DEFINE bt == <<"boot", t.boot>>
           vs(k) == <<"vbmeta_system", [key |-> k, idx |-> t.vbs]>>
           vb(v) == <<"vbmeta", [key |-> "Test", covers |-> v]>>
           vd == <<"vendor_boot", "Converted">>
<1>1. ASSUME NEW p \in Parts, NEW v \in Contents[p]
      PROVE  <<p, v>> \in Writes
  BY DEF Writes
<1>2. bt \in Writes
  BY <1>1 DEF Parts, Contents, Floors
<1>3. \A k \in Keys : vs(k) \in Writes
  <2> SUFFICES ASSUME NEW k \in Keys
               PROVE  vs(k) \in Writes
    OBVIOUS
  <2>1. [key |-> k, idx |-> t.vbs] \in Contents["vbmeta_system"]
    BY DEF Contents, Floors
  <2> QED
    BY <1>1, <2>1 DEF Parts
<1>4. vd \in Writes
  BY <1>1 DEF Parts, Contents
<1>5. vb("Stock") \in Writes /\ vb("Converted") \in Writes
  <2>1. \A v \in {"Stock", "Converted"} :
          [key |-> "Test", covers |-> v] \in Contents["vbmeta"]
    BY DEF Contents, Keys
  <2> QED
    BY <1>1, <2>1 DEF Parts
<1>6. "Test" \in Keys
  BY DEF Keys
<1> HIDE DEF bt, vs, vb, vd
<1>7. /\ <<vs("Test"), bt, vb("Stock")>> \in Seq(Writes)
      /\ <<vs("Test"), bt, vd, vb("Converted")>> \in Seq(Writes)
  BY <1>2, <1>3, <1>4, <1>5, <1>6
<1>8. TestkeyOverlays(t, FALSE) \in Seq(Writes) /\ TestkeyOverlays(t, TRUE) \in Seq(Writes)
  BY <1>7, TestkeyIs DEF bt, vs, vb, vd
<1>9. /\ <<bt, vs(run.key)>> \in Seq(Writes) /\ <<bt>> \in Seq(Writes)
      /\ <<vs(run.key)>> \in Seq(Writes) /\ <<>> \in Seq(Writes)
  BY <1>2, <1>3
<1>10. ChangedOverlays(t) \in Seq(Writes)
  BY <1>9, ChangedIs DEF bt, vs
<1> QED
  BY <1>8, <1>10

-----------------------------------------------------------------------------
(* What the worker reads.                                                  *)

\* Dumps come from the two slots, and from both unless one may be lost.
LEMMA DumpsAre ==
  /\ Dumps \subseteq SUBSET {"a", "b"}
  /\ "DumpFails" \notin Faults => Dumps = {{"a", "b"}}
  BY DEF Dumps

\* The floors of a set of dumps are not below what any of them holds.
LEMMA RollbackFloors ==
  ASSUME slots \in [{"a", "b"} -> Slot], NEW bs \in SUBSET {"a", "b"},
         NEW vs \in SUBSET {"a", "b"}
  PROVE  /\ rollback_floors(bs, vs) \in Floors
         /\ \A s \in bs : rollback_floors(bs, vs).boot >= slots[s].boot
         /\ \A s \in vs : rollback_floors(bs, vs).vbs >= slots[s].vbmeta_system.idx
<1> DEFINE B == {0} \cup {slots[s].boot : s \in bs}
           V == {0} \cup {slots[s].vbmeta_system.idx : s \in vs}
<1>1. \A s \in {"a", "b"} : slots[s].boot \in 0..MaxIndex /\ slots[s].vbmeta_system.idx \in 0..MaxIndex
  BY DEF Slot, Contents
<1>0. 0 \in Int /\ \A s \in {"a", "b"} : slots[s].boot \in Int /\ slots[s].vbmeta_system.idx \in Int
  BY <1>1, FlashAssumption
<1>2. B \in SUBSET {0, slots["a"].boot, slots["b"].boot} /\ B # {} /\ B \subseteq 0..MaxIndex
  BY <1>1, FlashAssumption
<1>3. /\ V \in SUBSET {0, slots["a"].vbmeta_system.idx, slots["b"].vbmeta_system.idx}
      /\ V # {} /\ V \subseteq 0..MaxIndex
  BY <1>1, FlashAssumption
<1> HIDE DEF B, V
<1>4. Max(B) \in B /\ \A w \in B : Max(B) >= w
  <2> DEFINE x == slots["a"].boot
             y == slots["b"].boot
  <2>1. 0 \in Int /\ x \in Int /\ y \in Int /\ B \in SUBSET {0, x, y} /\ B # {}
    BY <1>0, <1>2
  <2> HIDE DEF x, y
  <2> QED
    BY <2>1, MaxFacts
<1>5. Max(V) \in V /\ \A w \in V : Max(V) >= w
  <2> DEFINE x == slots["a"].vbmeta_system.idx
             y == slots["b"].vbmeta_system.idx
  <2>1. 0 \in Int /\ x \in Int /\ y \in Int /\ V \in SUBSET {0, x, y} /\ V # {}
    BY <1>0, <1>3
  <2> HIDE DEF x, y
  <2> QED
    BY <2>1, MaxFacts
<1>6. rollback_floors(bs, vs) = [boot |-> Max(B), vbs |-> Max(V)]
  BY DEF rollback_floors, B, V
<1>7. /\ rollback_floors(bs, vs) \in Floors
      /\ rollback_floors(bs, vs).boot = Max(B) /\ rollback_floors(bs, vs).vbs = Max(V)
  <2>1. Max(B) \in 0..MaxIndex /\ Max(V) \in 0..MaxIndex
    BY <1>2, <1>3, <1>4, <1>5
  <2> QED
    BY <1>6, <2>1 DEF Floors
<1>8. (\A s \in bs : slots[s].boot \in B) /\ (\A s \in vs : slots[s].vbmeta_system.idx \in V)
  BY DEF B, V
<1> QED
  BY <1>4, <1>5, <1>6, <1>7, <1>8

\* What read_device_vbmeta reads: a slot whose vbmeta_system parses, its key, and
\* the floors of both slots.
LEMMA DeviceRead ==
  ASSUME slots \in [{"a", "b"} -> Slot], active \in {"a", "b"}, NEW d \in read_device_vbmeta
  PROVE  /\ d.slot \in {"a", "b"} /\ d.class = slots[d.slot].vbmeta_system.key
         /\ slots[d.slot].vbmeta_system.idx # 0
         /\ d.floors \in Floors /\ Readable(d.floors)
         /\ "DumpFails" \notin Faults =>
              \A s \in {"a", "b"} : AtLeast(d.floors, IndicesOf(slots[s]))
<1>1. PICK p \in Dumps \X Dumps :
        /\ SlotRead(p[2]) \in p[2]
        /\ slots[SlotRead(p[2])].vbmeta_system.idx # 0
        /\ Readable(rollback_floors(p[1], p[2]))
        /\ d = [slot |-> SlotRead(p[2]), class |-> slots[SlotRead(p[2])].vbmeta_system.key,
                floors |-> rollback_floors(p[1], p[2])]
  BY DEF read_device_vbmeta
<1>2. p[1] \in SUBSET {"a", "b"} /\ p[2] \in SUBSET {"a", "b"}
  BY DumpsAre
<1>3. /\ d.slot = SlotRead(p[2]) /\ d.class = slots[SlotRead(p[2])].vbmeta_system.key
      /\ d.floors = rollback_floors(p[1], p[2])
  BY <1>1
<1>4. ASSUME "DumpFails" \notin Faults, NEW s \in {"a", "b"}
      PROVE  AtLeast(d.floors, IndicesOf(slots[s]))
  <2>1. s \in p[1] /\ s \in p[2]
    BY <1>4, DumpsAre
  <2> QED
    BY <1>2, <1>3, <2>1, RollbackFloors DEF AtLeast, IndicesOf
<1> QED
  BY <1>1, <1>2, <1>3, <1>4, RollbackFloors

\* What identifies a device that started in EDL.
LEMMA EdlStartRead ==
  ASSUME slots \in [{"a", "b"} -> Slot], NEW f \in read_edl_start_device
  PROVE  /\ f \in Floors /\ (is_protected => Readable(f))
         /\ "DumpFails" \notin Faults => \A s \in {"a", "b"} : AtLeast(f, IndicesOf(slots[s]))
<1>1. PICK bs \in Dumps, vs \in Dumps : f = rollback_floors(bs, vs)
  BY DEF read_edl_start_device
<1>2. bs \in SUBSET {"a", "b"} /\ vs \in SUBSET {"a", "b"}
  BY DumpsAre
<1>3. ASSUME "DumpFails" \notin Faults, NEW s \in {"a", "b"}
      PROVE  AtLeast(f, IndicesOf(slots[s]))
  <2>1. s \in bs /\ s \in vs
    BY <1>3, DumpsAre
  <2> QED
    BY <1>1, <1>2, <2>1, RollbackFloors DEF AtLeast, IndicesOf
<1> QED
  BY <1>1, <1>2, <1>3, RollbackFloors DEF read_edl_start_device

\* The fastboot probe shows the floors or a bound of both, or nothing.
LEMMA ProbeFacts ==
  ASSUME committed \in Indices, stock \in Nat, NEW r \in BOOLEAN
  PROVE  /\ Probe(r) \in Probes /\ Probe(r).reachable = r
         /\ Probe(r).classified # None => Probe(r).classified = committed
         /\ Probe(r).classified = None /\ Probe(r).aggregate # 0 =>
              Probe(r).aggregate >= committed.boot /\ Probe(r).aggregate >= committed.vbs
<1> DEFINE shown == IF r /\ family = "Generic"
                    THEN {i \in {committed.boot, committed.vbs} : i > stock} ELSE {}
           S == shown \cup {0}
<1>1. committed.boot \in 1..MaxIndex /\ committed.vbs \in 1..MaxIndex
  BY DEF Indices, Index
<1>0. 0 \in Int /\ committed.boot \in Int /\ committed.vbs \in Int
  BY <1>1, FlashAssumption
<1>2. S \in SUBSET {0, committed.boot, committed.vbs} /\ S # {} /\ S \subseteq 0..MaxIndex
  BY <1>1, FlashAssumption
<1> HIDE DEF S
<1>3. Max(S) \in S /\ \A w \in S : Max(S) >= w
  BY <1>0, <1>2, MaxFacts
<1>4. Probe(r) = [reachable |-> r,
                  classified |-> IF shown # {} /\ committed.boot > stock /\ committed.vbs > stock
                                 THEN committed ELSE None,
                  aggregate |-> Max(S)]
  BY DEF Probe, S
<1>5. Probe(r) \in Probes
  <2>1. Max(S) \in 0..MaxIndex
    BY <1>2, <1>3
  <2>2. committed \in Floors /\ None \in Floors
    BY IndicesAreFloors
  <2> QED
    BY <1>4, <2>1, <2>2 DEF Probes
<1>6. ASSUME Probe(r).classified = None, Probe(r).aggregate # 0
      PROVE  Probe(r).aggregate >= committed.boot /\ Probe(r).aggregate >= committed.vbs
  <2>1. Max(S) # 0
    BY <1>4, <1>6
  <2>2. Max(S) \in shown /\ Max(S) > stock
    BY <1>3, <2>1 DEF S
  <2>3. committed \in Indices /\ committed # None
    BY IndicesAreFloors
  <2>4. ~(committed.boot > stock /\ committed.vbs > stock)
    BY <1>4, <1>6, <2>2, <2>3
  <2> QED
    BY <1>1, <1>3, <1>4, <2>2, <2>4
<1> QED
  BY <1>4, <1>5, <1>6

-----------------------------------------------------------------------------
(* Types and stages.                                                       *)

USE DEF pc, run, rb_mode, fastboot, floors, checked, plan, todo, chain

Results == {"None", "Ok", "Err", "ErrNoAbl"}

\* The parts of the worker's locals.
LEMMA WorkerFacts ==
  ASSUME WorkerType
  PROVE  /\ pc \in Stages /\ run \in Arguments /\ rb_mode \in AllModes /\ fastboot \in Probes
         /\ floors \in Floors /\ checked \in Floors /\ plan \in Plans /\ todo \in Seq(Writes)
         /\ run.key \in Keys /\ firmware \in Indices /\ run.targets \in Floors
  BY IndicesAreFloors DEF WorkerType, Worker, Arguments, firmware, Indices

\* The locals of a new run, or of none.
LEMMA LocalsType ==
  ASSUME NEW at \in Stages, NEW r \in Arguments, NEW res \in Results
  PROVE  Locals(at, r, res) \in Worker
<1>1. NoProbe \in Probes /\ None \in Floors /\ 0 \in 0..MaxIndex
  BY IndicesAreFloors, FlashAssumption DEF NoProbe, Probes
<1>2. <<>> \in Seq(Writes)
  OBVIOUS
<1>3. NoPlan \in Plans
  BY <1>2 DEF NoPlan, Plans
<1>4. r.mode \in AllModes
  BY DEF Arguments
<1> QED
  BY <1>1, <1>2, <1>3, <1>4 DEF Locals, Worker, Results

\* The locals of no run are those of one.
LEMMA NoRunType == MaxIndex >= 1 => NoRun \in Arguments
  BY FlashAssumption DEF NoRun, Arguments, AllModes, Keys, Index, None

\* A worker that returns.
LEMMA EndsKeeps ==
  ASSUME FlowInv, UNCHANGED <<family, stock, runs>>, NEW res \in Results, Finish(res),
         mode' \in {"Edl", "Boot"}, slots' \in [{"a", "b"} -> Slot], active' \in {"a", "b"},
         efisp' \in {"Empty", "Normal", "Arb", "Torn"}, committed' \in Indices
  PROVE  FlowInv'
<1>1. "Done" \in Stages /\ MaxIndex >= 1
  BY FlashAssumption DEF Stages, FlowInv, Types, DeviceType, Indices, Index
<1>2. WorkerType'
  BY <1>1, LocalsType, NoRunType DEF Finish, WorkerType
<1>3. pc' = "Done" /\ worker'.written = FALSE
  BY DEF Finish, Locals
<1>4. DeviceType'
  BY DEF FlowInv, Types, DeviceType
<1>5. Phase'
  BY <1>3 DEF Phase, WriteStages
<1> QED
  BY <1>2, <1>4, <1>5 DEF FlowInv, Types

\* One of the ways out before the first write.
LEMMA AbortKeeps ==
  ASSUME FlowInv, UNCHANGED <<chain, family, stock, runs>>, NEW reset, Abort(reset)
  PROVE  FlowInv'
<1>1. Finish("Err") /\ mode' \in {"Edl", "Boot"}
  BY DEF Abort, Reset, FlowInv, Types, DeviceType
<1> QED
  BY <1>1, EndsKeeps DEF FlowInv, Types, DeviceType, Results

\* A stage before the first write.
LEMMA ReadsKeeps ==
  ASSUME FlowInv, UNCHANGED <<chain, family, stock, runs>>, pc \in Before, pc' \in Before,
         worker' \in Worker, worker'.written = worker.written, worker'.result = worker.result,
         mode' \in {"Edl", "Boot"}, pc' \notin {"Inspect", "Enter"} => mode' = "Edl"
  PROVE  FlowInv'
<1>1. ~worker.written /\ worker.result = "None"
  BY DEF FlowInv, Phase, Before, WriteStages
<1>2. DeviceType' /\ WorkerType'
  BY DEF FlowInv, Types, DeviceType, WorkerType
<1>3. Phase'
  BY <1>1 DEF Phase, Before, WriteStages
<1> QED
  BY <1>2, <1>3 DEF FlowInv, Types

\* Inspecting.
LEMMA InspectKeeps == FlowInv /\ Inspect /\ UNCHANGED stock => FlowInv'
<1> SUFFICES ASSUME FlowInv, Inspect, UNCHANGED stock
             PROVE  FlowInv'
  OBVIOUS
<1>1. /\ pc = "Inspect" /\ UNCHANGED <<chain, family, runs>> /\ worker \in Worker
      /\ mode \in {"Edl", "Boot"} /\ committed \in Indices /\ stock \in Nat
  BY DEF Inspect, Reading, FlowInv, Types, DeviceType, WorkerType
<1>2. ASSUME NEW reachable \in BOOLEAN, NEW pair \in BOOLEAN,
             Goto([worker EXCEPT !.pc = "Enter", !.fastboot = Probe(reachable),
                                 !.rb_mode = effective_flash_rollback_mode, !.plan.pair = pair])
      PROVE  FlowInv'
  <2>1. Probe(reachable) \in Probes
    BY <1>1, ProbeFacts
  <2>2. effective_flash_rollback_mode \in AllModes
    BY <1>1 DEF effective_flash_rollback_mode, AllModes, Worker, Arguments
  <2>3. [worker.plan EXCEPT !.pair = pair] \in Plans
    BY <1>1 DEF Worker, Plans
  <2>4. worker' = [worker EXCEPT !.pc = "Enter", !.fastboot = Probe(reachable),
                     !.rb_mode = effective_flash_rollback_mode,
                     !.plan = [worker.plan EXCEPT !.pair = pair]]
    BY <1>2 DEF Goto
  <2>5. /\ worker' \in Worker /\ pc' = "Enter" /\ worker'.written = worker.written
        /\ worker'.result = worker.result
    BY <1>1, <2>1, <2>2, <2>3, <2>4 DEF Worker, Stages
  <2> QED
    BY <1>1, <1>2, <2>5, ReadsKeeps DEF Goto, Before
<1>3. CASE Abort("None")
  BY <1>1, <1>3, AbortKeeps
<1>4. Reachable \subseteq BOOLEAN
  BY DEF Reachable
<1> QED
  BY <1>2, <1>3, <1>4 DEF Inspect

\* Entering EDL.
LEMMA EnterEdlKeeps == FlowInv /\ EnterEdl /\ UNCHANGED stock => FlowInv'
<1> SUFFICES ASSUME FlowInv, EnterEdl, UNCHANGED stock
             PROVE  FlowInv'
  OBVIOUS
<1>1. /\ pc = "Enter" /\ UNCHANGED <<chain, family, runs>> /\ worker \in Worker
      /\ mode \in {"Edl", "Boot"}
  BY DEF EnterEdl, Reading, FlowInv, Types, DeviceType, WorkerType
<1>2. CASE mode' = "Edl" /\ worker' = [worker EXCEPT !.pc = "Measure"]
  <2>1. /\ worker' \in Worker /\ pc' = "Measure" /\ worker'.written = worker.written
        /\ worker'.result = worker.result
    BY <1>1, <1>2 DEF Worker, Stages
  <2> QED
    BY <1>1, <1>2, <2>1, ReadsKeeps DEF Before
<1>3. CASE mode' \in {mode, "Edl"} /\ Finish("Err")
  <2>1. mode' \in {"Edl", "Boot"}
    BY <1>1, <1>3
  <2> QED
    BY <1>1, <1>3, <2>1, EndsKeeps DEF Results, FlowInv, Types, DeviceType
<1> QED
  BY <1>2, <1>3 DEF EnterEdl

\* A stage within the session that goes on with new locals, or stops the run.
SessionStep(w) == w \in Worker /\ w.pc \in Before \ {"Inspect", "Enter"}
                  /\ w.written = worker.written /\ w.result = worker.result

\* Such a stage keeps the invariant.
LEMMA SessionKeeps ==
  ASSUME FlowInv, UNCHANGED <<chain, family, stock, runs>>,
         pc \in Before \ {"Inspect", "Enter"}, NEW w, Goto(w), SessionStep(w)
  PROVE  FlowInv'
<1>1. mode = "Edl"
  BY DEF FlowInv, Phase, Before
<1> QED
  BY <1>1, ReadsKeeps DEF Goto, SessionStep

\* Measuring the floors.
LEMMA MeasureFloorsKeeps == FlowInv /\ MeasureFloors /\ UNCHANGED stock => FlowInv'
<1> SUFFICES ASSUME FlowInv, MeasureFloors, UNCHANGED stock
             PROVE  FlowInv'
  OBVIOUS
<1> DEFINE next == IF rb_mode = "Manual" THEN "Manual" ELSE "Key"
           w(f) == [worker EXCEPT !.pc = next, !.floors = IF is_protected THEN f ELSE None,
                                  !.rb_mode = IF is_protected \/ @ = "Manual" THEN @ ELSE "Off"]
<1>1. /\ pc = "Measure" /\ UNCHANGED <<chain, family, runs>> /\ worker \in Worker
      /\ slots \in [{"a", "b"} -> Slot] /\ active \in {"a", "b"}
  BY DEF MeasureFloors, Reading, FlowInv, Types, DeviceType, WorkerType
<1>2. ASSUME NEW f \in Floors
      PROVE  SessionStep(w(f))
  <2>1. w(f) \in Worker /\ w(f).pc = next
    BY <1>1, IndicesAreFloors DEF Worker, Stages, AllModes
  <2>2. w(f).written = worker.written /\ w(f).result = worker.result
    BY <1>1 DEF Worker
  <2> QED
    BY <2>1, <2>2 DEF SessionStep, Before
<1>3. SessionStep([worker EXCEPT !.pc = next])
  BY <1>1 DEF SessionStep, Worker, Stages, Before
<1>4. ASSUME NEW f \in (IF edl_start THEN read_edl_start_device
                        ELSE {d.floors : d \in read_device_vbmeta})
      PROVE  f \in Floors
  BY <1>1, EdlStartRead, DeviceRead
<1>5. CASE edl_start \/ xiaoxin
  <2>1. CASE \E f \in (IF edl_start THEN read_edl_start_device
                       ELSE {d.floors : d \in read_device_vbmeta}) : Goto(w(f))
    <3>1. PICK f \in (IF edl_start THEN read_edl_start_device
                      ELSE {d.floors : d \in read_device_vbmeta}) : Goto(w(f))
      BY <2>1
    <3>2. SessionStep(w(f))
      BY <1>2, <1>4
    <3> HIDE DEF w
    <3> QED
      BY <1>1, <3>1, <3>2, SessionKeeps DEF Before
  <2>2. CASE \E x \in {"System", "Start"} : Abort(x)
    BY <1>1, <2>2, AbortKeeps
  <2> QED
    BY <1>5, <2>1, <2>2 DEF MeasureFloors
<1>6. CASE ~(edl_start \/ xiaoxin)
  <2>1. Goto([worker EXCEPT !.pc = next])
    BY <1>6 DEF MeasureFloors
  <2> QED
    BY <1>1, <1>3, <2>1, SessionKeeps DEF Before
<1> QED
  BY <1>5, <1>6

\* Checking the manual targets.
LEMMA PlanManualKeeps == FlowInv /\ PlanManual /\ UNCHANGED stock => FlowInv'
<1> SUFFICES ASSUME FlowInv, PlanManual, UNCHANGED stock
             PROVE  FlowInv'
  OBVIOUS
<1> DEFINE w(f) == [worker EXCEPT !.pc = "Key", !.checked = f]
<1>1. /\ pc = "Manual" /\ UNCHANGED <<chain, family, runs>> /\ worker \in Worker
      /\ slots \in [{"a", "b"} -> Slot] /\ active \in {"a", "b"}
  BY DEF PlanManual, Reading, FlowInv, Types, DeviceType, WorkerType
<1>2. stored \in Floors
  BY <1>1, FlashAssumption DEF stored, Worker, Probes, Floors
<1>3. manual_device_floors \subseteq Floors
  <2>1. floors \in Floors
    BY <1>1 DEF Worker
  <2>2. \A d \in read_device_vbmeta : d.floors \in Floors
    BY <1>1, DeviceRead
  <2>3. Higher(floors, stored) \in Floors
    BY <1>2, <2>1, HigherFacts
  <2> QED
    BY <2>2, <2>3, IndicesAreFloors DEF manual_device_floors
<1>4. ASSUME NEW f \in Floors
      PROVE  SessionStep(w(f))
  BY <1>1 DEF SessionStep, Worker, Stages, Before
<1>5. CASE \E f \in manual_device_floors : Goto(w(f))
  <2>1. PICK f \in manual_device_floors : Goto(w(f))
    BY <1>5
  <2>2. SessionStep(w(f))
    BY <1>3, <1>4
  <2> HIDE DEF w
  <2> QED
    BY <1>1, <2>1, <2>2, SessionKeeps DEF Before
<1>6. CASE Abort("Start")
  BY <1>1, <1>6, AbortKeeps
<1> QED
  BY <1>5, <1>6 DEF PlanManual

\* The plans of the key gate and of the stage after it.
LEMMA TargetsType ==
  ASSUME run \in Arguments, NEW f \in Floors, NEW m \in Floors
  PROVE  Targets(f, m) \in Floors
<1>1. firmware \in Floors
  BY IndicesAreFloors DEF firmware, Arguments, Indices
<1> QED
  BY <1>1, HigherFacts DEF Targets

\* The manual targets are floors, or none.
LEMMA ManualPlanType == run \in Arguments => manual_plan \in Floors
  BY IndicesAreFloors DEF manual_plan, Arguments

\* What the key gate plans is a plan.
LEMMA LenovoPlansType ==
  ASSUME worker \in Worker, slots \in [{"a", "b"} -> Slot], active \in {"a", "b"},
         NEW d \in read_device_vbmeta, NEW p \in LenovoPlans(d)
  PROVE  p \in Plans
<1>1. plan \in Plans /\ run \in Arguments /\ run.key \in Keys
  BY DEF Worker, Arguments
<1>2. d.floors \in Floors /\ d.slot \in {"a", "b"}
  BY DeviceRead
<1>3. \A c \in BOOLEAN : TestkeyOverlays(Targets(d.floors, manual_plan), c) \in Seq(Writes)
  BY <1>1, <1>2, TargetsType, ManualPlanType, OverlayType
<1>4. slots[d.slot].abl \in Contents.abl /\ UserAbl \in Contents.abl
  BY <1>2 DEF Slot, UserAbl, Contents, Keys
<1>5. \A c \in BOOLEAN : Resigned(d, c) \in Plans
  BY <1>1, <1>3, <1>4 DEF Resigned, Plans
<1> QED
  BY <1>1, <1>5 DEF LenovoPlans

\* The key gate.
LEMMA KeyGateKeeps == FlowInv /\ KeyGate /\ UNCHANGED stock => FlowInv'
<1> SUFFICES ASSUME FlowInv, KeyGate, UNCHANGED stock
             PROVE  FlowInv'
  OBVIOUS
<1> DEFINE w(p, f) == [worker EXCEPT !.pc = "Stage", !.rb_mode = "Off",
                                     !.plan = p, !.checked = f]
           v == [worker EXCEPT !.pc = "Stage"]
<1>1. /\ pc = "Key" /\ UNCHANGED <<chain, family, runs>> /\ worker \in Worker
      /\ slots \in [{"a", "b"} -> Slot] /\ active \in {"a", "b"}
  BY DEF KeyGate, Reading, FlowInv, Types, DeviceType, WorkerType
<1>2. ASSUME NEW f \in Floors, NEW p \in Plans
      PROVE  SessionStep(w(p, f))
  BY <1>1 DEF SessionStep, Worker, Stages, Before, AllModes
<1>3. SessionStep(v)
  BY <1>1 DEF SessionStep, Worker, Stages, Before
<1>4. CASE Goto(v)
  <2> HIDE DEF v
  <2> QED
    BY <1>1, <1>3, <1>4, SessionKeeps DEF Before
<1>5. CASE \E d \in read_device_vbmeta : \E p \in LenovoPlans(d) : Goto(w(p, d.floors))
  <2>1. PICK d \in read_device_vbmeta : \E p \in LenovoPlans(d) : Goto(w(p, d.floors))
    BY <1>5
  <2>2. PICK p \in LenovoPlans(d) : Goto(w(p, d.floors))
    BY <2>1
  <2>3. SessionStep(w(p, d.floors))
    BY <1>1, <1>2, LenovoPlansType, DeviceRead
  <2> HIDE DEF w
  <2> QED
    BY <1>1, <2>2, <2>3, SessionKeeps DEF Before
<1>6. CASE Abort("Start")
  BY <1>1, <1>6, AbortKeeps
<1> QED
  BY <1>4, <1>5, <1>6 DEF KeyGate

\* A plan is staged.
LEMMA StagedKeeps ==
  ASSUME FlowInv, UNCHANGED <<chain, family, stock, runs>>, pc = "Stage",
         NEW f \in Floors, NEW p \in Plans, Staged(f, p)
  PROVE  FlowInv'
<1> DEFINE w == [worker EXCEPT !.pc = "Fetch", !.checked = f, !.plan = p]
<1>1. SessionStep(w)
  BY DEF FlowInv, Types, WorkerType, SessionStep, Worker, Stages, Before
<1>2. Goto(w)
  BY DEF Staged
<1> HIDE DEF w
<1> QED
  BY <1>1, <1>2, SessionKeeps DEF Before

\* The stage of the overlays.
LEMMA StageKeeps == FlowInv /\ Stage /\ UNCHANGED stock => FlowInv'
<1> SUFFICES ASSUME FlowInv, Stage, UNCHANGED stock
             PROVE  FlowInv'
  OBVIOUS
<1>1. /\ pc = "Stage" /\ UNCHANGED <<chain, family, stock, runs>> /\ worker \in Worker
      /\ slots \in [{"a", "b"} -> Slot] /\ active \in {"a", "b"}
  BY DEF Stage, Reading, FlowInv, Types, DeviceType, WorkerType
<1>2. /\ plan \in Plans /\ run \in Arguments /\ run.key \in Keys /\ run.targets \in Floors
      /\ run.boot \in 0..MaxIndex /\ run.vbs \in 0..MaxIndex
      /\ floors \in Floors /\ checked \in Floors /\ fastboot \in Probes
  BY <1>1, WorkerFacts, IndicesAreFloors DEF WorkerType, Arguments, Index
<1>3. \A t \in Floors : /\ [plan EXCEPT !.overlays = ChangedOverlays(t)] \in Plans
                        /\ WithTestkeyChain(t) \in Plans
  BY <1>2, OverlayType DEF Plans, WithTestkeyChain
<1>4. ASSUME NEW reset, Abort(reset)
      PROVE  FlowInv'
  BY <1>1, <1>4, AbortKeeps
<1>5. ASSUME NEW f \in Floors, NEW p \in Plans, Staged(f, p)
      PROVE  FlowInv'
  BY <1>1, <1>5, StagedKeeps
<1>6. \A x, y \in 0..MaxIndex : [boot |-> x, vbs |-> y] \in Floors
  BY DEF Floors
<1>7. DumpedFloors \in Floors
  BY <1>1, IndicesType DEF DumpedFloors, active_slot_suffix
<1>8. 0 \in 0..MaxIndex
  BY FlashAssumption
<1>9. CASE StageNoEfisp
  <2>1. ASSUME NEW f \in (IF floors # None THEN {floors}
                          ELSE {d.floors : d \in read_device_vbmeta})
        PROVE  f \in Floors
    BY <1>1, <1>2, DeviceRead
  <2> QED
    BY <1>2, <1>4, <1>5, <1>9, <2>1 DEF StageNoEfisp
<1>10. CASE StageManual
  <2> DEFINE t == [boot |-> IF run.targets.boot # run.boot THEN run.targets.boot ELSE 0,
                   vbs  |-> IF run.targets.vbs # run.vbs THEN run.targets.vbs ELSE 0]
             p == IF run.targets = firmware THEN plan
                  ELSE IF target_is_canoe THEN WithTestkeyChain(run.targets)
                  ELSE [plan EXCEPT !.overlays = ChangedOverlays(t)]
  <2>1. t \in Floors
    BY <1>2, <1>8 DEF Floors
  <2> HIDE DEF t
  <2>2. p \in Plans
    BY <1>2, <1>3, <2>1
  <2>3. Staged(checked, p) \/ Abort("Start")
    BY <1>10 DEF StageManual, t
  <2> HIDE DEF p
  <2> QED
    BY <1>2, <1>4, <1>5, <2>2, <2>3
<1>11. CASE Staged(checked, plan)
  BY <1>2, <1>5, <1>11
<1>12. CASE StageCanoe
  <2> DEFINE fl == IF floors # None THEN floors ELSE DumpedFloors
             p == IF NeedsArb(fl, None) THEN WithTestkeyChain(Targets(fl, None)) ELSE plan
  <2>1. fl \in Floors
    BY <1>2, <1>7
  <2> HIDE DEF fl
  <2>2. p \in Plans
    BY <1>2, <1>3, <2>1, TargetsType, IndicesAreFloors
  <2>3. Staged(fl, p) \/ Abort("None")
    BY <1>12 DEF StageCanoe, fl
  <2> HIDE DEF p
  <2> QED
    BY <1>4, <1>5, <2>1, <2>2, <2>3
<1>13. CASE StageGeneric
  <2> DEFINE fl == LocationFloors
             t == [boot |-> IF needs_patch(run.boot, fl.boot) THEN fl.boot ELSE 0,
                   vbs  |-> IF needs_patch(run.vbs, fl.vbs) THEN fl.vbs ELSE 0]
             p == [plan EXCEPT !.overlays = ChangedOverlays(t)]
  <2>1. fl \in Floors
    <3>1. stored \in Floors
      BY <1>2, <1>6 DEF stored, Probes
    <3>2. Max({DumpedFloors.boot, DumpedFloors.vbs}) \in 0..MaxIndex
      <4>1. DumpedFloors.boot \in 0..MaxIndex /\ DumpedFloors.vbs \in 0..MaxIndex
        BY <1>7 DEF Floors
      <4>2. [boot |-> DumpedFloors.boot, vbs |-> DumpedFloors.boot] \in Floors
            /\ [boot |-> DumpedFloors.vbs, vbs |-> DumpedFloors.vbs] \in Floors
        BY <4>1, <1>6
      <4>3. Higher([boot |-> DumpedFloors.boot, vbs |-> DumpedFloors.boot],
                   [boot |-> DumpedFloors.vbs, vbs |-> DumpedFloors.vbs]) \in Floors
        BY <4>2, HigherFacts
      <4> QED
        BY <4>3 DEF Higher, Floors
    <3> QED
      BY <1>2, <1>6, <3>1, <3>2, IndicesAreFloors DEF LocationFloors
  <2> HIDE DEF fl
  <2>2. t \in Floors
    BY <1>8, <2>1 DEF Floors
  <2> HIDE DEF t
  <2>3. p \in Plans
    BY <1>3, <2>2
  <2>4. Staged(fl, p) \/ \E x \in {"System", "None"} : Abort(x)
    BY <1>13 DEF StageGeneric, fl, t
  <2> HIDE DEF p
  <2> QED
    BY <1>4, <1>5, <2>1, <2>3, <2>4
<1> QED
  BY <1>9, <1>10, <1>11, <1>12, <1>13 DEF Stage

\* Fetching the GBL.
LEMMA FetchEfispKeeps == FlowInv /\ FetchEfisp /\ UNCHANGED stock => FlowInv'
<1> SUFFICES ASSUME FlowInv, FetchEfisp, UNCHANGED stock
             PROVE  FlowInv'
  OBVIOUS
<1> DEFINE a == IF target_is_canoe /\ run.user_abl THEN UserAbl ELSE plan.abl
           e == IF ~target_is_canoe \/ run.no_efisp_load THEN "Keep"
                ELSE IF requires_arb_efisp THEN "Arb"
                ELSE IF run.region THEN "Normal"
                ELSE IF run.wipe THEN "Erase" ELSE "Keep"
           p == [plan EXCEPT !.abl = a, !.efisp = e]
           w == [worker EXCEPT !.pc = "Raw", !.plan = p]
<1>1. /\ pc = "Fetch" /\ UNCHANGED <<chain, family, runs>> /\ worker \in Worker
  BY DEF FetchEfisp, Reading, FlowInv, Types, WorkerType
<1>2. plan \in Plans
  BY <1>1 DEF Worker
<1>3. a \in {"Keep"} \cup Contents.abl /\ e \in {"Keep", "Normal", "Arb", "Erase"}
  BY <1>2 DEF Plans, UserAbl, Contents, Keys
<1>4. Goto(w) \/ \E x \in {"Start", "None"} : Abort(x)
  BY <1>1, <1>2 DEF FetchEfisp, Worker, Plans
<1> HIDE DEF a, e
<1>5. p \in Plans
  BY <1>2, <1>3 DEF Plans
<1> HIDE DEF p
<1>6. SessionStep(w)
  BY <1>1, <1>5 DEF SessionStep, Worker, Stages, Before
<1> HIDE DEF w
<1>7. CASE Goto(w)
  BY <1>1, <1>6, <1>7, SessionKeeps DEF Before
<1>8. CASE \E x \in {"Start", "None"} : Abort(x)
  BY <1>1, <1>8, AbortKeeps
<1> QED
  BY <1>4, <1>7, <1>8

-----------------------------------------------------------------------------
(* Writing.                                                                *)

\* Firmware is a slot's worth of images.
LEMMA FirmwareIsSlot == run \in Arguments => FirmwareImages \in Slot
<1> SUFFICES ASSUME run \in Arguments
             PROVE  FirmwareImages \in Slot
  OBVIOUS
<1>1. FirmwareAbl \in Contents.abl /\ run.key \in Keys /\ firmware \in Indices
  BY DEF FirmwareAbl, Contents, Arguments, Keys, firmware, Indices
<1> QED
  BY <1>1, PackageIsSlot DEF FirmwareImages

\* The worker goes on with its plan, with a batch or with what is left of it.
LEMMA BeginFacts ==
  ASSUME worker \in Worker, NEW at \in WriteStages, NEW batch \in Seq(Writes), Begin(at, batch)
  PROVE  /\ worker' \in Worker /\ pc' = at /\ todo' = batch /\ worker'.written = TRUE
         /\ worker'.result = worker.result /\ plan' = plan /\ run' = run
         /\ fastboot' = fastboot
  BY DEF Begin, Worker, WriteStages, Stages

\* The worker goes on to a stage without a batch.
LEMMA AdvanceFacts ==
  ASSUME worker \in Worker, NEW at \in WriteStages, Advance(at)
  PROVE  /\ worker' \in Worker /\ pc' = at /\ todo' = todo /\ worker'.written = TRUE
         /\ worker'.result = worker.result /\ plan' = plan /\ run' = run
         /\ fastboot' = fastboot
  BY DEF Advance, Worker, WriteStages, Stages

\* A worker that goes on writing.
LEMMA WritesKeep ==
  ASSUME FlowInv, UNCHANGED <<mode, committed, family, stock, runs>>,
         pc \in WriteStages \cup {"Raw"}, NEW at \in WriteStages,
         worker' \in Worker, pc' = at, worker'.written = TRUE, worker'.result = worker.result,
         plan' = plan, slots' \in [{"a", "b"} -> Slot], active' \in {"a", "b"},
         efisp' \in {"Empty", "Normal", "Arb", "Torn"},
         at \notin {"Overlay", "Abl"} /\ plan.abl # "Keep" => slots'["a"].abl = plan.abl,
         at = "Region" => \A i \in DOMAIN todo' : todo'[i][1] # "abl"
  PROVE  FlowInv'
<1>1. mode = "Edl" /\ worker.result = "None"
  BY DEF FlowInv, Phase, WriteStages
<1>2. DeviceType' /\ WorkerType'
  BY DEF FlowInv, Types, DeviceType, WorkerType
<1>3. Phase'
  BY <1>1 DEF Phase, WriteStages
<1> QED
  BY <1>2, <1>3 DEF FlowInv, Types

\* What the worker of a writing stage has at hand.
LEMMA WritingFacts ==
  ASSUME FlowInv, NEW at, Writing(at)
  PROVE  /\ pc = at /\ UNCHANGED <<committed, family, runs>> /\ worker \in Worker
         /\ run \in Arguments /\ plan \in Plans /\ todo \in Seq(Writes)
         /\ slots \in [{"a", "b"} -> Slot] /\ active \in {"a", "b"}
         /\ efisp \in {"Empty", "Normal", "Arb", "Torn"} /\ mode \in {"Edl", "Boot"}
         /\ committed \in Indices
  BY DEF Writing, FlowInv, Types, DeviceType, WorkerType, Worker

\* A slot with the bootloader the plan has for it, or with one that is torn.
LEMMA AblFacts ==
  ASSUME plan \in Plans, NEW s \in Slot
  PROVE  /\ WithAbl(s) \in Slot
         /\ plan.abl # "Keep" => WithAbl(s).abl = plan.abl
         /\ \A x \in {s.abl, "Torn"} : [s EXCEPT !.abl = x] \in Slot
  BY DEF WithAbl, Plans, Slot, Contents, Keys

\* A write that failed, with the bootloader put back where that works.
LEMMA FailFacts ==
  ASSUME plan \in Plans, slots \in [{"a", "b"} -> Slot], NEW s \in Slot, FailRestoringAbl(s)
  PROVE  /\ slots' \in [{"a", "b"} -> Slot]
         /\ \E res \in {"Err", "ErrNoAbl"} : Finish(res)
         /\ worker'.result = "Err" /\ plan.abl # "Keep" => slots'["a"].abl = plan.abl
<1>1. CASE slots' = [slots EXCEPT !.a = WithAbl(s)] /\ Finish("Err")
  BY <1>1, AblFacts
<1>2. CASE /\ \E abl \in {s.abl, "Torn"} : slots' = [slots EXCEPT !.a = [s EXCEPT !.abl = abl]]
           /\ Finish("ErrNoAbl")
  <2>1. slots' \in [{"a", "b"} -> Slot]
    BY <1>2, AblFacts
  <2>2. worker'.result = "ErrNoAbl"
    BY <1>2 DEF Finish, Locals
  <2> QED
    BY <1>2, <2>1, <2>2
<1> QED
  BY <1>1, <1>2 DEF FailRestoringAbl

\* The partition at the head of a batch, written or torn.
LEMMA HeadFacts ==
  ASSUME slots \in [{"a", "b"} -> Slot], todo \in Seq(Writes), todo # <<>>
  PROVE  /\ HeadWritten \in Slot /\ HeadFailed \subseteq Slot
         /\ Head(todo) = todo[1] /\ todo[1][1] \in Parts /\ todo[1][2] \in Contents[todo[1][1]]
         /\ HeadWritten[todo[1][1]] = todo[1][2]
         /\ \A q \in Parts \ {todo[1][1]} : HeadWritten[q] = slots["a"][q]
         /\ Tail(todo) \in Seq(Writes) /\ Len(todo) \in Nat /\ Len(todo) >= 1
         /\ DOMAIN Tail(todo) = 1..(Len(todo) - 1) /\ DOMAIN todo = 1..Len(todo)
         /\ \A i \in DOMAIN Tail(todo) : Tail(todo)[i] = todo[i + 1] /\ i + 1 \in DOMAIN todo
<1>1. Head(todo) = todo[1] /\ todo[1] \in Writes
  BY EmptySeq
<1>2. PICK p \in Parts : \E v \in Contents[p] : todo[1] = <<p, v>>
  BY <1>1 DEF Writes
<1>3. PICK v \in Contents[p] : todo[1] = <<p, v>>
  BY <1>2
<1>4. todo[1][1] = p /\ todo[1][2] = v
  BY <1>3
<1>5. HeadWritten = [slots["a"] EXCEPT ![p] = v]
  BY <1>1, <1>4 DEF HeadWritten
<1>6. HeadFailed = {slots["a"], [slots["a"] EXCEPT ![p] = Torn[p]]}
  BY <1>1, <1>4 DEF HeadFailed
<1>7. slots["a"] \in Slot /\ Torn[p] \in Contents[p]
  BY TornIsSlot
<1>8. /\ HeadWritten \in Slot /\ HeadWritten[p] = v
      /\ \A q \in Parts \ {p} : HeadWritten[q] = slots["a"][q]
  BY <1>5, <1>7, SlotWrite
<1>9. HeadFailed \subseteq Slot
  BY <1>6, <1>7, SlotWrite
<1>10. /\ Tail(todo) \in Seq(Writes) /\ Len(todo) \in Nat /\ Len(todo) >= 1
       /\ DOMAIN Tail(todo) = 1..(Len(todo) - 1) /\ DOMAIN todo = 1..Len(todo)
       /\ \A i \in DOMAIN Tail(todo) : Tail(todo)[i] = todo[i + 1] /\ i + 1 \in DOMAIN todo
  BY EmptySeq
<1> QED
  BY <1>1, <1>4, <1>8, <1>9, <1>10

\* A failure after a write finds the bootloader in its place.
Restored == slots # slots' /\ worker'.result = "Err" /\ plan.abl # "Keep"
              => slots'["a"].abl = plan.abl

\* The package.
LEMMA RawProgramKeeps == FlowInv /\ RawProgram /\ UNCHANGED stock => FlowInv' /\ Restored
<1> SUFFICES ASSUME FlowInv, RawProgram, UNCHANGED stock
             PROVE  FlowInv' /\ Restored
  OBVIOUS
<1>1. Writing("Raw") /\ UNCHANGED <<active, efisp, mode>>
  BY DEF RawProgram
<1>2. /\ pc = "Raw" /\ UNCHANGED <<committed, family, runs>> /\ worker \in Worker
      /\ run \in Arguments /\ plan \in Plans /\ slots \in [{"a", "b"} -> Slot]
      /\ active \in {"a", "b"} /\ efisp \in {"Empty", "Normal", "Arb", "Torn"}
      /\ mode \in {"Edl", "Boot"} /\ committed \in Indices
  BY <1>1, WritingFacts
<1>3. worker.result = "None"
  BY <1>2 DEF FlowInv, Phase
<1>4. CASE slots' = [slots EXCEPT !.a = FirmwareImages] /\ Begin("Overlay", plan.overlays)
  <2>1. plan.overlays \in Seq(Writes) /\ "Overlay" \in WriteStages
    BY <1>2 DEF Plans, WriteStages
  <2>2. slots' \in [{"a", "b"} -> Slot]
    BY <1>2, <1>4, FirmwareIsSlot
  <2>3. /\ worker' \in Worker /\ pc' = "Overlay" /\ worker'.written = TRUE
        /\ worker'.result = worker.result /\ plan' = plan
    BY <1>2, <1>4, <2>1, BeginFacts
  <2>4. FlowInv'
    BY <1>1, <1>2, <2>1, <2>2, <2>3, WritesKeep
  <2> QED
    BY <1>3, <2>3, <2>4 DEF Restored
<1>5. ASSUME NEW done \in SUBSET Parts, NEW broken \in SUBSET (Parts \ done),
             FailRestoringAbl([p \in Parts |-> CASE p \in done -> FirmwareImages[p]
                                                 [] p \in broken -> Torn[p]
                                                 [] OTHER -> slots.a[p]])
      PROVE  FlowInv' /\ Restored
  <2> DEFINE s == [p \in Parts |-> CASE p \in done -> FirmwareImages[p]
                                     [] p \in broken -> Torn[p]
                                     [] OTHER -> slots.a[p]]
  <2>1. s \in Slot
    <3>1. FirmwareImages \in Slot /\ slots["a"] \in Slot
      BY <1>2, FirmwareIsSlot
    <3>2. \A p \in Parts : s[p] \in Contents[p]
      BY <3>1, SlotFacts, TornIsSlot
    <3>3. s = [abl |-> s["abl"], boot |-> s["boot"], vbmeta_system |-> s["vbmeta_system"],
               vbmeta |-> s["vbmeta"], vendor_boot |-> s["vendor_boot"]]
      BY DEF Parts
    <3> HIDE DEF s
    <3> QED
      BY <3>2, <3>3 DEF Parts, Slot, Contents
  <2> HIDE DEF s
  <2>2. FailRestoringAbl(s)
    BY <1>5 DEF s
  <2>3. /\ slots' \in [{"a", "b"} -> Slot] /\ Restored
        /\ \E res \in {"Err", "ErrNoAbl"} : Finish(res)
    BY <1>2, <2>1, <2>2, FailFacts DEF Restored
  <2>4. FlowInv'
    BY <1>1, <1>2, <2>3, EndsKeeps DEF Results
  <2> QED
    BY <2>3, <2>4
<1> QED
  BY <1>4, <1>5 DEF RawProgram

\* The overlays, one by one.
LEMMA FlashOverlayKeeps == FlowInv /\ FlashOverlay /\ UNCHANGED stock => FlowInv' /\ Restored
<1> SUFFICES ASSUME FlowInv, FlashOverlay, UNCHANGED stock
             PROVE  FlowInv' /\ Restored
  OBVIOUS
<1>1. Writing("Overlay") /\ UNCHANGED <<active, efisp, mode>>
  BY DEF FlashOverlay
<1>2. /\ pc = "Overlay" /\ UNCHANGED <<committed, family, runs>> /\ worker \in Worker
      /\ plan \in Plans /\ slots \in [{"a", "b"} -> Slot] /\ todo \in Seq(Writes)
      /\ active \in {"a", "b"} /\ efisp \in {"Empty", "Normal", "Arb", "Torn"}
      /\ mode \in {"Edl", "Boot"} /\ committed \in Indices
  BY <1>1, WritingFacts
<1>3. worker.result = "None" /\ pc \in WriteStages
  BY <1>2 DEF FlowInv, Phase, WriteStages
<1>4. CASE Advance("Abl") /\ UNCHANGED slots
  <2>1. "Abl" \in WriteStages
    BY DEF WriteStages
  <2>2. /\ worker' \in Worker /\ pc' = "Abl" /\ worker'.written = TRUE
        /\ worker'.result = worker.result /\ plan' = plan
    BY <1>2, <1>4, <2>1, AdvanceFacts
  <2>3. FlowInv'
    BY <1>1, <1>2, <1>3, <1>4, <2>1, <2>2, WritesKeep
  <2> QED
    BY <1>4, <2>3 DEF Restored
<1>5. CASE todo # <<>> /\ slots' = [slots EXCEPT !.a = HeadWritten] /\ Begin("Overlay", Tail(todo))
  <2>1. Tail(todo) \in Seq(Writes) /\ "Overlay" \in WriteStages /\ HeadWritten \in Slot
    BY <1>2, <1>5, HeadFacts DEF WriteStages
  <2>2. slots' \in [{"a", "b"} -> Slot]
    BY <1>2, <1>5, <2>1
  <2>3. /\ worker' \in Worker /\ pc' = "Overlay" /\ worker'.written = TRUE
        /\ worker'.result = worker.result /\ plan' = plan
    BY <1>2, <1>5, <2>1, BeginFacts
  <2>4. FlowInv'
    BY <1>1, <1>2, <1>3, <2>1, <2>2, <2>3, WritesKeep
  <2> QED
    BY <1>3, <2>3, <2>4 DEF Restored
<1>6. ASSUME todo # <<>>, NEW s \in HeadFailed, FailRestoringAbl(s)
      PROVE  FlowInv' /\ Restored
  <2>1. s \in Slot
    BY <1>2, <1>6, HeadFacts
  <2>2. /\ slots' \in [{"a", "b"} -> Slot] /\ Restored
        /\ \E res \in {"Err", "ErrNoAbl"} : Finish(res)
    BY <1>2, <1>6, <2>1, FailFacts DEF Restored
  <2>3. FlowInv'
    BY <1>1, <1>2, <2>2, EndsKeeps DEF Results
  <2> QED
    BY <2>2, <2>3
<1> QED
  BY <1>4, <1>5, <1>6 DEF FlashOverlay

\* The bootloader.
LEMMA RestoreAblKeeps == FlowInv /\ RestoreAbl /\ UNCHANGED stock => FlowInv' /\ Restored
<1> SUFFICES ASSUME FlowInv, RestoreAbl, UNCHANGED stock
             PROVE  FlowInv' /\ Restored
  OBVIOUS
<1>1. Writing("Abl") /\ UNCHANGED <<active, efisp, mode>>
  BY DEF RestoreAbl
<1>2. /\ pc = "Abl" /\ UNCHANGED <<committed, family, runs>> /\ worker \in Worker
      /\ plan \in Plans /\ slots \in [{"a", "b"} -> Slot]
      /\ active \in {"a", "b"} /\ efisp \in {"Empty", "Normal", "Arb", "Torn"}
      /\ mode \in {"Edl", "Boot"} /\ committed \in Indices
  BY <1>1, WritingFacts
<1>3. worker.result = "None" /\ pc \in WriteStages
  BY <1>2 DEF FlowInv, Phase, WriteStages
<1>4. CASE slots' = [slots EXCEPT !.a = WithAbl(@)] /\ Advance("Efisp")
  <2>1. "Efisp" \in WriteStages
    BY DEF WriteStages
  <2>2. /\ worker' \in Worker /\ pc' = "Efisp" /\ worker'.written = TRUE
        /\ worker'.result = worker.result /\ plan' = plan
    BY <1>2, <1>4, <2>1, AdvanceFacts
  <2>3. /\ slots' \in [{"a", "b"} -> Slot]
        /\ plan.abl # "Keep" => slots'["a"].abl = plan.abl
    BY <1>2, <1>4, AblFacts
  <2>4. FlowInv'
    BY <1>1, <1>2, <1>3, <2>1, <2>2, <2>3, WritesKeep
  <2> QED
    BY <2>3, <2>4 DEF Restored
<1>5. CASE /\ \E abl \in {slots.a.abl, "Torn"} : slots' = [slots EXCEPT !.a.abl = abl]
           /\ Finish("ErrNoAbl")
  <2>1. PICK abl \in {slots.a.abl, "Torn"} :
          slots' = [slots EXCEPT !.a = [slots["a"] EXCEPT !.abl = abl]]
    BY <1>2, <1>5
  <2>2. slots' \in [{"a", "b"} -> Slot]
    BY <1>2, <2>1, AblFacts
  <2>3. FlowInv'
    BY <1>1, <1>2, <1>5, <2>2, EndsKeeps DEF Results
  <2>4. worker'.result = "ErrNoAbl"
    BY <1>5 DEF Finish, Locals
  <2> QED
    BY <2>3, <2>4 DEF Restored
<1> QED
  BY <1>4, <1>5 DEF RestoreAbl

\* The GBL; no batch after it writes the bootloader.
LEMMA PairFacts ==
  ASSUME run.key \in Keys
  PROVE  PairOverlays \in Seq(Writes) /\ \A i \in DOMAIN PairOverlays : PairOverlays[i][1] # "abl"
<1> DEFINE a == <<"vendor_boot", "Converted">>
           b == <<"vbmeta", [key |-> run.key, covers |-> "Converted"]>>
<1>1. a \in Writes /\ b \in Writes
  <2>1. [key |-> run.key, covers |-> "Converted"] \in Contents["vbmeta"]
    BY DEF Contents
  <2>2. "Converted" \in Contents["vendor_boot"]
    BY DEF Contents
  <2> QED
    BY <2>1, <2>2 DEF Writes, Parts
<1>2. a[1] = "vendor_boot" /\ b[1] = "vbmeta"
  OBVIOUS
<1>3. PairOverlays = IF plan.pair THEN <<a, b>> ELSE <<>>
  BY DEF PairOverlays
<1> HIDE DEF a, b
<1>4. <<a, b>> \in Seq(Writes) /\ <<>> \in Seq(Writes)
  BY <1>1
<1>5. \A i \in DOMAIN <<a, b>> : <<a, b>>[i][1] # "abl"
  BY <1>2
<1> QED
  BY <1>3, <1>4, <1>5

\* The GBL itself.
LEMMA FlashEfispKeeps == FlowInv /\ FlashEfisp /\ UNCHANGED stock => FlowInv' /\ Restored
<1> SUFFICES ASSUME FlowInv, FlashEfisp, UNCHANGED stock
             PROVE  FlowInv' /\ Restored
  OBVIOUS
<1>1. Writing("Efisp") /\ UNCHANGED <<slots, active, mode>>
  BY DEF FlashEfisp
<1>2. /\ pc = "Efisp" /\ UNCHANGED <<committed, family, runs>> /\ worker \in Worker
      /\ run \in Arguments /\ plan \in Plans /\ slots \in [{"a", "b"} -> Slot]
      /\ active \in {"a", "b"} /\ efisp \in {"Empty", "Normal", "Arb", "Torn"}
      /\ mode \in {"Edl", "Boot"} /\ committed \in Indices
  BY <1>1, WritingFacts
<1>3. pc \in WriteStages /\ (plan.abl # "Keep" => slots["a"].abl = plan.abl)
  BY <1>2 DEF FlowInv, Phase, WriteStages
<1>4. CASE /\ efisp' \in {"Empty", "Normal", "Arb", "Torn"}
           /\ Begin("Region", PairOverlays)
  <2>1. /\ "Region" \in WriteStages /\ PairOverlays \in Seq(Writes)
        /\ \A i \in DOMAIN PairOverlays : PairOverlays[i][1] # "abl"
    BY <1>2, PairFacts DEF WriteStages, Arguments
  <2>2. /\ worker' \in Worker /\ pc' = "Region" /\ worker'.written = TRUE
        /\ worker'.result = worker.result /\ plan' = plan /\ todo' = PairOverlays
    BY <1>2, <1>4, <2>1, BeginFacts
  <2>3. FlowInv'
    BY <1>1, <1>2, <1>3, <1>4, <2>1, <2>2, WritesKeep
  <2> QED
    BY <1>1, <2>3 DEF Restored
<1>5. CASE efisp' \in {"Empty", "Normal", "Arb", "Torn"} /\ Finish("Err")
  BY <1>1, <1>2, <1>5, EndsKeeps DEF Results, Restored
<1>6. efisp' \in {"Empty", "Normal", "Arb", "Torn"}
  BY <1>2 DEF FlashEfisp, Plans
<1> QED
  BY <1>4, <1>5, <1>6 DEF FlashEfisp

\* The converted pair.
LEMMA FlashRegionPairKeeps ==
  FlowInv /\ FlashRegionPair /\ UNCHANGED stock => FlowInv' /\ Restored
<1> SUFFICES ASSUME FlowInv, FlashRegionPair, UNCHANGED stock
             PROVE  FlowInv' /\ Restored
  OBVIOUS
<1>1. Writing("Region") /\ UNCHANGED <<active, efisp, mode>>
  BY DEF FlashRegionPair
<1>2. /\ pc = "Region" /\ UNCHANGED <<committed, family, runs>> /\ worker \in Worker
      /\ plan \in Plans /\ slots \in [{"a", "b"} -> Slot] /\ todo \in Seq(Writes)
      /\ active \in {"a", "b"} /\ efisp \in {"Empty", "Normal", "Arb", "Torn"}
      /\ mode \in {"Edl", "Boot"} /\ committed \in Indices
  BY <1>1, WritingFacts
<1>3. /\ pc \in WriteStages /\ (plan.abl # "Keep" => slots["a"].abl = plan.abl)
      /\ \A i \in DOMAIN todo : todo[i][1] # "abl"
  BY <1>2 DEF FlowInv, Phase, WriteStages
<1>4. CASE Advance("Country") /\ UNCHANGED slots
  <2>1. "Country" \in WriteStages
    BY DEF WriteStages
  <2>2. /\ worker' \in Worker /\ pc' = "Country" /\ worker'.written = TRUE
        /\ worker'.result = worker.result /\ plan' = plan
    BY <1>2, <1>4, <2>1, AdvanceFacts
  <2>3. FlowInv'
    BY <1>1, <1>2, <1>3, <1>4, <2>1, <2>2, WritesKeep
  <2> QED
    BY <1>4, <2>3 DEF Restored
<1>5. CASE todo # <<>> /\ slots' = [slots EXCEPT !.a = HeadWritten] /\ Begin("Region", Tail(todo))
  <2>1. Tail(todo) \in Seq(Writes) /\ "Region" \in WriteStages /\ HeadWritten \in Slot
    BY <1>2, <1>5, HeadFacts DEF WriteStages
  <2>2. 1 \in DOMAIN todo /\ HeadWritten["abl"] = slots["a"]["abl"]
    BY <1>2, <1>3, <1>5, HeadFacts DEF Parts
  <2>3. /\ slots' \in [{"a", "b"} -> Slot]
        /\ plan.abl # "Keep" => slots'["a"].abl = plan.abl
    BY <1>2, <1>3, <1>5, <2>1, <2>2
  <2>4. /\ worker' \in Worker /\ pc' = "Region" /\ worker'.written = TRUE
        /\ worker'.result = worker.result /\ plan' = plan /\ todo' = Tail(todo)
    BY <1>2, <1>5, <2>1, BeginFacts
  <2>5. \A i \in DOMAIN todo' : todo'[i][1] # "abl"
    BY <1>2, <1>3, <1>5, <2>4, HeadFacts
  <2>6. FlowInv'
    BY <1>1, <1>2, <1>3, <2>1, <2>3, <2>4, <2>5, WritesKeep
  <2> QED
    BY <2>3, <2>6 DEF Restored
<1>6. ASSUME todo # <<>>, NEW s \in HeadFailed, slots' = [slots EXCEPT !.a = s], Finish("Err")
      PROVE  FlowInv' /\ Restored
  <2>1. s \in Slot /\ 1 \in DOMAIN todo /\ todo[1] = Head(todo) /\ todo[1][1] \in Parts
    BY <1>2, <1>6, HeadFacts
  <2>2. s.abl = slots["a"].abl
    <3>1. todo[1][1] # "abl"
      BY <1>3, <2>1
    <3>2. s = slots["a"] \/ s = [slots["a"] EXCEPT ![todo[1][1]] = Torn[todo[1][1]]]
      BY <1>6, <2>1 DEF HeadFailed
    <3>3. slots["a"] \in Slot /\ Torn[todo[1][1]] \in Contents[todo[1][1]]
      BY <1>2, <2>1, TornIsSlot
    <3>4. \A q \in Parts \ {todo[1][1]} :
            [slots["a"] EXCEPT ![todo[1][1]] = Torn[todo[1][1]]][q] = slots["a"][q]
      BY <2>1, <3>3, SlotWrite
    <3>5. "abl" \in Parts \ {todo[1][1]}
      BY <3>1 DEF Parts
    <3> QED
      BY <3>2, <3>4, <3>5
  <2>3. /\ slots' \in [{"a", "b"} -> Slot]
        /\ plan.abl # "Keep" => slots'["a"].abl = plan.abl
    BY <1>2, <1>3, <1>6, <2>1, <2>2
  <2>4. FlowInv'
    BY <1>1, <1>2, <1>6, <2>3, EndsKeeps DEF Results
  <2> QED
    BY <2>3, <2>4 DEF Restored
<1> QED
  BY <1>4, <1>5, <1>6 DEF FlashRegionPair

\* The country, the slot to boot and the reset.
LEMMA ChangeCountryKeeps == FlowInv /\ ChangeCountry /\ UNCHANGED stock => FlowInv' /\ Restored
<1> SUFFICES ASSUME FlowInv, ChangeCountry, UNCHANGED stock
             PROVE  FlowInv' /\ Restored
  OBVIOUS
<1>1. Writing("Country") /\ UNCHANGED <<slots, active, efisp, mode>>
  BY DEF ChangeCountry
<1>2. /\ pc = "Country" /\ UNCHANGED <<committed, family, runs>> /\ worker \in Worker
      /\ slots \in [{"a", "b"} -> Slot] /\ active \in {"a", "b"}
      /\ efisp \in {"Empty", "Normal", "Arb", "Torn"} /\ mode \in {"Edl", "Boot"}
      /\ committed \in Indices
  BY <1>1, WritingFacts
<1>3. pc \in WriteStages /\ (plan.abl # "Keep" => slots["a"].abl = plan.abl)
  BY <1>2 DEF FlowInv, Phase, WriteStages
<1>4. CASE Advance("Activate")
  <2>1. "Activate" \in WriteStages
    BY DEF WriteStages
  <2>2. /\ worker' \in Worker /\ pc' = "Activate" /\ worker'.written = TRUE
        /\ worker'.result = worker.result /\ plan' = plan
    BY <1>2, <1>4, <2>1, AdvanceFacts
  <2>3. FlowInv'
    BY <1>1, <1>2, <1>3, <2>1, <2>2, WritesKeep
  <2> QED
    BY <1>1, <2>3 DEF Restored
<1>5. CASE Finish("Err")
  BY <1>1, <1>2, <1>5, EndsKeeps DEF Results, Restored
<1> QED
  BY <1>4, <1>5 DEF ChangeCountry

\* The slot to boot.
LEMMA SetActiveKeeps ==
  FlowInv /\ set_active_slot_a /\ UNCHANGED stock => FlowInv' /\ Restored
<1> SUFFICES ASSUME FlowInv, set_active_slot_a, UNCHANGED stock
             PROVE  FlowInv' /\ Restored
  OBVIOUS
<1>1. Writing("Activate") /\ UNCHANGED <<slots, efisp, mode>>
  BY DEF set_active_slot_a
<1>2. /\ pc = "Activate" /\ UNCHANGED <<committed, family, runs>> /\ worker \in Worker
      /\ slots \in [{"a", "b"} -> Slot] /\ active \in {"a", "b"}
      /\ efisp \in {"Empty", "Normal", "Arb", "Torn"} /\ mode \in {"Edl", "Boot"}
      /\ committed \in Indices
  BY <1>1, WritingFacts
<1>3. pc \in WriteStages /\ (plan.abl # "Keep" => slots["a"].abl = plan.abl)
  BY <1>2 DEF FlowInv, Phase, WriteStages
<1>4. CASE active' = "a" /\ Advance("Reset")
  <2>1. "Reset" \in WriteStages
    BY DEF WriteStages
  <2>2. /\ worker' \in Worker /\ pc' = "Reset" /\ worker'.written = TRUE
        /\ worker'.result = worker.result /\ plan' = plan
    BY <1>2, <1>4, <2>1, AdvanceFacts
  <2>3. FlowInv'
    BY <1>1, <1>2, <1>3, <1>4, <2>1, <2>2, WritesKeep
  <2> QED
    BY <1>1, <2>3 DEF Restored
<1>5. CASE UNCHANGED active /\ Finish("Err")
  BY <1>1, <1>2, <1>5, EndsKeeps DEF Results, Restored
<1> QED
  BY <1>4, <1>5 DEF set_active_slot_a

\* The reset.
LEMMA ResetKeeps == FlowInv /\ reset_tolerant /\ UNCHANGED stock => FlowInv' /\ Restored
<1> SUFFICES ASSUME FlowInv, reset_tolerant, UNCHANGED stock
             PROVE  FlowInv' /\ Restored
  OBVIOUS
<1>1. Writing("Reset") /\ UNCHANGED <<slots, active, efisp>> /\ Reset /\ Finish("Ok")
  BY DEF reset_tolerant
<1> QED
  BY <1>1, WritingFacts, EndsKeeps DEF Results, Restored, Reset

\* The user and the device.
LEMMA StartRunKeeps == FlowInv /\ StartRun /\ UNCHANGED stock => FlowInv'
<1> SUFFICES ASSUME FlowInv, StartRun, UNCHANGED stock
             PROVE  FlowInv'
  OBVIOUS
<1>1. PICK r \in Runs :
        /\ worker' = Locals("Inspect", r, "None")
        /\ IF r.conn = "Edl" THEN mode' = "Edl"
           ELSE mode = "Boot" /\ Boots(slots[active]) /\ UNCHANGED mode
  BY DEF StartRun
<1>2. UNCHANGED <<slots, active, efisp, committed, family>> /\ runs < MaxRuns /\ runs' = runs + 1
  BY DEF StartRun
<1>3. r \in Arguments
  BY <1>1, FlashAssumption DEF Runs, Arguments, AllModes
<1>4. worker' \in Worker
  BY <1>1, <1>3, LocalsType DEF Stages, Results
<1>5. pc' = "Inspect" /\ worker'.written = FALSE /\ worker'.result = "None"
  BY <1>1 DEF Locals
<1>6. mode' \in {"Edl", "Boot"} /\ runs' \in 0..MaxRuns
  BY <1>1, <1>2, FlashAssumption DEF FlowInv, Types, DeviceType
<1>7. DeviceType' /\ WorkerType'
  BY <1>2, <1>4, <1>6 DEF FlowInv, Types, DeviceType, WorkerType
<1>8. Phase'
  BY <1>5 DEF Phase, WriteStages
<1> QED
  BY <1>7, <1>8 DEF FlowInv, Types

\* What the device does between runs.
LEMMA IdleKeeps ==
  ASSUME FlowInv, pc = "Done", UNCHANGED <<family, worker, runs, slots, active, efisp, stock>>,
         mode' \in {"Edl", "Boot"}, committed' \in Indices
  PROVE  FlowInv'
<1>1. DeviceType' /\ WorkerType'
  BY DEF FlowInv, Types, DeviceType, WorkerType
<1>2. Phase'
  BY DEF FlowInv, Phase, WriteStages
<1> QED
  BY <1>1, <1>2 DEF FlowInv, Types

\* A device that boots has images to take its indices from.
LEMMA BootedIndices ==
  ASSUME DeviceType, Boots(slots[active])
  PROVE  IndicesOf(slots[active]) \in Floors /\ Higher(committed, IndicesOf(slots[active])) \in Indices
<1>1. slots[active] \in Slot /\ committed \in Indices /\ committed \in Floors
  BY IndicesAreFloors DEF DeviceType
<1>2. IndicesOf(slots[active]) \in Floors
  BY <1>1, IndicesType
<1>3. /\ Higher(committed, IndicesOf(slots[active])) \in Floors
      /\ AtLeast(Higher(committed, IndicesOf(slots[active])), committed)
  BY <1>1, <1>2, HigherFacts
<1> HIDE DEF Higher
<1> QED
  BY <1>1, <1>2, <1>3, FlashAssumption DEF Floors, Indices, Index, AtLeast

\* The user restarts the device.
LEMMA PowerCycleKeeps == FlowInv /\ PowerCycle /\ UNCHANGED stock => FlowInv'
  BY IdleKeeps DEF PowerCycle, Idle, FlowInv, Types, DeviceType

\* The device boots.
LEMMA BootUpKeeps == FlowInv /\ BootUp /\ UNCHANGED stock => FlowInv'
<1> SUFFICES ASSUME FlowInv, BootUp, UNCHANGED stock
             PROVE  FlowInv'
  OBVIOUS
<1>1. committed' \in Indices
  BY BootedIndices DEF BootUp, FlowInv, Types
<1> QED
  BY <1>1, IdleKeeps DEF BootUp, Idle, FlowInv, Types, DeviceType

\* What the behaviours start from.
LEMMA FlowInit == Init => FlowInv
<1> SUFFICES ASSUME Init
             PROVE  FlowInv
  OBVIOUS
<1>1. PICK key \in Keys : \E idx \in Indices :
        LET abls == IF family # "Canoe" THEN {key}
                    ELSE IF key = "Test" \/ efisp = "Arb" THEN {"LenovoGbl"} ELSE {"Lenovo"}
            older == {i \in Indices : AtLeast(idx, i)}
        IN /\ key = "Test" /\ family = "Canoe" => efisp = "Arb"
           /\ \E abl \in abls :
              \E other \in {Torn} \cup {Package(abl, key, i) : i \in older} :
                slots = [s \in {"a", "b"} |->
                           IF s = active THEN Package(abl, key, idx) ELSE other]
           /\ committed = idx
  BY DEF Init
<1>2. PICK idx \in Indices :
        /\ \E abl \in Contents.abl :
           \E other \in {Torn} \cup {Package(abl, key, i) : i \in Indices} :
             slots = [s \in {"a", "b"} |->
                        IF s = active THEN Package(abl, key, idx) ELSE other]
        /\ committed = idx
  BY <1>1 DEF Contents, Keys
<1>3. slots \in [{"a", "b"} -> Slot]
  <2>1. PICK abl \in Contents.abl :
          \E other \in {Torn} \cup {Package(abl, key, i) : i \in Indices} :
            slots = [s \in {"a", "b"} |->
                       IF s = active THEN Package(abl, key, idx) ELSE other]
    BY <1>2
  <2>2. \A i \in Indices : Package(abl, key, i) \in Slot
    BY PackageIsSlot
  <2> QED
    BY <2>1, <2>2, TornIsSlot
<1>4. family \in Families /\ stock \in Nat /\ active \in {"a", "b"}
      /\ efisp \in {"Empty", "Arb"} /\ mode = "Boot" /\ runs = 0
      /\ worker = Locals("Done", NoRun, "None")
  BY FlashAssumption DEF Init
<1>5. worker \in Worker
  <2>1. MaxIndex >= 1
    BY FlashAssumption DEF Indices, Index
  <2> QED
    BY <1>4, <2>1, NoRunType, LocalsType DEF Stages, Results
<1>6. DeviceType /\ WorkerType
  BY <1>2, <1>3, <1>4, <1>5, FlashAssumption DEF DeviceType, WorkerType
<1>7. Phase
  BY <1>4 DEF Phase, Locals, WriteStages
<1> QED
  BY <1>6, <1>7 DEF FlowInv, Types

\* The stages before the first write change no slot.
LEMMA ReadersRestore ==
  ASSUME UNCHANGED slots
  PROVE  Restored
  BY DEF Restored

-----------------------------------------------------------------------------
(* The first flash: what stays true of the run and the images while        *)
(* neither the run nor the device's floors change.                         *)

SameRun == UNCHANGED <<family, committed>> /\ run' = run /\ fastboot' = fastboot

\* What depends on the run and on the committed floors alone.
LEMMA RunFacts ==
  ASSUME SameRun
  PROVE  /\ Runs' = Runs /\ (xiaoxin)' = xiaoxin /\ target_is_canoe' = target_is_canoe
         /\ is_protected' = is_protected /\ edl_start' = edl_start /\ firmware' = firmware
         /\ effective_flash_rollback_mode' = effective_flash_rollback_mode
         /\ stored' = stored /\ Accepted(fastboot.reachable)' = Accepted(fastboot.reachable)
         /\ UnknownRoot' = UnknownRoot /\ Guarded' = Guarded
         /\ UserAbl' = UserAbl /\ FirmwareImages' = FirmwareImages
         /\ \A f \in Floors : Floored(f)' = Floored(f)
         /\ \A F \in Slot : MeetsFloors(F)' = MeetsFloors(F)
<1>1. /\ Runs' = Runs /\ (xiaoxin)' = xiaoxin /\ target_is_canoe' = target_is_canoe
      /\ is_protected' = is_protected /\ edl_start' = edl_start /\ firmware' = firmware
  BY DEF SameRun, Runs, xiaoxin, target_is_canoe, is_protected, edl_start, firmware
<1>2. effective_flash_rollback_mode' = effective_flash_rollback_mode
  BY <1>1 DEF SameRun, effective_flash_rollback_mode
<1>3. stored' = stored
  BY DEF SameRun, stored
<1>4. validate_canoe_efisp_choice' = validate_canoe_efisp_choice
  BY DEF SameRun, validate_canoe_efisp_choice
<1>5. Accepted(fastboot.reachable)' = Accepted(fastboot.reachable)
  BY <1>1, <1>2, <1>4 DEF SameRun, Accepted
<1>6. UnknownRoot' = UnknownRoot /\ Guarded' = Guarded
  BY <1>1 DEF SameRun, UnknownRoot, Guarded
<1>7. UserAbl' = UserAbl /\ FirmwareImages' = FirmwareImages
  BY <1>1 DEF SameRun, UserAbl, FirmwareImages, FirmwareAbl
<1>8. /\ \A f \in Floors : Floored(f)' = Floored(f)
      /\ \A F \in Slot : MeetsFloors(F)' = MeetsFloors(F)
  BY <1>1 DEF SameRun, Floored, MeetsFloors
<1> QED
  BY <1>1, <1>2, <1>3, <1>5, <1>6, <1>7, <1>8

\* Images stay sound, and do with a GBL that was called for.
LEMMA SoundKeeps ==
  ASSUME SameRun, plan'.pair = plan.pair, NEW F \in Slot, NEW A, NEW arb \in BOOLEAN,
         NEW arb1 \in BOOLEAN, arb => arb1, Sound(F, A, arb)
  PROVE  Sound(F, A, arb1)'
  BY RunFacts DEF Sound, SameRun

\* Whether images are sound does not depend on the bootloader among them.
LEMMA SoundUnder ==
  ASSUME NEW F \in Slot, NEW G \in Slot, NEW A, NEW arb, Sound(F, A, arb),
         F.boot = G.boot, F.vbmeta = G.vbmeta, F.vbmeta_system = G.vbmeta_system,
         F.vendor_boot = G.vendor_boot
  PROVE  Sound(G, A, arb)
<1>1. IndicesOf(F) = IndicesOf(G)
  BY DEF IndicesOf
<1>2. MeetsFloors(F) = MeetsFloors(G)
  BY <1>1 DEF MeetsFloors
<1> QED
  BY <1>2 DEF Sound

\* A batch that is done has made the slot what it was to become.
LEMMA BecomesDone ==
  ASSUME NEW s \in Slot, NEW F \in Slot, Becomes(s, <<>>, F)
  PROVE  s = F
<1>1. DOMAIN <<>> = {}
  OBVIOUS
<1>2. \A p \in Parts : s[p] = F[p]
  BY <1>1 DEF Becomes
<1> QED
  BY <1>2, SlotFacts

\* One partition of a batch brings the slot nearer.
LEMMA BecomesNext ==
  ASSUME slots \in [{"a", "b"} -> Slot], todo \in Seq(Writes), todo # <<>>, NEW F \in Slot,
         Becomes(slots["a"], todo, F)
  PROVE  Becomes(HeadWritten, Tail(todo), F)
<1>1. ASSUME NEW i \in DOMAIN Tail(todo)
      PROVE  Tail(todo)[i][2] = F[Tail(todo)[i][1]]
  BY HeadFacts DEF Becomes
<1>2. ASSUME NEW p \in Parts
      PROVE  HeadWritten[p] = F[p] \/ \E i \in DOMAIN Tail(todo) : Tail(todo)[i][1] = p
  <2>1. CASE p = todo[1][1]
    BY <2>1, HeadFacts DEF Becomes
  <2>2. CASE p # todo[1][1] /\ slots["a"][p] = F[p]
    BY <2>2, HeadFacts
  <2>3. CASE p # todo[1][1] /\ \E i \in DOMAIN todo : todo[i][1] = p
    <3>1. PICK i \in DOMAIN todo : todo[i][1] = p
      BY <2>3
    <3>2. i \in 1..Len(todo) /\ i # 1 /\ Len(todo) \in Nat
      BY <2>3, <3>1, HeadFacts
    <3>3. i - 1 \in 1..(Len(todo) - 1) /\ (i - 1) + 1 = i
      BY <3>2
    <3>4. i - 1 \in DOMAIN Tail(todo) /\ Tail(todo)[i - 1] = todo[i]
      BY <3>3, HeadFacts
    <3> QED
      BY <3>1, <3>4
  <2> QED
    BY <2>1, <2>2, <2>3 DEF Becomes
<1> QED
  BY <1>1, <1>2 DEF Becomes

\* Images stay sound while the plan for the bootloader and for efisp stays.
LEMMA SoundOver ==
  ASSUME SameRun, plan' = plan, NEW F \in Slot, Sound(F, AblOver(F), plan.efisp = "Arb")
  PROVE  Sound(F, AblOver(F), plan.efisp = "Arb")'
<1>1. PICK A : A = AblOver(F)
  OBVIOUS
<1>2. PICK b \in BOOLEAN : b = (plan.efisp = "Arb")
  OBVIOUS
<1>3. AblOver(F)' = A /\ (plan.efisp = "Arb")' = b
  BY <1>1, <1>2 DEF AblOver
<1>4. Sound(F, A, b)'
  BY <1>1, <1>2, SoundKeeps
<1> QED
  BY <1>3, <1>4

\* A run that returns promises nothing, and one that writes only what its stage does.
LEMMA DoneFirst ==
  ASSUME runs' # 0, pc' = "Done"
  PROVE  FirstRun'
  BY DEF FirstRun, Promise, Before

\* A run that writes.
LEMMA WritingFirst ==
  ASSUME FirstRun, pc \in WriteStages \cup {"Raw"}, runs' = runs, pc' \in WriteStages,
         runs <= 1 /\ Promise => Promise'
  PROVE  FirstRun'
  BY DEF FirstRun, WriteStages, Before

\* A worker is busy in a run.
LEMMA BusyFirst ==
  ASSUME FirstRun, runs \in Nat, pc # "Done"
  PROVE  runs # 0
  BY DEF FirstRun

\* Writing keeps the promise, stage by stage.
LEMMA RawProgramFirst == FlashInv /\ RawProgram /\ UNCHANGED stock => FirstRun'
<1> SUFFICES ASSUME FlashInv, RawProgram, UNCHANGED stock
             PROVE  FirstRun'
  OBVIOUS
<1>1. Writing("Raw") /\ FlowInv /\ FirstRun
  BY DEF RawProgram, FlashInv
<1>2. /\ pc = "Raw" /\ UNCHANGED <<committed, family, runs>> /\ worker \in Worker
      /\ run \in Arguments /\ plan \in Plans /\ slots \in [{"a", "b"} -> Slot]
  BY <1>1, WritingFacts
<1>3. runs # 0
  BY <1>1, <1>2, FlashAssumption, BusyFirst DEF FlowInv, Types, DeviceType
<1>4. CASE slots' = [slots EXCEPT !.a = FirmwareImages] /\ Begin("Overlay", plan.overlays)
  <2>1. plan.overlays \in Seq(Writes) /\ "Overlay" \in WriteStages
    BY <1>2 DEF Plans, WriteStages
  <2>2. /\ pc' = "Overlay" /\ todo' = plan.overlays /\ plan' = plan /\ run' = run
        /\ fastboot' = fastboot
    BY <1>2, <1>4, <2>1, BeginFacts
  <2>3. slots'["a"] = FirmwareImages
    BY <1>2, <1>4
  <2>4. ASSUME Promise
        PROVE  Promise'
    <3>1. PICK F \in Slot : /\ Becomes(FirmwareImages, plan.overlays, F)
                            /\ Sound(F, AblOver(F), plan.efisp = "Arb")
      BY <1>2, <2>4 DEF Promise
    <3>2. Becomes(slots["a"], todo, F)'
      BY <2>2, <2>3, <3>1 DEF Becomes
    <3>3. SameRun
      BY <1>2, <2>2 DEF SameRun
    <3>4. Sound(F, AblOver(F), plan.efisp = "Arb")'
      BY <2>2, <3>1, <3>3, SoundOver
    <3> QED
      BY <2>2, <3>2, <3>4 DEF Promise
  <2> QED
    BY <1>1, <1>2, <2>1, <2>2, <2>4, WritingFirst
<1>5. CASE \E res \in Results : Finish(res)
  BY <1>2, <1>3, <1>5, DoneFirst DEF Finish, Locals
<1> QED
  BY <1>4, <1>5 DEF RawProgram, FailRestoringAbl, Results

\* The overlays bring slot `_a` to the images promised.
LEMMA FlashOverlayFirst == FlashInv /\ FlashOverlay /\ UNCHANGED stock => FirstRun'
<1> SUFFICES ASSUME FlashInv, FlashOverlay, UNCHANGED stock
             PROVE  FirstRun'
  OBVIOUS
<1>1. Writing("Overlay") /\ FlowInv /\ FirstRun
  BY DEF FlashOverlay, FlashInv
<1>2. /\ pc = "Overlay" /\ UNCHANGED <<committed, family, runs>> /\ worker \in Worker
      /\ plan \in Plans /\ slots \in [{"a", "b"} -> Slot] /\ todo \in Seq(Writes)
  BY <1>1, WritingFacts
<1>3. runs # 0 /\ pc \in WriteStages
  BY <1>1, <1>2, FlashAssumption, BusyFirst DEF FlowInv, Types, DeviceType, WriteStages
<1>4. ASSUME Promise
      PROVE  \E F \in Slot : Becomes(slots["a"], todo, F) /\ Sound(F, AblOver(F), plan.efisp = "Arb")
  BY <1>2, <1>4 DEF Promise
<1>5. CASE todo = <<>> /\ Advance("Abl") /\ UNCHANGED slots
  <2>1. "Abl" \in WriteStages
    BY DEF WriteStages
  <2>2. pc' = "Abl" /\ plan' = plan /\ run' = run /\ fastboot' = fastboot
    BY <1>2, <1>5, <2>1, AdvanceFacts
  <2>3. SameRun
    BY <1>2, <2>2 DEF SameRun
  <2>4. ASSUME Promise
        PROVE  Promise'
    <3>1. PICK F \in Slot : /\ Becomes(slots["a"], todo, F)
                            /\ Sound(F, AblOver(F), plan.efisp = "Arb")
      BY <1>4, <2>4
    <3>2. slots'["a"] = F
      BY <1>2, <1>5, <3>1, BecomesDone
    <3>3. Sound(F, AblOver(F), plan.efisp = "Arb")'
      BY <2>2, <2>3, <3>1, SoundOver
    <3>4. Sound(slots["a"], AblOver(slots["a"]), plan.efisp = "Arb")'
      <4>1. AblOver(slots["a"])' = AblOver(F)'
        BY <3>2 DEF AblOver
      <4> QED
        BY <3>2, <3>3, <4>1
    <3> QED
      BY <2>2, <3>4 DEF Promise
  <2> QED
    BY <1>1, <1>2, <1>3, <2>1, <2>2, <2>4, WritingFirst
<1>6. CASE todo # <<>> /\ slots' = [slots EXCEPT !.a = HeadWritten] /\ Begin("Overlay", Tail(todo))
  <2>1. Tail(todo) \in Seq(Writes) /\ "Overlay" \in WriteStages
    BY <1>2, <1>6, HeadFacts DEF WriteStages
  <2>2. /\ pc' = "Overlay" /\ todo' = Tail(todo) /\ plan' = plan /\ run' = run
        /\ fastboot' = fastboot
    BY <1>2, <1>6, <2>1, BeginFacts
  <2>3. slots'["a"] = HeadWritten
    BY <1>2, <1>6
  <2>4. SameRun
    BY <1>2, <2>2 DEF SameRun
  <2>5. ASSUME Promise
        PROVE  Promise'
    <3>1. PICK F \in Slot : /\ Becomes(slots["a"], todo, F)
                            /\ Sound(F, AblOver(F), plan.efisp = "Arb")
      BY <1>4, <2>5
    <3>2. Becomes(HeadWritten, Tail(todo), F)
      BY <1>2, <1>6, <3>1, BecomesNext
    <3>3. Becomes(slots["a"], todo, F)'
      BY <2>2, <2>3, <3>2 DEF Becomes
    <3>4. Sound(F, AblOver(F), plan.efisp = "Arb")'
      BY <2>2, <2>4, <3>1, SoundOver
    <3> QED
      BY <2>2, <3>3, <3>4 DEF Promise
  <2> QED
    BY <1>1, <1>2, <1>3, <2>1, <2>2, <2>5, WritingFirst
<1>7. CASE \E res \in Results : Finish(res)
  BY <1>2, <1>3, <1>7, DoneFirst DEF Finish, Locals
<1> QED
  BY <1>5, <1>6, <1>7 DEF FlashOverlay, FailRestoringAbl, Results

\* The bootloader of the plan is on slot `_a`.
LEMMA RestoreAblFirst == FlashInv /\ RestoreAbl /\ UNCHANGED stock => FirstRun'
<1> SUFFICES ASSUME FlashInv, RestoreAbl, UNCHANGED stock
             PROVE  FirstRun'
  OBVIOUS
<1>1. Writing("Abl") /\ FlowInv /\ FirstRun
  BY DEF RestoreAbl, FlashInv
<1>2. /\ pc = "Abl" /\ UNCHANGED <<committed, family, runs>> /\ worker \in Worker
      /\ plan \in Plans /\ slots \in [{"a", "b"} -> Slot]
  BY <1>1, WritingFacts
<1>3. runs # 0 /\ pc \in WriteStages
  BY <1>1, <1>2, FlashAssumption, BusyFirst DEF FlowInv, Types, DeviceType, WriteStages
<1>4. CASE slots' = [slots EXCEPT !.a = WithAbl(@)] /\ Advance("Efisp")
  <2>1. "Efisp" \in WriteStages
    BY DEF WriteStages
  <2>2. pc' = "Efisp" /\ plan' = plan /\ run' = run /\ fastboot' = fastboot
    BY <1>2, <1>4, <2>1, AdvanceFacts
  <2>3. SameRun
    BY <1>2, <2>2 DEF SameRun
  <2>4. ASSUME Promise
        PROVE  Promise'
    <3>1. PICK F \in Slot : F = slots["a"]
      BY <1>2
    <3>2. Sound(F, AblOver(F), plan.efisp = "Arb")
      BY <1>2, <2>4, <3>1 DEF Promise
    <3>3. PICK G \in Slot : G = WithAbl(F)
      BY <1>2, AblFacts
    <3>4. G.abl = AblOver(F) /\ F.boot = G.boot /\ F.vbmeta = G.vbmeta
          /\ F.vbmeta_system = G.vbmeta_system /\ F.vendor_boot = G.vendor_boot
      BY <1>2, <3>3 DEF WithAbl, AblOver, Slot
    <3>5. PICK b \in BOOLEAN : b = (plan.efisp = "Arb")
      OBVIOUS
    <3>6. Sound(G, G.abl, b)
      BY <3>2, <3>4, <3>5, SoundUnder
    <3>7. Sound(G, G.abl, b)'
      <4>1. PICK A : A = G.abl
        OBVIOUS
      <4> QED
        BY <2>2, <2>3, <3>6, SoundKeeps
    <3>8. slots'["a"] = G
      BY <1>2, <1>4, <3>1, <3>3
    <3>9. Sound(slots["a"], slots["a"].abl, plan.efisp = "Arb")'
      BY <2>2, <3>5, <3>7, <3>8
    <3> QED
      BY <2>2, <3>9 DEF Promise
  <2> QED
    BY <1>1, <1>2, <1>3, <2>1, <2>2, <2>4, WritingFirst
<1>5. CASE \E res \in Results : Finish(res)
  BY <1>2, <1>3, <1>5, DoneFirst DEF Finish, Locals
<1> QED
  BY <1>4, <1>5 DEF RestoreAbl, Results

\* The converted pair keeps images sound that a plan with one has made.
LEMMA PairSound ==
  ASSUME worker \in Worker, NEW F \in Slot, NEW b \in BOOLEAN, Sound(F, F.abl, b)
  PROVE  \E G \in Slot : Becomes(F, PairOverlays, G) /\ Sound(G, G.abl, b)
<1>0. run.key \in Keys
  BY DEF Worker, Arguments
<1>1. CASE ~plan.pair
  <2>1. PairOverlays = <<>> /\ DOMAIN <<>> = {}
    BY <1>1 DEF PairOverlays
  <2>2. Becomes(F, PairOverlays, F)
    BY <2>1 DEF Becomes
  <2> QED
    BY <2>2
<1>2. CASE plan.pair
  <2> DEFINE v == [key |-> run.key, covers |-> "Converted"]
             G == [F EXCEPT !.vendor_boot = "Converted", !.vbmeta = v]
             w == << <<"vendor_boot", "Converted">>, <<"vbmeta", v>> >>
  <2>1. v \in Contents["vbmeta"] /\ "Converted" \in Contents["vendor_boot"]
    BY <1>0 DEF Contents
  <2>2. v.key = run.key /\ v.covers = "Converted" /\ PairOverlays = w
    BY <1>2 DEF PairOverlays
  <2> HIDE DEF v
  <2>3. G \in Slot /\ G.vendor_boot = "Converted" /\ G.vbmeta = v /\ G.boot = F.boot
        /\ G.vbmeta_system = F.vbmeta_system /\ G.abl = F.abl
    BY <2>1 DEF Slot, Contents
  <2>4. DOMAIN w = {1, 2} /\ w[1] = <<"vendor_boot", "Converted">> /\ w[2] = <<"vbmeta", v>>
    OBVIOUS
  <2> HIDE DEF w
  <2>5. \A p \in Parts : F[p] = G[p] \/ \E i \in DOMAIN w : w[i][1] = p
    <3>1. F["abl"] = G["abl"] /\ F["boot"] = G["boot"] /\ F["vbmeta_system"] = G["vbmeta_system"]
      BY <2>3
    <3>2. w[1][1] = "vendor_boot" /\ w[2][1] = "vbmeta"
      BY <2>4
    <3> HIDE DEF G
    <3> QED
      BY <2>4, <3>1, <3>2 DEF Parts
  <2>6. \A i \in DOMAIN w : w[i][2] = G[w[i][1]]
    <3>1. w[1][1] = "vendor_boot" /\ w[1][2] = "Converted" /\ w[2][1] = "vbmeta" /\ w[2][2] = v
      BY <2>4
    <3> HIDE DEF G
    <3> QED
      BY <2>3, <2>4, <3>1
  <2>7. Becomes(F, PairOverlays, G)
    BY <2>2, <2>5, <2>6 DEF Becomes
  <2> HIDE DEF G
  <2>8. MeetsFloors(G) = MeetsFloors(F)
    BY <2>3 DEF MeetsFloors, IndicesOf
  <2>9. Sound(G, G.abl, b)
    BY <1>2, <2>2, <2>3, <2>8 DEF Sound, Keys
  <2> QED
    BY <2>3, <2>7, <2>9
<1> QED
  BY <1>1, <1>2

\* The GBL the images need is on efisp.
LEMMA FlashEfispFirst == FlashInv /\ FlashEfisp /\ UNCHANGED stock => FirstRun'
<1> SUFFICES ASSUME FlashInv, FlashEfisp, UNCHANGED stock
             PROVE  FirstRun'
  OBVIOUS
<1>1. Writing("Efisp") /\ FlowInv /\ FirstRun /\ UNCHANGED slots
  BY DEF FlashEfisp, FlashInv
<1>2. /\ pc = "Efisp" /\ UNCHANGED <<committed, family, runs>> /\ worker \in Worker
      /\ run \in Arguments /\ plan \in Plans /\ slots \in [{"a", "b"} -> Slot]
  BY <1>1, WritingFacts
<1>3. runs # 0 /\ pc \in WriteStages
  BY <1>1, <1>2, FlashAssumption, BusyFirst DEF FlowInv, Types, DeviceType, WriteStages
<1>4. CASE (plan.efisp = "Arb" => efisp' = "Arb") /\ Begin("Region", PairOverlays)
  <2>1. "Region" \in WriteStages /\ PairOverlays \in Seq(Writes)
    BY <1>2, PairFacts DEF WriteStages, Arguments
  <2>2. /\ pc' = "Region" /\ todo' = PairOverlays /\ plan' = plan /\ run' = run
        /\ fastboot' = fastboot
    BY <1>2, <1>4, <2>1, BeginFacts
  <2>3. SameRun
    BY <1>2, <2>2 DEF SameRun
  <2>4. ASSUME Promise
        PROVE  Promise'
    <3>1. PICK F \in Slot : F = slots["a"]
      BY <1>2
    <3>2. PICK b \in BOOLEAN : b = (plan.efisp = "Arb")
      OBVIOUS
    <3>3. Sound(F, F.abl, b)
      BY <1>2, <2>4, <3>1, <3>2 DEF Promise
    <3>4. PICK G \in Slot : Becomes(F, PairOverlays, G) /\ Sound(G, G.abl, b)
      BY <1>2, <3>3, PairSound
    <3>5. PICK c \in BOOLEAN : c = (efisp' = "Arb")
      OBVIOUS
    <3>6. Sound(G, G.abl, c)'
      <4>1. PICK A : A = G.abl
        OBVIOUS
      <4> QED
        BY <1>4, <2>2, <2>3, <3>2, <3>4, <3>5, SoundKeeps
    <3>7. Becomes(slots["a"], todo, G)'
      BY <1>1, <2>2, <3>1, <3>4 DEF Becomes
    <3> QED
      BY <2>2, <3>5, <3>6, <3>7 DEF Promise
  <2> QED
    BY <1>1, <1>2, <1>3, <2>1, <2>2, <2>4, WritingFirst
<1>5. CASE Finish("Err")
  BY <1>2, <1>3, <1>5, DoneFirst DEF Finish, Locals
<1>6. plan.efisp \in {"Keep", "Normal", "Arb", "Erase"}
  BY <1>2 DEF Plans
<1> QED
  BY <1>4, <1>5, <1>6 DEF FlashEfisp

\* A written slot whose images are sound stays so.
LEMMA SoundStays ==
  ASSUME SameRun, plan'.pair = plan.pair, NEW F \in Slot, Sound(F, F.abl, efisp = "Arb"),
         efisp' = efisp
  PROVE  Sound(F, F.abl, efisp = "Arb")'
<1>1. PICK A : A = F.abl
  OBVIOUS
<1>2. PICK b \in BOOLEAN : b = (efisp = "Arb")
  OBVIOUS
<1>3. Sound(F, A, b)'
  BY <1>1, <1>2, SoundKeeps
<1> QED
  BY <1>1, <1>2, <1>3

\* The pair brings slot `_a` to the images promised.
LEMMA FlashRegionPairFirst == FlashInv /\ FlashRegionPair /\ UNCHANGED stock => FirstRun'
<1> SUFFICES ASSUME FlashInv, FlashRegionPair, UNCHANGED stock
             PROVE  FirstRun'
  OBVIOUS
<1>1. Writing("Region") /\ FlowInv /\ FirstRun /\ UNCHANGED efisp
  BY DEF FlashRegionPair, FlashInv
<1>2. /\ pc = "Region" /\ UNCHANGED <<committed, family, runs>> /\ worker \in Worker
      /\ plan \in Plans /\ slots \in [{"a", "b"} -> Slot] /\ todo \in Seq(Writes)
  BY <1>1, WritingFacts
<1>3. runs # 0 /\ pc \in WriteStages
  BY <1>1, <1>2, FlashAssumption, BusyFirst DEF FlowInv, Types, DeviceType, WriteStages
<1>4. ASSUME Promise
      PROVE  \E F \in Slot : Becomes(slots["a"], todo, F) /\ Sound(F, F.abl, efisp = "Arb")
  BY <1>2, <1>4 DEF Promise
<1>5. CASE todo = <<>> /\ Advance("Country") /\ UNCHANGED slots
  <2>1. "Country" \in WriteStages
    BY DEF WriteStages
  <2>2. pc' = "Country" /\ plan' = plan /\ run' = run /\ fastboot' = fastboot
    BY <1>2, <1>5, <2>1, AdvanceFacts
  <2>3. SameRun
    BY <1>2, <2>2 DEF SameRun
  <2>4. ASSUME Promise
        PROVE  Promise'
    <3>1. PICK F \in Slot : Becomes(slots["a"], todo, F) /\ Sound(F, F.abl, efisp = "Arb")
      BY <1>4, <2>4
    <3>2. slots'["a"] = F
      BY <1>2, <1>5, <3>1, BecomesDone
    <3>3. Sound(F, F.abl, efisp = "Arb")'
      BY <1>1, <2>2, <2>3, <3>1, SoundStays
    <3> QED
      BY <2>2, <3>2, <3>3 DEF Promise
  <2> QED
    BY <1>1, <1>2, <1>3, <2>1, <2>2, <2>4, WritingFirst
<1>6. CASE todo # <<>> /\ slots' = [slots EXCEPT !.a = HeadWritten] /\ Begin("Region", Tail(todo))
  <2>1. Tail(todo) \in Seq(Writes) /\ "Region" \in WriteStages
    BY <1>2, <1>6, HeadFacts DEF WriteStages
  <2>2. /\ pc' = "Region" /\ todo' = Tail(todo) /\ plan' = plan /\ run' = run
        /\ fastboot' = fastboot
    BY <1>2, <1>6, <2>1, BeginFacts
  <2>3. slots'["a"] = HeadWritten
    BY <1>2, <1>6
  <2>4. SameRun
    BY <1>2, <2>2 DEF SameRun
  <2>5. ASSUME Promise
        PROVE  Promise'
    <3>1. PICK F \in Slot : Becomes(slots["a"], todo, F) /\ Sound(F, F.abl, efisp = "Arb")
      BY <1>4, <2>5
    <3>2. Becomes(HeadWritten, Tail(todo), F)
      BY <1>2, <1>6, <3>1, BecomesNext
    <3>3. Becomes(slots["a"], todo, F)'
      BY <2>2, <2>3, <3>2 DEF Becomes
    <3>4. Sound(F, F.abl, efisp = "Arb")'
      BY <1>1, <2>2, <2>4, <3>1, SoundStays
    <3> QED
      BY <2>2, <3>3, <3>4 DEF Promise
  <2> QED
    BY <1>1, <1>2, <1>3, <2>1, <2>2, <2>5, WritingFirst
<1>7. CASE \E res \in Results : Finish(res)
  BY <1>2, <1>3, <1>7, DoneFirst DEF Finish, Locals
<1> QED
  BY <1>5, <1>6, <1>7 DEF FlashRegionPair, Results

\* What follows the last write.
LEMMA LastStagesFirst ==
  ASSUME FlashInv, pc \in {"Country", "Activate"}, NEW at \in {"Activate", "Reset"},
         UNCHANGED <<committed, family, runs, slots, efisp, stock>>, Advance(at),
         at = "Reset" => active' = "a"
  PROVE  FirstRun'
<1>1. worker \in Worker /\ FirstRun /\ slots["a"] \in Slot
  BY DEF FlashInv, FlowInv, Types, WorkerType, DeviceType
<1>2. at \in WriteStages /\ pc \in WriteStages
  BY DEF WriteStages
<1>3. pc' = at /\ plan' = plan /\ run' = run /\ fastboot' = fastboot
  BY <1>1, <1>2, AdvanceFacts
<1>4. SameRun
  BY <1>3 DEF SameRun
<1>5. ASSUME Promise
      PROVE  Promise'
  <2>1. PICK F \in Slot : F = slots["a"]
    BY <1>1
  <2>2. Sound(F, F.abl, efisp = "Arb")
    BY <1>5, <2>1 DEF Promise
  <2>3. Sound(F, F.abl, efisp = "Arb")'
    BY <1>3, <1>4, <2>2, SoundStays
  <2> QED
    BY <1>3, <2>1, <2>3 DEF Promise
<1> QED
  BY <1>1, <1>2, <1>3, <1>5, WritingFirst

\* The country, the slot to boot and the reset change no image.
LEMMA AfterWritesFirst ==
  FlashInv /\ UNCHANGED stock /\ (ChangeCountry \/ set_active_slot_a \/ reset_tolerant)
    => FirstRun'
<1> SUFFICES ASSUME FlashInv, UNCHANGED stock
             PROVE  ChangeCountry \/ set_active_slot_a \/ reset_tolerant => FirstRun'
  OBVIOUS
<1>1. FirstRun /\ runs \in Nat
  BY FlashAssumption DEF FlashInv, FlowInv, Types, DeviceType
<1>2. ASSUME pc # "Done", UNCHANGED runs, NEW res, Finish(res)
      PROVE  FirstRun'
  BY <1>1, <1>2, BusyFirst, DoneFirst DEF Finish, Locals
<1>3. CASE ChangeCountry
  BY <1>2, <1>3, LastStagesFirst DEF ChangeCountry, Writing
<1>4. CASE set_active_slot_a
  BY <1>2, <1>4, LastStagesFirst DEF set_active_slot_a, Writing
<1>5. CASE reset_tolerant
  BY <1>2, <1>5 DEF reset_tolerant, Writing
<1> QED
  BY <1>3, <1>4, <1>5

\* A stage before the first write, on a device that is as it was.
LEMMA ReadingFirst ==
  ASSUME FirstRun, pc \in Before, UNCHANGED <<chain, family, runs>>, pc' \in Before,
         runs <= 1 /\ Intact /\ Known /\ Promise => Known' /\ Promise'
  PROVE  FirstRun'
<1>1. Intact => Intact'
  BY DEF Intact
<1> QED
  BY <1>1 DEF FirstRun, Before

\* What the worker knows when a stage before the first write ends.
LEMMA KnownNext ==
  ASSUME SameRun, Known, pc # "Inspect", pc' \in Before \ {"Inspect", "Enter", "Measure"},
         plan'.pair = plan.pair, Floored(floors)',
         pc' \in {"Manual", "Key"} => NothingPlanned' /\ ModeInForce',
         pc' \in {"Manual", "Key", "Stage"} =>
           /\ edl_start /\ is_protected => floors' # None
           /\ xiaoxin => AtLeast(firmware, committed),
         pc' \in {"Key", "Stage"} /\ rb_mode' = "Manual" /\ is_protected
           => AtLeast(run.targets, committed)
  PROVE  Known'
<1>1. /\ (run \in Runs)' /\ Accepted(fastboot.reachable)' /\ Floored(stored)'
      /\ (plan.pair => run.region /\ family = "Generic" /\ run.key = "Test")'
  <2>1. run' \in Runs' /\ Accepted(fastboot.reachable)'
    BY RunFacts DEF Known, SameRun
  <2>2. Floored(stored)'
    BY RunFacts DEF Known, SameRun, Floored
  <2> QED
    BY <2>1, <2>2 DEF Known, SameRun
<1>2. (pc \in {"Manual", "Key", "Stage"} =>
         /\ edl_start /\ is_protected => floors # None
         /\ xiaoxin => AtLeast(firmware, committed))'
  BY RunFacts DEF SameRun
<1>3. (pc \in {"Key", "Stage"} /\ rb_mode = "Manual" /\ is_protected
         => AtLeast(run.targets, committed))'
  BY RunFacts DEF SameRun
<1> QED
  BY <1>1, <1>2, <1>3 DEF Known, Before

\* What a worker before its first write has at hand.
LEMMA ReadingFacts ==
  ASSUME FlashInv, NEW at \in Before, Reading(at)
  PROVE  /\ FirstRun /\ FlowInv /\ pc = at /\ pc \in Before /\ worker \in Worker
         /\ UNCHANGED <<chain, family, runs>>
         /\ slots \in [{"a", "b"} -> Slot] /\ active \in {"a", "b"} /\ runs # 0
         /\ committed \in Indices /\ committed \in Floors /\ stock \in Nat
<1>1. FirstRun /\ FlowInv /\ pc = at /\ pc # "Done" /\ runs \in Nat
  BY FlashAssumption DEF FlashInv, Reading, Before, FlowInv, Types, DeviceType
<1> QED
  BY <1>1, BusyFirst, IndicesAreFloors DEF Reading, FlowInv, Types, WorkerType, DeviceType

\* A run that stops before its first write.
LEMMA AbortFirst ==
  ASSUME runs # 0, runs' = runs, NEW reset, Abort(reset)
  PROVE  FirstRun'
  BY DoneFirst DEF Abort, Finish, Locals

\* On a device as a user has it, what was measured is not below its floors.
LEMMA MeasuredFloors ==
  ASSUME "DumpFails" \notin Faults, Intact, slots \in [{"a", "b"} -> Slot],
         active \in {"a", "b"}, committed \in Floors
  PROVE  /\ \A d \in read_device_vbmeta : d.floors \in Floors /\ AtLeast(d.floors, committed)
         /\ \A f \in read_edl_start_device : f \in Floors /\ AtLeast(f, committed)
  BY DeviceRead, EdlStartRead DEF Intact

\* Inspecting.
LEMMA InspectFirst == FlashInv /\ Inspect /\ UNCHANGED stock => FirstRun'
<1> SUFFICES ASSUME FlashInv, Inspect, UNCHANGED stock
             PROVE  FirstRun'
  OBVIOUS
<1>1. /\ FirstRun /\ FlowInv /\ pc = "Inspect" /\ pc \in Before /\ worker \in Worker
      /\ UNCHANGED <<chain, family, runs>>
      /\ slots \in [{"a", "b"} -> Slot] /\ active \in {"a", "b"} /\ runs # 0
      /\ committed \in Indices /\ committed \in Floors /\ stock \in Nat
  BY ReadingFacts DEF Inspect, Before
<1>2. ASSUME NEW reachable \in BOOLEAN, Accepted(reachable),
             NEW pair \in (IF run.region /\ family = "Generic" /\ run.key # "Lenovo"
                           THEN BOOLEAN ELSE {FALSE}),
             Goto([worker EXCEPT !.pc = "Enter", !.fastboot = Probe(reachable),
                                 !.rb_mode = effective_flash_rollback_mode, !.plan.pair = pair])
      PROVE  FirstRun'
  <2>1. /\ Probe(reachable) \in Probes /\ Probe(reachable).reachable = reachable
        /\ Probe(reachable).classified # None => Probe(reachable).classified = committed
        /\ Probe(reachable).classified = None /\ Probe(reachable).aggregate # 0 =>
             /\ Probe(reachable).aggregate >= committed.boot
             /\ Probe(reachable).aggregate >= committed.vbs
    BY <1>1, ProbeFacts
  <2>2. /\ pc' = "Enter" /\ run' = run /\ fastboot' = Probe(reachable) /\ floors' = floors
        /\ rb_mode' = effective_flash_rollback_mode /\ plan'.pair = pair
        /\ plan'.overlays = plan.overlays /\ plan'.abl = plan.abl
        /\ plan'.needs_arb = plan.needs_arb
    <3>1. worker.plan \in Plans
      BY <1>1 DEF Worker
    <3>2. worker' = [worker EXCEPT !.pc = "Enter", !.fastboot = Probe(reachable),
                       !.rb_mode = effective_flash_rollback_mode,
                       !.plan = [worker.plan EXCEPT !.pair = pair]]
      BY <1>2 DEF Goto
    <3> QED
      BY <1>1, <3>1, <3>2 DEF Worker, Plans
  <2>3. ASSUME Known
        PROVE  Known'
    <3>1. (run \in Runs)'
      BY <1>1, <2>2, <2>3 DEF Known, Runs
    <3>2. effective_flash_rollback_mode' = effective_flash_rollback_mode
      BY <1>1, <2>2 DEF effective_flash_rollback_mode, xiaoxin, target_is_canoe
    <3>3. Accepted(fastboot.reachable)'
      <4>1. Accepted(reachable)'
        BY <1>1, <1>2, <2>2, <3>2 DEF Accepted, target_is_canoe, validate_canoe_efisp_choice,
           firmware, edl_start
      <4> QED
        BY <2>1, <2>2, <4>1
    <3>4. Floored(stored)'
      <4>1. fastboot'.classified # None => fastboot'.classified = committed'
        BY <1>1, <2>1, <2>2
      <4>2. AtLeast(committed', committed')
        BY <1>1, AtLeastOrder
      <4>3. stored' = IF fastboot'.classified # None THEN fastboot'.classified
                      ELSE [boot |-> fastboot'.aggregate, vbs |-> fastboot'.aggregate]
        BY DEF stored
      <4>4. CASE fastboot'.classified # None
        BY <4>1, <4>2, <4>3, <4>4 DEF Floored
      <4>5. CASE fastboot'.classified = None /\ fastboot'.aggregate # 0
        BY <1>1, <2>1, <2>2, <4>3, <4>5 DEF Floored, AtLeast
      <4>6. CASE fastboot'.classified = None /\ fastboot'.aggregate = 0
        BY <4>3, <4>6 DEF Floored, None
      <4> QED
        BY <4>4, <4>5, <4>6
    <3>5. Floored(floors)'
      BY <1>1, <2>2, <2>3 DEF Known, Floored
    <3>6. (plan.pair => run.region /\ family = "Generic" /\ run.key = "Test")'
      <4>1. run.key \in {"Test", "Lenovo"}
        BY <1>1 DEF Worker, Arguments, Keys
      <4> QED
        BY <1>1, <1>2, <2>2, <4>1
    <3>7. NothingPlanned'
      BY <1>1, <2>2, <2>3 DEF Known, NothingPlanned
    <3> QED
      BY <2>2, <3>1, <3>2, <3>3, <3>4, <3>5, <3>6, <3>7 DEF Known
  <2>4. Promise' /\ pc' \in Before
    BY <2>2 DEF Promise, Before
  <2> QED
    BY <1>1, <2>3, <2>4, ReadingFirst
<1>3. CASE Abort("None")
  BY <1>1, <1>3, AbortFirst
<1>4. Reachable \subseteq BOOLEAN
  BY DEF Reachable
<1> QED
  BY <1>2, <1>3, <1>4 DEF Inspect

\* Entering EDL.
LEMMA EnterEdlFirst == FlashInv /\ EnterEdl /\ UNCHANGED stock => FirstRun'
<1> SUFFICES ASSUME FlashInv, EnterEdl, UNCHANGED stock
             PROVE  FirstRun'
  OBVIOUS
<1>1. /\ FirstRun /\ pc = "Enter" /\ pc \in Before /\ worker \in Worker
      /\ UNCHANGED <<chain, family, runs>>
      /\ runs # 0
  BY ReadingFacts DEF EnterEdl, Before
<1>2. CASE worker' = [worker EXCEPT !.pc = "Measure"]
  <2>1. /\ pc' = "Measure" /\ run' = run /\ fastboot' = fastboot /\ floors' = floors
        /\ rb_mode' = rb_mode /\ plan' = plan
    BY <1>1, <1>2 DEF Worker
  <2>2. SameRun
    BY <1>1, <2>1 DEF SameRun
  <2>3. ASSUME Known
        PROVE  Known'
    <3>1. run' \in Runs' /\ Accepted(fastboot.reachable)'
      BY <1>1, <2>2, <2>3, RunFacts DEF Known, SameRun
    <3>2. Floored(stored)' /\ Floored(floors)'
      BY <2>1, <2>2, <2>3, RunFacts DEF Known, SameRun, Floored
    <3>3. NothingPlanned' /\ rb_mode' = effective_flash_rollback_mode'
      BY <1>1, <2>1, <2>2, <2>3, RunFacts DEF Known, NothingPlanned
    <3>4. (plan.pair => run.region /\ family = "Generic" /\ run.key = "Test")'
      BY <1>1, <2>1, <2>3 DEF Known
    <3> QED
      BY <2>1, <3>1, <3>2, <3>3, <3>4 DEF Known
  <2>4. Promise' /\ pc' \in Before
    BY <2>1 DEF Promise, Before
  <2> QED
    BY <1>1, <2>3, <2>4, ReadingFirst
<1>3. CASE Finish("Err")
  BY <1>1, <1>3, DoneFirst DEF Finish, Locals
<1> QED
  BY <1>2, <1>3 DEF EnterEdl

\* Measuring the floors.
LEMMA MeasureFloorsFirst ==
  "DumpFails" \notin Faults /\ FlashInv /\ MeasureFloors /\ UNCHANGED stock => FirstRun'
<1> SUFFICES ASSUME "DumpFails" \notin Faults, FlashInv, MeasureFloors, UNCHANGED stock
             PROVE  FirstRun'
  OBVIOUS
<1> DEFINE next == IF rb_mode = "Manual" THEN "Manual" ELSE "Key"
           w(f) == [worker EXCEPT !.pc = next, !.floors = IF is_protected THEN f ELSE None,
                                  !.rb_mode = IF is_protected \/ @ = "Manual" THEN @ ELSE "Off"]
           read == IF edl_start THEN read_edl_start_device
                   ELSE {d.floors : d \in read_device_vbmeta}
<1>1. /\ FirstRun /\ pc = "Measure" /\ pc \in Before /\ worker \in Worker
      /\ UNCHANGED <<chain, family, runs>>
      /\ slots \in [{"a", "b"} -> Slot] /\ active \in {"a", "b"} /\ runs # 0
      /\ committed \in Indices /\ committed \in Floors
  BY ReadingFacts DEF MeasureFloors, Before
<1>2. firmware \in Floors /\ firmware \in Indices
  BY <1>1, WorkerFacts, IndicesAreFloors DEF WorkerType
<1>3. ASSUME Known
      PROVE  /\ rb_mode = effective_flash_rollback_mode /\ NothingPlanned
             /\ rb_mode # "Manual" /\ ~is_protected => run.mode # "Manual"
  BY <1>1, <1>3 DEF Known, effective_flash_rollback_mode, is_protected, xiaoxin, target_is_canoe
<1>4. CASE \E f \in read : (xiaoxin => AtLeast(firmware, f)) /\ Goto(w(f))
  <2>1. PICK f \in read : (xiaoxin => AtLeast(firmware, f)) /\ Goto(w(f))
    BY <1>4
  <2>2. /\ pc' = next /\ run' = run /\ fastboot' = fastboot /\ plan' = plan
        /\ floors' = IF is_protected THEN f ELSE None
        /\ rb_mode' = IF is_protected \/ rb_mode = "Manual" THEN rb_mode ELSE "Off"
    BY <1>1, <2>1 DEF Goto, Worker
  <2>3. SameRun
    BY <1>1, <2>2 DEF SameRun
  <2>4. ASSUME Intact, Known
        PROVE  Known'
    <3>1. f \in Floors /\ AtLeast(f, committed)
      BY <1>1, <2>1, <2>4, MeasuredFloors
    <3>2. floors' \in Floors /\ Floored(floors')
      BY <2>2, <3>1, IndicesAreFloors DEF Floored
    <3>3. Floored(floors)'
      BY <1>1, <3>2 DEF Floored
    <3>4. xiaoxin => AtLeast(firmware, committed)
      BY <1>1, <1>2, <2>1, <3>1, AtLeastOrder
    <3>5. is_protected => floors' # None
      <4>1. is_protected => Readable(f)
        BY <1>1, <2>1, DeviceRead, EdlStartRead
      <4> QED
        BY <2>2, <4>1 DEF Readable, None
    <3>6. NothingPlanned' /\ ModeInForce'
      <4>1. effective_flash_rollback_mode' = effective_flash_rollback_mode
            /\ is_protected' = is_protected
        BY <2>3, RunFacts
      <4> QED
        BY <1>3, <2>2, <2>4, <4>1 DEF NothingPlanned, ModeInForce
    <3>7. ~(pc' \in {"Key", "Stage"} /\ rb_mode' = "Manual" /\ is_protected)
      BY <2>2
    <3>8. pc' \in Before \ {"Inspect", "Enter", "Measure"} /\ plan'.pair = plan.pair
      BY <2>2 DEF Before
    <3> QED
      BY <1>1, <2>3, <2>4, <3>3, <3>4, <3>5, <3>6, <3>7, <3>8, KnownNext
  <2>5. Promise' /\ pc' \in Before
    BY <2>2 DEF Promise, Before
  <2> QED
    BY <1>1, <2>4, <2>5, ReadingFirst
<1>5. CASE ~(edl_start \/ xiaoxin) /\ Goto([worker EXCEPT !.pc = next])
  <2>1. /\ pc' = next /\ run' = run /\ fastboot' = fastboot /\ plan' = plan
        /\ floors' = floors /\ rb_mode' = rb_mode
    BY <1>1, <1>5 DEF Goto, Worker
  <2>2. SameRun
    BY <1>1, <2>1 DEF SameRun
  <2>3. ASSUME Known
        PROVE  Known'
    <3>1. Floored(floors)'
      BY <1>1, <2>1, <2>3 DEF Known, Floored
    <3>2. NothingPlanned' /\ ModeInForce'
      BY <1>3, <2>1, <2>2, <2>3, RunFacts DEF NothingPlanned, ModeInForce
    <3>3. ~(pc' \in {"Key", "Stage"} /\ rb_mode' = "Manual" /\ is_protected)
      BY <2>1
    <3>4. pc' \in Before \ {"Inspect", "Enter", "Measure"} /\ plan'.pair = plan.pair
      BY <2>1 DEF Before
    <3> QED
      BY <1>1, <1>5, <2>2, <2>3, <3>1, <3>2, <3>3, <3>4, KnownNext
  <2>4. Promise' /\ pc' \in Before
    BY <2>1 DEF Promise, Before
  <2> QED
    BY <1>1, <2>3, <2>4, ReadingFirst
<1>6. CASE \E x \in {"System", "Start"} : Abort(x)
  BY <1>1, <1>6, AbortFirst
<1> QED
  BY <1>4, <1>5, <1>6 DEF MeasureFloors

\* Checking the manual targets.
LEMMA PlanManualFirst ==
  "DumpFails" \notin Faults /\ FlashInv /\ PlanManual /\ UNCHANGED stock => FirstRun'
<1> SUFFICES ASSUME "DumpFails" \notin Faults, FlashInv, PlanManual, UNCHANGED stock
             PROVE  FirstRun'
  OBVIOUS
<1>1. /\ FirstRun /\ pc = "Manual" /\ pc \in Before /\ worker \in Worker
      /\ UNCHANGED <<chain, family, runs>>
      /\ slots \in [{"a", "b"} -> Slot] /\ active \in {"a", "b"} /\ runs # 0
      /\ committed \in Indices /\ committed \in Floors
  BY ReadingFacts DEF PlanManual, Before
<1>2. floors \in Floors /\ run.targets \in Floors /\ stored \in Floors
  BY <1>1, WorkerFacts, FlashAssumption DEF WorkerType, stored, Probes, Floors
<1>3. CASE \E f \in manual_device_floors :
             AtLeast(run.targets, f) /\ Goto([worker EXCEPT !.pc = "Key", !.checked = f])
  <2>1. PICK f \in manual_device_floors :
             AtLeast(run.targets, f) /\ Goto([worker EXCEPT !.pc = "Key", !.checked = f])
    BY <1>3
  <2>2. /\ pc' = "Key" /\ run' = run /\ fastboot' = fastboot /\ plan' = plan
        /\ floors' = floors /\ rb_mode' = rb_mode
    BY <1>1, <2>1 DEF Goto, Worker
  <2>3. SameRun
    BY <1>1, <2>2 DEF SameRun
  <2>4. ASSUME Intact, Known
        PROVE  Known'
    <3>1. ASSUME is_protected
          PROVE  AtLeast(run.targets, committed)
      <4>1. CASE floors # None \/ stored # None
        <5>1. f = Higher(floors, stored)
          BY <2>1, <3>1, <4>1 DEF manual_device_floors
        <5>2. f \in Floors /\ AtLeast(f, floors) /\ AtLeast(f, stored)
          BY <1>2, <5>1, HigherFacts
        <5>3. AtLeast(floors, committed) \/ AtLeast(stored, committed)
          BY <2>4, <4>1 DEF Known, Floored
        <5> QED
          BY <1>1, <1>2, <2>1, <5>2, <5>3, AtLeastOrder
      <4>2. CASE ~(floors # None \/ stored # None)
        <5>1. PICK d \in read_device_vbmeta : f = d.floors
          BY <2>1, <3>1, <4>2 DEF manual_device_floors
        <5>2. f \in Floors /\ AtLeast(f, committed)
          BY <1>1, <2>4, <5>1, MeasuredFloors
        <5> QED
          BY <1>1, <1>2, <2>1, <5>2, AtLeastOrder
      <4> QED
        BY <4>1, <4>2
    <3>2. Floored(floors)'
      BY <1>1, <2>2, <2>4 DEF Known, Floored
    <3>3. NothingPlanned' /\ ModeInForce'
      BY <1>1, <2>2, <2>3, <2>4, RunFacts DEF Known, NothingPlanned, ModeInForce
    <3>4. pc' \in Before \ {"Inspect", "Enter", "Measure"} /\ plan'.pair = plan.pair
      BY <2>2 DEF Before
    <3>5. /\ edl_start /\ is_protected => floors' # None
          /\ xiaoxin => AtLeast(firmware, committed)
      BY <1>1, <2>2, <2>4 DEF Known
    <3> QED
      BY <1>1, <2>3, <2>4, <3>1, <3>2, <3>3, <3>4, <3>5, KnownNext
  <2>5. Promise' /\ pc' \in Before
    BY <2>2 DEF Promise, Before
  <2> QED
    BY <1>1, <2>4, <2>5, ReadingFirst
<1>4. CASE Abort("Start")
  BY <1>1, <1>4, AbortFirst
<1> QED
  BY <1>3, <1>4 DEF PlanManual

\* The images that a plan's overlays make of the firmware's.
TestImages(t, c) ==
  [FirmwareImages EXCEPT !.boot = t.boot, !.vbmeta_system = [key |-> "Test", idx |-> t.vbs],
     !.vbmeta = [key |-> "Test", covers |-> IF c THEN "Converted" ELSE "Stock"],
     !.vendor_boot = IF c THEN "Converted" ELSE "Stock"]
ChangedImages(t) ==
  [FirmwareImages EXCEPT !.boot = IF t.boot # 0 THEN t.boot ELSE run.boot,
     !.vbmeta_system = [key |-> run.key, idx |-> IF t.vbs # 0 THEN t.vbs ELSE run.vbs]]

\* The firmware's images, one by one.
LEMMA FirmwareFacts ==
  ASSUME run \in Arguments
  PROVE  /\ FirmwareImages \in Slot /\ FirmwareImages["abl"] = FirmwareAbl
         /\ FirmwareImages["boot"] = run.boot
         /\ FirmwareImages["vbmeta_system"] = [key |-> run.key, idx |-> run.vbs]
         /\ FirmwareImages["vbmeta"] = [key |-> run.key, covers |-> "Stock"]
         /\ FirmwareImages["vendor_boot"] = "Stock"
         /\ IndicesOf(FirmwareImages) = firmware
         /\ run.key \in {"Test", "Lenovo"} /\ run.boot # 0 /\ firmware \in Floors
         /\ firmware.boot = run.boot /\ firmware.vbs = run.vbs
<1>1. FirmwareImages \in Slot
  BY FirmwareIsSlot
<1>2. run.key \in {"Test", "Lenovo"} /\ run.boot # 0 /\ firmware \in Floors
  BY FlashAssumption DEF Arguments, Keys, Index, firmware, Floors
<1>3. /\ FirmwareImages["abl"] = FirmwareAbl /\ FirmwareImages["boot"] = run.boot
      /\ FirmwareImages["vbmeta_system"] = [key |-> run.key, idx |-> run.vbs]
      /\ FirmwareImages["vbmeta"] = [key |-> run.key, covers |-> "Stock"]
      /\ FirmwareImages["vendor_boot"] = "Stock"
      /\ IndicesOf(FirmwareImages) = firmware
      /\ firmware.boot = run.boot /\ firmware.vbs = run.vbs
  BY DEF FirmwareImages, Package, firmware, IndicesOf
<1> QED
  BY <1>1, <1>2, <1>3

\* What the overlays make of the firmware.
LEMMA TestImagesFacts ==
  ASSUME run \in Arguments, NEW t \in Floors, NEW c \in BOOLEAN
  PROVE  /\ TestImages(t, c) \in Slot /\ TestImages(t, c).abl = FirmwareAbl
         /\ TestImages(t, c).boot = t.boot /\ TestImages(t, c).vbmeta.key = "Test"
         /\ TestImages(t, c).vbmeta_system = [key |-> "Test", idx |-> t.vbs]
         /\ TestImages(t, c).vbmeta_system.key = "Test"
         /\ TestImages(t, c).vendor_boot = TestImages(t, c).vbmeta.covers
         /\ IndicesOf(TestImages(t, c)) = t
         /\ Becomes(FirmwareImages, TestkeyOverlays(t, c), TestImages(t, c))
<1> DEFINE v == IF c THEN "Converted" ELSE "Stock"
           F == TestImages(t, c)
<1>1. /\ FirmwareImages \in Slot /\ t.boot \in Contents.boot
      /\ [key |-> "Test", idx |-> t.vbs] \in Contents.vbmeta_system
      /\ [key |-> "Test", covers |-> v] \in Contents.vbmeta /\ v \in Contents.vendor_boot
  BY FirmwareFacts DEF Floors, Contents, Keys
<1>2. /\ F \in Slot /\ F.abl = FirmwareAbl /\ F.boot = t.boot /\ F.vendor_boot = v
      /\ F.vbmeta_system = [key |-> "Test", idx |-> t.vbs]
      /\ F.vbmeta = [key |-> "Test", covers |-> v]
  BY <1>1, FirmwareFacts DEF TestImages, Slot
<1>3. IndicesOf(F) = t
  BY <1>2 DEF IndicesOf, Floors
<1>4. FirmwareImages["abl"] = FirmwareAbl /\ FirmwareImages["vendor_boot"] = "Stock"
  BY FirmwareFacts
<1> HIDE DEF F
<1>5. CASE c = FALSE
  <2> DEFINE w == << <<"vbmeta_system", [key |-> "Test", idx |-> t.vbs]>>, <<"boot", t.boot>>,
                     <<"vbmeta", [key |-> "Test", covers |-> "Stock"]>> >>
  <2>1. TestkeyOverlays(t, c) = w
    BY <1>5, TestkeyIs
  <2>2. DOMAIN w = 1..3
    OBVIOUS
  <2>3. /\ w[1][1] = "vbmeta_system" /\ w[1][2] = [key |-> "Test", idx |-> t.vbs]
        /\ w[2][1] = "boot" /\ w[2][2] = t.boot
        /\ w[3][1] = "vbmeta" /\ w[3][2] = [key |-> "Test", covers |-> "Stock"]
    OBVIOUS
  <2> HIDE DEF w
  <2>4. \A p \in Parts : FirmwareImages[p] = F[p] \/ \E i \in DOMAIN w : w[i][1] = p
    BY <1>2, <1>4, <1>5, <2>2, <2>3 DEF Parts
  <2>5. \A i \in DOMAIN w : w[i][2] = F[w[i][1]]
    BY <1>2, <1>5, <2>2, <2>3
  <2> QED
    BY <1>2, <1>3, <2>1, <2>4, <2>5 DEF Becomes, F
<1>6. CASE c = TRUE
  <2> DEFINE w == << <<"vbmeta_system", [key |-> "Test", idx |-> t.vbs]>>, <<"boot", t.boot>>,
                     <<"vendor_boot", "Converted">>,
                     <<"vbmeta", [key |-> "Test", covers |-> "Converted"]>> >>
  <2>1. TestkeyOverlays(t, c) = w
    BY <1>6, TestkeyIs
  <2>2. DOMAIN w = 1..4
    OBVIOUS
  <2>3. /\ w[1][1] = "vbmeta_system" /\ w[1][2] = [key |-> "Test", idx |-> t.vbs]
        /\ w[2][1] = "boot" /\ w[2][2] = t.boot
        /\ w[3][1] = "vendor_boot" /\ w[3][2] = "Converted"
        /\ w[4][1] = "vbmeta" /\ w[4][2] = [key |-> "Test", covers |-> "Converted"]
    OBVIOUS
  <2> HIDE DEF w
  <2>4. \A p \in Parts : FirmwareImages[p] = F[p] \/ \E i \in DOMAIN w : w[i][1] = p
    BY <1>2, <1>4, <2>2, <2>3 DEF Parts
  <2>5. \A i \in DOMAIN w : w[i][2] = F[w[i][1]]
    BY <1>2, <1>6, <2>2, <2>3
  <2> QED
    BY <1>2, <1>3, <2>1, <2>4, <2>5 DEF Becomes, F
<1> QED
  BY <1>5, <1>6

\* What changed indices make of the firmware.
LEMMA ChangedImagesFacts ==
  ASSUME run \in Arguments, NEW t \in Floors
  PROVE  /\ ChangedImages(t) \in Slot /\ ChangedImages(t).abl = FirmwareAbl
         /\ ChangedImages(t).boot = (IF t.boot # 0 THEN t.boot ELSE run.boot)
         /\ ChangedImages(t).vbmeta = [key |-> run.key, covers |-> "Stock"]
         /\ ChangedImages(t).vbmeta_system.key = run.key
         /\ ChangedImages(t).vendor_boot = "Stock" /\ ChangedImages(t).boot # 0
         /\ IndicesOf(ChangedImages(t)) = [boot |-> IF t.boot # 0 THEN t.boot ELSE run.boot,
                                           vbs |-> IF t.vbs # 0 THEN t.vbs ELSE run.vbs]
         /\ Becomes(FirmwareImages, ChangedOverlays(t), ChangedImages(t))
<1> DEFINE F == ChangedImages(t)
           b == IF t.boot # 0 THEN t.boot ELSE run.boot
           v == IF t.vbs # 0 THEN t.vbs ELSE run.vbs
           x == <<"boot", t.boot>>
           y == <<"vbmeta_system", [key |-> run.key, idx |-> t.vbs]>>
<1>1. /\ FirmwareImages \in Slot /\ b \in Contents.boot
      /\ [key |-> run.key, idx |-> v] \in Contents.vbmeta_system
  BY FirmwareFacts DEF Floors, Contents, Keys, Arguments, Index
<1>2. /\ F \in Slot /\ F.abl = FirmwareAbl /\ F.boot = b /\ F.vendor_boot = "Stock"
      /\ F.vbmeta_system = [key |-> run.key, idx |-> v]
      /\ F.vbmeta = [key |-> run.key, covers |-> "Stock"]
  BY <1>1, FirmwareFacts DEF ChangedImages, Slot
<1>3. IndicesOf(F) = [boot |-> b, vbs |-> v] /\ F.boot # 0
  BY <1>2, FirmwareFacts DEF IndicesOf
<1>4. x[1] = "boot" /\ x[2] = t.boot /\ y[1] = "vbmeta_system"
      /\ y[2] = [key |-> run.key, idx |-> t.vbs]
  OBVIOUS
<1>5. /\ FirmwareImages["abl"] = F["abl"] /\ FirmwareImages["vendor_boot"] = F["vendor_boot"]
      /\ FirmwareImages["vbmeta"] = F["vbmeta"]
      /\ t.boot = 0 => FirmwareImages["boot"] = F["boot"]
      /\ t.vbs = 0 => FirmwareImages["vbmeta_system"] = F["vbmeta_system"]
      /\ t.boot # 0 => x[2] = F["boot"]
      /\ t.vbs # 0 => y[2] = F["vbmeta_system"]
  BY <1>2, <1>4, FirmwareFacts
<1>6. ChangedOverlays(t) = IF t.boot # 0 THEN (IF t.vbs # 0 THEN <<x, y>> ELSE <<x>>)
                            ELSE (IF t.vbs # 0 THEN <<y>> ELSE <<>>)
  BY ChangedIs
<1> HIDE DEF F, x, y
<1>7. Becomes(FirmwareImages, ChangedOverlays(t), F)
  <2>1. CASE t.boot # 0 /\ t.vbs # 0
    <3>1. DOMAIN <<x, y>> = 1..2 /\ <<x, y>>[1] = x /\ <<x, y>>[2] = y
      OBVIOUS
    <3> QED
      BY <1>4, <1>5, <1>6, <2>1, <3>1 DEF Becomes, Parts
  <2>2. CASE t.boot # 0 /\ t.vbs = 0
    <3>1. DOMAIN <<x>> = 1..1 /\ <<x>>[1] = x
      OBVIOUS
    <3> QED
      BY <1>4, <1>5, <1>6, <2>2, <3>1 DEF Becomes, Parts
  <2>3. CASE t.boot = 0 /\ t.vbs # 0
    <3>1. DOMAIN <<y>> = 1..1 /\ <<y>>[1] = y
      OBVIOUS
    <3> QED
      BY <1>4, <1>5, <1>6, <2>3, <3>1 DEF Becomes, Parts
  <2>4. CASE t.boot = 0 /\ t.vbs = 0
    <3>1. DOMAIN <<>> = {}
      OBVIOUS
    <3> QED
      BY <1>5, <1>6, <2>4, <3>1 DEF Becomes, Parts
  <2> QED
    BY <2>1, <2>2, <2>3, <2>4
<1> QED
  BY <1>2, <1>3, <1>7 DEF F

\* No overlay leaves the firmware as it is.
LEMMA NothingBecomes ==
  ASSUME run \in Arguments
  PROVE  Becomes(FirmwareImages, <<>>, FirmwareImages)
<1>1. DOMAIN <<>> = {}
  OBVIOUS
<1> QED
  BY <1>1 DEF Becomes

\* A package of the vendor's is planned when the overlays make sound images.
LEMMA PlannedNext ==
  ASSUME SameRun, ~target_is_canoe, rb_mode' = "Off", plan'.pair = plan.pair,
         NEW F \in Slot, Becomes(FirmwareImages, plan'.overlays, F),
         NEW A, A = (IF plan'.abl = "Keep" THEN F.abl ELSE plan'.abl), Sound(F, A, FALSE)
  PROVE  Planned'
<1>1. Becomes(FirmwareImages, plan.overlays, F)'
  BY RunFacts DEF Becomes
<1>2. AblToCome(F)' = A /\ ~target_is_canoe'
  BY RunFacts DEF AblToCome, AblOver
<1>3. Sound(F, A, FALSE)'
  BY SoundKeeps
<1>4. Sound(F, AblToCome(F), FALSE)'
  BY <1>2, <1>3
<1> QED
  BY <1>1, <1>2, <1>4 DEF Planned

\* The key gate.
LEMMA KeyGateFirst ==
  "DumpFails" \notin Faults /\ FlashInv /\ KeyGate /\ UNCHANGED stock => FirstRun'
<1> SUFFICES ASSUME "DumpFails" \notin Faults, FlashInv, KeyGate, UNCHANGED stock
             PROVE  FirstRun'
  OBVIOUS
<1>1. /\ FirstRun /\ pc = "Key" /\ pc \in Before /\ worker \in Worker
      /\ UNCHANGED <<chain, family, runs>>
      /\ slots \in [{"a", "b"} -> Slot] /\ active \in {"a", "b"} /\ runs # 0
      /\ committed \in Indices /\ committed \in Floors
  BY ReadingFacts DEF KeyGate, Before
<1>2. run \in Arguments /\ plan \in Plans /\ floors \in Floors
  BY <1>1, WorkerFacts DEF WorkerType
<1>3. ASSUME Known, SameRun, pc' = "Stage", floors' = floors, plan'.pair = plan.pair,
             rb_mode' = rb_mode \/ rb_mode' = "Off"
      PROVE  Known'
  <2>1. Floored(floors)'
    BY <1>1, <1>3 DEF Known, Floored
  <2>2. /\ edl_start /\ is_protected => floors' # None
        /\ xiaoxin => AtLeast(firmware, committed)
    BY <1>1, <1>3 DEF Known
  <2>3. pc' \in {"Key", "Stage"} /\ rb_mode' = "Manual" /\ is_protected
          => AtLeast(run.targets, committed)
    BY <1>1, <1>3 DEF Known
  <2> QED
    BY <1>1, <1>3, <2>1, <2>2, <2>3, KnownNext DEF Before
<1>4. CASE (run.key # "Lenovo" \/ target_is_canoe) /\ Goto([worker EXCEPT !.pc = "Stage"])
  <2>1. /\ pc' = "Stage" /\ run' = run /\ fastboot' = fastboot /\ plan' = plan
        /\ floors' = floors /\ rb_mode' = rb_mode
    BY <1>1, <1>4 DEF Goto, Worker
  <2>2. SameRun
    BY <1>1, <2>1 DEF SameRun
  <2>3. ASSUME Known
        PROVE  Promise'
    <3>1. NothingPlanned' /\ ModeInForce'
      BY <1>1, <2>1, <2>2, <2>3, RunFacts DEF Known, NothingPlanned, ModeInForce
    <3>2. run'.key = "Test" \/ target_is_canoe'
      BY <1>2, <1>4, <2>1, <2>2, RunFacts, FirmwareFacts
    <3> QED
      BY <2>1, <3>1, <3>2 DEF Promise, Unplanned
  <2> QED
    BY <1>1, <1>3, <2>1, <2>2, <2>3, ReadingFirst DEF Before
<1>5. ASSUME ~(run.key # "Lenovo" \/ target_is_canoe), NEW d \in read_device_vbmeta,
             NEW p \in LenovoPlans(d),
             Goto([worker EXCEPT !.pc = "Stage", !.rb_mode = "Off", !.plan = p,
                                 !.checked = d.floors])
      PROVE  FirstRun'
  <2>1. /\ pc' = "Stage" /\ run' = run /\ fastboot' = fastboot /\ plan' = p
        /\ floors' = floors /\ rb_mode' = "Off"
    BY <1>1, <1>5 DEF Goto, Worker
  <2>2. SameRun
    BY <1>1, <2>1 DEF SameRun
  <2>3. /\ d.slot \in {"a", "b"} /\ d.class = slots[d.slot].vbmeta_system.key
        /\ slots[d.slot].vbmeta_system.idx # 0 /\ d.floors \in Floors
    BY <1>1, DeviceRead
  <2>4. run.key = "Lenovo" /\ ~target_is_canoe /\ family # "Canoe" /\ FirmwareAbl = "Lenovo"
        /\ manual_plan \in Floors
    BY <1>2, <1>5, ManualPlanType DEF target_is_canoe, FirmwareAbl
  <2>5. p.pair = plan.pair
    BY <1>2 DEF LenovoPlans, Resigned, Plans
  <2>6. ASSUME Intact, Known
        PROVE  Promise'
    <3>1. AtLeast(d.floors, committed) /\ ~plan.pair /\ NothingPlanned
      BY <1>1, <2>4, <2>6, MeasuredFloors DEF Known
    <3>2. CASE KeepsLenovo(d) /\ p = plan
      <4>1. MeetsFloors(FirmwareImages)
        <5>1. AtLeast(firmware, committed)
          BY <1>1, <1>2, <2>3, <3>1, <3>2, FirmwareFacts, AtLeastOrder DEF KeepsLenovo
        <5> QED
          BY <1>2, <5>1, FirmwareFacts DEF MeetsFloors
      <4>2. Sound(FirmwareImages, "Lenovo", FALSE)
        BY <1>2, <2>4, <3>1, <4>1, FirmwareFacts DEF Sound, Keys
      <4>3. Becomes(FirmwareImages, plan'.overlays, FirmwareImages)
        BY <1>2, <2>1, <3>1, <3>2, NothingBecomes DEF NothingPlanned
      <4>4. "Lenovo" = IF plan'.abl = "Keep" THEN FirmwareImages.abl ELSE plan'.abl
        BY <1>2, <2>1, <2>4, <3>1, <3>2, FirmwareFacts DEF NothingPlanned
      <4>5. Planned'
        <5>1. PICK F \in Slot : F = FirmwareImages
          BY <1>2, FirmwareFacts
        <5> QED
          BY <2>1, <2>2, <2>4, <2>5, <4>2, <4>3, <4>4, <5>1, PlannedNext
      <4> QED
        BY <2>1, <4>5 DEF Promise
    <3>3. ASSUME run.user_abl \/ d.class = "Test", Allowed(d.floors, manual_plan),
                 NEW c \in BOOLEAN, p = Resigned(d, c)
          PROVE  Promise'
      <4> DEFINE t == Targets(d.floors, manual_plan)
      <4>1. t \in Floors /\ AtLeast(t, d.floors)
        BY <1>2, <2>3, <2>4, <3>3, TargetsType, FirmwareFacts, HigherFacts DEF Allowed, Targets
      <4>2. p.overlays = TestkeyOverlays(t, c)
            /\ p.abl = IF run.user_abl THEN UserAbl ELSE slots[d.slot].abl
        BY <1>2, <3>3 DEF Resigned, Plans
      <4> HIDE DEF t
      <4>3. p.abl = "Test"
        BY <2>3, <2>4, <2>6, <3>3, <4>2 DEF Intact, UserAbl
      <4>4. AtLeast(t, committed) /\ t.boot # 0
        BY <1>1, <2>3, <3>1, <4>1, AtLeastOrder, FlashAssumption
           DEF AtLeast, Indices, Index, Floors
      <4>5. PICK F \in Slot : F = TestImages(t, c)
        BY <1>2, <4>1, TestImagesFacts
      <4>6. /\ F.boot = t.boot /\ F.vbmeta.key = "Test" /\ F.vbmeta_system.key = "Test"
            /\ F.vendor_boot = F.vbmeta.covers /\ IndicesOf(F) = t
            /\ Becomes(FirmwareImages, TestkeyOverlays(t, c), F)
        BY <1>2, <4>1, <4>5, TestImagesFacts
      <4>7. Sound(F, "Test", FALSE)
        BY <3>1, <4>4, <4>6 DEF Sound, Keys, MeetsFloors
      <4>8. Planned'
        BY <2>1, <2>2, <2>4, <2>5, <4>2, <4>3, <4>6, <4>7, PlannedNext
      <4> QED
        BY <2>1, <4>8 DEF Promise
    <3> QED
      BY <1>5, <3>2, <3>3 DEF LenovoPlans
  <2> QED
    BY <1>1, <1>3, <2>1, <2>2, <2>5, <2>6, ReadingFirst DEF Before
<1>6. CASE Abort("Start")
  BY <1>1, <1>6, AbortFirst
<1> QED
  BY <1>4, <1>5, <1>6 DEF KeyGate

\* The bootloader the firmware's images run under, unless another was planned.
FetchAbl == IF target_is_canoe /\ run.user_abl THEN UserAbl ELSE FirmwareAbl

\* Images that keep the firmware's key, or get the testkey where the arb GBL is to
\* come, keep the promise of a package that was not planned before.
LEMMA StagedPromise ==
  ASSUME SameRun, run \in Arguments, Known, pc = "Stage", pc' = "Fetch", Unplanned,
         plan'.pair = plan.pair, plan'.abl = "Keep",
         NEW F \in Slot, F.abl = FirmwareAbl, Becomes(FirmwareImages, plan'.overlays, F),
         F.vbmeta_system.key = F.vbmeta.key, F.boot # 0, F.vendor_boot = F.vbmeta.covers,
         \/ F.vbmeta.key = run.key
         \/ F.vbmeta.key = "Test" /\ target_is_canoe /\ ~run.no_efisp_load /\ plan'.needs_arb,
         Guarded => MeetsFloors(F)
  PROVE  Promise'
<1>1. PICK b \in BOOLEAN :
        b = (target_is_canoe /\ ~run.no_efisp_load /\ (plan'.needs_arb \/ run.key = "Test"))
  OBVIOUS
<1>3. /\ ~target_is_canoe => FetchAbl = run.key /\ ~run.no_efisp_load
      /\ target_is_canoe /\ ~run.no_efisp_load => FetchAbl = "LenovoGbl"
      /\ target_is_canoe => FetchAbl \in {"LenovoGbl", "Lenovo"}
  <2>1. run \in Runs /\ Accepted(fastboot.reachable)
    BY DEF Known
  <2>2. target_is_canoe => validate_canoe_efisp_choice
    BY <2>1 DEF Accepted
  <2>3. ~target_is_canoe => ~run.no_efisp_load
    BY <2>1 DEF Runs, target_is_canoe
  <2> QED
    BY <2>2, <2>3 DEF FetchAbl, UserAbl, FirmwareAbl, validate_canoe_efisp_choice, Arguments
<1>4. run.key \in {"Test", "Lenovo"} /\ (plan.pair => ~target_is_canoe /\ run.key = "Test")
  BY FirmwareFacts DEF Known, target_is_canoe
<1>5. Sound(F, FetchAbl, b)
  <2>1. CASE ~target_is_canoe
    <3>1. run.key = "Test"
      BY <2>1 DEF Unplanned
    <3> QED
      BY <1>3, <2>1, <3>1 DEF Sound, Keys
  <2>2. CASE target_is_canoe /\ ~run.no_efisp_load
    BY <1>1, <1>3, <1>4, <2>2 DEF Sound, Keys
  <2>3. CASE target_is_canoe /\ run.no_efisp_load
    BY <1>3, <1>4, <2>3 DEF Sound, Keys, UnknownRoot
  <2> QED
    BY <2>1, <2>2, <2>3
<1>6. Becomes(FirmwareImages, plan.overlays, F)'
  BY RunFacts DEF Becomes
<1>7. (target_is_canoe /\ requires_arb_efisp)' = b
  BY <1>1, RunFacts DEF SameRun, requires_arb_efisp
<1>8. AblToCome(F)' = FetchAbl
  BY RunFacts DEF AblToCome, AblOver, FetchAbl, SameRun
<1>9. Sound(F, AblToCome(F), target_is_canoe /\ requires_arb_efisp)'
  <2>1. PICK A : A = FetchAbl
    OBVIOUS
  <2>2. Sound(F, A, b)'
    BY <1>5, <2>1, SoundKeeps
  <2> QED
    BY <1>7, <1>8, <2>1, <2>2
<1> QED
  BY <1>6, <1>9 DEF Promise

\* A plan is staged.
LEMMA StagedFacts ==
  ASSUME worker \in Worker, UNCHANGED <<committed, family>>, NEW f, NEW p, Staged(f, p)
  PROVE  SameRun /\ pc' = "Fetch" /\ floors' = floors /\ plan' = p
  BY DEF Staged, Goto, Worker, SameRun

\* The stage ends when its plan keeps the promise.
LEMMA StagedFirst ==
  ASSUME FirstRun, pc = "Stage", worker \in Worker, UNCHANGED <<chain, family, runs>>,
         NEW f, NEW p, Staged(f, p), p.pair = plan.pair, Intact /\ Known /\ Promise => Promise'
  PROVE  FirstRun'
<1>1. SameRun /\ pc' = "Fetch" /\ floors' = floors /\ plan' = p
  BY StagedFacts
<1>2. ASSUME Known
      PROVE  Known'
  <2>1. Floored(floors)'
    BY <1>1, <1>2 DEF Known, Floored
  <2> QED
    BY <1>1, <1>2, <2>1, KnownNext DEF Before
<1> QED
  BY <1>1, <1>2, ReadingFirst DEF Before

\* The vendor's package was planned by the key gate and goes as planned.
LEMMA PlannedStaged ==
  ASSUME SameRun, run \in Arguments, Known, pc' = "Fetch", Planned, plan' = plan
  PROVE  Promise'
<1>1. PICK F \in Slot : Becomes(FirmwareImages, plan.overlays, F) /\ Sound(F, AblToCome(F), FALSE)
  BY DEF Planned
<1>2. Becomes(FirmwareImages, plan.overlays, F)'
  BY <1>1, RunFacts DEF Becomes
<1>3. AblToCome(F)' = AblToCome(F) /\ (target_is_canoe /\ requires_arb_efisp)' = FALSE
  BY RunFacts DEF AblToCome, AblOver, SameRun, Planned
<1>4. PICK A : A = AblToCome(F)
  OBVIOUS
<1>5. Sound(F, A, FALSE)'
  BY <1>1, <1>4, SoundKeeps
<1>6. Sound(F, AblToCome(F), target_is_canoe /\ requires_arb_efisp)'
  BY <1>3, <1>4, <1>5
<1> QED
  BY <1>2, <1>6 DEF Promise

\* The firmware's images as they are.
LEMMA PlainStaged ==
  ASSUME SameRun, run \in Arguments, Known, pc = "Stage", pc' = "Fetch", Unplanned,
         plan' = plan, Guarded /\ is_protected => AtLeast(firmware, committed)
  PROVE  Promise'
<1>1. PICK F \in Slot : F = FirmwareImages
  BY FirmwareFacts
<1>2. /\ F.abl = FirmwareAbl /\ F.boot # 0 /\ F.vbmeta.key = run.key
      /\ F.vbmeta_system.key = F.vbmeta.key /\ F.vendor_boot = F.vbmeta.covers
      /\ IndicesOf(F) = firmware
  BY <1>1, FirmwareFacts
<1>3. plan.overlays = <<>> /\ plan.abl = "Keep"
  BY DEF Unplanned, NothingPlanned
<1>4. Becomes(FirmwareImages, plan'.overlays, F)
  BY <1>1, <1>3, NothingBecomes
<1>5. Guarded => MeetsFloors(F)
  BY <1>2 DEF MeetsFloors
<1> QED
  BY <1>2, <1>3, <1>4, <1>5, StagedPromise

\* A canoe's images, signed again with the testkey.
LEMMA TestChainStaged ==
  ASSUME SameRun, run \in Arguments, plan \in Plans, Known, pc = "Stage", pc' = "Fetch", Unplanned,
         NEW t \in Floors, plan' = WithTestkeyChain(t), t.boot # 0, target_is_canoe,
         ~run.no_efisp_load, Guarded /\ is_protected => AtLeast(t, committed)
  PROVE  Promise'
<1>1. PICK F \in Slot : F = TestImages(t, FALSE)
  BY TestImagesFacts
<1>2. /\ F.abl = FirmwareAbl /\ F.boot = t.boot /\ F.vbmeta.key = "Test"
      /\ F.vbmeta_system.key = F.vbmeta.key /\ F.vendor_boot = F.vbmeta.covers
      /\ IndicesOf(F) = t /\ Becomes(FirmwareImages, TestkeyOverlays(t, FALSE), F)
  BY <1>1, TestImagesFacts
<1>3. plan.abl = "Keep"
  BY DEF Unplanned, NothingPlanned
<1>4. /\ plan'.overlays = TestkeyOverlays(t, FALSE) /\ plan'.pair = plan.pair
      /\ plan'.abl = "Keep" /\ plan'.needs_arb
  BY <1>3 DEF WithTestkeyChain, Plans
<1>5. Guarded => MeetsFloors(F)
  BY <1>2 DEF MeetsFloors
<1> QED
  BY <1>2, <1>4, <1>5, StagedPromise

\* The firmware's images with other indices.
LEMMA ChangedStaged ==
  ASSUME SameRun, run \in Arguments, plan \in Plans, Known, pc = "Stage", pc' = "Fetch", Unplanned,
         NEW t \in Floors, plan' = [plan EXCEPT !.overlays = ChangedOverlays(t)],
         Guarded /\ is_protected =>
           AtLeast([boot |-> IF t.boot # 0 THEN t.boot ELSE run.boot,
                    vbs |-> IF t.vbs # 0 THEN t.vbs ELSE run.vbs], committed)
  PROVE  Promise'
<1>1. PICK F \in Slot : F = ChangedImages(t)
  BY ChangedImagesFacts
<1>2. /\ F.abl = FirmwareAbl /\ F.boot # 0 /\ F.vbmeta = [key |-> run.key, covers |-> "Stock"]
      /\ F.vbmeta_system.key = run.key /\ F.vendor_boot = "Stock"
      /\ IndicesOf(F) = [boot |-> IF t.boot # 0 THEN t.boot ELSE run.boot,
                         vbs |-> IF t.vbs # 0 THEN t.vbs ELSE run.vbs]
      /\ Becomes(FirmwareImages, ChangedOverlays(t), F)
  BY <1>1, ChangedImagesFacts
<1>3. plan.abl = "Keep"
  BY DEF Unplanned, NothingPlanned
<1>4. /\ plan'.overlays = ChangedOverlays(t) /\ plan'.pair = plan.pair /\ plan'.abl = "Keep"
  BY <1>3 DEF Plans
<1>5. Guarded => MeetsFloors(F)
  BY <1>2 DEF MeetsFloors
<1>6. F.vbmeta.key = run.key /\ F.vbmeta.covers = "Stock"
  BY <1>2
<1> QED
  BY <1>2, <1>4, <1>5, <1>6, StagedPromise

\* The manual indices of a run.
LEMMA ManualTargets ==
  ASSUME Known, run \in Arguments, ModeInForce, rb_mode = "Manual"
  PROVE  run.targets \in Floors /\ run.targets.boot # 0 /\ run.targets.vbs # 0
<1>1. run.mode = "Manual"
  BY DEF ModeInForce, effective_flash_rollback_mode
<1>2. run.targets # None
  BY <1>1 DEF Known, Runs
<1>3. run.targets \in Indices
  BY <1>2 DEF Arguments
<1> QED
  BY <1>3, IndicesAreFloors, FlashAssumption DEF Indices, Index

\* What the device the worker may ask shows of the slot it runs from.
LEMMA DumpedKnown ==
  ASSUME Intact, Known, pc = "Stage", Guarded, is_protected, ~xiaoxin, floors = None
  PROVE  DumpedFloors = committed
<1>1. ~edl_start
  BY DEF Known
<1>2. fastboot.reachable
  BY <1>1 DEF Guarded
<1> QED
  BY <1>2 DEF Intact, DumpedFloors, active_slot_suffix

\* The stage of the overlays.
LEMMA StageNoEfispFirst ==
  ASSUME "DumpFails" \notin Faults, FlashInv, Stage, UNCHANGED stock, StageNoEfisp,
         run.no_efisp_load
  PROVE  FirstRun'
<1>1. /\ FirstRun /\ pc = "Stage" /\ worker \in Worker /\ UNCHANGED <<chain, family, runs>>
      /\ slots \in [{"a", "b"} -> Slot] /\ active \in {"a", "b"} /\ runs # 0
      /\ committed \in Indices /\ committed \in Floors
  BY ReadingFacts DEF Stage, Before
<1>2. run \in Arguments /\ plan \in Plans /\ floors \in Floors /\ firmware \in Floors
  BY <1>1, WorkerFacts, FirmwareFacts DEF WorkerType
<1>3. CASE \E f \in (IF floors # None THEN {floors} ELSE {d.floors : d \in read_device_vbmeta}) :
             validate_no_efisp_rollback(f) /\ Staged(f, plan)
  <2>1. PICK f \in (IF floors # None THEN {floors}
                    ELSE {d.floors : d \in read_device_vbmeta}) :
               validate_no_efisp_rollback(f) /\ Staged(f, plan)
    BY <1>3
  <2>2. SameRun /\ pc' = "Fetch" /\ plan' = plan
    BY <1>1, <2>1, StagedFacts
  <2>3. ASSUME Intact, Known, Promise
        PROVE  Promise'
    <3>1. target_is_canoe
      BY <2>3 DEF Known, Runs, target_is_canoe
    <3>2. Unplanned
      BY <1>1, <2>3, <3>1 DEF Promise, Planned
    <3>3. f \in Floors /\ AtLeast(f, committed)
      BY <1>1, <1>2, <2>1, <2>3, MeasuredFloors DEF Known, Floored
    <3>4. AtLeast(firmware, committed)
      BY <1>1, <1>2, <2>1, <3>3, AtLeastOrder DEF validate_no_efisp_rollback
    <3> QED
      BY <1>1, <1>2, <2>2, <2>3, <3>2, <3>4, PlainStaged
  <2> QED
    BY <1>1, <2>1, <2>3, StagedFirst
<1>4. CASE Abort("Start")
  BY <1>1, <1>4, AbortFirst
<1> QED
  BY <1>3, <1>4 DEF StageNoEfisp

\* Manual targets.
LEMMA StageManualFirst ==
  ASSUME FlashInv, Stage, UNCHANGED stock, StageManual, ~run.no_efisp_load, rb_mode = "Manual"
  PROVE  FirstRun'
<1>1. /\ FirstRun /\ pc = "Stage" /\ worker \in Worker /\ UNCHANGED <<chain, family, runs>>
      /\ slots \in [{"a", "b"} -> Slot] /\ active \in {"a", "b"} /\ runs # 0
      /\ committed \in Indices /\ committed \in Floors
  BY ReadingFacts DEF Stage, Before
<1>2. run \in Arguments /\ plan \in Plans /\ floors \in Floors /\ firmware \in Floors
  BY <1>1, WorkerFacts, FirmwareFacts DEF WorkerType
<1> DEFINE t == [boot |-> IF run.targets.boot # run.boot THEN run.targets.boot ELSE 0,
                 vbs  |-> IF run.targets.vbs # run.vbs THEN run.targets.vbs ELSE 0]
           p == IF run.targets = firmware THEN plan
                ELSE IF target_is_canoe THEN WithTestkeyChain(run.targets)
                ELSE [plan EXCEPT !.overlays = ChangedOverlays(t)]
<1>3. CASE Staged(checked, p)
  <2>1. p.pair = plan.pair
    BY <1>2 DEF Plans, WithTestkeyChain
  <2>2. SameRun /\ pc' = "Fetch" /\ plan' = p
    BY <1>1, <1>3, StagedFacts
  <2>3. ASSUME Intact, Known, Promise
        PROVE  Promise'
    <3>1. Unplanned
      BY <1>1, <2>3 DEF Promise, Planned
    <3>2. run.targets \in Floors /\ run.targets.boot # 0 /\ run.targets.vbs # 0
      BY <1>2, <2>3, <3>1, ManualTargets DEF Unplanned
    <3>3. is_protected => AtLeast(run.targets, committed)
      BY <1>1, <2>3 DEF Known
    <3>4. CASE run.targets = firmware
      BY <1>1, <1>2, <2>2, <2>3, <3>1, <3>3, <3>4, PlainStaged
    <3>5. CASE run.targets # firmware /\ target_is_canoe
      <4>1. plan' = WithTestkeyChain(run.targets)
        BY <2>2, <3>5
      <4> QED
        BY <1>1, <1>2, <2>2, <2>3, <3>1, <3>2, <3>3, <3>5, <4>1, TestChainStaged
    <3>6. CASE run.targets # firmware /\ ~target_is_canoe
      <4>1. plan' = [plan EXCEPT !.overlays = ChangedOverlays(t)]
        BY <2>2, <3>6
      <4>2. t \in Floors
        BY <3>2, FlashAssumption DEF Floors
      <4>3. [boot |-> IF t.boot # 0 THEN t.boot ELSE run.boot,
             vbs |-> IF t.vbs # 0 THEN t.vbs ELSE run.vbs] = run.targets
        BY <3>2 DEF Floors
      <4> HIDE DEF t
      <4> QED
        BY <1>1, <1>2, <2>2, <2>3, <3>1, <3>3, <4>1, <4>2, <4>3, ChangedStaged
    <3> QED
      BY <3>4, <3>5, <3>6
  <2> HIDE DEF p
  <2> QED
    BY <1>1, <1>3, <2>1, <2>3, StagedFirst
<1>4. CASE Abort("Start")
  BY <1>1, <1>4, AbortFirst
<1> QED
  BY <1>3, <1>4 DEF StageManual

\* No check of the indices, or a package planned before.
LEMMA StageOffFirst ==
  ASSUME FlashInv, Stage, UNCHANGED stock, rb_mode = "Off", Staged(checked, plan)
  PROVE  FirstRun'
<1>1. /\ FirstRun /\ pc = "Stage" /\ worker \in Worker /\ UNCHANGED <<chain, family, runs>>
  BY ReadingFacts DEF Stage, Before
<1>2. run \in Arguments /\ SameRun /\ pc' = "Fetch" /\ plan' = plan
  BY <1>1, WorkerFacts, StagedFacts DEF WorkerType
<1>3. ASSUME Intact, Known, Promise
      PROVE  Promise'
  <2>1. CASE Planned
    BY <1>2, <1>3, <2>1, PlannedStaged
  <2>2. CASE Unplanned
    <3>1. ~(Guarded /\ is_protected)
      BY <2>2 DEF Unplanned, ModeInForce, effective_flash_rollback_mode, Guarded
    <3> QED
      BY <1>1, <1>2, <1>3, <2>2, <3>1, PlainStaged
  <2> QED
    BY <1>1, <1>3, <2>1, <2>2 DEF Promise
<1> QED
  BY <1>1, <1>3, StagedFirst

\* A canoe below its floors.
LEMMA StageCanoeFirst ==
  ASSUME FlashInv, Stage, UNCHANGED stock, StageCanoe, ~run.no_efisp_load, target_is_canoe
  PROVE  FirstRun'
<1>1. /\ FirstRun /\ pc = "Stage" /\ worker \in Worker /\ UNCHANGED <<chain, family, runs>>
      /\ slots \in [{"a", "b"} -> Slot] /\ active \in {"a", "b"} /\ runs # 0
      /\ committed \in Indices /\ committed \in Floors
  BY ReadingFacts DEF Stage, Before
<1>2. run \in Arguments /\ plan \in Plans /\ floors \in Floors /\ firmware \in Floors
      /\ firmware.boot = run.boot /\ run.boot # 0
  BY <1>1, WorkerFacts, FirmwareFacts DEF WorkerType
<1> DEFINE fl == IF floors # None THEN floors ELSE DumpedFloors
           p == IF NeedsArb(fl, None) THEN WithTestkeyChain(Targets(fl, None)) ELSE plan
<1>3. CASE Staged(fl, p)
  <2>1. p.pair = plan.pair
    BY <1>2 DEF Plans, WithTestkeyChain
  <2>2. SameRun /\ pc' = "Fetch" /\ plan' = p
    BY <1>1, <1>3, StagedFacts
  <2>3. fl \in Floors
    BY <1>1, <1>2, IndicesType DEF DumpedFloors, active_slot_suffix
  <2>4. ASSUME Intact, Known, Promise
        PROVE  Promise'
    <3>1. Unplanned
      BY <1>1, <2>4 DEF Promise, Planned
    <3>2. Guarded /\ is_protected => AtLeast(fl, committed)
      <4>1. CASE floors # None
        BY <2>4, <4>1 DEF Known, Floored
      <4>2. CASE floors = None
        BY <1>1, <2>4, <4>2, DumpedKnown, AtLeastOrder DEF target_is_canoe, xiaoxin
      <4> QED
        BY <4>1, <4>2
    <3> HIDE DEF fl
    <3>3. CASE NeedsArb(fl, None)
      <4> DEFINE t == Targets(fl, None)
      <4>1. t = Higher(firmware, fl)
        BY DEF Targets
      <4>2. t \in Floors /\ AtLeast(t, fl) /\ AtLeast(t, firmware)
        BY <1>2, <2>3, <4>1, HigherFacts
      <4>3. plan' = WithTestkeyChain(t)
        BY <2>2, <3>3
      <4> HIDE DEF t
      <4>4. t.boot # 0 /\ (Guarded /\ is_protected => AtLeast(t, committed))
        BY <1>1, <1>2, <2>3, <3>2, <4>2, AtLeastOrder, FlashAssumption DEF AtLeast, Floors
      <4> QED
        BY <1>1, <1>2, <2>2, <2>4, <3>1, <4>2, <4>3, <4>4, TestChainStaged
    <3>4. CASE ~NeedsArb(fl, None)
      <4>1. AtLeast(firmware, fl) /\ plan' = plan
        BY <2>2, <3>4 DEF NeedsArb
      <4>2. Guarded /\ is_protected => AtLeast(firmware, committed)
        BY <1>1, <1>2, <2>3, <3>2, <4>1, AtLeastOrder
      <4> QED
        BY <1>1, <1>2, <2>2, <2>4, <3>1, <4>1, <4>2, PlainStaged
    <3> QED
      BY <3>3, <3>4
  <2> HIDE DEF p, fl
  <2> QED
    BY <1>1, <1>3, <2>1, <2>4, StagedFirst
<1>4. CASE Abort("None")
  BY <1>1, <1>4, AbortFirst
<1> QED
  BY <1>3, <1>4 DEF StageCanoe

\* Overlays of the images below their floors.
LEMMA StageGenericFirst ==
  ASSUME FlashInv, Stage, UNCHANGED stock, StageGeneric, ~target_is_canoe,
         rb_mode \notin {"Off", "Manual"}
  PROVE  FirstRun'
<1>1. /\ FirstRun /\ pc = "Stage" /\ worker \in Worker /\ UNCHANGED <<chain, family, runs>>
      /\ slots \in [{"a", "b"} -> Slot] /\ active \in {"a", "b"} /\ runs # 0
      /\ committed \in Indices /\ committed \in Floors
  BY ReadingFacts DEF Stage, Before
<1>2. run \in Arguments /\ plan \in Plans /\ floors \in Floors /\ firmware \in Floors
      /\ firmware.boot = run.boot /\ firmware.vbs = run.vbs /\ run.boot # 0
      /\ stored \in Floors
  BY <1>1, WorkerFacts, FirmwareFacts, FlashAssumption DEF WorkerType, stored, Probes, Floors
<1> DEFINE fl == LocationFloors
           t == [boot |-> IF needs_patch(run.boot, fl.boot) THEN fl.boot ELSE 0,
                 vbs  |-> IF needs_patch(run.vbs, fl.vbs) THEN fl.vbs ELSE 0]
           p == [plan EXCEPT !.overlays = ChangedOverlays(t)]
<1>3. CASE /\ fl = None => ~is_protected
           /\ ~(xiaoxin /\ (needs_patch(run.boot, fl.boot) \/ needs_patch(run.vbs, fl.vbs)))
           /\ Staged(fl, p)
  <2>1. p.pair = plan.pair
    BY <1>2 DEF Plans
  <2>2. SameRun /\ pc' = "Fetch" /\ plan' = p
    BY <1>1, <1>3, StagedFacts
  <2>3. DumpedFloors \in Floors
    BY <1>1, IndicesType DEF DumpedFloors, active_slot_suffix
  <2>4. fl \in Floors /\ \/ fl = floors /\ floors # None
                         \/ fl = stored /\ stored # None
                         \/ floors = None /\ AtLeast(fl, DumpedFloors)
                         \/ fl = None
    <3> DEFINE x == DumpedFloors.boot
               y == DumpedFloors.vbs
               both == [boot |-> Max({x, y}), vbs |-> Max({x, y})]
    <3>1. x \in 0..MaxIndex /\ y \in 0..MaxIndex
      BY <2>3 DEF Floors
    <3>2. [boot |-> x, vbs |-> x] \in Floors /\ [boot |-> y, vbs |-> y] \in Floors
      BY <3>1 DEF Floors
    <3>3. both = Higher([boot |-> x, vbs |-> x], [boot |-> y, vbs |-> y])
      BY DEF Higher
    <3>4. both \in Floors /\ AtLeast(both, [boot |-> x, vbs |-> x])
          /\ AtLeast(both, [boot |-> y, vbs |-> y])
      BY <3>2, <3>3, HigherFacts
    <3>5. AtLeast(both, DumpedFloors)
      BY <3>4 DEF AtLeast
    <3>6. fl = IF floors # None THEN floors ELSE IF stored # None THEN stored
               ELSE IF is_protected THEN (IF Readable(DumpedFloors) THEN both ELSE None)
               ELSE None
      BY DEF LocationFloors
    <3> HIDE DEF fl, both
    <3> QED
      BY <1>2, <3>4, <3>5, <3>6, IndicesAreFloors
  <2>5. ASSUME Intact, Known, Promise
        PROVE  Promise'
    <3>1. Unplanned
      BY <1>1, <1>2, <2>5 DEF Promise, Planned
    <3> HIDE DEF fl
    <3>2. t \in Floors
      BY <2>4, FlashAssumption DEF Floors
    <3>3. ASSUME Guarded, is_protected
          PROVE  AtLeast([boot |-> IF t.boot # 0 THEN t.boot ELSE run.boot,
                          vbs |-> IF t.vbs # 0 THEN t.vbs ELSE run.vbs], committed)
      <4>1. CASE xiaoxin
        <5>1. t = [boot |-> 0, vbs |-> 0]
          BY <1>3, <4>1
        <5>2. [boot |-> IF t.boot # 0 THEN t.boot ELSE run.boot,
               vbs |-> IF t.vbs # 0 THEN t.vbs ELSE run.vbs] = firmware
          BY <5>1 DEF firmware
        <5> QED
          BY <1>1, <2>5, <4>1, <5>2 DEF Known
      <4>2. CASE ~xiaoxin
        <5>1. fl # None
          BY <1>3, <3>3
        <5>2. AtLeast(fl, committed)
          <6>1. fl = floors /\ floors # None => AtLeast(fl, committed)
            BY <2>5 DEF Known, Floored
          <6>2. fl = stored /\ stored # None => AtLeast(fl, committed)
            BY <2>5 DEF Known, Floored
          <6>3. floors = None /\ AtLeast(fl, DumpedFloors) => AtLeast(fl, committed)
            BY <1>1, <2>5, <3>3, <4>2, DumpedKnown
          <6> QED
            BY <2>4, <5>1, <6>1, <6>2, <6>3
        <5>3. committed.boot \in Nat /\ committed.boot >= 1
              /\ committed.vbs \in Nat /\ committed.vbs >= 1
          BY <1>1, FlashAssumption DEF Indices, Index
        <5>4. fl.boot \in Nat /\ fl.vbs \in Nat /\ run.boot \in Nat /\ run.vbs \in Nat
          BY <1>2, <2>4, FlashAssumption DEF Floors, firmware
        <5> QED
          BY <5>2, <5>3, <5>4 DEF AtLeast, needs_patch
      <4> QED
        BY <4>1, <4>2
    <3> HIDE DEF t
    <3> QED
      BY <1>1, <1>2, <2>2, <2>5, <3>1, <3>2, <3>3, ChangedStaged
  <2> HIDE DEF p, fl
  <2> QED
    BY <1>1, <1>3, <2>1, <2>5, StagedFirst
<1>4. CASE \E x \in {"System", "None"} : Abort(x)
  BY <1>1, <1>4, AbortFirst
<1> QED
  BY <1>3, <1>4 DEF StageGeneric

\* Every alternative of the stage keeps the promise.
LEMMA StageFirst ==
  "DumpFails" \notin Faults /\ FlashInv /\ Stage /\ UNCHANGED stock => FirstRun'
<1> SUFFICES ASSUME "DumpFails" \notin Faults, FlashInv, Stage, UNCHANGED stock
             PROVE  FirstRun'
  OBVIOUS
<1>1. CASE run.no_efisp_load
  BY <1>1, StageNoEfispFirst DEF Stage
<1>2. CASE ~run.no_efisp_load /\ rb_mode = "Manual"
  BY <1>2, StageManualFirst DEF Stage
<1>3. CASE ~run.no_efisp_load /\ rb_mode = "Off"
  BY <1>3, StageOffFirst DEF Stage
<1>4. CASE ~run.no_efisp_load /\ rb_mode \notin {"Off", "Manual"} /\ target_is_canoe
  BY <1>4, StageCanoeFirst DEF Stage
<1>5. CASE ~run.no_efisp_load /\ rb_mode \notin {"Off", "Manual"} /\ ~target_is_canoe
  BY <1>5, StageGenericFirst DEF Stage
<1> QED
  BY <1>1, <1>2, <1>3, <1>4, <1>5

\* Fetching the GBL settles the bootloader and what goes on efisp.
LEMMA FetchEfispFirst == FlashInv /\ FetchEfisp /\ UNCHANGED stock => FirstRun'
<1> SUFFICES ASSUME FlashInv, FetchEfisp, UNCHANGED stock
             PROVE  FirstRun'
  OBVIOUS
<1> DEFINE a == IF target_is_canoe /\ run.user_abl THEN UserAbl ELSE plan.abl
           e == IF ~target_is_canoe \/ run.no_efisp_load THEN "Keep"
                ELSE IF requires_arb_efisp THEN "Arb"
                ELSE IF run.region THEN "Normal"
                ELSE IF run.wipe THEN "Erase" ELSE "Keep"
           p == [plan EXCEPT !.abl = a, !.efisp = e]
           w == [worker EXCEPT !.pc = "Raw", !.plan = p]
<1>1. /\ FirstRun /\ pc = "Fetch" /\ pc \in Before /\ worker \in Worker
      /\ UNCHANGED <<chain, family, runs>>
      /\ runs # 0
  BY ReadingFacts DEF FetchEfisp, Before
<1>2. plan \in Plans
  BY <1>1, WorkerFacts DEF WorkerType
<1>3. Goto(w) \/ \E x \in {"Start", "None"} : Abort(x)
  BY <1>1, <1>2 DEF FetchEfisp, Worker, Plans
<1>4. CASE Goto(w)
  <2>1. /\ pc' = "Raw" /\ run' = run /\ fastboot' = fastboot /\ floors' = floors
        /\ rb_mode' = rb_mode /\ plan' = p
    BY <1>1, <1>4 DEF Goto, Worker
  <2>2. plan'.overlays = plan.overlays /\ plan'.pair = plan.pair /\ plan'.abl = a /\ plan'.efisp = e
    BY <1>2, <2>1 DEF Plans
  <2>3. SameRun
    BY <1>1, <2>1 DEF SameRun
  <2>4. ASSUME Known
        PROVE  Known'
    <3>1. Floored(floors)'
      BY <1>1, <2>1, <2>4 DEF Known, Floored
    <3>2. pc' \in Before \ {"Inspect", "Enter", "Measure"}
          /\ pc' \notin {"Manual", "Key", "Stage"}
      BY <2>1 DEF Before
    <3> QED
      BY <1>1, <2>2, <2>3, <2>4, <3>1, <3>2, KnownNext
  <2>5. ASSUME Promise
        PROVE  Promise'
    <3>1. PICK F \in Slot : /\ Becomes(FirmwareImages, plan.overlays, F)
                            /\ Sound(F, AblToCome(F), target_is_canoe /\ requires_arb_efisp)
      BY <1>1, <2>5 DEF Promise
    <3>2. PICK A : A = AblToCome(F)
      OBVIOUS
    <3>3. PICK b \in BOOLEAN : b = (target_is_canoe /\ requires_arb_efisp)
      OBVIOUS
    <3>4. PICK c \in BOOLEAN : c = (e = "Arb")
      OBVIOUS
    <3>5. b => c
      BY <3>3, <3>4 DEF requires_arb_efisp
    <3>6. Sound(F, A, c)'
      BY <2>2, <2>3, <3>1, <3>2, <3>3, <3>5, SoundKeeps
    <3>7. AblOver(F)' = A /\ (plan.efisp = "Arb")' = c
      BY <2>2, <3>2, <3>4 DEF AblOver, AblToCome, UserAbl
    <3>8. Sound(F, AblOver(F), plan.efisp = "Arb")'
      BY <3>6, <3>7
    <3>9. Becomes(FirmwareImages, plan.overlays, F)'
      BY <2>2, <2>3, <3>1, RunFacts DEF Becomes
    <3> QED
      BY <2>1, <3>8, <3>9 DEF Promise
  <2> HIDE DEF w
  <2> QED
    BY <1>1, <2>1, <2>4, <2>5, ReadingFirst DEF Before
<1>5. CASE \E x \in {"Start", "None"} : Abort(x)
  BY <1>1, <1>5, AbortFirst
<1> HIDE DEF w
<1> QED
  BY <1>3, <1>4, <1>5

\* The user starts the first run, or only a later one.
LEMMA StartRunFirst == FlashInv /\ StartRun /\ UNCHANGED stock => FirstRun'
<1> SUFFICES ASSUME FlashInv, StartRun, UNCHANGED stock
             PROVE  FirstRun'
  OBVIOUS
<1>1. PICK r \in Runs : worker' = Locals("Inspect", r, "None")
  BY DEF StartRun
<1>2. UNCHANGED <<slots, active, efisp, committed, family>> /\ runs' = runs + 1 /\ runs \in Nat
  BY FlashAssumption DEF StartRun, FlashInv, FlowInv, Types, DeviceType
<1>3. /\ pc' = "Inspect" /\ run' = r /\ fastboot' = NoProbe /\ floors' = None /\ plan' = NoPlan
  BY <1>1 DEF Locals
<1>4. (run \in Runs)'
  BY <1>2, <1>3 DEF Runs
<1>5. Floored(stored)' /\ Floored(floors)'
  BY <1>3 DEF Floored, stored, NoProbe, None
<1>6. NothingPlanned' /\ ~plan'.pair
  BY <1>3 DEF NothingPlanned, NoPlan
<1>7. Known' /\ Promise'
  BY <1>3, <1>4, <1>5, <1>6 DEF Known, Promise
<1>8. CASE runs = 0
  <2>1. Intact'
    BY <1>2, <1>8 DEF FlashInv, FirstRun, Intact
  <2> QED
    BY <1>2, <1>3, <1>7, <1>8, <2>1 DEF FirstRun
<1>9. CASE runs # 0
  BY <1>2, <1>9 DEF FirstRun
<1> QED
  BY <1>8, <1>9

\* A device that boots what it was bought with commits nothing new.
LEMMA IdleFirst ==
  FlashInv /\ (PowerCycle \/ BootUp) /\ UNCHANGED stock => FirstRun'
<1> SUFFICES ASSUME FlashInv, PowerCycle \/ BootUp, UNCHANGED stock
             PROVE  FirstRun'
  OBVIOUS
<1>1. /\ pc = "Done" /\ UNCHANGED <<family, worker, runs, slots, active, efisp>> /\ FirstRun
      /\ committed \in Indices
  BY DEF PowerCycle, BootUp, Idle, FlashInv, FlowInv, Types, DeviceType
<1>2. Promise'
  BY <1>1 DEF Promise
<1>3. CASE runs = 0
  <2>1. Intact
    BY <1>1, <1>3 DEF FirstRun
  <2>2. committed' = committed
    <3>1. ASSUME NEW x \in Int
          PROVE  Max({x, x}) = x
      BY MaxFacts
    <3>2. committed.boot \in Int /\ committed.vbs \in Int
          /\ committed = [boot |-> committed.boot, vbs |-> committed.vbs]
      BY <1>1, FlashAssumption DEF Indices, Index
    <3>3. Higher(committed, committed) = committed
      BY <3>1, <3>2 DEF Higher
    <3> QED
      BY <2>1, <3>3 DEF PowerCycle, BootUp, Intact
  <2>3. Intact'
    BY <1>1, <2>1, <2>2 DEF Intact
  <2> QED
    BY <1>1, <1>2, <1>3, <2>3 DEF FirstRun, Before
<1>4. CASE runs # 0
  BY <1>1, <1>2, <1>4 DEF FirstRun, Before
<1> QED
  BY <1>3, <1>4

\* A device as a user has it.
LEMMA FirstInit == Init => FirstRun
<1> SUFFICES ASSUME Init
             PROVE  FirstRun
  OBVIOUS
<1>1. PICK key \in Keys : \E idx \in Indices :
        LET abls == IF family # "Canoe" THEN {key}
                    ELSE IF key = "Test" \/ efisp = "Arb" THEN {"LenovoGbl"} ELSE {"Lenovo"}
            older == {i \in Indices : AtLeast(idx, i)}
        IN /\ key = "Test" /\ family = "Canoe" => efisp = "Arb"
           /\ \E abl \in abls :
              \E other \in {Torn} \cup {Package(abl, key, i) : i \in older} :
                slots = [s \in {"a", "b"} |->
                           IF s = active THEN Package(abl, key, idx) ELSE other]
           /\ committed = idx
  BY DEF Init
<1>2. PICK idx \in Indices :
        /\ \E abl \in (IF family # "Canoe" THEN {key} ELSE {"LenovoGbl", "Lenovo"}) :
           \E other \in {Torn} \cup {Package(abl, key, i) : i \in {i \in Indices : AtLeast(idx, i)}} :
             slots = [s \in {"a", "b"} |->
                        IF s = active THEN Package(abl, key, idx) ELSE other]
        /\ committed = idx
  BY <1>1
<1>3. PICK abl \in (IF family # "Canoe" THEN {key} ELSE {"LenovoGbl", "Lenovo"}) :
        \E other \in {Torn} \cup {Package(abl, key, i) : i \in {i \in Indices : AtLeast(idx, i)}} :
          slots = [s \in {"a", "b"} |->
                     IF s = active THEN Package(abl, key, idx) ELSE other]
  BY <1>2
<1>4. PICK other \in {Torn} \cup {Package(abl, key, i) : i \in {i \in Indices : AtLeast(idx, i)}} :
        slots = [s \in {"a", "b"} |-> IF s = active THEN Package(abl, key, idx) ELSE other]
  BY <1>3
<1>5. ASSUME NEW i \in Indices
      PROVE  /\ IndicesOf(Package(abl, key, i)) = i
             /\ Package(abl, key, i).abl = abl /\ Package(abl, key, i).vbmeta_system.key = key
  BY DEF IndicesOf, Package, Indices
<1>6. IndicesOf(Torn) = None /\ Torn.vbmeta_system.idx = 0
  BY DEF IndicesOf, Torn, None
<1>7. AtLeast(idx, idx) /\ AtLeast(idx, None)
  BY FlashAssumption DEF AtLeast, Indices, Index, None
<1>8. active \in {"a", "b"} /\ runs = 0 /\ worker = Locals("Done", NoRun, "None")
  BY FlashAssumption DEF Init
<1>9. /\ IndicesOf(slots[active]) = idx /\ AtLeast(idx, IndicesOf(other))
      /\ other.vbmeta_system.idx # 0 => other.abl = abl /\ other.vbmeta_system.key = key
  BY <1>4, <1>5, <1>6, <1>7, <1>8
<1>10. \A s \in {"a", "b"} : slots[s] = Package(abl, key, idx) \/ slots[s] = other
  BY <1>4
<1>11. family # "Canoe" => abl = key
  BY <1>3
<1>12. Intact
  BY <1>2, <1>5, <1>7, <1>9, <1>10, <1>11 DEF Intact
<1>13. pc = "Done"
  BY <1>8 DEF Locals
<1> QED
  BY <1>8, <1>12, <1>13 DEF FirstRun, Promise, Before

-----------------------------------------------------------------------------
(* Theorems.                                                               *)

\* Every step keeps the types and the order of the stages, and finds the
\* bootloader in its place when it fails after a write.
LEMMA FlowStep == FlowInv /\ [Next]_vars => FlowInv' /\ Restored
<1> SUFFICES ASSUME FlowInv, [Next]_vars
             PROVE  FlowInv' /\ Restored
  OBVIOUS
<1>1. CASE UNCHANGED vars
  BY <1>1 DEF vars, FlowInv, Types, DeviceType, WorkerType, Phase, Restored
<1>2. CASE Next
  <2>0. UNCHANGED stock
    BY <1>2 DEF Next
  <2>1. CASE Inspect
    BY <2>0, <2>1, InspectKeeps, ReadersRestore DEF Inspect, Reading
  <2>2. CASE EnterEdl
    BY <2>0, <2>2, EnterEdlKeeps, ReadersRestore DEF EnterEdl, Reading
  <2>3. CASE MeasureFloors
    BY <2>0, <2>3, MeasureFloorsKeeps, ReadersRestore DEF MeasureFloors, Reading
  <2>4. CASE PlanManual
    BY <2>0, <2>4, PlanManualKeeps, ReadersRestore DEF PlanManual, Reading
  <2>5. CASE KeyGate
    BY <2>0, <2>5, KeyGateKeeps, ReadersRestore DEF KeyGate, Reading
  <2>6. CASE Stage
    BY <2>0, <2>6, StageKeeps, ReadersRestore DEF Stage, Reading
  <2>7. CASE FetchEfisp
    BY <2>0, <2>7, FetchEfispKeeps, ReadersRestore DEF FetchEfisp, Reading
  <2>8. CASE RawProgram
    BY <2>0, <2>8, RawProgramKeeps
  <2>9. CASE FlashOverlay
    BY <2>0, <2>9, FlashOverlayKeeps
  <2>10. CASE RestoreAbl
    BY <2>0, <2>10, RestoreAblKeeps
  <2>11. CASE FlashEfisp
    BY <2>0, <2>11, FlashEfispKeeps
  <2>12. CASE FlashRegionPair
    BY <2>0, <2>12, FlashRegionPairKeeps
  <2>13. CASE ChangeCountry
    BY <2>0, <2>13, ChangeCountryKeeps
  <2>14. CASE set_active_slot_a
    BY <2>0, <2>14, SetActiveKeeps
  <2>15. CASE reset_tolerant
    BY <2>0, <2>15, ResetKeeps
  <2>16. CASE StartRun
    BY <2>0, <2>16, StartRunKeeps, ReadersRestore DEF StartRun
  <2>17. CASE PowerCycle
    BY <2>0, <2>17, PowerCycleKeeps, ReadersRestore DEF PowerCycle, Idle
  <2>18. CASE BootUp
    BY <2>0, <2>18, BootUpKeeps, ReadersRestore DEF BootUp, Idle
  <2> QED
    BY <1>2, <2>1, <2>2, <2>3, <2>4, <2>5, <2>6, <2>7, <2>8, <2>9, <2>10, <2>11, <2>12,
       <2>13, <2>14, <2>15, <2>16, <2>17, <2>18 DEF Next, FlashWorker
<1> QED
  BY <1>1, <1>2

\* The inductive invariant of the flash worker: the values of the state and the
\* order of its stages.
THEOREM FlowInvariance == Spec => []FlowInv
<1>1. FlowInv /\ [Next]_vars => FlowInv'
  BY FlowStep
<1> QED
  BY <1>1, FlowInit, PTL DEF Spec

\* The worker's locals and the device's partitions keep their types.
THEOREM FlashKeepsItsTypes == Spec => []TypeOK
<1>1. FlowInv => TypeOK
  <2> SUFFICES ASSUME FlowInv
               PROVE  TypeOK
    OBVIOUS
  <2>1. /\ pc \in Stages /\ rb_mode \in AllModes /\ fastboot \in Probes /\ floors \in Floors
        /\ checked \in Floors /\ plan \in Plans /\ todo \in Seq(Writes)
    BY WorkerFacts DEF FlowInv, Types
  <2>2. DOMAIN slots = {"a", "b"} /\ \A s \in {"a", "b"} : IsSlot(slots[s])
    BY SlotFacts DEF FlowInv, Types, DeviceType
  <2>3. \A i \in DOMAIN todo : todo[i][1] \in Parts /\ todo[i][2] \in Contents[todo[i][1]]
    <3> SUFFICES ASSUME NEW i \in DOMAIN todo
                 PROVE  todo[i][1] \in Parts /\ todo[i][2] \in Contents[todo[i][1]]
      OBVIOUS
    <3>1. todo[i] \in Writes
      BY <2>1
    <3>2. PICK p \in Parts : \E v \in Contents[p] : todo[i] = <<p, v>>
      BY <3>1 DEF Writes
    <3> QED
      BY <3>2
  <2>4. fastboot.reachable \in BOOLEAN /\ fastboot.aggregate \in 0..MaxIndex
    BY <2>1 DEF Probes
  <2>5. plan.efisp \in {"Keep", "Normal", "Arb", "Erase"} /\ plan.abl \in {"Keep"} \cup Contents.abl
    BY <2>1 DEF Plans
  <2>6. worker.written \in BOOLEAN /\ worker.result \in {"None", "Ok", "Err", "ErrNoAbl"}
    BY DEF FlowInv, Types, WorkerType, Worker
  <2> QED
    BY <2>1, <2>2, <2>3, <2>4, <2>5, <2>6
       DEF TypeOK, FlowInv, Types, DeviceType, Floors, AllModes
<1> QED
  BY <1>1, FlowInvariance, PTL

\* A flash that failed after its first write leaves the device in EDL, for a
\* second attempt: only the step that finishes the flash resets the device.
THEOREM BrokenFlashesStayInEdl == Spec => FailedFlashStaysInEdl
<1>1. FlowInv /\ [Next]_vars
        => [worker.written /\ mode' = "Boot" => worker'.result = "Ok"]_vars
  <2> SUFFICES ASSUME FlowInv, Next, worker.written, mode' = "Boot"
               PROVE  worker'.result = "Ok"
    BY DEF vars
  <2>1. pc \in WriteStages /\ mode = "Edl"
    BY DEF FlowInv, Phase, WriteStages
  <2>2. pc \notin Before /\ pc # "Done"
    BY <2>1 DEF WriteStages, Before
  <2>3. mode' # mode
    BY <2>1
  <2>4. reset_tolerant
    BY <2>2, <2>3 DEF Next, FlashWorker, Inspect, EnterEdl, MeasureFloors, PlanManual, KeyGate,
       Stage, FetchEfisp, Reading, Before, RawProgram, FlashOverlay, RestoreAbl, FlashEfisp,
       FlashRegionPair, ChangeCountry, set_active_slot_a, StartRun, PowerCycle, BootUp, Idle
  <2> QED
    BY <2>4 DEF reset_tolerant, Finish, Locals
<1> QED
  BY <1>1, FlowInvariance, PTL DEF Spec, FailedFlashStaysInEdl

\* A flash that fails after a write has put the planned bootloader back, unless the
\* write that puts it back has failed as well, which only the model remembers.
THEOREM BootloadersReturn == Spec => BootloaderIsRestored
<1>1. FlowInv /\ [Next]_vars
        => [slots # slots' /\ worker'.result = "Err" /\ plan.abl # "Keep"
              => slots'["a"].abl = plan.abl]_vars
  BY FlowStep DEF Restored
<1> QED
  BY <1>1, FlowInvariance, PTL DEF Spec, BootloaderIsRestored

\* Every step keeps what the first flash of a device rests on.
LEMMA FirstStep ==
  "DumpFails" \notin Faults => (FlashInv /\ [Next]_vars => FirstRun')
<1> SUFFICES ASSUME "DumpFails" \notin Faults, FlashInv, [Next]_vars
             PROVE  FirstRun'
  OBVIOUS
<1>1. CASE UNCHANGED vars
  <2>1. FirstRun /\ UNCHANGED <<family, stock, mode, slots, active, efisp, committed, worker, runs>>
    BY <1>1 DEF vars, FlashInv
  <2>2. SameRun /\ UNCHANGED pc /\ plan' = plan
    BY <2>1 DEF SameRun
  <2>3. Intact => Intact'
    BY <2>1 DEF Intact
  <2>4. ASSUME Known
        PROVE  Known'
    BY <2>1, <2>4 DEF Known, Runs, Accepted, Floored, stored, NothingPlanned, ModeInForce,
       xiaoxin, edl_start, is_protected, target_is_canoe, firmware,
       effective_flash_rollback_mode, validate_canoe_efisp_choice
  <2>5. ASSUME Promise
        PROVE  Promise'
    BY <2>1, <2>5 DEF Promise, Unplanned, Planned, NothingPlanned, ModeInForce, Becomes, Sound,
       AblOver, AblToCome, UserAbl, FirmwareImages, FirmwareAbl, Guarded, UnknownRoot, MeetsFloors,
       xiaoxin, edl_start, is_protected, target_is_canoe, firmware, requires_arb_efisp,
       effective_flash_rollback_mode
  <2> QED
    BY <2>1, <2>3, <2>4, <2>5 DEF FirstRun
<1>2. CASE Next
  <2>0. UNCHANGED stock
    BY <1>2 DEF Next
  <2>1. CASE Inspect \/ EnterEdl
    BY <2>0, <2>1, InspectFirst, EnterEdlFirst
  <2>2. CASE MeasureFloors \/ PlanManual \/ KeyGate
    BY <2>0, <2>2, MeasureFloorsFirst, PlanManualFirst, KeyGateFirst
  <2>3. CASE Stage \/ FetchEfisp
    BY <2>0, <2>3, StageFirst, FetchEfispFirst
  <2>4. CASE RawProgram \/ FlashOverlay \/ RestoreAbl
    BY <2>0, <2>4, RawProgramFirst, FlashOverlayFirst, RestoreAblFirst
  <2>5. CASE FlashEfisp \/ FlashRegionPair
    BY <2>0, <2>5, FlashEfispFirst, FlashRegionPairFirst
  <2>6. CASE ChangeCountry \/ set_active_slot_a \/ reset_tolerant
    BY <2>0, <2>6, AfterWritesFirst
  <2>7. CASE StartRun \/ PowerCycle \/ BootUp
    BY <2>0, <2>7, StartRunFirst, IdleFirst
  <2> QED
    BY <1>2, <2>1, <2>2, <2>3, <2>4, <2>5, <2>6, <2>7 DEF Next, FlashWorker
<1> QED
  BY <1>1, <1>2

\* The first flash of a device as a user has it boots when the worker finishes it:
\* slot `_a` is active, its bootloader trusts its images, they match their root
\* and, where the check is on and the device could be asked, none is below a
\* committed floor.  No dump may be lost: what a lost one would have shown is
\* missing from the measured floors.
THEOREM FirstFlashBoots ==
  "DumpFails" \notin Faults => (Spec => [](runs <= 1 => FinishedBoots))
<1> SUFFICES ASSUME "DumpFails" \notin Faults
             PROVE  Spec => [](runs <= 1 => FinishedBoots)
  OBVIOUS
<1>1. Init => FlashInv
  BY FlowInit, FirstInit DEF FlashInv
<1>2. FlashInv /\ [Next]_vars => FlashInv'
  BY FlowStep, FirstStep DEF FlashInv
<1>3. FlashInv => (runs <= 1 => FinishedBoots)
  <2> SUFFICES ASSUME FlashInv, runs <= 1, pc = "Reset"
               PROVE  /\ active = "a" /\ (UnknownRoot \/ ChainHolds(slots["a"]))
                      /\ Guarded => MeetsFloors(slots["a"])
    BY DEF FinishedBoots, Guarded
  <2>1. Sound(slots["a"], slots["a"].abl, efisp = "Arb") /\ active = "a"
    BY DEF FlashInv, FirstRun, Promise
  <2>2. UnknownRoot \/ ChainHolds(slots["a"])
    BY <2>1 DEF Sound, ChainHolds, Trusted, Keys
  <2> QED
    BY <2>1, <2>2 DEF Sound
<1> QED
  BY <1>1, <1>2, <1>3, PTL DEF Spec

=============================================================================
