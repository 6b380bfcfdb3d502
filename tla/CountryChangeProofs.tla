--------------------------- MODULE CountryChangeProofs ---------------------------
(***************************************************************************)
(* Proofs about the firmware flash and the country change, for any         *)
(* firmware folders, picked and known codes, contents, failures and kills. *)
(* The first contents of the country partitions stay in a backup; a change *)
(* or a flash that reports success did all of its work; a flash does not   *)
(* touch what its policy guards.                                           *)
(*                                                                         *)
(* CountryInv follows the worker's lists: a partition is to be dumped, or  *)
(* dumped and to be written, or done, and never two of these; what was     *)
(* dumped is what the partition still holds, and is in a backup.           *)
(* FirmwareInv follows the stages of a flash: what each of them found      *)
(* holds for the rest of the run, and what has left the plan is written.   *)
(***************************************************************************)
EXTENDS CountryChange, WellFoundedInduction, FiniteSetTheorems, SequenceTheorems, TLAPS

\* The worker's record, whatever the types of its fields.
Shaped == job = [kind |-> job.kind, folder |-> job.folder, stage |-> job.stage,
                 unpack |-> job.unpack, raws |-> job.raws, wipe |-> job.wipe, plan |-> job.plan,
                 result |-> job.result]

Types ==
  /\ Shaped
  /\ model \in Layouts
  /\ stock \in [Parts -> Held] /\ held \in [Parts -> Held]
  /\ country \in Country

\* The partitions dumped.
StagedParts == {country.staged[i].part : i \in 1..Len(country.staged)}

\* A run that has not begun: its lists are empty.
Blank == /\ country.expected = <<>> /\ country.todo = <<>> /\ country.staged = <<>>
         /\ country.done = {}

\* A partition is at most once in one of the three lists.
Lists ==
  /\ \A i, j \in 1..Len(country.todo) : country.todo[i] = country.todo[j] => i = j
  /\ \A i, j \in 1..Len(country.staged) :
       country.staged[i].part = country.staged[j].part => i = j
  /\ \A i \in 1..Len(country.todo) :
       country.todo[i] \notin StagedParts /\ country.todo[i] \notin country.done
  /\ StagedParts \cap country.done = {}
  /\ country.expected = <<>> => Blank

\* What the scan of a dump says of it.
Found(work) ==
  /\ work.code # NoCode =>
       country.target # NoCode /\ work.code \in Range(work.dump.fields)
  /\ country.target # NoCode /\ work.code = NoCode =>
       Range(work.dump.fields) \cap Range(KnownCodes) = {}

\* A dump that waits for its write is what the partition holds, and is saved.
Dumps ==
  \A i \in 1..Len(country.staged) :
    LET work == country.staged[i] IN
    /\ work.dump = held[work.part]
    /\ [part |-> work.part, held |-> work.dump] \in backups
    /\ Found(work)

\* A partition that had one code only, or none, still has no second one.
Uniform(fields) == \A c, d \in Range(fields) : c = d
Single(part) == Cardinality(Range(stock[part].fields)) <= 1
Kept == torn = {} => \A p \in Parts : Single(p) => Uniform(held[p].fields)

\* What is done carries the target, and where all codes were the same nothing else
\* that a scan would find.
Done ==
  country.target # NoCode =>
    \A p \in country.done :
      /\ p # "persist" => country.target \in Range(held[p].fields)
      /\ torn = {} /\ Single(p) =>
           Range(held[p].fields) \cap Range(KnownCodes) \subseteq {country.target}

\* The partitions of the run, and what its report rests on.
Promised ==
  /\ country.target # NoCode /\ country.expected # <<>> =>
       country.expected = country_partitions_for(model)
  /\ job.kind = "Country" => country.target # NoCode
  /\ job.kind = "Country" /\ job.result = "Ok" => complete /\ country.expected # <<>>

CountryInv ==
  Types /\ Lists /\ Dumps /\ Kept /\ Done /\ Promised /\ StockIsRecoverable

-----------------------------------------------------------------------------
(* Numbers, sets and sequences.                                            *)

\* A set of naturals that is not empty has a least element: the form of induction
\* that needs no operator as a parameter.
LEMMA LeastElement ==
  ASSUME NEW S, S \subseteq Nat, S # {}
  PROVE  \E m \in S : \A k \in S : m <= k
<1> DEFINE R == OpToRel(<, Nat)
<1>1. IsWellFoundedOn(R, Nat)
  BY NatLessThanWellFounded
<1>2. \A x, y \in Nat : x < y => <<x, y>> \in R
  BY DEF OpToRel
<1> HIDE DEF R
<1>3. PICK x \in S : \A y \in S : ~ (<<y, x>> \in R)
  BY <1>1, WFMin
<1>4. ASSUME NEW k \in S PROVE x <= k
  <2>1. x \in Nat /\ k \in Nat
    OBVIOUS
  <2>2. ~(k < x)
    BY <2>1, <1>2, <1>3
  <2> QED
    BY <2>1, <2>2
<1> QED
  BY <1>4

\* So its minimum is one of it.
LEMMA MinBelongs ==
  ASSUME NEW S, S \subseteq Nat, S # {}
  PROVE  Min(S) \in S
BY LeastElement DEF Min

\* A set of one element at most has no two.
LEMMA OneAtMost ==
  ASSUME NEW S, IsFiniteSet(S), Cardinality(S) <= 1, NEW c \in S, NEW d \in S
  PROVE  c = d
<1> SUFFICES ASSUME c # d PROVE FALSE
  OBVIOUS
<1>1. Cardinality({c}) = 1 /\ IsFiniteSet({c})
  BY FS_Singleton
<1>2. Cardinality({c} \cup {d}) = 2 /\ IsFiniteSet({c} \cup {d})
  BY <1>1, FS_AddElement
<1>3. Cardinality({c} \cup {d}) <= Cardinality(S)
  BY FS_Subset
<1> QED
  BY <1>2, <1>3, FS_CardinalityType

\* The values of a sequence, a finite set.
LEMMA SeqRange ==
  ASSUME NEW S, NEW s \in Seq(S)
  PROVE  /\ DOMAIN s = 1..Len(s) /\ Len(s) \in Nat
         /\ Range(s) = {s[i] : i \in 1..Len(s)} /\ Range(s) \subseteq S
         /\ IsFiniteSet(Range(s))
<1>1. DOMAIN s = 1..Len(s) /\ Len(s) \in Nat
  OBVIOUS
<1>2. Range(s) = {s[i] : i \in 1..Len(s)}
  BY <1>1 DEF Range
<1>3. Range(s) \subseteq S
  BY <1>1, <1>2
<1>4. IsFiniteSet(1..Len(s))
  BY <1>1, FS_Interval
<1>5. IsFiniteSet({s[i] : i \in 1..Len(s)})
  <2> DEFINE f == [i \in 1..Len(s) |-> s[i]]
  <2>1. f \in Surjection(1..Len(s), Range(s))
    BY <1>2 DEF Surjection
  <2> HIDE DEF f
  <2> QED
    BY <2>1, <1>4, <1>2, FS_Surjection
<1> QED
  BY <1>1, <1>2, <1>3, <1>5

-----------------------------------------------------------------------------
(* The scan and the patch.                                                 *)

\* detect_country_code finds a code that is there, and misses none that is known.
LEMMA ScanFinds ==
  ASSUME Types, NEW dump \in Held
  PROVE  /\ detect_country_code(dump) \in Codes \cup {NoCode}
         /\ detect_country_code(dump) # NoCode =>
              /\ country.target # NoCode
              /\ detect_country_code(dump) \in Range(dump.fields)
         /\ country.target # NoCode /\ detect_country_code(dump) = NoCode =>
              Range(dump.fields) \cap Range(KnownCodes) = {}
<1> DEFINE there == {i \in DOMAIN KnownCodes : KnownCodes[i] \in Range(dump.fields)}
<1>1. KnownCodes \in Seq(Codes) /\ NoCode \notin Codes
  BY CountryAssumption
<1>2. DOMAIN KnownCodes = 1..Len(KnownCodes) /\ Len(KnownCodes) \in Nat
      /\ Range(KnownCodes) = {KnownCodes[i] : i \in 1..Len(KnownCodes)}
      /\ Range(KnownCodes) \subseteq Codes
  BY <1>1, SeqRange
<1>3. there # {} => Min(there) \in there
  <2>1. there \subseteq Nat
    BY <1>2
  <2> HIDE DEF there
  <2> QED
    BY <2>1, MinBelongs
<1>4. detect_country_code(dump) =
        IF country.target = NoCode \/ there = {} THEN NoCode ELSE KnownCodes[Min(there)]
  BY DEF detect_country_code
<1> DEFINE m == Min(there)
<1>5. CASE country.target = NoCode \/ there = {}
  <2>1. detect_country_code(dump) = NoCode
    BY <1>4, <1>5
  <2>2. there = {} => Range(dump.fields) \cap Range(KnownCodes) = {}
    BY <1>2
  <2> QED
    BY <1>5, <2>1, <2>2
<1>6. CASE country.target # NoCode /\ there # {}
  <2>1. detect_country_code(dump) = KnownCodes[m] /\ m \in there
    BY <1>3, <1>4, <1>6
  <2>2. KnownCodes[m] \in Range(dump.fields) /\ KnownCodes[m] \in Codes
    BY <2>1, <1>1, <1>2
  <2> QED
    BY <2>1, <2>2, <1>1, <1>6
<1> QED
  BY <1>5, <1>6

\* The fields of a patched dump: as many, and each the target's or its own.
LEMMA PatchedIsHeld ==
  ASSUME Types, NEW work \in Staged, Found(work)
  PROVE  /\ Patched(work) \in Held
         /\ Len(Patched(work).fields) = Len(work.dump.fields)
         /\ \A i \in 1..Len(work.dump.fields) :
              Patched(work).fields[i] = IF work.dump.fields[i] = work.code THEN country.target
                                        ELSE work.dump.fields[i]
<1> DEFINE old == work.dump.fields
           new == Patched(work).fields
<1>1. work.dump \in Held /\ work.code \in Codes \cup {NoCode}
      /\ country.target \in Codes \cup {NoCode} /\ old \in Seq(Codes)
      /\ work.dump.channel \in {"consumer", "commercial"}
  BY DEF Types, Country, Staged, Held
<1>2. DOMAIN old = 1..Len(old) /\ Len(old) \in Nat /\ \A i \in 1..Len(old) : old[i] \in Codes
  BY <1>1
<1>3. NoCode \notin Codes
  BY CountryAssumption
<1>4. new = [k \in DOMAIN old |-> IF old[k] = work.code THEN country.target ELSE old[k]]
  BY DEF Patched
<1>5. \A i \in 1..Len(old) : old[i] = work.code => country.target \in Codes
  BY <1>1, <1>2, <1>3 DEF Found
<1>6. new \in [1..Len(old) -> Codes]
  BY <1>2, <1>4, <1>5
<1>7. new \in Seq(Codes) /\ Len(new) = Len(old)
  BY <1>2, <1>6
<1>8. Patched(work).channel \in {"consumer", "commercial"}
  BY <1>1 DEF Patched
<1>9. Patched(work) \in Held
  BY <1>7, <1>8 DEF Patched, Held
<1> QED
  BY <1>2, <1>4, <1>7, <1>9

\* Wherever a write breaks off, the partition holds fields of either kind.
LEMMA TornIsHeld ==
  ASSUME NEW old \in Held, NEW new \in Held, Len(new.fields) = Len(old.fields), NEW k
  PROVE  TornAt(old, new, k) \in Held
<1>1. DOMAIN new.fields = 1..Len(old.fields) /\ DOMAIN old.fields = 1..Len(old.fields)
      /\ Len(old.fields) \in Nat
  BY DEF Held
<1>2. \A i \in 1..Len(old.fields) : new.fields[i] \in Codes /\ old.fields[i] \in Codes
  BY <1>1 DEF Held
<1>3. [i \in DOMAIN new.fields |-> IF i <= k THEN new.fields[i] ELSE old.fields[i]] \in Seq(Codes)
  BY <1>1, <1>2
<1> DEFINE mixed == [i \in DOMAIN new.fields |-> IF i <= k THEN new.fields[i] ELSE old.fields[i]]
<1>4. TornAt(old, new, k) = [new EXCEPT !.fields = mixed]
  BY DEF TornAt
<1>5. [new EXCEPT !.fields = mixed] \in Held
  <2> HIDE DEF mixed
  <2>1. mixed \in Seq(Codes)
    BY <1>3 DEF mixed
  <2> QED
    BY <2>1 DEF Held
<1> QED
  BY <1>4, <1>5

-----------------------------------------------------------------------------
(* The initial states, and steps that leave the partitions alone.          *)

\* The partitions of a layout, each once.
LEMMA PartitionsOf ==
  ASSUME NEW m \in Layouts
  PROVE  LET parts == country_partitions_for(m) IN
         /\ parts \in Seq(Parts) /\ parts # <<>>
         /\ \A i, j \in 1..Len(parts) : parts[i] = parts[j] => i = j
         /\ Range(parts) \subseteq Parts
<1>1. CASE m = "Devinfo"
  <2>1. country_partitions_for(m) = <<"devinfo", "persist">>
    BY <1>1 DEF country_partitions_for
  <2>2. <<"devinfo", "persist">> \in Seq(Parts)
    BY DEF Parts
  <2>3. \A i, j \in 1..Len(<<"devinfo", "persist">>) : <<"devinfo", "persist">>[i] = <<"devinfo", "persist">>[j] => i = j
    OBVIOUS
  <2>4. <<"devinfo", "persist">> # <<>>
    OBVIOUS
  <2>5. Range(<<"devinfo", "persist">>) \subseteq Parts
    BY <2>2, SeqRange
  <2> QED
    BY <2>1, <2>2, <2>3, <2>4, <2>5
<1>2. CASE m = "Oemowninfo"
  <2>1. country_partitions_for(m) = <<"oemowninfo">>
    BY <1>2 DEF country_partitions_for
  <2>2. <<"oemowninfo">> \in Seq(Parts)
    BY DEF Parts
  <2>3. \A i, j \in 1..Len(<<"oemowninfo">>) : <<"oemowninfo">>[i] = <<"oemowninfo">>[j] => i = j
    OBVIOUS
  <2>4. <<"oemowninfo">> # <<>>
    OBVIOUS
  <2>5. Range(<<"oemowninfo">>) \subseteq Parts
    BY <2>2, SeqRange
  <2> QED
    BY <2>1, <2>2, <2>3, <2>4, <2>5
<1>3. CASE m = "Proinfo"
  <2>1. country_partitions_for(m) = <<"proinfo", "persist">>
    BY <1>3 DEF country_partitions_for
  <2>2. <<"proinfo", "persist">> \in Seq(Parts)
    BY DEF Parts
  <2>3. \A i, j \in 1..Len(<<"proinfo", "persist">>) : <<"proinfo", "persist">>[i] = <<"proinfo", "persist">>[j] => i = j
    OBVIOUS
  <2>4. <<"proinfo", "persist">> # <<>>
    OBVIOUS
  <2>5. Range(<<"proinfo", "persist">>) \subseteq Parts
    BY <2>2, SeqRange
  <2> QED
    BY <2>1, <2>2, <2>3, <2>4, <2>5
<1> QED
  BY <1>1, <1>2, <1>3 DEF Layouts

LEMMA NoCountryIsTyped == NoCountry \in Country
<1>1. <<>> \in Seq(Parts) /\ <<>> \in Seq(Staged)
  OBVIOUS
<1>2. {} \in SUBSET Parts
  OBVIOUS
<1> QED
  BY <1>1, <1>2 DEF NoCountry, Country

LEMMA BlankRun ==
  ASSUME Types, Blank, Kept, Promised, StockIsRecoverable
  PROVE  CountryInv
<1>1. Len(country.todo) = 0 /\ Len(country.staged) = 0 /\ 1..0 = {}
  BY DEF Blank
<1>2. StagedParts = {}
  BY <1>1 DEF StagedParts
<1>3. Lists
  BY <1>1, <1>2 DEF Lists
<1>4. Dumps
  BY <1>1 DEF Dumps
<1>5. Done
  BY DEF Done, Blank
<1> QED
  BY <1>3, <1>4, <1>5 DEF CountryInv

LEMMA InitCountry == Init => CountryInv
<1> SUFFICES ASSUME Init PROVE CountryInv
  OBVIOUS
<1>1. PICK chosen \in [Parts -> UNION {FieldsOf[p] : p \in Parts}] :
        held = [p \in Parts |-> [fields |-> chosen[p], channel |-> "consumer"]]
  BY DEF Init
<1>2. chosen \in [Parts -> Seq(Codes)]
  BY <1>1, CountryAssumption
<1>3. held \in [Parts -> Held]
  BY <1>1, <1>2 DEF Held
<1>4. stock = held /\ torn = {} /\ country = NoCountry /\ model \in Layouts /\ job = NoJob
  BY CountryAssumption DEF Init, FirmwareInit
<1>5. Shaped /\ job.kind = "None"
  BY <1>4 DEF Shaped, NoJob
<1>6. Types
  BY <1>3, <1>4, <1>5, NoCountryIsTyped DEF Types
<1>7. Blank
  BY <1>4 DEF Blank, NoCountry
<1>8. Kept
  <2> SUFFICES ASSUME NEW p \in Parts, Single(p) PROVE Uniform(held[p].fields)
    BY DEF Kept
  <2>1. held[p].fields \in Seq(Codes)
    BY <1>3 DEF Held
  <2>2. IsFiniteSet(Range(held[p].fields)) /\ Cardinality(Range(held[p].fields)) <= 1
    BY <2>1, <1>4, SeqRange DEF Single
  <2> QED
    BY <2>2, OneAtMost DEF Uniform
<1>9. StockIsRecoverable
  BY <1>4 DEF StockIsRecoverable
<1>10. Promised
  BY <1>5, <1>7 DEF Promised, Blank
<1> QED
  BY <1>6, <1>7, <1>8, <1>9, <1>10, BlankRun

\* A step of a worker that is not about the country.
LEMMA RestKeeps ==
  ASSUME CountryInv, UNCHANGED countryVars, Shaped',
         job'.kind = "Country" => /\ job.kind = "Country"
                                  /\ job'.result = "Ok" => job.result = "Ok"
  PROVE  CountryInv'
<1> USE DEF countryVars
<1>1. Types'
  BY DEF CountryInv, Types
<1>2. Lists'
  BY DEF CountryInv, Lists, StagedParts, Blank
<1>3. Dumps'
  BY DEF CountryInv, Dumps, Found
<1>4. Kept'
  BY DEF CountryInv, Kept, Single, Uniform
<1>5. Done'
  BY DEF CountryInv, Done, Single
<1>6. Promised'
  BY DEF CountryInv, Promised, complete
<1>7. StockIsRecoverable'
  BY DEF CountryInv, StockIsRecoverable
<1> QED
  BY <1>1, <1>2, <1>3, <1>4, <1>5, <1>6, <1>7 DEF CountryInv

\* What the helpers of the worker do to its record.
LEMMA JobFields ==
  ASSUME Shaped
  PROVE  /\ \A x : LET j == [job EXCEPT !.stage = x] IN
              /\ j.kind = job.kind /\ j.result = job.result
              /\ j = [kind |-> j.kind, folder |-> j.folder, stage |-> j.stage,
                      unpack |-> j.unpack, raws |-> j.raws, wipe |-> j.wipe, plan |-> j.plan, result |-> j.result]
         /\ \A x : LET j == [job EXCEPT !.result = x] IN
              /\ j.kind = job.kind /\ j.result = x
              /\ j = [kind |-> j.kind, folder |-> j.folder, stage |-> j.stage,
                      unpack |-> j.unpack, raws |-> j.raws, wipe |-> j.wipe, plan |-> j.plan, result |-> j.result]
BY DEF Shaped

LEMMA FlashStepRests ==
  ASSUME Shaped, FlashStep
  PROVE  Shaped' /\ job'.kind = job.kind
<1> USE DEF Shaped
<1>1. CASE Decrypt
  BY <1>1 DEF Decrypt, Advance, Fails
<1>2. CASE DecompressOpens
  BY <1>2 DEF DecompressOpens
<1>3. CASE DecompressPublishes
  BY <1>3 DEF DecompressPublishes
<1>4. CASE DecompressFails
  BY <1>4 DEF DecompressFails, Fails
<1>5. CASE UnpackEnds
  BY <1>5 DEF UnpackEnds, Advance
<1>6. CASE RequireLoader
  BY <1>6 DEF RequireLoader, Advance, Fails
<1>7. CASE SelectXmls
  BY <1>7 DEF SelectXmls, Advance, Fails
<1>8. CASE EnterEdl
  BY <1>8 DEF EnterEdl, Advance, Fails
<1>9. CASE Preflight
  BY <1>9 DEF Preflight, Planned, Advance, Fails
<1>10. CASE FlashNode
  BY <1>10 DEF FlashNode, Writes, Fails
<1>15. CASE pre_erase_wipe_labels
  BY <1>15 DEF pre_erase_wipe_labels, Writes, Fails
<1>11. CASE ProgramEnds
  BY <1>11 DEF ProgramEnds, Advance
<1>12. CASE ApplyPatches
  BY <1>12 DEF ApplyPatches, Advance, Fails
<1>13. CASE set_active_slot_a
  BY <1>13 DEF set_active_slot_a, Advance, Fails
<1>14. CASE ResetToSystem
  BY <1>14 DEF ResetToSystem
<1> QED
  BY <1>1, <1>2, <1>3, <1>4, <1>5, <1>6, <1>7, <1>8, <1>9, <1>10, <1>11, <1>12, <1>13,
     <1>14, <1>15 DEF FlashStep

\* The run of a worker that starts is blank.
LEMMA NewRunKeeps ==
  ASSUME CountryInv, Shaped', NEW target \in PickerCodes \cup {NoCode}, NEW flip \in BOOLEAN,
         country' = [NoCountry EXCEPT !.target = target, !.flip = flip],
         UNCHANGED <<model, stock, held, torn, backups>>,
         job'.result = "None", job'.kind = "Country" => target # NoCode
  PROVE  CountryInv'
<1>1. country' \in Country /\ country'.target = target
      /\ country'.expected = <<>> /\ country'.todo = <<>> /\ country'.staged = <<>>
      /\ country'.done = {}
  <2>1. target \in Codes \cup {NoCode}
    BY DEF Codes
  <2>2. [NoCountry EXCEPT !.target = target, !.flip = flip] \in Country
    BY <2>1, NoCountryIsTyped DEF Country
  <2>3. /\ NoCountry.expected = <<>> /\ NoCountry.todo = <<>> /\ NoCountry.staged = <<>>
        /\ NoCountry.done = {}
    BY DEF NoCountry
  <2>4. /\ country'.target = target /\ country'.expected = NoCountry.expected
        /\ country'.todo = NoCountry.todo /\ country'.staged = NoCountry.staged
        /\ country'.done = NoCountry.done
    BY NoCountryIsTyped DEF Country
  <2> QED
    BY <2>2, <2>3, <2>4
<1>2. Types' /\ Blank'
  BY <1>1 DEF CountryInv, Types, Blank
<1>3. Kept' /\ StockIsRecoverable'
  BY DEF CountryInv, Kept, Single, Uniform, StockIsRecoverable
<1>4. Promised'
  BY <1>1 DEF Promised
<1> QED
  BY <1>2, <1>3, <1>4, BlankRun, PTL

LEMMA StartFullKeeps ==
  ASSUME CountryInv, StartFull
  PROVE  CountryInv'
<1>1. PICK target \in PickerCodes \cup {NoCode}, cross \in BOOLEAN :
        country' = [NoCountry EXCEPT !.target = target, !.flip = cross]
  BY DEF StartFull
<1>2. PICK kind \in Flashes, folder \in Folders :
        job' = [NoJob EXCEPT !.kind = kind, !.folder = folder, !.stage = Head(Order(kind))]
  BY DEF StartFull, StartFlash
<1>3. Shaped' /\ job'.kind \in Flashes /\ job'.result = "None"
  BY <1>2 DEF NoJob, Shaped
<1>4. UNCHANGED <<model, stock, held, torn, backups>>
  BY DEF StartFull
<1> QED
  BY <1>1, <1>3, <1>4, NewRunKeeps DEF Flashes

LEMMA StartCountryKeeps ==
  ASSUME CountryInv, StartCountry
  PROVE  CountryInv'
<1>1. PICK target \in PickerCodes, folder \in Folders :
        /\ job' = [NoJob EXCEPT !.kind = "Country", !.folder = folder, !.stage = "Enter"]
        /\ country' = [NoCountry EXCEPT !.target = target]
  BY DEF StartCountry
<1>2. country' = [NoCountry EXCEPT !.target = target, !.flip = FALSE]
  <2>1. NoCountry \in Country /\ NoCountry.flip = FALSE
    BY NoCountryIsTyped DEF NoCountry
  <2> QED
    BY <1>1, <2>1 DEF Country
<1>3. Shaped' /\ job'.result = "None"
  BY <1>1 DEF NoJob, Shaped
<1>4. UNCHANGED <<model, stock, held, torn, backups>> /\ target # NoCode
  BY CountryAssumption DEF StartCountry, Codes
<1> QED
  BY <1>2, <1>3, <1>4, NewRunKeeps

LEMMA EnterKeeps ==
  ASSUME CountryInv, EnterForCountry
  PROVE  CountryInv'
<1>1. Shaped' /\ job'.kind = job.kind /\ (job'.result = "Ok" => job.result = "Ok")
  BY DEF EnterForCountry, CountryInv, Types, Shaped, Fails
<1> QED
  BY <1>1, RestKeeps DEF EnterForCountry

LEMMA FlashStepKeeps ==
  ASSUME CountryInv, FlashStep, job.kind # "Country", UNCHANGED countryVars
  PROVE  CountryInv'
BY FlashStepRests, RestKeeps DEF CountryInv, Types

LEMMA BeginKeeps ==
  ASSUME CountryInv, Begin
  PROVE  CountryInv'
<1>1. CASE ~Wanted
  <2>1. Shaped' /\ job'.kind = job.kind /\ job'.result = job.result /\ UNCHANGED countryVars
    BY <1>1 DEF Begin, Advance, CountryInv, Types, Shaped, countryVars
  <2> QED
    BY <2>1, RestKeeps
<1>2. CASE Wanted
  <2> DEFINE parts == IF country.target = NoCode THEN <<"proinfo">>
                      ELSE country_partitions_for(model)
  <2>1. /\ country' = [country EXCEPT !.expected = parts, !.todo = parts]
        /\ UNCHANGED <<job, model, stock, held, torn, backups>>
        /\ At("Country") /\ country.expected = <<>>
    BY <1>2 DEF Begin
  <2>2. /\ parts \in Seq(Parts) /\ parts # <<>>
        /\ \A i, j \in 1..Len(parts) : parts[i] = parts[j] => i = j
        /\ Range(parts) \subseteq Parts
    <3>1. CASE country.target = NoCode
      <4>1. <<"proinfo">> \in Seq(Parts)
        BY DEF Parts
      <4>2. Range(<<"proinfo">>) \subseteq Parts
        BY <4>1, SeqRange
      <4> QED
        BY <3>1, <4>1, <4>2
    <3>2. CASE country.target # NoCode
      <4>1. model \in Layouts
        BY DEF CountryInv, Types
      <4> QED
        BY <3>2, <4>1, PartitionsOf
    <3> QED
      BY <3>1, <3>2
  <2>3. parts = IF country.target = NoCode THEN <<"proinfo">> ELSE country_partitions_for(model)
    OBVIOUS
  <2> HIDE DEF parts
  <2>4. country' \in Country /\ country'.target = country.target
        /\ country'.expected = parts /\ country'.todo = parts
        /\ country'.staged = <<>> /\ country'.done = {}
    <3>1. country \in Country /\ Blank
      BY <2>1 DEF CountryInv, Types, Lists
    <3> QED
      BY <2>1, <2>2, <3>1 DEF Country, Blank
  <2>5. Types'
    BY <2>1, <2>4 DEF CountryInv, Types, Shaped
  <2>6. Lists'
    <3>1. Len(country'.staged) = 0 /\ 1..0 = {}
      BY <2>4
    <3>2. StagedParts' = {}
      BY <3>1 DEF StagedParts
    <3> QED
      BY <2>2, <2>4, <3>1, <3>2 DEF Lists
  <2>7. Dumps' /\ Done'
    <3>1. Len(country'.staged) = 0 /\ 1..0 = {}
      BY <2>4
    <3> QED
      BY <2>4, <3>1 DEF Dumps, Done
  <2>8. Kept' /\ StockIsRecoverable'
    BY <2>1 DEF CountryInv, Kept, Single, Uniform, StockIsRecoverable
  <2>9. Promised'
    BY <2>1, <2>3, <2>4 DEF CountryInv, Promised, At
  <2> QED
    BY <2>5, <2>6, <2>7, <2>8, <2>9 DEF CountryInv
<1> QED
  BY <1>1, <1>2

-----------------------------------------------------------------------------
(* run_country_change.                                                     *)

\* The first element of a sequence and the others.
LEMMA FirstAndRest ==
  ASSUME NEW S, NEW s \in Seq(S), s # <<>>
  PROVE  /\ Len(s) \in Nat /\ 1 \in 1..Len(s) /\ Head(s) = s[1] /\ Head(s) \in S
         /\ Tail(s) \in Seq(S) /\ Len(Tail(s)) = Len(s) - 1
         /\ \A i \in 1..Len(Tail(s)) : i + 1 \in 1..Len(s) /\ Tail(s)[i] = s[i + 1]
<1>1. Len(s) \in Nat /\ Len(s) # 0
  BY EmptySeq
<1>2. Head(s) = s[1] /\ 1 \in 1..Len(s) /\ Head(s) \in S
  BY <1>1
<1>3. Tail(s) \in Seq(S) /\ Len(Tail(s)) = Len(s) - 1
  BY <1>1
<1>4. \A i \in 1..Len(Tail(s)) : i + 1 \in 1..Len(s) /\ Tail(s)[i] = s[i + 1]
  BY <1>1, <1>3
<1> QED
  BY <1>1, <1>2, <1>3, <1>4

\* A sequence with one more element.
LEMMA OneMore ==
  ASSUME NEW S, NEW s \in Seq(S), NEW e \in S
  PROVE  /\ Append(s, e) \in Seq(S) /\ Len(Append(s, e)) = Len(s) + 1 /\ Len(s) \in Nat
         /\ \A i \in 1..Len(s) : Append(s, e)[i] = s[i]
         /\ Append(s, e)[Len(s) + 1] = e
BY AppendProperties

\* What the job says does not change while the worker is at the country.
LEMMA StillPromised ==
  ASSUME CountryInv, At("Country"), job' = job, model' = model, country.expected # <<>>,
         country'.target = country.target, country'.expected = country.expected
  PROVE  Promised'
BY DEF CountryInv, Promised, At

LEMMA DumpAndSaveKeeps ==
  ASSUME CountryInv, DumpAndSave
  PROVE  CountryInv'
<1> DEFINE todo == country.todo
           part == Head(todo)
           work == [part |-> part, dump |-> held[part], code |-> detect_country_code(held[part])]
           save == [part |-> part, held |-> held[part]]
<1>1. /\ todo # <<>> /\ At("Country") /\ country.expected # <<>>
      /\ UNCHANGED <<job, model, stock, held, torn>>
  BY DEF DumpAndSave, Rewriting
<1>2. country \in Country /\ held \in [Parts -> Held] /\ todo \in Seq(Parts)
      /\ country.staged \in Seq(Staged) /\ country.done \subseteq Parts
  BY DEF CountryInv, Types, Country
<1>3. /\ Len(todo) \in Nat /\ 1 \in 1..Len(todo) /\ part = todo[1] /\ part \in Parts
      /\ Tail(todo) \in Seq(Parts) /\ Len(Tail(todo)) = Len(todo) - 1
      /\ \A i \in 1..Len(Tail(todo)) : i + 1 \in 1..Len(todo) /\ Tail(todo)[i] = todo[i + 1]
  BY <1>1, <1>2, FirstAndRest
<1>4. /\ part \notin StagedParts /\ part \notin country.done
      /\ \A i \in 1..Len(Tail(todo)) : /\ Tail(todo)[i] # part
                                       /\ Tail(todo)[i] \notin StagedParts
                                       /\ Tail(todo)[i] \notin country.done
      /\ \A i, j \in 1..Len(Tail(todo)) : Tail(todo)[i] = Tail(todo)[j] => i = j
  BY <1>3 DEF CountryInv, Lists
<1>5. CASE country' = Stage(part) /\ backups' = backups \cup {Save(part)}
  <2>1. held[part] \in Held
    BY <1>2, <1>3
  <2>2. work \in Staged /\ Found(work)
    BY <1>3, <2>1, ScanFinds DEF CountryInv, Staged, Found
  <2> DEFINE staged == Append(country.staged, work)
  <2>3. country' = [country EXCEPT !.todo = Tail(todo), !.staged = staged]
    BY <1>5 DEF Stage
  <2>4. /\ staged \in Seq(Staged) /\ Len(staged) = Len(country.staged) + 1
        /\ Len(country.staged) \in Nat
        /\ \A i \in 1..Len(country.staged) : staged[i] = country.staged[i]
        /\ staged[Len(country.staged) + 1] = work
    BY <1>2, <2>2, OneMore
  <2>5. work.part = part /\ work.dump = held[part] /\ save \in backups'
    BY <1>5 DEF Save
  <2> HIDE DEF todo, part, work, staged, save
  <2>6. /\ country' \in Country
        /\ country'.todo = Tail(todo) /\ country'.staged = staged
        /\ country'.done = country.done /\ country'.target = country.target
        /\ country'.expected = country.expected
    BY <1>2, <1>3, <2>3, <2>4 DEF Country
  <2>7. StagedParts' = StagedParts \cup {part}
    BY <2>4, <2>5, <2>6 DEF StagedParts
  <2>8. Types'
    BY <1>1, <2>6 DEF CountryInv, Types, Shaped
  <2>9. Lists'
    <3>1. \A i, j \in 1..Len(staged) : staged[i].part = staged[j].part => i = j
      <4>1. \A i, j \in 1..Len(country.staged) :
              country.staged[i].part = country.staged[j].part => i = j
        BY DEF CountryInv, Lists
      <4>2. \A i \in 1..Len(country.staged) : country.staged[i].part # part
        BY <1>4 DEF StagedParts
      <4> QED
        BY <4>1, <4>2, <2>4, <2>5
    <3>2. StagedParts \cap country.done = {}
      BY DEF CountryInv, Lists
    <3> QED
      BY <1>1, <1>4, <2>6, <2>7, <3>1, <3>2 DEF Lists
  <2>10. Dumps'
    <3>1. ASSUME NEW i \in 1..Len(country.staged)
          PROVE  LET w == country.staged[i] IN
                 /\ w.dump = held[w.part] /\ [part |-> w.part, held |-> w.dump] \in backups
                 /\ Found(w)
      BY DEF CountryInv, Dumps
    <3>2. backups \subseteq backups'
      BY <1>5
    <3>3. \A w : Found(w) => Found(w)'
      BY <2>6 DEF Found
    <3>4. ASSUME NEW i \in 1..Len(staged)
          PROVE  LET w == staged[i] IN
                 /\ w.dump = held[w.part] /\ [part |-> w.part, held |-> w.dump] \in backups'
                 /\ Found(w)
      <4>1. CASE i \in 1..Len(country.staged)
        BY <4>1, <3>1, <3>2, <2>4
      <4>2. CASE i = Len(country.staged) + 1
        BY <4>2, <2>2, <2>4, <2>5 DEF save
      <4> QED
        BY <4>1, <4>2, <2>4
    <3> QED
      BY <3>3, <3>4, <2>6, <1>1 DEF Dumps, Found
  <2>11. Kept' /\ Done'
    BY <1>1, <2>6 DEF CountryInv, Kept, Done, Single, Uniform
  <2>12. Promised'
    BY <1>1, <2>6, StillPromised
  <2>13. StockIsRecoverable'
    BY <1>1, <1>5 DEF CountryInv, StockIsRecoverable
  <2> QED
    BY <2>8, <2>9, <2>10, <2>11, <2>12, <2>13 DEF CountryInv
<1>6. CASE Drops /\ backups' \in {backups, backups \cup {Save(part)}}
  <2>1. country' = [country EXCEPT !.todo = Tail(todo), !.failed = TRUE]
    BY <1>6 DEF Drops
  <2> HIDE DEF todo, part, work, save
  <2>2. /\ country' \in Country
        /\ country'.todo = Tail(todo) /\ country'.staged = country.staged
        /\ country'.done = country.done /\ country'.target = country.target
        /\ country'.expected = country.expected
    BY <1>2, <1>3, <2>1 DEF Country
  <2>3. StagedParts' = StagedParts
    BY <2>2 DEF StagedParts
  <2>4. Types'
    BY <1>1, <2>2 DEF CountryInv, Types, Shaped
  <2>5. Lists'
    BY <1>1, <1>4, <2>2, <2>3 DEF CountryInv, Lists
  <2>6. Dumps'
    <3>1. backups \subseteq backups'
      BY <1>6
    <3> QED
      BY <1>1, <2>2, <3>1 DEF CountryInv, Dumps, Found
  <2>7. Kept' /\ Done'
    BY <1>1, <2>2 DEF CountryInv, Kept, Done, Single, Uniform
  <2>8. Promised'
    BY <1>1, <2>2, StillPromised
  <2>9. StockIsRecoverable'
    BY <1>1, <1>6 DEF CountryInv, StockIsRecoverable
  <2> QED
    BY <2>4, <2>5, <2>6, <2>7, <2>8, <2>9 DEF CountryInv
<1> QED
  BY <1>5, <1>6 DEF DumpAndSave

\* The work at the head of the list.
LEMMA FirstWork ==
  ASSUME CountryInv, country.staged # <<>>, NEW work, work = Head(country.staged)
  PROVE  /\ work \in Staged /\ work.part \in Parts /\ work.part \in StagedParts
         /\ work.part \notin country.done
         /\ work.dump = held[work.part] /\ work.dump \in Held
         /\ [part |-> work.part, held |-> work.dump] \in backups /\ Found(work)
         /\ Tail(country.staged) \in Seq(Staged)
         /\ \A i \in 1..Len(Tail(country.staged)) :
              /\ i + 1 \in 1..Len(country.staged)
              /\ Tail(country.staged)[i] = country.staged[i + 1]
              /\ Tail(country.staged)[i].part # work.part
         /\ Len(country.staged) \in Nat /\ Len(Tail(country.staged)) = Len(country.staged) - 1
<1>1. country.staged \in Seq(Staged)
  BY DEF CountryInv, Types, Country
<1>2. /\ 1 \in 1..Len(country.staged) /\ work = country.staged[1] /\ work \in Staged
      /\ Tail(country.staged) \in Seq(Staged)
      /\ Len(country.staged) \in Nat /\ Len(Tail(country.staged)) = Len(country.staged) - 1
      /\ \A i \in 1..Len(Tail(country.staged)) :
           /\ i + 1 \in 1..Len(country.staged)
           /\ Tail(country.staged)[i] = country.staged[i + 1]
  BY <1>1, FirstAndRest
<1>3. work.part \in Parts /\ work.dump \in Held
  BY <1>2 DEF Staged
<1>4. work.part \in StagedParts /\ work.part \notin country.done
  BY <1>2 DEF StagedParts, CountryInv, Lists
<1>5. \A i \in 1..Len(Tail(country.staged)) : Tail(country.staged)[i].part # work.part
  <2> SUFFICES ASSUME NEW i \in 1..Len(Tail(country.staged)),
                      Tail(country.staged)[i].part = work.part
               PROVE FALSE
    OBVIOUS
  <2>1. i + 1 \in 1..Len(country.staged) /\ country.staged[i + 1].part = country.staged[1].part
    BY <1>2
  <2>2. i + 1 = 1
    BY <1>2, <2>1 DEF CountryInv, Lists
  <2> QED
    BY <1>2, <2>2
<1>6. /\ work.dump = held[work.part] /\ Found(work)
      /\ [part |-> work.part, held |-> work.dump] \in backups
  BY <1>2 DEF CountryInv, Dumps
<1> QED
  BY <1>2, <1>3, <1>4, <1>5, <1>6

\* A write to the partition at the head leaves its first contents in a backup.
LEMMA WriteIsBackedUp ==
  ASSUME CountryInv, country.staged # <<>>, NEW new \in Held,
         held' = [held EXCEPT ![Head(country.staged).part] = new],
         UNCHANGED <<stock, backups>>
  PROVE  /\ held' \in [Parts -> Held] /\ StockIsRecoverable'
         /\ held'[Head(country.staged).part] = new
         /\ \A p \in Parts : p # Head(country.staged).part => held'[p] = held[p]
<1> DEFINE work == Head(country.staged)
<1>1. /\ work.part \in Parts /\ work.dump = held[work.part]
      /\ [part |-> work.part, held |-> work.dump] \in backups
  BY FirstWork
<1>2. held \in [Parts -> Held]
  BY DEF CountryInv, Types
<1>3. held' \in [Parts -> Held] /\ held'[work.part] = new
      /\ \A p \in Parts : p # work.part => held'[p] = held[p]
  BY <1>1, <1>2
<1>4. ASSUME NEW p \in Parts, held'[p] # stock[p]
      PROVE  [part |-> p, held |-> stock[p]] \in backups
  <2>1. CASE held[p] = stock[p]
    <3>1. p = work.part
      BY <1>3, <1>4, <2>1
    <3> QED
      BY <1>1, <2>1, <3>1
  <2>2. CASE held[p] # stock[p]
    BY <2>2 DEF CountryInv, StockIsRecoverable
  <2> QED
    BY <2>1, <2>2
<1> QED
  BY <1>3, <1>4 DEF StockIsRecoverable

\* The other lists once the head is off, whether or not it counts as done.
LEMMA OneLess ==
  ASSUME CountryInv, country.staged # <<>>, NEW work, work = Head(country.staged),
         \A p \in Parts : p # work.part => held'[p] = held[p],
         backups' = backups, country.expected # <<>>,
         country'.staged = Tail(country.staged), country'.todo = country.todo,
         country'.target = country.target, country'.expected = country.expected,
         country'.done \in {country.done, country.done \cup {work.part}}
  PROVE  Lists' /\ Dumps'
<1>1. /\ work.part \in StagedParts
      /\ \A i \in 1..Len(Tail(country.staged)) :
           /\ i + 1 \in 1..Len(country.staged)
           /\ Tail(country.staged)[i] = country.staged[i + 1]
           /\ Tail(country.staged)[i].part # work.part
      /\ Len(country.staged) \in Nat /\ Len(Tail(country.staged)) = Len(country.staged) - 1
  BY FirstWork
<1>2. StagedParts' = StagedParts \ {work.part}
  <2>1. StagedParts' \subseteq StagedParts \ {work.part}
    BY <1>1 DEF StagedParts
  <2>2. ASSUME NEW i \in 1..Len(country.staged), country.staged[i].part # work.part
        PROVE  country.staged[i].part \in StagedParts'
    <3>1. work = country.staged[1]
      <4>1. country.staged \in Seq(Staged)
        BY DEF CountryInv, Types, Country
      <4> QED
        BY <4>1, FirstAndRest
    <3>2. i # 1
      BY <2>2, <3>1
    <3>3. i - 1 \in 1..Len(Tail(country.staged)) /\ (i - 1) + 1 = i
      BY <1>1, <3>2
    <3> QED
      BY <1>1, <3>3 DEF StagedParts
  <2>3. ASSUME NEW x \in StagedParts, x # work.part PROVE x \in StagedParts'
    <3>1. PICK i \in 1..Len(country.staged) : x = country.staged[i].part
      BY <2>3 DEF StagedParts
    <3> QED
      BY <2>2, <2>3, <3>1
  <2> QED
    BY <2>1, <2>3
<1>3. Lists'
  <2>1. \A i, j \in 1..Len(Tail(country.staged)) :
          Tail(country.staged)[i].part = Tail(country.staged)[j].part => i = j
    <3> SUFFICES ASSUME NEW i \in 1..Len(Tail(country.staged)),
                        NEW j \in 1..Len(Tail(country.staged)),
                        Tail(country.staged)[i].part = Tail(country.staged)[j].part
                 PROVE  i = j
      OBVIOUS
    <3>1. i + 1 = j + 1
      BY <1>1 DEF CountryInv, Lists
    <3> QED
      BY <3>1, <1>1
  <2>2. \A i \in 1..Len(country.todo) :
          /\ country.todo[i] \notin StagedParts' /\ country.todo[i] \notin country'.done
    BY <1>1, <1>2 DEF CountryInv, Lists
  <2>3. StagedParts' \cap country'.done = {}
    BY <1>2 DEF CountryInv, Lists
  <2>4. \A i, j \in 1..Len(country.todo) : country.todo[i] = country.todo[j] => i = j
    BY DEF CountryInv, Lists
  <2> QED
    BY <2>1, <2>2, <2>3, <2>4 DEF Lists
<1>4. Dumps'
  <2>1. ASSUME NEW i \in 1..Len(Tail(country.staged))
        PROVE  LET w == Tail(country.staged)[i] IN
               /\ w.dump = held'[w.part]
               /\ [part |-> w.part, held |-> w.dump] \in backups /\ Found(w)
    <3> DEFINE w == Tail(country.staged)[i]
    <3>1. w = country.staged[i + 1] /\ i + 1 \in 1..Len(country.staged) /\ w.part # work.part
      BY <1>1
    <3>2. /\ w.dump = held[w.part] /\ [part |-> w.part, held |-> w.dump] \in backups
          /\ Found(w)
      BY <3>1 DEF CountryInv, Dumps
    <3>3. w.part \in Parts
      <4>1. country.staged \in Seq(Staged)
        BY DEF CountryInv, Types, Country
      <4>2. w \in Staged
        BY <3>1, <4>1
      <4> QED
        BY <4>2 DEF Staged
    <3> QED
      BY <3>1, <3>2, <3>3
  <2>2. \A w : Found(w) => Found(w)'
    BY DEF Found
  <2> QED
    BY <2>1, <2>2 DEF Dumps, Found
<1> QED
  BY <1>3, <1>4

\* LeavePartition: what has no code to be replaced stays, and is done unless it must
\* have one.
LEMMA LeavePartitionKeeps ==
  ASSUME CountryInv, NEW work, LeavePartition(work),
         UNCHANGED <<disk, cells, slot, job, model, stock, backups>>
  PROVE  CountryInv'
<1>1. /\ work = Head(country.staged) /\ country.staged # <<>> /\ At("Country")
      /\ country.expected # <<>> /\ UNCHANGED <<held, torn>>
      /\ no_known_code(work) \/ ~changed(work)
      /\ country' = IF no_known_code(work) THEN Missed(work) ELSE Handled(work)
  BY DEF LeavePartition, Working, Rewriting
<1>2. /\ work \in Staged /\ work.part \in Parts /\ work.dump = held[work.part] /\ Found(work)
      /\ Tail(country.staged) \in Seq(Staged) /\ country \in Country
  BY <1>1, FirstWork DEF CountryInv, Types
<1>3. /\ country' \in Country
      /\ country'.staged = Tail(country.staged) /\ country'.todo = country.todo
      /\ country'.target = country.target /\ country'.expected = country.expected
      /\ country'.done = IF no_known_code(work) THEN country.done
                         ELSE country.done \cup {work.part}
  <2>1. CASE no_known_code(work)
    <3>1. country' = [country EXCEPT !.staged = Tail(country.staged), !.failed = TRUE]
      BY <1>1, <2>1 DEF Missed
    <3> QED
      BY <1>2, <2>1, <3>1 DEF Country
  <2>2. CASE ~no_known_code(work)
    <3>1. country' = [country EXCEPT !.staged = Tail(country.staged),
                                     !.done = country.done \cup {work.part}]
      BY <1>1, <2>2 DEF Handled
    <3>2. country.done \cup {work.part} \in SUBSET Parts
      BY <1>2 DEF Country
    <3> QED
      BY <1>2, <2>2, <3>1, <3>2 DEF Country
  <2> QED
    BY <2>1, <2>2
<1>4. Types'
  BY <1>1, <1>3 DEF CountryInv, Types, Shaped
<1>5. Lists' /\ Dumps'
  BY <1>1, <1>3, OneLess
<1>6. Kept' /\ StockIsRecoverable'
  BY <1>1 DEF CountryInv, Kept, Single, Uniform, StockIsRecoverable
<1>7. Done'
  <2> SUFFICES ASSUME country.target # NoCode, NEW p \in country'.done
               PROVE  /\ p # "persist" => country.target \in Range(held[p].fields)
                      /\ torn = {} /\ Single(p) =>
                           Range(held[p].fields) \cap Range(KnownCodes) \subseteq {country.target}
    BY <1>1, <1>3 DEF Done, Single
  <2>1. CASE p \in country.done
    BY <2>1 DEF CountryInv, Done
  <2>2. CASE p \notin country.done
    <3>1. p = work.part /\ ~no_known_code(work) /\ ~changed(work)
      BY <1>1, <1>3, <2>2
    <3>2. work.code = NoCode
      BY <3>1 DEF changed
    <3>3. p = "persist" /\ Range(held[p].fields) \cap Range(KnownCodes) = {}
      BY <1>2, <3>1, <3>2 DEF no_known_code, Found
    <3> QED
      BY <3>3
  <2> QED
    BY <2>1, <2>2
<1>8. Promised'
  BY <1>1, <1>3, StillPromised
<1> QED
  BY <1>4, <1>5, <1>6, <1>7, <1>8 DEF CountryInv

\* The written partition holds the target, and nothing else if it held one code.
LEMMA WrittenCarriesTheTarget ==
  ASSUME CountryInv, country.staged # <<>>, NEW work, work = Head(country.staged),
         ~no_known_code(work), changed(work), country.target # NoCode
  PROVE  /\ country.target \in Range(Patched(work).fields)
         /\ Uniform(work.dump.fields) => Range(Patched(work).fields) \subseteq {country.target}
<1>1. work \in Staged /\ work.dump \in Held /\ Found(work) /\ work.part \in Parts
  BY FirstWork
<1>2. work.code # NoCode
  BY DEF changed, no_known_code, Patched
<1>3. /\ Patched(work) \in Held /\ Len(Patched(work).fields) = Len(work.dump.fields)
      /\ \A i \in 1..Len(work.dump.fields) :
           Patched(work).fields[i] = IF work.dump.fields[i] = work.code THEN country.target
                                     ELSE work.dump.fields[i]
  BY <1>1, PatchedIsHeld DEF CountryInv
<1>4. /\ Range(work.dump.fields) = {work.dump.fields[i] : i \in 1..Len(work.dump.fields)}
      /\ Range(Patched(work).fields) =
           {Patched(work).fields[i] : i \in 1..Len(work.dump.fields)}
  <2>1. work.dump.fields \in Seq(Codes) /\ Patched(work).fields \in Seq(Codes)
    BY <1>1, <1>3 DEF Held
  <2> QED
    BY <1>3, <2>1, SeqRange
<1>5. PICK i \in 1..Len(work.dump.fields) : work.dump.fields[i] = work.code
  BY <1>1, <1>2, <1>4 DEF Found
<1>6. country.target \in Range(Patched(work).fields)
  BY <1>3, <1>4, <1>5
<1>7. ASSUME Uniform(work.dump.fields)
      PROVE  Range(Patched(work).fields) \subseteq {country.target}
  <2>1. \A j \in 1..Len(work.dump.fields) : work.dump.fields[j] = work.code
    BY <1>4, <1>5, <1>7 DEF Uniform
  <2> QED
    BY <1>3, <1>4, <2>1
<1> QED
  BY <1>6, <1>7

\* A patch makes no two codes of one.
LEMMA PatchIsUniform ==
  ASSUME CountryInv, country.staged # <<>>, NEW work, work = Head(country.staged),
         Uniform(work.dump.fields)
  PROVE  Uniform(Patched(work).fields)
<1>1. work \in Staged /\ work.dump \in Held /\ Found(work)
  BY FirstWork
<1>2. /\ Patched(work) \in Held /\ Len(Patched(work).fields) = Len(work.dump.fields)
      /\ \A i \in 1..Len(work.dump.fields) :
           Patched(work).fields[i] = IF work.dump.fields[i] = work.code THEN country.target
                                     ELSE work.dump.fields[i]
  BY <1>1, PatchedIsHeld DEF CountryInv
<1>3. /\ Range(work.dump.fields) = {work.dump.fields[i] : i \in 1..Len(work.dump.fields)}
      /\ Range(Patched(work).fields) =
           {Patched(work).fields[i] : i \in 1..Len(work.dump.fields)}
  <2>1. work.dump.fields \in Seq(Codes) /\ Patched(work).fields \in Seq(Codes)
    BY <1>1, <1>2 DEF Held
  <2> QED
    BY <1>2, <2>1, SeqRange
<1>4. \A i, j \in 1..Len(work.dump.fields) : work.dump.fields[i] = work.dump.fields[j]
  BY <1>3 DEF Uniform
<1> QED
  BY <1>2, <1>3, <1>4 DEF Uniform

\* A partition that counts as missed: its write broke off, or the dump was not
\* patched at all.
LEMMA MissedWriteKeeps ==
  ASSUME CountryInv, NEW work, Working(work), country' = Missed(work),
         UNCHANGED <<disk, cells, slot, job, model, stock, backups>>,
         \/ UNCHANGED <<held, torn>>
         \/ /\ torn' = torn \cup {work.part}
            /\ \E new \in Held : held' = [held EXCEPT ![work.part] = new]
  PROVE  CountryInv'
<1>1. /\ work = Head(country.staged) /\ country.staged # <<>> /\ At("Country")
      /\ country.expected # <<>>
  BY DEF Working, Rewriting
<1>2. /\ work \in Staged /\ work.part \in Parts /\ work.part \notin country.done
      /\ Tail(country.staged) \in Seq(Staged) /\ country \in Country
      /\ held \in [Parts -> Held]
  BY <1>1, FirstWork DEF CountryInv, Types
<1>3. /\ country' \in Country
      /\ country'.staged = Tail(country.staged) /\ country'.todo = country.todo
      /\ country'.target = country.target /\ country'.expected = country.expected
      /\ country'.done = country.done
  <2>1. country' = [country EXCEPT !.staged = Tail(country.staged), !.failed = TRUE]
    BY DEF Missed
  <2> QED
    BY <1>2, <2>1 DEF Country
<1>4. /\ held' \in [Parts -> Held] /\ StockIsRecoverable'
      /\ \A p \in Parts : p # work.part => held'[p] = held[p]
  <2>1. CASE UNCHANGED <<held, torn>>
    BY <1>2, <2>1 DEF CountryInv, StockIsRecoverable
  <2>2. CASE \E new \in Held : held' = [held EXCEPT ![work.part] = new]
    BY <1>1, <2>2, WriteIsBackedUp
  <2> QED
    BY <2>1, <2>2
<1>5. Types'
  BY <1>3, <1>4 DEF CountryInv, Types, Shaped
<1>6. Lists' /\ Dumps'
  BY <1>1, <1>3, <1>4, OneLess
<1>7. torn' = {} => UNCHANGED <<held, torn>>
  OBVIOUS
<1>8. Kept'
  BY <1>7 DEF CountryInv, Kept, Single, Uniform
<1>9. Done'
  <2>1. \A p \in country.done : held'[p] = held[p]
    BY <1>2, <1>4 DEF Country
  <2>2. torn' = {} => torn = {}
    BY <1>7
  <2> QED
    BY <1>3, <2>1, <2>2 DEF CountryInv, Done, Single
<1>10. Promised'
  BY <1>1, <1>3, StillPromised
<1> QED
  BY <1>4, <1>5, <1>6, <1>8, <1>9, <1>10 DEF CountryInv

\* A write that goes through.
LEMMA WholeWriteKeeps ==
  ASSUME CountryInv, NEW work, Working(work), ~no_known_code(work), changed(work),
         held' = [held EXCEPT ![work.part] = Patched(work)],
         country' = Handled(work), UNCHANGED torn,
         UNCHANGED <<disk, cells, slot, job, model, stock, backups>>
  PROVE  CountryInv'
<1>1. /\ work = Head(country.staged) /\ country.staged # <<>> /\ At("Country")
      /\ country.expected # <<>>
  BY DEF Working, Rewriting
<1>2. /\ work \in Staged /\ work.part \in Parts /\ work.part \notin country.done
      /\ work.dump = held[work.part] /\ Found(work)
      /\ Tail(country.staged) \in Seq(Staged) /\ country \in Country
      /\ held \in [Parts -> Held]
  BY <1>1, FirstWork DEF CountryInv, Types
<1>3. /\ country' \in Country
      /\ country'.staged = Tail(country.staged) /\ country'.todo = country.todo
      /\ country'.target = country.target /\ country'.expected = country.expected
      /\ country'.done = country.done \cup {work.part}
  <2>1. country' = [country EXCEPT !.staged = Tail(country.staged),
                                   !.done = country.done \cup {work.part}]
    BY DEF Handled
  <2>2. country.done \cup {work.part} \in SUBSET Parts
    BY <1>2 DEF Country
  <2> QED
    BY <1>2, <2>1, <2>2 DEF Country
<1>4. /\ held' \in [Parts -> Held] /\ StockIsRecoverable'
      /\ held'[work.part] = Patched(work)
      /\ \A p \in Parts : p # work.part => held'[p] = held[p]
  <2>1. Patched(work) \in Held
    BY <1>2, PatchedIsHeld DEF CountryInv
  <2> QED
    BY <1>1, <2>1, WriteIsBackedUp
<1>5. Types'
  BY <1>3, <1>4 DEF CountryInv, Types, Shaped
<1>6. Lists' /\ Dumps'
  BY <1>1, <1>3, <1>4, OneLess
<1>7. Kept'
  <2> SUFFICES ASSUME torn = {}, NEW p \in Parts, Single(p) PROVE Uniform(held'[p].fields)
    BY DEF Kept, Single, Uniform
  <2>1. Uniform(held[p].fields)
    BY DEF CountryInv, Kept
  <2>2. CASE p = work.part
    BY <1>1, <1>2, <1>4, <2>1, <2>2, PatchIsUniform
  <2>3. CASE p # work.part
    BY <1>4, <2>1, <2>3
  <2> QED
    BY <2>2, <2>3
<1>8. Done'
  <2> SUFFICES ASSUME country.target # NoCode, NEW p \in country'.done
               PROVE  /\ p # "persist" => country.target \in Range(held'[p].fields)
                      /\ torn = {} /\ Single(p) =>
                           Range(held'[p].fields) \cap Range(KnownCodes) \subseteq {country.target}
    BY <1>3 DEF Done, Single
  <2>1. CASE p # work.part
    <3>1. p \in country.done /\ held'[p] = held[p]
      BY <1>2, <1>3, <1>4, <2>1 DEF Country
    <3> QED
      BY <3>1 DEF CountryInv, Done
  <2>2. CASE p = work.part
    <3>1. /\ country.target \in Range(Patched(work).fields)
          /\ Uniform(work.dump.fields) => Range(Patched(work).fields) \subseteq {country.target}
      BY <1>1, WrittenCarriesTheTarget
    <3>2. torn = {} /\ Single(p) => Uniform(work.dump.fields)
      BY <1>2, <2>2 DEF CountryInv, Kept
    <3> QED
      BY <1>4, <2>2, <3>1, <3>2
  <2> QED
    BY <2>1, <2>2
<1>9. Promised'
  BY <1>1, <1>3, StillPromised
<1> QED
  BY <1>4, <1>5, <1>6, <1>7, <1>8, <1>9 DEF CountryInv

\* What a write that breaks off leaves is a value the partition can hold.
LEMMA TornWriteIsHeld ==
  ASSUME CountryInv, NEW work, Working(work), NEW k \in 0..Len(work.dump.fields),
         held' = [held EXCEPT ![work.part] = TornAt(held[work.part], Patched(work), k)]
  PROVE  \E new \in Held : held' = [held EXCEPT ![work.part] = new]
<1>1. /\ work \in Staged /\ work.part \in Parts /\ work.dump = held[work.part]
      /\ work.dump \in Held /\ Found(work)
  BY FirstWork DEF Working
<1>2. Patched(work) \in Held /\ Len(Patched(work).fields) = Len(work.dump.fields)
  BY <1>1, PatchedIsHeld DEF CountryInv
<1>3. TornAt(held[work.part], Patched(work), k) \in Held
  BY <1>1, <1>2, TornIsHeld
<1> QED
  BY <1>3

LEMMA PatchAndFlashKeeps ==
  ASSUME CountryInv, PatchAndFlash
  PROVE  CountryInv'
<1>1. PICK work \in Range(country.staged) : LeavePartition(work) \/ WritePartition(work)
  BY DEF PatchAndFlash
<1>2. UNCHANGED <<disk, cells, slot, job, model, stock, backups>>
  BY DEF PatchAndFlash
<1>3. CASE LeavePartition(work)
  BY <1>2, <1>3, LeavePartitionKeeps
<1>4. CASE WritePartition(work)
  <2>1. Working(work) /\ ~no_known_code(work) /\ changed(work)
    BY <1>4 DEF WritePartition
  <2>2. CASE /\ held' = [held EXCEPT ![work.part] = Patched(work)]
             /\ country' = Handled(work) /\ UNCHANGED torn
    BY <1>2, <2>1, <2>2, WholeWriteKeeps
  <2>3. CASE /\ \E k \in 0..Len(work.dump.fields) :
                  held' = [held EXCEPT ![work.part] = TornAt(@, Patched(work), k)]
             /\ torn' = torn \cup {work.part} /\ country' = Missed(work)
    <3>1. \E new \in Held : held' = [held EXCEPT ![work.part] = new]
      BY <2>1, <2>3, TornWriteIsHeld
    <3> QED
      BY <1>2, <2>1, <2>3, <3>1, MissedWriteKeeps
  <2>4. CASE country' = Missed(work) /\ UNCHANGED <<held, torn>>
    BY <1>2, <2>1, <2>4, MissedWriteKeeps
  <2> QED
    BY <1>4, <2>2, <2>3, <2>4 DEF WritePartition
<1> QED
  BY <1>1, <1>3, <1>4

LEMMA FinishKeeps ==
  ASSUME CountryInv, Finish
  PROVE  CountryInv'
<1>1. CASE job.kind = "Country"
  <2>1. /\ job' = [job EXCEPT !.result = IF complete THEN "Ok" ELSE "Err"]
        /\ country' = country /\ UNCHANGED <<model, stock, held, torn, backups>>
        /\ country.expected # <<>>
    BY <1>1 DEF Finish, Rewriting
  <2>2. Types'
    BY <2>1 DEF CountryInv, Types, Shaped
  <2>3. job'.kind = "Country" /\ job'.result = IF complete THEN "Ok" ELSE "Err"
    BY <1>1, <2>1 DEF CountryInv, Types, Shaped
  <2>4. Lists' /\ Dumps' /\ Kept' /\ Done' /\ StockIsRecoverable'
    <3>1. Lists' /\ Dumps'
      BY <2>1 DEF CountryInv, Lists, StagedParts, Blank, Dumps, Found
    <3>2. Kept' /\ Done' /\ StockIsRecoverable'
      BY <2>1 DEF CountryInv, Kept, Done, Single, Uniform, StockIsRecoverable
    <3> QED
      BY <3>1, <3>2
  <2>5. Promised'
    BY <1>1, <2>1, <2>3 DEF CountryInv, Promised, complete
  <2> QED
    BY <2>2, <2>4, <2>5 DEF CountryInv
<1>2. CASE job.kind # "Country"
  <2>1. /\ Shaped' /\ job'.kind = job.kind /\ country' = NoCountry
        /\ UNCHANGED <<model, stock, held, torn, backups>>
    BY <1>2 DEF Finish, Advance, CountryInv, Types, Shaped
  <2>2. Types'
    BY <2>1, NoCountryIsTyped DEF CountryInv, Types
  <2>3. Blank'
    BY <2>1 DEF Blank, NoCountry
  <2>4. Kept' /\ StockIsRecoverable'
    BY <2>1 DEF CountryInv, Kept, Single, Uniform, StockIsRecoverable
  <2>5. Promised'
    BY <1>2, <2>1 DEF Promised, NoCountry
  <2> QED
    BY <2>2, <2>3, <2>4, <2>5, BlankRun, PTL
<1> QED
  BY <1>1, <1>2

LEMMA KilledKeeps ==
  ASSUME CountryInv, KilledInCountry
  PROVE  CountryInv'
<1>1. job' = NoJob /\ country' = NoCountry /\ UNCHANGED <<model, stock, backups>>
  BY DEF KilledInCountry, Killed
<1>2. Shaped' /\ job'.kind = "None"
  BY <1>1 DEF Shaped, NoJob
<1>3. held' \in [Parts -> Held] /\ StockIsRecoverable' /\ Kept'
  <2>1. CASE UNCHANGED <<held, torn>>
    BY <1>1, <2>1 DEF CountryInv, Types, Kept, Single, Uniform, StockIsRecoverable
  <2>2. CASE ~UNCHANGED <<held, torn>>
    <3> DEFINE work == Head(country.staged)
    <3>1. /\ Working(work)
          /\ \E k \in 0..Len(work.dump.fields) :
               held' = [held EXCEPT ![work.part] = TornAt(@, Patched(work), k)]
          /\ torn' = torn \cup {work.part}
      BY <2>2 DEF KilledInCountry, Working
    <3>2. PICK new \in Held : held' = [held EXCEPT ![work.part] = new]
      BY <3>1, TornWriteIsHeld
    <3>3. held' \in [Parts -> Held] /\ StockIsRecoverable'
      BY <1>1, <3>1, <3>2, WriteIsBackedUp DEF Working
    <3>4. Kept'
      BY <3>1 DEF Kept
    <3> QED
      BY <3>3, <3>4
  <2> QED
    BY <2>1, <2>2
<1>4. Types'
  BY <1>1, <1>2, <1>3, NoCountryIsTyped DEF CountryInv, Types
<1>5. Blank'
  BY <1>1 DEF Blank, NoCountry
<1>6. Promised'
  BY <1>1, <1>2 DEF Promised, NoCountry
<1> QED
  BY <1>3, <1>4, <1>5, <1>6, BlankRun, PTL

LEMMA CountryStep ==
  CountryInv /\ [Next]_vars => CountryInv'
<1> SUFFICES ASSUME CountryInv, [Next]_vars PROVE CountryInv'
  OBVIOUS
<1>1. CASE StartFull
  BY <1>1, StartFullKeeps
<1>2. CASE StartCountry
  BY <1>2, StartCountryKeeps
<1>3. CASE EnterForCountry
  BY <1>3, EnterKeeps
<1>4. CASE FlashStep /\ job.kind # "Country" /\ UNCHANGED countryVars
  BY <1>4, FlashStepKeeps
<1>5. CASE Begin
  BY <1>5, BeginKeeps
<1>6. CASE DumpAndSave
  BY <1>6, DumpAndSaveKeeps
<1>7. CASE PatchAndFlash
  BY <1>7, PatchAndFlashKeeps
<1>8. CASE Finish
  BY <1>8, FinishKeeps
<1>9. CASE KilledInCountry
  BY <1>9, KilledKeeps
<1>10. CASE UNCHANGED vars
  <2>1. Shaped' /\ job' = job /\ UNCHANGED countryVars
    BY <1>10 DEF vars, firmwareVars, CountryInv, Types, Shaped
  <2> QED
    BY <2>1, RestKeeps
<1> QED
  BY <1>1, <1>2, <1>3, <1>4, <1>5, <1>6, <1>7, <1>8, <1>9, <1>10 DEF Next

-----------------------------------------------------------------------------
(* The theorems.                                                           *)

\* The inductive invariant holds in every reachable state: each country partition is
\* in at most one of the worker's lists, a dump that waits is what the partition
\* holds and is saved, what is done carries the target (run_country_change,
\* CountryPatchProgress).
THEOREM CountryInvariance == Spec => []CountryInv
<1>1. Init => CountryInv
  BY InitCountry
<1>2. CountryInv /\ [Next]_vars => CountryInv'
  BY CountryStep
<1> QED
  BY <1>1, <1>2, PTL DEF Spec

\* Whatever runs, failures and kills there were, a country partition that is not as it
\* was has its first contents in a backup: the dump is saved before the patch, and a
\* retry that dumps a torn partition only adds to the backups.
THEOREM CountryIsRecoverable == Spec => []StockIsRecoverable
<1>1. CountryInv => StockIsRecoverable
  BY DEF CountryInv
<1> QED
  BY <1>1, CountryInvariance, PTL

\* A change that reports success left the target in every partition that has to carry
\* a code, and no other known code where there was only one.
THEOREM ReportedCountryIsSet == Spec => []OkMeansCountry
<1>1. CountryInv => OkMeansCountry
  <2> SUFFICES ASSUME CountryInv, job.result = "Ok", job.kind = "Country"
               PROVE  LET expected == Range(country_partitions_for(model))
                          Left(p)  == Range(held[p].fields)
                      IN  /\ \A p \in expected \ {"persist"} : country.target \in Left(p)
                          /\ torn = {} /\ (\A p \in expected : Cardinality(Range(stock[p].fields)) <= 1)
                               => \A p \in expected : Left(p) \cap Range(KnownCodes) \subseteq {country.target}
    BY DEF OkMeansCountry
  <2>1. /\ country.target # NoCode /\ complete
        /\ country.expected = country_partitions_for(model)
    BY DEF CountryInv, Promised
  <2>2. Range(country_partitions_for(model)) \subseteq country.done
    BY <2>1 DEF complete
  <2> QED
    BY <2>1, <2>2 DEF CountryInv, Done, Single
<1> QED
  BY <1>1, CountryInvariance, PTL

-----------------------------------------------------------------------------
(* The firmware folder and what is flashed of it.                          *)

AllImages(f) == Shipped[f].images \cup Shipped[f].packed

\* An image is whole or not there: it takes its name when it is whole.  What was
\* shipped stays.
FoldersKeep ==
  \A f \in Folders :
    /\ disk[f].xmls \subseteq AllXmls(f) /\ Shipped[f].xmls \subseteq disk[f].xmls
    /\ \A i \in Images : /\ disk[f].images[i] \in {"Absent", "Whole"}
                         /\ i \in Shipped[f].images => disk[f].images[i] = "Whole"

\* A worker is only in stages of its own.
FirmwareTypes ==
  /\ disk \in [Folders -> Files] /\ cells \in [Images -> Cell] /\ slot \in {"a", "b"} /\ job \in Job
  /\ job.kind = "Simple" => job.stage # "Country"
  /\ job.kind = "Country" => job.stage \in {"Enter", "Country"}

\* The stages that a flash has passed.
Decrypted == {"Loader", "Select", "Enter", "Preflight", "Program", "Patches", "Country", "Slot", "Reset"}
             \cup (IF job.kind = "Simple" THEN {"Unpack"} ELSE {})
Unpacked  == {"Loader", "Select", "Enter", "Preflight", "Program", "Patches", "Country", "Slot", "Reset"}
             \cup (IF job.kind = "Simple" THEN {} ELSE {"Decrypt"})
Selected  == {"Preflight", "Program", "Patches", "Country", "Slot", "Reset"}
             \cup (IF job.kind = "Simple" THEN {"Enter"} ELSE {})
Begun     == {"Program", "Patches", "Country", "Slot", "Reset"}
Flashed   == {"Patches", "Country", "Slot", "Reset"}

Flashing == job.kind \in Flashes /\ job.result # "Err"

Prepared ==
  /\ job.stage \in Decrypted => here.xmls = AllXmls(job.folder)
  /\ job.stage \in Unpacked  => \A i \in Shipped[job.folder].packed : here.images[i] = "Whole"
  /\ job.stage \in Selected  => /\ job.raws = collect_firmware_xmls(AllXmls(job.folder))
                                /\ validate_dp_filename_usage(job.raws)
  /\ job.stage \in Begun     => \A n \in Programs(Nodes(job.raws)) :
                                   n.label \in SplitSuper => here.images[n.label] = "Whole"

\* What an erase node of the selection names may be erased after it was written.
Rubbed == {n.label : n \in Nodes(job.raws) \ Programs(Nodes(job.raws))}
\* The node at a place has been flashed, where there is an image for it.
Written(p) ==
  LET n == NodeAt(p) IN
  n.tag = "program" /\ n.label \in AllImages(job.folder) \ Rubbed => cells[n.label] = job.folder

\* Nothing is flashed before the wipe is through, and what is no longer in the plan
\* is on the device.
Walked ==
  /\ job.stage = "Program" =>
       /\ job.wipe \subseteq collect_wipe_erase_plan(job.raws)
       /\ job.plan \subseteq skip_keep_data(job.raws)
       /\ job.wipe # {} => job.plan = skip_keep_data(job.raws)
       /\ \A p \in skip_keep_data(job.raws) \ job.plan : Written(p)
  /\ job.stage \in Flashed => \A p \in skip_keep_data(job.raws) : Written(p)
  /\ job.stage = "Reset" => slot = "a"

FirmwareInv ==
  /\ FirmwareTypes /\ FoldersKeep
  /\ Flashing => Prepared /\ Walked
  /\ job.result = "Ok" => job.stage = "Reset" \/ job.kind = "Country"

-----------------------------------------------------------------------------
(* Orders and places.                                                      *)

LEMMA Afters ==
  /\ After(SimpleOrder, "Decrypt") = "Unpack" /\ After(SimpleOrder, "Unpack") = "Loader"
  /\ After(SimpleOrder, "Loader") = "Select" /\ After(SimpleOrder, "Select") = "Enter"
  /\ After(SimpleOrder, "Enter") = "Preflight" /\ After(SimpleOrder, "Preflight") = "Program"
  /\ After(SimpleOrder, "Program") = "Patches" /\ After(SimpleOrder, "Patches") = "Slot"
  /\ After(SimpleOrder, "Slot") = "Reset"
  /\ After(FullOrder, "Unpack") = "Decrypt" /\ After(FullOrder, "Decrypt") = "Loader"
  /\ After(FullOrder, "Loader") = "Enter" /\ After(FullOrder, "Enter") = "Select"
  /\ After(FullOrder, "Select") = "Preflight" /\ After(FullOrder, "Preflight") = "Program"
  /\ After(FullOrder, "Program") = "Patches" /\ After(FullOrder, "Patches") = "Country"
  /\ After(FullOrder, "Country") = "Slot" /\ After(FullOrder, "Slot") = "Reset"
<1>1. /\ After(SimpleOrder, "Decrypt") = "Unpack" /\ After(SimpleOrder, "Unpack") = "Loader"
      /\ After(SimpleOrder, "Loader") = "Select" /\ After(SimpleOrder, "Select") = "Enter"
      /\ After(SimpleOrder, "Enter") = "Preflight" /\ After(SimpleOrder, "Preflight") = "Program"
      /\ After(SimpleOrder, "Program") = "Patches" /\ After(SimpleOrder, "Patches") = "Slot"
      /\ After(SimpleOrder, "Slot") = "Reset"
  <2>1. /\ Len(SimpleOrder) = 10
        /\ SimpleOrder[1] = "Decrypt" /\ SimpleOrder[2] = "Unpack" /\ SimpleOrder[3] = "Loader"
        /\ SimpleOrder[4] = "Select" /\ SimpleOrder[5] = "Enter" /\ SimpleOrder[6] = "Preflight"
        /\ SimpleOrder[7] = "Program" /\ SimpleOrder[8] = "Patches" /\ SimpleOrder[9] = "Slot"
        /\ SimpleOrder[10] = "Reset"
    BY DEF SimpleOrder
  <2>2. \A i \in 1..9 : i \in {1, 2, 3, 4, 5, 6, 7, 8, 9}
    OBVIOUS
  <2>3. ASSUME NEW k \in 1..9
        PROVE  (CHOOSE i \in 1..(Len(SimpleOrder) - 1) : SimpleOrder[i] = SimpleOrder[k]) = k
    BY <2>1, <2>2
  <2>4. \A k \in 1..9 : After(SimpleOrder, SimpleOrder[k]) = SimpleOrder[k + 1]
    BY <2>3 DEF After
  <2> QED
    BY <2>1, <2>4
<1>2. /\ After(FullOrder, "Unpack") = "Decrypt" /\ After(FullOrder, "Decrypt") = "Loader"
      /\ After(FullOrder, "Loader") = "Enter" /\ After(FullOrder, "Enter") = "Select"
      /\ After(FullOrder, "Select") = "Preflight" /\ After(FullOrder, "Preflight") = "Program"
      /\ After(FullOrder, "Program") = "Patches" /\ After(FullOrder, "Patches") = "Country"
      /\ After(FullOrder, "Country") = "Slot" /\ After(FullOrder, "Slot") = "Reset"
  <2>1. /\ Len(FullOrder) = 11
        /\ FullOrder[1] = "Unpack" /\ FullOrder[2] = "Decrypt" /\ FullOrder[3] = "Loader"
        /\ FullOrder[4] = "Enter" /\ FullOrder[5] = "Select" /\ FullOrder[6] = "Preflight"
        /\ FullOrder[7] = "Program" /\ FullOrder[8] = "Patches" /\ FullOrder[9] = "Country"
        /\ FullOrder[10] = "Slot" /\ FullOrder[11] = "Reset"
    BY DEF FullOrder
  <2>2. \A i \in 1..10 : i \in {1, 2, 3, 4, 5, 6, 7, 8, 9, 10}
    OBVIOUS
  <2>3. ASSUME NEW k \in 1..10
        PROVE  (CHOOSE i \in 1..(Len(FullOrder) - 1) : FullOrder[i] = FullOrder[k]) = k
    BY <2>1, <2>2
  <2>4. \A k \in 1..10 : After(FullOrder, FullOrder[k]) = FullOrder[k + 1]
    BY <2>3 DEF After
  <2> QED
    BY <2>1, <2>4
<1> QED
  BY <1>1, <1>2

\* The stage after one that a flash may leave.
NextStage(kind, stage) ==
  CASE stage = "Decrypt"   -> IF kind = "Simple" THEN "Unpack" ELSE "Loader"
    [] stage = "Unpack"    -> IF kind = "Simple" THEN "Loader" ELSE "Decrypt"
    [] stage = "Loader"    -> IF kind = "Simple" THEN "Select" ELSE "Enter"
    [] stage = "Select"    -> IF kind = "Simple" THEN "Enter" ELSE "Preflight"
    [] stage = "Enter"     -> IF kind = "Simple" THEN "Preflight" ELSE "Select"
    [] stage = "Preflight" -> "Program"
    [] stage = "Program"   -> "Patches"
    [] stage = "Patches"   -> IF kind = "Simple" THEN "Slot" ELSE "Country"
    [] stage = "Country"   -> "Slot"
    [] stage = "Slot"      -> "Reset"

LEMMA Orders ==
  ASSUME NEW kind, NEW stage \in Stages \ {"Reset"}, kind = "Simple" => stage # "Country"
  PROVE  /\ After(Order(kind), stage) = NextStage(kind, stage)
         /\ NextStage(kind, stage) \in Stages
         /\ kind = "Simple" => NextStage(kind, stage) # "Country"
<1>1. CASE kind = "Simple"
  <2>1. Order(kind) = SimpleOrder
    BY <1>1 DEF Order
  <2> QED
    BY <1>1, <2>1, Afters DEF NextStage, Stages
<1>2. CASE kind # "Simple"
  <2>1. Order(kind) = FullOrder
    BY <1>2 DEF Order
  <2> QED
    BY <1>2, <2>1, Afters DEF NextStage, Stages
<1> QED
  BY <1>1, <1>2

LEMMA SelectionNames ==
  ASSUME NEW xmls
  PROVE  /\ collect_firmware_xmls(xmls) \subseteq xmls \ Skipped
         /\ collect_firmware_xmls(xmls) \subseteq XmlNames
         /\ \A x \in collect_firmware_xmls(xmls) : \E k \in DOMAIN ByName : x = ByName[k]
<1>1. \A x \in select_one(Persist, xmls) : x \in xmls /\ \E k \in DOMAIN Persist : x = Persist[k]
  BY DEF select_one
<1>2. \A x \in select_one(Devinfo, xmls) : x \in xmls /\ \E k \in DOMAIN Devinfo : x = Devinfo[k]
  BY DEF select_one
<1>3. \A k \in DOMAIN Persist : Persist[k] \in {"SavePersistOta", "SavePersist", "Half", "Unsparse0", "WritePersist"}
  BY DEF Persist
<1>4. \A k \in DOMAIN Devinfo : Devinfo[k] \in {"Rawprogram4", "Unsparse4", "WriteDevinfo"}
  BY DEF Devinfo
<1>5. \A x \in collect_firmware_xmls(xmls) :
        /\ x \in xmls
        /\ x \in {"Other", "Rawprogram0", "SavePersistOta", "SavePersist", "Half", "Unsparse0", "WritePersist",
                  "Rawprogram4", "Unsparse4", "WriteDevinfo"}
  BY <1>1, <1>2, <1>3, <1>4 DEF collect_firmware_xmls
<1>6. \A x \in {"Other", "Rawprogram0", "SavePersistOta", "SavePersist", "Half", "Unsparse0", "WritePersist",
                "Rawprogram4", "Unsparse4", "WriteDevinfo"} :
        x \notin Skipped /\ \E k \in DOMAIN ByName : x = ByName[k]
  <2>1. /\ 1..10 = DOMAIN ByName
        /\ ByName[1] = "Rawprogram0" /\ ByName[2] = "Other" /\ ByName[3] = "Rawprogram4"
        /\ ByName[4] = "WriteDevinfo" /\ ByName[5] = "SavePersistOta" /\ ByName[6] = "SavePersist"
        /\ ByName[7] = "Half" /\ ByName[8] = "Unsparse0" /\ ByName[9] = "Unsparse4"
        /\ ByName[10] = "WritePersist"
    BY DEF ByName
  <2>2. {1, 2, 3, 4, 5, 6, 7, 8, 9, 10} \subseteq DOMAIN ByName
    BY <2>1
  <2> QED
    BY <2>1, <2>2 DEF Skipped
<1>7. \A x \in {"Other", "Rawprogram0", "SavePersistOta", "SavePersist", "Half", "Unsparse0", "WritePersist",
                "Rawprogram4", "Unsparse4", "WriteDevinfo"} : x \in XmlNames
  <2>1. /\ DOMAIN Persist = 1..5 /\ DOMAIN Devinfo = 1..3
        /\ Persist[1] = "SavePersistOta" /\ Persist[2] = "SavePersist" /\ Persist[3] = "Half"
        /\ Persist[4] = "Unsparse0" /\ Persist[5] = "WritePersist"
        /\ Devinfo[1] = "Rawprogram4" /\ Devinfo[2] = "Unsparse4" /\ Devinfo[3] = "WriteDevinfo"
    BY DEF Persist, Devinfo
  <2>2. {"SavePersistOta", "SavePersist", "Half", "Unsparse0", "WritePersist"} \subseteq Range(Persist)
    BY <2>1 DEF Range
  <2>3. {"Rawprogram4", "Unsparse4", "WriteDevinfo"} \subseteq Range(Devinfo)
    BY <2>1 DEF Range
  <2> QED
    BY <2>2, <2>3 DEF XmlNames
<1> QED
  BY <1>5, <1>6, <1>7

\* A place holds a node.
LEMMA PlacesHoldNodes ==
  ASSUME FirmwareTypes, NEW raws \in SUBSET XmlNames
  PROVE  /\ Places(raws) \subseteq Place
         /\ \A p \in Places(raws) : NodeAt(p) \in Node /\ NodeAt(p) \in Nodes(raws)
         /\ \A k \in DOMAIN ByName, i \in Nat :
              <<k, i>> \in Places(raws) <=> ByName[k] \in raws /\ i \in DOMAIN Shipped[job.folder].nodes[ByName[k]]
<1>1. \A p : p \in Places(raws) <=>
        \E k \in DOMAIN ByName : /\ ByName[k] \in raws
                                 /\ \E i \in DOMAIN Shipped[job.folder].nodes[ByName[k]] : p = <<k, i>>
  BY DEF Places
<1>2. \A x \in raws : Shipped[job.folder].nodes[x] \in Seq(Node)
  BY FirmwareAssumption DEF FirmwareTypes, Job, Content
<1>3. ASSUME NEW k \in DOMAIN ByName, ByName[k] \in raws, NEW i \in DOMAIN Shipped[job.folder].nodes[ByName[k]]
      PROVE  /\ <<k, i>> \in Place
             /\ NodeAt(<<k, i>>) \in Node
  <2>1. PICK s \in Seq(Node) : s = Shipped[job.folder].nodes[ByName[k]]
    BY <1>2, <1>3
  <2>2. i \in DOMAIN s
    BY <1>3, <2>1
  <2>3. i \in Nat /\ s[i] \in Node
    BY <2>2
  <2> QED
    BY <2>1, <2>3 DEF Place, NodeAt
<1> QED
  BY <1>1, <1>3 DEF Nodes

-----------------------------------------------------------------------------
(* What a step leaves as it was.                                           *)

SameRun == job'.folder = job.folder /\ job'.kind = job.kind /\ job'.raws = job.raws

LEMMA SameNodes ==
  ASSUME SameRun
  PROVE  /\ Places(job.raws)' = Places(job.raws) /\ Nodes(job.raws)' = Nodes(job.raws)
         /\ \A p : NodeAt(p)' = NodeAt(p)
         /\ skip_keep_data(job.raws)' = skip_keep_data(job.raws)
         /\ collect_wipe_erase_plan(job.raws)' = collect_wipe_erase_plan(job.raws)
         /\ Rubbed' = Rubbed /\ Programs(Nodes(job.raws))' = Programs(Nodes(job.raws))
         /\ validate_dp_filename_usage(job.raws)' <=> validate_dp_filename_usage(job.raws)
         /\ Decrypted' = Decrypted /\ Unpacked' = Unpacked /\ Selected' = Selected
<1>1. /\ Places(job.raws)' = Places(job.raws) /\ \A p : NodeAt(p)' = NodeAt(p)
  BY DEF SameRun, Places, NodeAt
<1>2. Nodes(job.raws)' = Nodes(job.raws)
  BY <1>1 DEF Nodes
<1>3. Programs(Nodes(job.raws))' = Programs(Nodes(job.raws))
  BY <1>2 DEF Programs
<1>4. skip_keep_data(job.raws)' = skip_keep_data(job.raws)
  BY <1>1 DEF skip_keep_data, SameRun
<1>5. collect_wipe_erase_plan(job.raws)' = collect_wipe_erase_plan(job.raws)
  BY <1>1 DEF collect_wipe_erase_plan, SameRun
<1> QED
  BY <1>1, <1>2, <1>3, <1>4, <1>5 DEF SameRun, Rubbed, validate_dp_filename_usage, Decrypted, Unpacked, Selected

LEMMA StillWritten ==
  ASSUME SameRun, cells' = cells, NEW p
  PROVE  Written(p)' <=> Written(p)
BY SameNodes DEF Written, SameRun, AllImages

\* The record of a worker that goes on, or gives up.
LEMMA JobSteps ==
  ASSUME FirmwareTypes
  PROVE  /\ \A s \in Stages : LET j == [job EXCEPT !.stage = s] IN
              j \in Job /\ j.stage = s /\ j.folder = job.folder /\ j.kind = job.kind
              /\ j.raws = job.raws /\ j.wipe = job.wipe /\ j.plan = job.plan /\ j.result = job.result
         /\ \A r \in {"None", "Ok", "Err"} : LET j == [job EXCEPT !.result = r] IN
              j \in Job /\ j.stage = job.stage /\ j.folder = job.folder /\ j.kind = job.kind
              /\ j.raws = job.raws /\ j.wipe = job.wipe /\ j.plan = job.plan /\ j.result = r
         /\ \A u \in SUBSET Images : LET j == [job EXCEPT !.unpack = u] IN
              j \in Job /\ j.stage = job.stage /\ j.folder = job.folder /\ j.kind = job.kind
              /\ j.raws = job.raws /\ j.wipe = job.wipe /\ j.plan = job.plan /\ j.result = job.result
BY DEF FirmwareTypes, Job

\* A run that ended badly promises nothing.
LEMMA GaveUp ==
  ASSUME FirmwareInv, Fails, FoldersKeep', disk' \in [Folders -> Files], cells' \in [Images -> Cell],
         slot' \in {"a", "b"}
  PROVE  FirmwareInv'
<1>1. job' \in Job /\ job'.stage = job.stage /\ job'.kind = job.kind /\ job'.result = "Err"
  BY JobSteps DEF Fails, FirmwareInv
<1> QED
  BY <1>1 DEF FirmwareInv, FirmwareTypes, Flashing

LEMMA Frame ==
  ASSUME FirmwareInv, disk' = disk
  PROVE  FoldersKeep' /\ disk' \in [Folders -> Files]
BY DEF FirmwareInv, FoldersKeep, FirmwareTypes, AllXmls

\* A stage that leaves folder and device alone hands over to the next.
LEMMA PassesOn ==
  ASSUME FirmwareInv, job.kind \in Flashes, job.result = "None",
         job.stage \in {"Loader", "Enter", "Patches", "Country"},
         Advance(job), UNCHANGED <<disk, cells, slot>>
  PROVE  FirmwareInv'
<1>1. /\ job.stage \in Stages \ {"Reset"} /\ (job.kind = "Simple" => job.stage # "Country")
      /\ FirmwareTypes
  BY DEF FirmwareInv, FirmwareTypes, Job
<1>2. /\ job' \in Job /\ job'.stage = NextStage(job.kind, job.stage) /\ job'.kind = job.kind
      /\ job'.plan = job.plan /\ job'.wipe = job.wipe /\ job'.result = "None" /\ SameRun
      /\ (job.kind = "Simple" => job'.stage # "Country")
  BY <1>1, Orders, JobSteps DEF Advance, SameRun
<1>3. FirmwareTypes'
  BY <1>1, <1>2 DEF FirmwareTypes, Flashes
<1>4. FoldersKeep'
  BY Frame
<1>5. Prepared'
  <2>1. here' = here /\ AllXmls(job'.folder) = AllXmls(job.folder) /\ Prepared
    BY <1>2 DEF here, SameRun, FirmwareInv, Flashing
  <2>2. /\ job'.stage \in Decrypted => job.stage \in Decrypted
        /\ job'.stage \in Unpacked => job.stage \in Unpacked
        /\ job'.stage \in Selected => job.stage \in Selected
        /\ job'.stage \in Begun => job.stage \in Begun
    BY <1>2 DEF NextStage, Decrypted, Unpacked, Selected, Begun
  <2> QED
    BY <1>2, <2>1, <2>2, SameNodes DEF Prepared, SameRun
<1>6. Walked'
  BY <1>2, SameNodes, StillWritten DEF FirmwareInv, Flashing, Walked, NextStage, Flashed
<1> QED
  BY <1>2, <1>3, <1>4, <1>5, <1>6 DEF FirmwareInv

LEMMA RequireLoaderKeeps ==
  ASSUME FirmwareInv, RequireLoader, job.kind # "Country"
  PROVE  FirmwareInv'
<1>1. job.kind \in Flashes /\ job.result = "None" /\ job.stage = "Loader"
  BY DEF RequireLoader, At, FirmwareInv, FirmwareTypes, Job
<1>2. cells' \in [Images -> Cell] /\ slot' \in {"a", "b"}
  BY DEF RequireLoader, FirmwareInv, FirmwareTypes
<1> QED
  BY <1>1, <1>2, PassesOn, GaveUp, Frame DEF RequireLoader

LEMMA EnterEdlKeeps ==
  ASSUME FirmwareInv, EnterEdl, job.kind # "Country"
  PROVE  FirmwareInv'
<1>1. job.kind \in Flashes /\ job.result = "None" /\ job.stage = "Enter"
  BY DEF EnterEdl, At, FirmwareInv, FirmwareTypes, Job
<1>2. cells' \in [Images -> Cell] /\ slot' \in {"a", "b"}
  BY DEF EnterEdl, FirmwareInv, FirmwareTypes
<1> QED
  BY <1>1, <1>2, PassesOn, GaveUp, Frame DEF EnterEdl

LEMMA ApplyPatchesKeeps ==
  ASSUME FirmwareInv, ApplyPatches, job.kind # "Country"
  PROVE  FirmwareInv'
<1>1. job.kind \in Flashes /\ job.result = "None" /\ job.stage = "Patches"
  BY DEF ApplyPatches, At, FirmwareInv, FirmwareTypes, Job
<1>2. cells' \in [Images -> Cell] /\ slot' \in {"a", "b"}
  BY DEF ApplyPatches, FirmwareInv, FirmwareTypes
<1> QED
  BY <1>1, <1>2, PassesOn, GaveUp, Frame DEF ApplyPatches

-----------------------------------------------------------------------------
(* The folder.                                                             *)

LEMMA DecryptKeeps ==
  ASSUME FirmwareInv, Decrypt, job.kind # "Country"
  PROVE  FirmwareInv'
<1>1. /\ job.kind \in Flashes /\ job.result = "None" /\ job.stage = "Decrypt" /\ job.folder \in Folders
      /\ UNCHANGED <<cells, slot>>
  BY DEF Decrypt, At, FirmwareInv, FirmwareTypes, Job
<1>2. cells' \in [Images -> Cell] /\ slot' \in {"a", "b"} /\ FirmwareTypes
  BY <1>1 DEF FirmwareInv, FirmwareTypes
<1>3. Shipped[job.folder] \in Content
  BY <1>1, FirmwareAssumption
<1>4. ASSUME NEW opened \in SUBSET Shipped[job.folder].sealed,
             disk' = [disk EXCEPT ![job.folder].xmls = @ \cup opened]
      PROVE  /\ disk' \in [Folders -> Files] /\ FoldersKeep'
             /\ here.images = disk'[job.folder].images
             /\ disk'[job.folder].xmls = here.xmls \cup opened
  <2>1. disk \in [Folders -> Files] /\ opened \subseteq XmlNames
    BY <1>3 DEF FirmwareInv, FirmwareTypes, Content
  <2>2. PICK g : g = [disk[job.folder] EXCEPT !.xmls = @ \cup opened]
    OBVIOUS
  <2>3. /\ g \in Files /\ g.xmls = disk[job.folder].xmls \cup opened
        /\ g.images = disk[job.folder].images
    BY <1>1, <2>1, <2>2 DEF Files
  <2>4. disk' = [disk EXCEPT ![job.folder] = g]
    BY <1>4, <2>2
  <2>5. disk' \in [Folders -> Files] /\ disk'[job.folder] = g
        /\ \A f \in Folders \ {job.folder} : disk'[f] = disk[f]
    BY <1>1, <2>1, <2>3, <2>4
  <2>6. FoldersKeep'
    <3> SUFFICES ASSUME NEW f \in Folders
                 PROVE  /\ disk'[f].xmls \subseteq AllXmls(f) /\ Shipped[f].xmls \subseteq disk'[f].xmls
                        /\ \A i \in Images :
                             /\ disk'[f].images[i] \in {"Absent", "Whole"}
                             /\ i \in Shipped[f].images => disk'[f].images[i] = "Whole"
      BY DEF FoldersKeep, AllXmls
    <3> QED
      BY <2>3, <2>5 DEF FirmwareInv, FoldersKeep, AllXmls
  <2> QED
    BY <2>3, <2>5, <2>6 DEF here
<1>5. CASE Fails
  <2>1. PICK opened \in SUBSET Shipped[job.folder].sealed :
          disk' = [disk EXCEPT ![job.folder].xmls = @ \cup opened]
    BY DEF Decrypt
  <2> QED
    BY <1>2, <1>4, <1>5, <2>1, GaveUp
<1>6. CASE /\ disk' = [disk EXCEPT ![job.folder].xmls = @ \cup Shipped[job.folder].sealed]
           /\ Advance(job)
  <2>1. /\ disk' \in [Folders -> Files] /\ FoldersKeep' /\ here.images = disk'[job.folder].images
        /\ disk'[job.folder].xmls = here.xmls \cup Shipped[job.folder].sealed
    BY <1>4, <1>6
  <2>2. /\ job' \in Job /\ job'.stage = NextStage(job.kind, "Decrypt") /\ job'.result = "None" /\ SameRun
    BY <1>1, <1>2, <1>6, Orders, JobSteps DEF Advance, SameRun, Stages
  <2>3. disk'[job.folder].xmls = AllXmls(job.folder)
    BY <1>1, <2>1 DEF FirmwareInv, FoldersKeep, AllXmls, here
  <2>4. FirmwareTypes'
    BY <1>1, <1>2, <2>1, <2>2 DEF FirmwareTypes, SameRun, NextStage, Flashes
  <2>5. Prepared'
    BY <1>1, <2>1, <2>2, <2>3 DEF FirmwareInv, Flashing, Prepared, SameRun, NextStage, Decrypted, Unpacked,
       Selected, Begun, AllXmls, here
  <2>6. Walked'
    BY <2>2 DEF Walked, NextStage, Flashed
  <2> QED
    BY <2>1, <2>2, <2>4, <2>5, <2>6 DEF FirmwareInv
<1> QED
  BY <1>5, <1>6 DEF Decrypt

\* Unpacking only adds whole images.
LEMMA UnpackKeeps ==
  ASSUME FirmwareInv, job.kind # "Country", At("Unpack"), UNCHANGED <<cells, slot>>,
         NEW g \in Files, disk' = [disk EXCEPT ![job.folder] = g], g.xmls = here.xmls,
         \A i \in Images : g.images[i] \in {here.images[i], "Whole"},
         job' \in Job, job'.stage = "Unpack", SameRun, job'.result \in {"None", "Err"}
  PROVE  FirmwareInv'
<1>1. /\ job.kind \in Flashes /\ job.result = "None" /\ job.stage = "Unpack" /\ job.folder \in Folders
  BY DEF At, FirmwareInv, FirmwareTypes, Job
<1>2. cells' \in [Images -> Cell] /\ slot' \in {"a", "b"} /\ disk \in [Folders -> Files]
  BY <1>1 DEF FirmwareInv, FirmwareTypes
<1>3. disk' \in [Folders -> Files] /\ disk'[job.folder] = g
      /\ \A f \in Folders \ {job.folder} : disk'[f] = disk[f]
  BY <1>1, <1>2
<1>4. FoldersKeep'
  <2> SUFFICES ASSUME NEW f \in Folders
               PROVE  /\ disk'[f].xmls \subseteq AllXmls(f) /\ Shipped[f].xmls \subseteq disk'[f].xmls
                      /\ \A i \in Images :
                           /\ disk'[f].images[i] \in {"Absent", "Whole"}
                           /\ i \in Shipped[f].images => disk'[f].images[i] = "Whole"
    BY DEF FoldersKeep, AllXmls
  <2>1. /\ disk[f].xmls \subseteq AllXmls(f) /\ Shipped[f].xmls \subseteq disk[f].xmls
        /\ \A i \in Images :
             /\ disk[f].images[i] \in {"Absent", "Whole"}
             /\ i \in Shipped[f].images => disk[f].images[i] = "Whole"
    BY DEF FirmwareInv, FoldersKeep
  <2>2. CASE f # job.folder
    BY <1>3, <2>1, <2>2
  <2>3. CASE f = job.folder
    <3>1. \A i \in Images : g.images[i] \in {disk[f].images[i], "Whole"}
      BY <2>3 DEF here
    <3> QED
      BY <1>3, <2>1, <2>3, <3>1 DEF here
  <2> QED
    BY <2>2, <2>3
<1>5. FirmwareTypes'
  BY <1>1, <1>2, <1>3 DEF FirmwareTypes, SameRun, Flashes
<1>6. Prepared' /\ Walked'
  BY <1>1, <1>3 DEF FirmwareInv, Flashing, Prepared, Walked, Decrypted, Unpacked, Selected, Begun, Flashed,
     SameRun, here, AllXmls
<1> QED
  BY <1>4, <1>5, <1>6 DEF FirmwareInv

LEMMA DecompressKeeps ==
  ASSUME FirmwareInv, DecompressOpens \/ DecompressPublishes \/ DecompressFails, job.kind # "Country"
  PROVE  FirmwareInv'
<1>1. /\ At("Unpack") /\ job.folder \in Folders /\ FirmwareTypes /\ UNCHANGED <<cells, slot>>
      /\ job.result = "None" /\ job.stage = "Unpack" /\ job.unpack \subseteq Images
  BY DEF DecompressOpens, DecompressPublishes, DecompressFails, At, FirmwareInv, FirmwareTypes, Job
<1>2. disk[job.folder] \in Files /\ Shipped[job.folder] \in Content /\ disk \in [Folders -> Files]
  BY <1>1, FirmwareAssumption DEF FirmwareTypes
<1>3. ASSUME NEW temps \in SUBSET Images, NEW g, g = [disk[job.folder] EXCEPT !.temps = temps]
      PROVE  g \in Files /\ g.xmls = here.xmls /\ g.images = here.images
  BY <1>2, <1>3 DEF Files, here
<1>4. CASE DecompressOpens
  <2>1. PICK i \in Images :
          /\ disk' = [disk EXCEPT ![job.folder].temps = @ \cup {i}] /\ job' = [job EXCEPT !.unpack = {i}]
    BY <1>2, <1>4 DEF DecompressOpens, ToUnpack, Content
  <2>2. PICK g : g = [disk[job.folder] EXCEPT !.temps = @ \cup {i}]
    OBVIOUS
  <2>3. g \in Files /\ g.xmls = here.xmls /\ g.images = here.images
    <3>1. disk[job.folder].temps \cup {i} \in SUBSET Images
      BY <1>2 DEF Files
    <3> QED
      BY <1>3, <2>2, <3>1
  <2>4. disk' = [disk EXCEPT ![job.folder] = g]
    BY <2>1, <2>2
  <2>5. job' \in Job /\ job'.stage = "Unpack" /\ SameRun /\ job'.result = "None"
    BY <1>1, <2>1, JobSteps DEF SameRun
  <2> QED
    BY <1>1, <2>3, <2>4, <2>5, UnpackKeeps
<1>5. CASE DecompressPublishes
  <2>1. PICK i \in job.unpack :
          disk' = [disk EXCEPT ![job.folder].temps = @ \ {i}, ![job.folder].images[i] = "Whole"]
    BY <1>5 DEF DecompressPublishes
  <2>2. PICK h : h = [disk[job.folder] EXCEPT !.temps = @ \ {i}]
    OBVIOUS
  <2>3. h \in Files /\ h.xmls = here.xmls /\ h.images = here.images
    <3>1. disk[job.folder].temps \ {i} \in SUBSET Images
      BY <1>2 DEF Files
    <3> QED
      BY <1>3, <2>2, <3>1
  <2>4. PICK g : g = [h EXCEPT !.images[i] = "Whole"]
    OBVIOUS
  <2>5. g \in Files /\ g.xmls = here.xmls /\ \A k \in Images : g.images[k] \in {here.images[k], "Whole"}
    BY <1>1, <2>3, <2>4 DEF Files
  <2>6. disk' = [disk EXCEPT ![job.folder] = g]
    BY <1>1, <1>2, <2>1, <2>2, <2>4
  <2>7. job' \in Job /\ job'.stage = "Unpack" /\ SameRun /\ job'.result = "None"
    BY <1>1, <1>5, JobSteps DEF SameRun, DecompressPublishes
  <2> QED
    BY <1>1, <2>5, <2>6, <2>7, UnpackKeeps
<1>6. CASE DecompressFails
  <2>1. disk' = [disk EXCEPT ![job.folder].temps = @ \ job.unpack] /\ job' = [job EXCEPT !.result = "Err"]
    BY <1>6 DEF DecompressFails, Fails
  <2>2. PICK g : g = [disk[job.folder] EXCEPT !.temps = @ \ job.unpack]
    OBVIOUS
  <2>3. g \in Files /\ g.xmls = here.xmls /\ g.images = here.images
    <3>1. disk[job.folder].temps \ job.unpack \in SUBSET Images
      BY <1>2 DEF Files
    <3> QED
      BY <1>3, <2>2, <3>1
  <2>4. disk' = [disk EXCEPT ![job.folder] = g]
    BY <2>1, <2>2
  <2>5. job' \in Job /\ job'.stage = "Unpack" /\ SameRun /\ job'.result = "Err"
    BY <1>1, <2>1, JobSteps DEF SameRun
  <2> QED
    BY <1>1, <2>3, <2>4, <2>5, UnpackKeeps
<1> QED
  BY <1>4, <1>5, <1>6

LEMMA UnpackEndsKeeps ==
  ASSUME FirmwareInv, UnpackEnds, job.kind # "Country"
  PROVE  FirmwareInv'
<1>1. /\ job.kind \in Flashes /\ job.result = "None" /\ job.stage = "Unpack" /\ job.folder \in Folders
      /\ UNCHANGED <<disk, cells, slot>> /\ FirmwareTypes /\ Advance(job)
  BY DEF UnpackEnds, At, FirmwareInv, FirmwareTypes, Job
<1>2. /\ job' \in Job /\ job'.stage = NextStage(job.kind, "Unpack") /\ job'.result = "None" /\ SameRun
  BY <1>1, Orders, JobSteps DEF Advance, SameRun, Stages
<1>3. \A i \in Shipped[job.folder].packed : here.images[i] = "Whole"
  <2>1. Shipped[job.folder].packed \subseteq Images
    BY <1>1, FirmwareAssumption DEF Content
  <2> QED
    BY <1>1, <2>1 DEF UnpackEnds, ToUnpack, FirmwareInv, FoldersKeep, here
<1>4. FirmwareTypes'
  BY <1>1, <1>2 DEF FirmwareTypes, SameRun, NextStage, Flashes
<1>5. Prepared' /\ Walked'
  BY <1>1, <1>2, <1>3 DEF FirmwareInv, Flashing, Prepared, Walked, SameRun, NextStage, Decrypted, Unpacked,
     Selected, Begun, Flashed, AllXmls, here
<1> QED
  BY <1>1, <1>2, <1>4, <1>5, Frame DEF FirmwareInv

LEMMA SelectXmlsKeeps ==
  ASSUME FirmwareInv, SelectXmls, job.kind # "Country"
  PROVE  FirmwareInv'
<1>1. /\ job.kind \in Flashes /\ job.result = "None" /\ job.stage = "Select" /\ job.folder \in Folders
      /\ UNCHANGED <<disk, cells, slot>> /\ FirmwareTypes
  BY DEF SelectXmls, At, FirmwareInv, FirmwareTypes, Job
<1>2. cells' \in [Images -> Cell] /\ slot' \in {"a", "b"}
  BY <1>1 DEF FirmwareTypes
<1>3. CASE Fails
  BY <1>1, <1>2, <1>3, Frame, GaveUp
<1>4. CASE ~Fails
  <2> DEFINE raws == collect_firmware_xmls(here.xmls)
             chosen == [job EXCEPT !.raws = raws]
  <2>1. validate_dp_filename_usage(raws) /\ Advance(chosen)
    BY <1>4 DEF SelectXmls
  <2>2. raws \subseteq XmlNames /\ here.xmls = AllXmls(job.folder)
    BY <1>1, SelectionNames DEF FirmwareInv, Flashing, Prepared, Decrypted
  <2>3. NextStage(job.kind, "Select") \in Stages /\ After(Order(job.kind), job.stage) = NextStage(job.kind, "Select")
    BY <1>1, Orders DEF Stages
  <2>4. /\ job' \in Job /\ job'.stage = NextStage(job.kind, "Select") /\ job'.result = "None"
        /\ job'.raws = raws /\ job'.kind = job.kind /\ job'.folder = job.folder
    <3>1. job' = [chosen EXCEPT !.stage = NextStage(job.kind, "Select")]
      BY <2>1, <2>3 DEF Advance
    <3>2. chosen \in Job /\ chosen.raws = raws /\ chosen.kind = job.kind /\ chosen.folder = job.folder
          /\ chosen.result = "None"
      BY <1>1, <2>2 DEF FirmwareTypes, Job
    <3> HIDE DEF chosen
    <3> QED
      BY <3>1, <3>2, <2>3 DEF Job
  <2>5. FirmwareTypes'
    BY <1>1, <1>2, <2>4 DEF FirmwareTypes, NextStage, Flashes
  <2>6. validate_dp_filename_usage(job.raws)'
    <3> HIDE DEF raws
    <3>1. Nodes(job.raws)' = Nodes(raws)
      BY <2>4 DEF Nodes, Places, NodeAt
    <3> QED
      BY <2>1, <3>1 DEF validate_dp_filename_usage, Programs
  <2>7. job'.raws = collect_firmware_xmls(AllXmls(job'.folder))
    BY <2>2, <2>4
  <2>8. Prepared'
    BY <1>1, <2>2, <2>4, <2>6, <2>7 DEF FirmwareInv, Flashing, Prepared, NextStage, Decrypted, Unpacked,
       Selected, Begun, AllXmls, here
  <2>9. Walked'
    BY <2>4 DEF Walked, NextStage, Flashed
  <2> QED
    BY <1>1, <2>4, <2>5, <2>8, <2>9, Frame DEF FirmwareInv
<1> QED
  BY <1>3, <1>4

-----------------------------------------------------------------------------
(* The device.                                                             *)

LEMMA PreflightKeeps ==
  ASSUME FirmwareInv, Preflight, job.kind # "Country"
  PROVE  FirmwareInv'
<1>1. /\ job.kind \in Flashes /\ job.result = "None" /\ job.stage = "Preflight" /\ job.folder \in Folders
      /\ UNCHANGED <<disk, cells, slot>> /\ FirmwareTypes /\ job.raws \subseteq XmlNames
  BY DEF Preflight, At, FirmwareInv, FirmwareTypes, Job
<1>2. cells' \in [Images -> Cell] /\ slot' \in {"a", "b"}
  BY <1>1 DEF FirmwareTypes
<1>3. CASE Fails
  BY <1>1, <1>2, <1>3, Frame, GaveUp
<1>4. CASE ~Fails
  <2> DEFINE wipe == collect_wipe_erase_plan(job.raws)
             plan == skip_keep_data(job.raws)
             next == [job EXCEPT !.wipe = wipe, !.plan = plan]
  <2>1. /\ Advance(next)
        /\ \A n \in Programs(Nodes(job.raws)) : n.label \in SplitSuper => here.images[n.label] # "Absent"
    BY <1>4 DEF Preflight, Planned
  <2>2. wipe \subseteq Place /\ plan \subseteq Place
    BY <1>1, PlacesHoldNodes DEF collect_wipe_erase_plan, skip_keep_data
  <2>3. After(Order(job.kind), job.stage) = "Program"
    <3>1. job.stage \in Stages \ {"Reset"} /\ job.stage # "Country"
      BY <1>1 DEF Stages
    <3>2. NextStage(job.kind, "Preflight") = "Program"
      BY DEF NextStage
    <3> QED
      BY <1>1, <3>1, <3>2, Orders
  <2>4. /\ job' \in Job /\ job'.stage = "Program" /\ job'.result = "None" /\ SameRun
        /\ job'.wipe = wipe /\ job'.plan = plan
    <3>1. job' = [next EXCEPT !.stage = "Program"]
      BY <2>1, <2>3 DEF Advance
    <3>2. next \in Job /\ next.raws = job.raws /\ next.kind = job.kind /\ next.folder = job.folder
          /\ next.result = "None" /\ next.wipe = wipe /\ next.plan = plan
      <4> HIDE DEF wipe, plan
      <4> QED
        BY <1>1, <2>2 DEF FirmwareTypes, Job
    <3> HIDE DEF next
    <3> QED
      BY <3>1, <3>2 DEF Job, Stages, SameRun
  <2>5. FirmwareTypes'
    BY <1>1, <1>2, <2>4 DEF FirmwareTypes, SameRun, Flashes
  <2>6. \A n \in Programs(Nodes(job.raws)) : n.label \in SplitSuper => here.images[n.label] = "Whole"
    <3>1. \A n \in Nodes(job.raws) : n.label \in Images
      BY <1>1, PlacesHoldNodes DEF Nodes, Node
    <3> QED
      BY <1>1, <2>1, <3>1 DEF Programs, FirmwareInv, FoldersKeep, here
  <2>7. Prepared'
    <3>1. here' = here /\ AllXmls(job'.folder) = AllXmls(job.folder) /\ Prepared
      BY <1>1, <2>4 DEF here, SameRun, FirmwareInv, Flashing
    <3>2. job.stage \in Decrypted /\ job.stage \in Unpacked /\ job.stage \in Selected
      BY <1>1 DEF Decrypted, Unpacked, Selected
    <3> QED
      BY <2>4, <2>6, <3>1, <3>2, SameNodes DEF Prepared, SameRun
  <2>8. Walked'
    <3> HIDE DEF next
    <3> QED
      BY <2>4, SameNodes DEF Walked, Flashed
  <2> QED
    BY <1>1, <2>4, <2>5, <2>7, <2>8, Frame DEF FirmwareInv
<1> QED
  BY <1>3, <1>4

\* What a run in the stage of the flash knows.
LEMMA WhileFlashing ==
  ASSUME FirmwareInv, At("Program"), job.kind # "Country"
  PROVE  /\ job.kind \in Flashes /\ job.result = "None" /\ job.stage = "Program" /\ job.folder \in Folders
         /\ FirmwareTypes /\ job.raws \subseteq XmlNames /\ Prepared /\ Walked
         /\ job.wipe \subseteq Places(job.raws) /\ job.plan \subseteq Places(job.raws)
         /\ \A p \in Places(job.raws) : NodeAt(p) \in Node /\ NodeAt(p) \in Nodes(job.raws)
         /\ job.stage \in Decrypted /\ job.stage \in Unpacked /\ job.stage \in Selected /\ job.stage \in Begun
<1>1. /\ job.kind \in Flashes /\ job.result = "None" /\ job.stage = "Program" /\ job.folder \in Folders
      /\ FirmwareTypes /\ job.raws \subseteq XmlNames
  BY DEF At, FirmwareInv, FirmwareTypes, Job
<1>2. Prepared /\ Walked
  BY <1>1 DEF FirmwareInv, Flashing
<1> QED
  BY <1>1, <1>2, PlacesHoldNodes DEF Walked, Decrypted, Unpacked, Selected, Begun, collect_wipe_erase_plan,
     skip_keep_data

\* The worker goes on in its stage.
LEMMA StillPrepared ==
  ASSUME FirmwareInv, At("Program"), job.kind # "Country", SameRun, disk' = disk,
         job'.stage \in Begun
  PROVE  Prepared'
<1>1. here' = here /\ AllXmls(job'.folder) = AllXmls(job.folder) /\ Prepared
  BY WhileFlashing DEF here, SameRun
<1>2. job.stage \in Decrypted /\ job.stage \in Unpacked /\ job.stage \in Selected /\ job.stage \in Begun
  BY WhileFlashing
<1> QED
  BY <1>1, <1>2, SameNodes DEF Prepared, SameRun

LEMMA PreEraseKeeps ==
  ASSUME FirmwareInv, pre_erase_wipe_labels, job.kind # "Country"
  PROVE  FirmwareInv'
<1>1. At("Program") /\ UNCHANGED <<disk, slot>>
  BY DEF pre_erase_wipe_labels
<1>2. PICK p \in job.wipe : Writes(NodeAt(p).label, "Erased", [job EXCEPT !.wipe = @ \ {p}])
  BY DEF pre_erase_wipe_labels
<1>3. cells' \in [Images -> Cell] /\ slot' \in {"a", "b"} /\ disk' \in [Folders -> Files] /\ FoldersKeep'
  BY <1>1, <1>2, WhileFlashing, Frame DEF Writes, FirmwareTypes, Cell
<1>4. CASE Fails
  BY <1>3, <1>4, GaveUp
<1>5. CASE job' = [job EXCEPT !.wipe = @ \ {p}]
  <2>1. /\ job' \in Job /\ job'.stage = "Program" /\ job'.result = "None" /\ SameRun
        /\ job'.wipe = job.wipe \ {p} /\ job'.plan = job.plan
    BY <1>1, <1>5, WhileFlashing DEF FirmwareTypes, Job, SameRun
  <2>2. Prepared'
    BY <1>1, <2>1, StillPrepared DEF Begun
  <2>3. Walked'
    BY <1>1, <1>2, <2>1, WhileFlashing, SameNodes DEF Walked, Flashed
  <2>4. FirmwareTypes'
    BY <1>1, <1>3, <2>1, WhileFlashing DEF FirmwareTypes, SameRun, Flashes
  <2> QED
    BY <1>3, <2>1, <2>2, <2>3, <2>4 DEF FirmwareInv
<1> QED
  BY <1>2, <1>4, <1>5 DEF Writes

LEMMA FlashNodeKeeps ==
  ASSUME FirmwareInv, FlashNode, job.kind # "Country"
  PROVE  FirmwareInv'
<1>1. At("Program") /\ UNCHANGED <<disk, slot>> /\ job.wipe = {}
  BY DEF FlashNode
<1>2. PICK p \in job.plan :
        LET n == NodeAt(p)
            next == [job EXCEPT !.plan = @ \ {p}]
        IN  \/ ~n.coords /\ Fails /\ Calm /\ UNCHANGED cells
            \/ n.coords /\ Missing(n) /\ job' = next /\ Calm /\ UNCHANGED cells
            \/ n.coords /\ ~Missing(n) /\ Writes(n.label, ImageOf(n), next)
  BY DEF FlashNode
<1> DEFINE n == NodeAt(p)
<1>3. n \in Node /\ n \in Nodes(job.raws) /\ n.label \in Images /\ n.tag \in {"program", "erase"}
  BY <1>1, WhileFlashing DEF Node
<1>4. ImageOf(n) \in Cell
  BY <1>1, WhileFlashing DEF ImageOf, Cell
<1>5. cells' \in [Images -> Cell] /\ slot' \in {"a", "b"} /\ disk' \in [Folders -> Files] /\ FoldersKeep'
  <2>1. cells \in [Images -> Cell] /\ slot \in {"a", "b"} /\ "Torn" \in Cell
    BY <1>1, WhileFlashing DEF FirmwareTypes, Cell
  <2>2. cells' \in [Images -> Cell]
    BY <1>2, <1>4, <2>1 DEF Writes
  <2> QED
    BY <1>1, <2>1, <2>2, Frame
<1>6. CASE Fails
  BY <1>5, <1>6, GaveUp
<1>7. CASE /\ job' = [job EXCEPT !.plan = @ \ {p}]
           /\ (Missing(n) /\ cells' = cells) \/ (~Missing(n) /\ cells' = [cells EXCEPT ![n.label] = ImageOf(n)])
  <2>1. /\ job' \in Job /\ job'.stage = "Program" /\ job'.result = "None" /\ SameRun
        /\ job'.plan = job.plan \ {p} /\ job'.wipe = {}
    BY <1>1, <1>7, WhileFlashing DEF FirmwareTypes, Job, SameRun
  <2>2. Prepared'
    BY <1>1, <2>1, StillPrepared DEF Begun
  <2>3. FirmwareTypes'
    BY <1>1, <1>5, <2>1, WhileFlashing DEF FirmwareTypes, SameRun, Flashes
  <2>4. \A i \in AllImages(job.folder) \cap Images : here.images[i] = "Whole"
    BY <1>1, WhileFlashing DEF Prepared, AllImages, FirmwareInv, FoldersKeep, here
  <2>5. ASSUME NEW q \in skip_keep_data(job.raws) \ job'.plan
        PROVE  Written(q)'
    <3>1. q = p \/ Written(q)
      BY <1>1, <2>1, WhileFlashing DEF Walked
    <3> DEFINE m == NodeAt(q)
    <3>2. NodeAt(q)' = m /\ Rubbed' = Rubbed /\ job'.folder = job.folder
      BY <2>1, SameNodes DEF SameRun
    <3>3. SUFFICES ASSUME m.tag = "program", m.label \in AllImages(job.folder) \ Rubbed
                   PROVE  cells'[m.label] = job.folder
      BY <3>2 DEF Written, AllImages
    <3>4. m.label \in Images
      BY <1>1, WhileFlashing DEF skip_keep_data, Node
    <3>5. here.images[m.label] = "Whole"
      BY <2>4, <3>3, <3>4
    <3>6. CASE n.label # m.label
      <4>1. cells[m.label] = job.folder
        BY <3>1, <3>3, <3>6 DEF Written
      <4>2. cells \in [Images -> Cell]
        BY <1>1, WhileFlashing DEF FirmwareTypes
      <4> HIDE DEF n, m
      <4> QED
        BY <1>7, <3>4, <3>6, <4>1, <4>2
    <3>7. CASE n.label = m.label
      <4>1. n.tag = "program"
        BY <1>3, <3>3, <3>7 DEF Rubbed, Programs
      <4>2. ~Missing(n) /\ ImageOf(n) = job.folder
        BY <3>5, <3>7, <4>1 DEF Missing, ImageOf
      <4> HIDE DEF n, m
      <4> QED
        BY <1>1, <1>7, <3>4, <3>7, <4>2, WhileFlashing DEF FirmwareTypes
    <3> QED
      BY <3>6, <3>7
  <2>6. Walked'
    BY <1>1, <2>1, <2>5, WhileFlashing, SameNodes DEF Walked, Flashed
  <2> QED
    BY <1>5, <2>1, <2>2, <2>3, <2>6 DEF FirmwareInv
<1> QED
  <2> DEFINE next == [job EXCEPT !.plan = @ \ {p}]
  <2> HIDE DEF n, next
  <2>1. \/ Fails
        \/ Missing(n) /\ job' = next /\ cells' = cells
        \/ ~Missing(n) /\ job' = next /\ cells' = [cells EXCEPT ![n.label] = ImageOf(n)]
    BY <1>2 DEF Writes, n, next
  <2> QED
    BY <1>6, <1>7, <2>1 DEF next

LEMMA ProgramEndsKeeps ==
  ASSUME FirmwareInv, ProgramEnds, job.kind # "Country"
  PROVE  FirmwareInv'
<1>1. At("Program") /\ UNCHANGED <<disk, cells, slot>> /\ job.plan = {} /\ Advance(job)
  BY DEF ProgramEnds
<1>2. /\ job' \in Job /\ job'.stage = "Patches" /\ job'.result = "None" /\ SameRun
  <2>1. job.stage \in Stages \ {"Reset"} /\ job.stage # "Country" /\ "Patches" \in Stages
    BY <1>1, WhileFlashing DEF Stages
  <2>2. NextStage(job.kind, "Program") = "Patches"
    BY DEF NextStage
  <2>3. job' = [job EXCEPT !.stage = "Patches"]
    BY <1>1, <2>1, <2>2, WhileFlashing, Orders DEF Advance
  <2> QED
    BY <1>1, <2>1, <2>3, WhileFlashing, JobSteps DEF SameRun
<1>3. Prepared'
  BY <1>1, <1>2, StillPrepared DEF Begun
<1>4. Walked'
  BY <1>1, <1>2, WhileFlashing, SameNodes, StillWritten DEF Walked, Flashed
<1>5. FirmwareTypes'
  BY <1>1, <1>2, WhileFlashing DEF FirmwareTypes, SameRun, Flashes
<1> QED
  BY <1>1, <1>2, <1>3, <1>4, <1>5, Frame DEF FirmwareInv

LEMMA SlotKeeps ==
  ASSUME FirmwareInv, set_active_slot_a, job.kind # "Country"
  PROVE  FirmwareInv'
<1>1. /\ job.kind \in Flashes /\ job.result = "None" /\ job.stage = "Slot" /\ job.folder \in Folders
      /\ UNCHANGED <<disk, cells>> /\ FirmwareTypes
  BY DEF set_active_slot_a, At, FirmwareInv, FirmwareTypes, Job
<1>2. cells' \in [Images -> Cell] /\ slot' \in {"a", "b"}
  BY <1>1 DEF FirmwareTypes, set_active_slot_a
<1>3. CASE Fails
  BY <1>1, <1>2, <1>3, Frame, GaveUp
<1>4. CASE slot' = "a" /\ Advance(job)
  <2>1. /\ job' \in Job /\ job'.stage = "Reset" /\ job'.result = "None" /\ SameRun
    <3>1. job.stage \in Stages \ {"Reset"} /\ job.stage # "Country" /\ "Reset" \in Stages
      BY <1>1 DEF Stages
    <3>2. NextStage(job.kind, "Slot") = "Reset"
      BY DEF NextStage
    <3>3. job' = [job EXCEPT !.stage = "Reset"]
      BY <1>1, <1>4, <3>1, <3>2, Orders DEF Advance
    <3> QED
      BY <1>1, <3>1, <3>3, JobSteps DEF SameRun
  <2>2. Prepared'
    <3>1. here' = here /\ AllXmls(job'.folder) = AllXmls(job.folder) /\ Prepared
      BY <1>1, <2>1 DEF here, SameRun, FirmwareInv, Flashing
    <3>2. job.stage \in Decrypted /\ job.stage \in Unpacked /\ job.stage \in Selected /\ job.stage \in Begun
      BY <1>1 DEF Decrypted, Unpacked, Selected, Begun
    <3> QED
      BY <2>1, <3>1, <3>2, SameNodes DEF Prepared, SameRun
  <2>3. Walked'
    BY <1>1, <1>4, <2>1, SameNodes, StillWritten DEF FirmwareInv, Flashing, Walked, Flashed
  <2>4. FirmwareTypes'
    BY <1>1, <1>2, <2>1 DEF FirmwareTypes, SameRun, Flashes
  <2> QED
    BY <1>1, <2>1, <2>2, <2>3, <2>4, Frame DEF FirmwareInv
<1> QED
  BY <1>3, <1>4 DEF set_active_slot_a

LEMMA ResetKeeps ==
  ASSUME FirmwareInv, ResetToSystem, job.kind # "Country"
  PROVE  FirmwareInv'
<1>1. /\ job.kind \in Flashes /\ job.result = "None" /\ job.stage = "Reset" /\ job.folder \in Folders
      /\ UNCHANGED <<disk, cells, slot>> /\ FirmwareTypes
  BY DEF ResetToSystem, At, FirmwareInv, FirmwareTypes, Job
<1>2. /\ job' \in Job /\ job'.stage = "Reset" /\ job'.result = "Ok" /\ SameRun
  BY <1>1, JobSteps DEF ResetToSystem, SameRun
<1>3. Prepared'
  <2>1. here' = here /\ AllXmls(job'.folder) = AllXmls(job.folder) /\ Prepared
    BY <1>1, <1>2 DEF here, SameRun, FirmwareInv, Flashing
  <2> QED
    BY <1>1, <1>2, <2>1, SameNodes DEF Prepared, SameRun
<1>4. Walked'
  BY <1>1, <1>2, SameNodes, StillWritten DEF FirmwareInv, Flashing, Walked, Flashed
<1>5. FirmwareTypes'
  BY <1>1, <1>2 DEF FirmwareTypes, SameRun, Flashes
<1> QED
  BY <1>1, <1>2, <1>3, <1>4, <1>5, Frame DEF FirmwareInv

LEMMA FlashStepFirmware ==
  ASSUME FirmwareInv, FlashStep, job.kind # "Country"
  PROVE  FirmwareInv'
BY DecryptKeeps, DecompressKeeps, UnpackEndsKeeps, RequireLoaderKeeps, SelectXmlsKeeps, EnterEdlKeeps,
   PreflightKeeps, PreEraseKeeps, FlashNodeKeeps, ProgramEndsKeeps, ApplyPatchesKeeps, SlotKeeps, ResetKeeps
DEF FlashStep

-----------------------------------------------------------------------------
(* The country change beside it, starts and kills.                         *)

LEMMA StartFlashFirmware ==
  ASSUME FirmwareInv, StartFlash
  PROVE  FirmwareInv'
<1>1. PICK kind \in Flashes, folder \in Folders :
        job' = [NoJob EXCEPT !.kind = kind, !.folder = folder, !.stage = Head(Order(kind))]
  BY DEF StartFlash
<1>2. UNCHANGED <<disk, cells, slot>>
  BY DEF StartFlash
<1>3. Head(Order(kind)) = IF kind = "Simple" THEN "Decrypt" ELSE "Unpack"
  BY DEF Order, SimpleOrder, FullOrder
<1>4. NoJob \in Job /\ NoJob.result = "None"
  BY <1>1 DEF NoJob, Job, Stages
<1>5. job' \in Job /\ job'.kind = kind /\ job'.stage = Head(Order(kind)) /\ job'.result = "None"
  BY <1>1, <1>3, <1>4 DEF Job, Stages
<1>6. FirmwareTypes'
  BY <1>2, <1>3, <1>5 DEF FirmwareInv, FirmwareTypes, Flashes
<1>7. Prepared' /\ Walked'
  BY <1>3, <1>5 DEF Prepared, Walked, Decrypted, Unpacked, Selected, Begun, Flashed
<1> QED
  BY <1>2, <1>5, <1>6, <1>7, Frame DEF FirmwareInv

LEMMA NoFlashRuns ==
  ASSUME FirmwareInv, job' \in Job, job'.kind \in {"None", "Country"}, UNCHANGED <<disk, slot>>,
         cells' \in [Images -> Cell], job'.kind = "Country" => job'.stage \in {"Enter", "Country"},
         job'.kind = "None" => job'.result # "Ok"
  PROVE  FirmwareInv'
<1>1. FirmwareTypes'
  BY Frame DEF FirmwareInv, FirmwareTypes
<1> QED
  BY <1>1, Frame DEF FirmwareInv, Flashing, Flashes

LEMMA CountryStepsFirmware ==
  ASSUME FirmwareInv, job.kind = "Country" => country.target # NoCode,
         StartCountry \/ EnterForCountry \/ Begin \/ DumpAndSave \/ PatchAndFlash \/ Finish
  PROVE  FirmwareInv'
<1>1. UNCHANGED <<disk, cells, slot>> /\ FirmwareTypes /\ job \in Job /\ cells' \in [Images -> Cell]
  BY DEF StartCountry, EnterForCountry, Begin, DumpAndSave, PatchAndFlash, Finish, FirmwareInv, FirmwareTypes
<1>2. CASE StartCountry
  <2>1. PICK folder \in Folders :
          job' = [NoJob EXCEPT !.kind = "Country", !.folder = folder, !.stage = "Enter"]
    BY <1>2 DEF StartCountry
  <2>2. NoJob \in Job
    BY <2>1 DEF NoJob, Job, Stages
  <2>3. job' \in Job /\ job'.kind = "Country" /\ job'.stage = "Enter"
    BY <2>1, <2>2 DEF Job, Stages
  <2> QED
    BY <1>1, <2>3, NoFlashRuns
<1>3. CASE EnterForCountry
  <2>1. job.kind = "Country" /\ (job' = [job EXCEPT !.stage = "Country"] \/ job' = [job EXCEPT !.result = "Err"])
    BY <1>3 DEF EnterForCountry, Fails
  <2>2. job' \in Job /\ job'.kind = "Country" /\ job'.stage \in {"Enter", "Country"}
    <3>1. job.stage \in {"Enter", "Country"} /\ "Country" \in Stages /\ "Err" \in {"None", "Ok", "Err"}
      BY <1>1, <2>1 DEF FirmwareTypes, Stages
    <3> QED
      BY <1>1, <2>1, <3>1, JobSteps
  <2> QED
    BY <1>1, <2>2, NoFlashRuns
<1>4. CASE DumpAndSave \/ PatchAndFlash \/ (Begin /\ job' = job)
  <2>1. job' = job
    BY <1>4 DEF DumpAndSave, PatchAndFlash
  <2>2. SameRun /\ here' = here
    BY <1>1, <2>1 DEF SameRun, here
  <2>3. Flashing /\ Prepared => Prepared'
    BY <2>1, <2>2, SameNodes DEF Prepared, Flashing, AllXmls
  <2>4. Walked => Walked'
    BY <1>1, <2>1, <2>2, SameNodes, StillWritten DEF Walked
  <2>5. FirmwareTypes'
    BY <1>1, <2>1 DEF FirmwareTypes
  <2> QED
    BY <1>1, <2>1, <2>3, <2>4, <2>5, Frame DEF FirmwareInv, Flashing
<1>5. CASE (Begin /\ job' # job) \/ Finish
  <2>1. job.kind # "None" /\ job.result = "None" /\ job.stage = "Country"
    BY <1>5 DEF Begin, Finish, Rewriting, At
  <2>2. CASE Advance(job) /\ job.kind # "Country"
    <3>1. job.kind \in Flashes
      BY <1>1, <2>1, <2>2 DEF Job
    <3> QED
      BY <1>1, <2>1, <2>2, <3>1, PassesOn
  <2>3. CASE job.kind = "Country" /\ job' = [job EXCEPT !.result = IF complete THEN "Ok" ELSE "Err"]
    <3>1. job' \in Job /\ job'.kind = "Country" /\ job'.stage = "Country"
      BY <1>1, <2>1, <2>3, JobSteps
    <3> QED
      BY <1>1, <3>1, NoFlashRuns
  <2> QED
    BY <1>5, <2>2, <2>3 DEF Begin, Finish, Wanted
<1> QED
  BY <1>2, <1>3, <1>4, <1>5

LEMMA KilledFirmware ==
  ASSUME FirmwareInv, Killed
  PROVE  FirmwareInv'
<1>1. job' = NoJob /\ UNCHANGED <<disk, slot>>
      /\ cells' \in {cells} \cup {[cells EXCEPT ![label] = "Torn"] : label \in UnderWay}
  BY DEF Killed
<1>2. cells' \in [Images -> Cell]
  BY <1>1 DEF FirmwareInv, FirmwareTypes, Cell
<1>3. job.folder \in Folders
  BY DEF FirmwareInv, FirmwareTypes, Job
<1>4. job' \in Job /\ job'.kind = "None" /\ job'.result = "None"
  BY <1>1, <1>3 DEF NoJob, Job, Stages
<1> QED
  BY <1>1, <1>2, <1>4, NoFlashRuns

LEMMA InitFirmware == FirmwareInit => FirmwareInv
<1> SUFFICES ASSUME FirmwareInit PROVE FirmwareInv
  OBVIOUS
<1>1. \A f \in Folders : Shipped[f] \in Content
  BY FirmwareAssumption
<1>2. ASSUME NEW f \in Folders
      PROVE  [xmls |-> Shipped[f].xmls, temps |-> {},
              images |-> [i \in Images |-> IF i \in Shipped[f].images THEN "Whole" ELSE "Absent"]] \in Files
  BY <1>1 DEF Files, Content
<1>3. disk \in [Folders -> Files]
  BY <1>2 DEF FirmwareInit
<1>4. FoldersKeep
  BY DEF FirmwareInit, FoldersKeep, AllXmls
<1>5. job \in Job /\ job.kind = "None" /\ job.result = "None"
  <2>1. (CHOOSE f \in Folders : TRUE) \in Folders
    BY FirmwareAssumption
  <2> QED
    BY <2>1 DEF FirmwareInit, NoJob, Job, Stages
<1>6. FirmwareTypes
  BY <1>3, <1>5 DEF FirmwareInit, FirmwareTypes, Cell
<1> QED
  BY <1>4, <1>5, <1>6 DEF FirmwareInv, Flashing, Flashes

LEMMA FirmwareStep ==
  CountryInv /\ FirmwareInv /\ [Next]_vars => FirmwareInv'
<1> SUFFICES ASSUME CountryInv, FirmwareInv, [Next]_vars PROVE FirmwareInv'
  OBVIOUS
<1>1. job.kind = "Country" => country.target # NoCode
  BY DEF CountryInv, Promised
<1>2. CASE UNCHANGED vars
  <2>1. UNCHANGED <<disk, cells, slot>> /\ job' = job
    BY <1>2 DEF vars, firmwareVars
  <2>2. SameRun /\ here' = here
    BY <2>1 DEF SameRun, here
  <2>3. Flashing /\ Prepared => Prepared'
    BY <2>1, <2>2, SameNodes DEF Prepared, Flashing, AllXmls
  <2>4. Walked => Walked'
    BY <2>1, <2>2, SameNodes, StillWritten DEF Walked
  <2>5. FirmwareTypes'
    BY <2>1 DEF FirmwareInv, FirmwareTypes
  <2> QED
    BY <2>1, <2>3, <2>4, <2>5, Frame DEF FirmwareInv, Flashing
<1> QED
  BY <1>1, <1>2, StartFlashFirmware, FlashStepFirmware, CountryStepsFirmware, KilledFirmware
  DEF Next, StartFull, KilledInCountry

-----------------------------------------------------------------------------
(* What a flash wrote, and what it left alone.                             *)

LEMMA WholeFlash ==
  ASSUME SelectionIsWhole, FirmwareInv
  PROVE  OkMeansFlashed
<1> SUFFICES ASSUME job.result = "Ok", job.kind \in Flashes
             PROVE  /\ slot = "a"
                    /\ LET there  == Shipped[job.folder]
                           named  == UNION {Range(there.nodes[x]) : x \in AllXmls(job.folder) \ Skipped}
                           erased == {n.label : n \in named \ Programs(named)}
                       IN  \A n \in Programs(named) :
                             /\ n.label \in there.images \cup there.packed
                             /\ n.label \notin erased \cup {"persist", "devinfo"}
                             /\ ~Guarded(n.label)
                             => cells[n.label] = job.folder
  BY DEF OkMeansFlashed
<1> DEFINE there == Shipped[job.folder]
           named == UNION {Range(there.nodes[x]) : x \in AllXmls(job.folder) \ Skipped}
           erased == {n.label : n \in named \ Programs(named)}
           raws == collect_firmware_xmls(AllXmls(job.folder))
<1>1. /\ job.stage = "Reset" /\ FirmwareTypes /\ Prepared /\ Walked /\ job.folder \in Folders
      /\ job.raws = raws /\ slot = "a" /\ job.raws \subseteq XmlNames
  BY DEF FirmwareInv, Flashing, Flashes, Prepared, Walked, Selected, FirmwareTypes, Job
<1>2. \A p \in skip_keep_data(job.raws) : Written(p)
  BY <1>1 DEF Walked, Flashed
<1>3. ASSUME NEW y \in raws
      PROVE  /\ there.nodes[y] \in Seq(Node) /\ Range(there.nodes[y]) \subseteq named
             /\ \A m \in Range(there.nodes[y]) :
                  \E p \in Places(job.raws) : NodeAt(p) = m
  <2>1. PICK k \in DOMAIN ByName : y = ByName[k]
    BY SelectionNames
  <2>2. y \in XmlNames /\ y \in AllXmls(job.folder) \ Skipped
    BY SelectionNames
  <2>3. there.nodes[y] \in Seq(Node)
    BY <1>1, <2>2, FirmwareAssumption DEF Content
  <2>4. \A i \in DOMAIN there.nodes[y] : i \in Nat /\ <<k, i>> \in Places(job.raws) /\ NodeAt(<<k, i>>) = there.nodes[y][i]
    <3>1. \A i \in DOMAIN there.nodes[y] : i \in Nat
      BY <2>3
    <3> QED
      BY <1>1, <2>1, <3>1, PlacesHoldNodes DEF NodeAt
  <2>5. Range(there.nodes[y]) \subseteq named
    BY <2>2 DEF AllXmls
  <2>6. \A m \in Range(there.nodes[y]) : \E p \in Places(job.raws) : NodeAt(p) = m
    <3> SUFFICES ASSUME NEW i \in DOMAIN there.nodes[y]
                 PROVE  \E p \in Places(job.raws) : NodeAt(p) = there.nodes[y][i]
      BY DEF Range
    <3> HIDE DEF there
    <3> QED
      BY <2>4
  <2> QED
    BY <2>3, <2>5, <2>6
<1>4. \A m \in Nodes(job.raws) : m \in named
  <2> SUFFICES ASSUME NEW p \in Places(job.raws) PROVE NodeAt(p) \in named
    BY DEF Nodes
  <2>1. PICK k \in DOMAIN ByName : /\ ByName[k] \in job.raws
                                   /\ \E i \in DOMAIN there.nodes[ByName[k]] : p = <<k, i>>
    BY DEF Places
  <2>2. NodeAt(p) \in Range(there.nodes[ByName[k]])
    BY <2>1 DEF NodeAt, Range
  <2> QED
    BY <1>1, <1>3, <2>1, <2>2
<1>5. Rubbed \subseteq erased
  BY <1>4 DEF Rubbed, Programs
<1>6. ASSUME NEW n \in Programs(named), n.label \in there.images \cup there.packed,
             n.label \notin erased \cup {"persist", "devinfo"}, ~Guarded(n.label)
      PROVE  cells[n.label] = job.folder
  <2>1. PICK x \in AllXmls(job.folder) \ Skipped : n \in Programs(Range(there.nodes[x]))
    BY DEF Programs, AllXmls
  <2>2. PICK y \in raws : \E m \in Programs(Range(there.nodes[y])) : m.label = n.label
    BY <1>1, <1>6, <2>1 DEF SelectionIsWhole
  <2>3. PICK p \in Places(job.raws) : NodeAt(p).tag = "program" /\ NodeAt(p).label = n.label
    BY <1>3, <2>2 DEF Programs
  <2>4. p \in skip_keep_data(job.raws)
    BY <1>6, <2>3 DEF skip_keep_data, Guarded
  <2> QED
    BY <1>2, <1>5, <1>6, <2>3, <2>4 DEF Written, AllImages
<1> QED
  BY <1>1, <1>6

\* Only the stage of the flash writes, and it writes what its plan names.
LEMMA WritesArePlanned ==
  ASSUME FirmwareInv, [Next]_vars, job.kind \in Flashes, cells' # cells
  PROVE  /\ At("Program")
         /\ \/ \E p \in job.wipe : \A i \in Images : cells'[i] # cells[i] => i = NodeAt(p).label
            \/ /\ job.wipe = {}
               /\ \E p \in job.plan : \A i \in Images : cells'[i] # cells[i] => i = NodeAt(p).label
<1> DEFINE Other(label) == \A i \in Images : cells'[i] # cells[i] => i = label
<1>1. cells \in [Images -> Cell]
  BY DEF FirmwareInv, FirmwareTypes
<1>2. \A label, x : cells' = [cells EXCEPT ![label] = x] => Other(label)
  BY <1>1
<1>3. \A label, x, j : Writes(label, x, j) => Other(label)
  BY <1>2 DEF Writes
<1>4. pre_erase_wipe_labels \/ FlashNode \/ Killed
  <2>1. cells' # cells => ~ UNCHANGED vars
    BY DEF vars, firmwareVars
  <2>2. ~(StartFull \/ StartCountry \/ EnterForCountry \/ Begin \/ DumpAndSave \/ PatchAndFlash \/ Finish)
    BY DEF StartFull, StartFlash, StartCountry, EnterForCountry, Begin, DumpAndSave, PatchAndFlash, Finish
  <2>3. FlashStep => pre_erase_wipe_labels \/ FlashNode
    BY DEF FlashStep, Decrypt, DecompressOpens, DecompressPublishes, DecompressFails, UnpackEnds,
       RequireLoader, SelectXmls, EnterEdl, Preflight, ProgramEnds, ApplyPatches, set_active_slot_a, ResetToSystem
  <2> QED
    BY <2>1, <2>2, <2>3 DEF Next, KilledInCountry
<1> HIDE DEF Other
<1>5. CASE pre_erase_wipe_labels
  <2>1. PICK p \in job.wipe : Other(NodeAt(p).label)
    BY <1>3, <1>5 DEF pre_erase_wipe_labels
  <2> QED
    BY <1>5, <2>1 DEF pre_erase_wipe_labels, Other
<1>6. CASE FlashNode
  <2>1. PICK p \in job.plan : Other(NodeAt(p).label)
    BY <1>3, <1>6 DEF FlashNode
  <2> QED
    BY <1>6, <2>1 DEF FlashNode, Other
<1>7. CASE Killed
  <2>1. PICK label \in UnderWay : Other(label)
    BY <1>2, <1>7 DEF Killed
  <2> QED
    BY <2>1 DEF UnderWay, Other
<1> QED
  BY <1>4, <1>5, <1>6, <1>7

LEMMA StepsAreGuarded ==
  ASSUME FirmwareInv, [Next]_vars, job.kind \in Flashes, NEW i \in Images, cells'[i] # cells[i]
  PROVE  /\ i \in {"persist", "devinfo"} \/ Guarded(i)
              => \E n \in Nodes(job.raws) : n.tag = "erase" /\ n.label = i
         /\ \A n \in Programs(Nodes(job.raws)) :
              n.label \in SplitSuper => here.images[n.label] = "Whole"
<1>1. At("Program") /\ job.kind # "Country"
  BY WritesArePlanned DEF Flashes
<1>2. /\ Prepared /\ Walked /\ job.stage = "Program" /\ validate_dp_filename_usage(job.raws)
      /\ \A p \in Places(job.raws) : NodeAt(p) \in Node /\ NodeAt(p) \in Nodes(job.raws)
      /\ \A n \in Programs(Nodes(job.raws)) : n.label \in SplitSuper => here.images[n.label] = "Whole"
  BY <1>1, WhileFlashing DEF Prepared
<1>3. CASE \E p \in job.wipe : i = NodeAt(p).label
  <2>1. PICK p \in collect_wipe_erase_plan(job.raws) : i = NodeAt(p).label
    BY <1>2, <1>3 DEF Walked
  <2>2. job.kind = "Wipe" /\ i \in WipeErase
    BY <2>1 DEF collect_wipe_erase_plan
  <2> QED
    BY <1>2, <2>2 DEF WipeErase, Guarded
<1>4. CASE \E p \in job.plan : i = NodeAt(p).label
  <2>1. PICK p \in skip_keep_data(job.raws) : i = NodeAt(p).label
    BY <1>2, <1>4 DEF Walked
  <2>2. NodeAt(p) \in Node /\ NodeAt(p) \in Nodes(job.raws) /\ NodeAt(p).tag \in {"program", "erase"}
    BY <1>2, <2>1 DEF skip_keep_data, Node
  <2>3. CASE NodeAt(p).tag = "erase"
    BY <1>2, <2>1, <2>2, <2>3
  <2>4. CASE NodeAt(p).tag = "program"
    BY <1>2, <2>1, <2>2, <2>4 DEF skip_keep_data, validate_dp_filename_usage, Programs, Guarded
  <2> QED
    BY <2>2, <2>3, <2>4
<1> QED
  BY <1>3, <1>4, WritesArePlanned

-----------------------------------------------------------------------------
(* The theorems about a flash.                                             *)

\* The inductive invariant of the firmware folder and its flash: images are whole or
\* not there, what each stage found holds for the rest of the run, and what is no
\* longer planned is on the device (decompress_zst_file, flash_rawprogram_with_wipe,
\* flash_one_rawprogram).
THEOREM FirmwareInvariance == Spec => []FirmwareInv
<1>1. Init => FirmwareInv
  BY InitFirmware DEF Init
<1> QED
  BY <1>1, FirmwareStep, CountryInvariance, PTL DEF Spec

\* A flash that reports success left every image of its folder on the device, for any
\* folders whose selected rawprograms name what their other variants name
\* (collect_firmware_xmls_for_flash).
THEOREM ReportedFlashIsWhole == SelectionIsWhole => (Spec => []OkMeansFlashed)
<1> SUFFICES ASSUME SelectionIsWhole PROVE Spec => []OkMeansFlashed
  OBVIOUS
<1>1. FirmwareInv => OkMeansFlashed
  BY WholeFlash
<1> QED
  BY <1>1, FirmwareInvariance, PTL

\* No step of a flash, and no kill in it, touches the country partitions or, under
\* keep, the user's data, unless an erase node of the folder says so, and none touches
\* anything while a piece of its split super image is missing
\* (preflight_rawprogram_super_images, validate_dp_filename_usage).
THEOREM GuardedIsUntouched == Spec => GuardedStaysUntouched
<1>1. FirmwareInv /\ [Next]_vars =>
        [job.kind \in Flashes =>
           \A i \in Images : cells'[i] # cells[i] =>
             /\ i \in {"persist", "devinfo"} \/ Guarded(i)
                  => \E n \in Nodes(job.raws) : n.tag = "erase" /\ n.label = i
             /\ \A n \in Programs(Nodes(job.raws)) :
                  n.label \in SplitSuper => here.images[n.label] = "Whole"]_firmwareVars
  BY StepsAreGuarded
<1> QED
  BY <1>1, FirmwareInvariance, PTL DEF Spec, GuardedStaysUntouched

=============================================================================
