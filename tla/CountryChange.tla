----------------------------- MODULE CountryChange -----------------------------
(***************************************************************************)
(* The country code of a device lives in two small partitions (one on some *)
(* models): a worker dumps each, saves the dump, looks for a known code in *)
(* it, replaces the code and writes the partition back, going on with the  *)
(* next when one fails.  It runs on its own from the Advanced view and as  *)
(* the last phase of a full flash, where a failure is only a warning and   *)
(* where a flash across two sister models also turns the sales channel of  *)
(* proinfo.                                                                *)
(***************************************************************************)
EXTENDS Firmware

CONSTANTS
  Models,      \* the partition layouts a device may have
  PickerCodes, \* the countries a user may choose
  KnownCodes,  \* the codes looked for in a dump, in the order they are tried
  FieldsOf     \* the fields with a code that a partition may hold at first

Layouts == {"Devinfo", "Oemowninfo", "Proinfo"}
country_partitions_for(model) ==
  CASE model = "Devinfo"    -> <<"devinfo", "persist">>
    [] model = "Oemowninfo" -> <<"oemowninfo">>
    [] model = "Proinfo"    -> <<"proinfo", "persist">>
Parts == {"devinfo", "persist", "oemowninfo", "proinfo"}
Codes == PickerCodes \cup Range(KnownCodes)
NoCode == "none"

ASSUME CountryAssumption ==
  /\ Models \subseteq Layouts
  /\ KnownCodes \in Seq(Codes) /\ NoCode \notin Codes
  /\ FieldsOf \in [Parts -> SUBSET Seq(Codes)]

VARIABLES
  model,   \* the layout of the device
  stock,   \* what its partitions held before the first run
  held,    \* what they hold
  torn,    \* those a write has broken off in
  backups, \* the dumps saved, of all runs
  country  \* the run's progress, see Country

countryVars == <<model, stock, held, torn, backups, country>>
vars == <<firmwareVars, countryVars>>

\* The fields, and the sales channel of proinfo.
Held == [fields : Seq(Codes), channel : {"consumer", "commercial"}]

\* todo: partitions to dump; staged: those dumped, with the code found in them;
\* done and failed as CountryPatchProgress collects them.
Staged == [part : Parts, dump : Held, code : Codes \cup {NoCode}]
Country == [target : Codes \cup {NoCode}, flip : BOOLEAN, expected : Seq(Parts),
            todo : Seq(Parts), staged : Seq(Staged), done : SUBSET Parts, failed : BOOLEAN]
NoCountry == [target |-> NoCode, flip |-> FALSE, expected |-> <<>>, todo |-> <<>>,
              staged |-> <<>>, done |-> {}, failed |-> FALSE]
Wanted == country.target # NoCode \/ country.flip

Rewriting == At("Country") /\ country.expected # <<>>

-----------------------------------------------------------------------------
(* Starts.                                                                 *)

\* A full flash may come with a country to set, and the channel must turn when the
\* folder is of the sister model.
StartFull ==
  /\ StartFlash
  /\ \E target \in PickerCodes \cup {NoCode}, cross \in BOOLEAN :
       /\ cross => model = "Proinfo"
       /\ job'.kind = "Simple" => target = NoCode /\ ~cross
       /\ country' = [NoCountry EXCEPT !.target = target, !.flip = cross]
  /\ UNCHANGED <<model, stock, held, torn, backups>>

\* change_country_worker makes its directories before it enters EDL.
StartCountry ==
  /\ Starts
  /\ \E target \in PickerCodes, folder \in Folders :
       /\ job' = [NoJob EXCEPT !.kind = "Country", !.folder = folder, !.stage = "Enter"]
       /\ country' = [NoCountry EXCEPT !.target = target]
  /\ UNCHANGED <<disk, cells, slot, model, stock, held, torn, backups>>

EnterForCountry ==
  /\ job.kind = "Country" /\ At("Enter")
  /\ \/ job' = [job EXCEPT !.stage = "Country"] /\ Calm
     \/ Fails /\ Fault
  /\ UNCHANGED <<disk, cells, slot, countryVars>>

-----------------------------------------------------------------------------
(* run_country_change.                                                     *)

\* A flash without a country to set goes on; one that only turns the channel works
\* on proinfo alone.
Begin ==
  /\ At("Country") /\ country.expected = <<>>
  /\ IF Wanted
       THEN LET parts == IF country.target = NoCode THEN <<"proinfo">>
                         ELSE country_partitions_for(model)
            IN  /\ country' = [country EXCEPT !.expected = parts, !.todo = parts]
                /\ UNCHANGED job
       ELSE Advance(job) /\ UNCHANGED country
  /\ UNCHANGED <<disk, cells, slot, model, stock, held, torn, backups>> /\ Calm

\* The first known code, in the order of the list, that any field holds.
detect_country_code(dump) ==
  LET there == {i \in DOMAIN KnownCodes : KnownCodes[i] \in Range(dump.fields)}
  IN  IF country.target = NoCode \/ there = {} THEN NoCode ELSE KnownCodes[Min(there)]

Stage(part) == [country EXCEPT !.todo = Tail(@),
  !.staged = Append(@, [part |-> part, dump |-> held[part],
                        code |-> detect_country_code(held[part])])]
Drops == country' = [country EXCEPT !.todo = Tail(@), !.failed = TRUE]
Save(part) == [part |-> part, held |-> held[part]]

\* Fault: a partition whose backup could not be saved is patched all the same.
BackupIsOptional ==
  /\ Rewriting /\ country.todo # <<>>
  /\ LET part == Head(country.todo)
     IN  \/ country' = Stage(part) /\ backups' = backups \cup {Save(part)} /\ Calm
         \/ country' = Stage(part) /\ UNCHANGED backups /\ Fault
  /\ UNCHANGED <<disk, cells, slot, job, model, stock, held, torn>>

\* A partition is dumped and the dump is saved; either call may fail, and then the
\* partition is left alone.
DumpAndSave ==
  /\ Rewriting /\ country.todo # <<>>
  /\ LET part == Head(country.todo)
     IN  \/ country' = Stage(part) /\ backups' = backups \cup {Save(part)} /\ Calm
         \/ Drops /\ backups' \in {backups, backups \cup {Save(part)}} /\ Fault
  /\ UNCHANGED <<disk, cells, slot, job, model, stock, held, torn>>

\* patch_country_code and patch_proinfo_channel on the dump.
Patched(work) ==
  [fields |-> [k \in DOMAIN work.dump.fields |->
                 IF work.dump.fields[k] = work.code THEN country.target
                 ELSE work.dump.fields[k]],
   channel |-> IF country.flip /\ work.part = "proinfo" THEN "commercial"
               ELSE work.dump.channel]

\* A code found is replaced, by itself when it is the target.
changed(work) ==
  \/ country.target # NoCode /\ work.code # NoCode
  \/ Patched(work).channel # work.dump.channel

\* What a write of `new` over `old` leaves when it breaks off after k fields.
TornAt(old, new, k) ==
  [new EXCEPT !.fields = [i \in DOMAIN @ |-> IF i <= k THEN new.fields[i] ELSE old.fields[i]]]

Handled(work) == [country EXCEPT !.staged = Tail(@), !.done = @ \cup {work.part}]
Missed(work)  == [country EXCEPT !.staged = Tail(@), !.failed = TRUE]
Working(work) == /\ Rewriting /\ country.todo = <<>> /\ country.staged # <<>>
                 /\ work = Head(country.staged)

\* A country is asked for and the partition, which must have one, shows none.
no_known_code(work) ==
  country.target # NoCode /\ work.code = NoCode /\ work.part # "persist"

\* Fault: a partition in which no known code is found counts as handled.
NothingToPatch(work) ==
  /\ Working(work) /\ ~changed(work)
  /\ country' = Handled(work)
  /\ UNCHANGED <<held, torn>> /\ Calm

\* No code in a partition that must have one is a failure; persist without one, a
\* channel already turned and a code already there are handled.
LeavePartition(work) ==
  /\ Working(work) /\ (no_known_code(work) \/ ~changed(work))
  /\ country' = IF no_known_code(work) THEN Missed(work) ELSE Handled(work)
  /\ UNCHANGED <<held, torn>> /\ Calm

\* The write may break off, and the dump may not be patched at all.
WritePartition(work) ==
  /\ Working(work) /\ ~no_known_code(work) /\ changed(work)
  /\ \/ /\ held' = [held EXCEPT ![work.part] = Patched(work)]
        /\ country' = Handled(work) /\ UNCHANGED torn /\ Calm
     \/ /\ \E k \in 0..Len(work.dump.fields) :
             held' = [held EXCEPT ![work.part] = TornAt(@, Patched(work), k)]
        /\ torn' = torn \cup {work.part}
        /\ country' = Missed(work) /\ Fault
     \/ country' = Missed(work) /\ UNCHANGED <<held, torn>> /\ Fault

PatchAndFlash ==
  /\ \E work \in Range(country.staged) : LeavePartition(work) \/ WritePartition(work)
  /\ UNCHANGED <<disk, cells, slot, job, model, stock, backups>>

\* CountryPatchProgress::finish.
complete == ~country.failed /\ Range(country.expected) \subseteq country.done

\* A flash goes on whatever came of it; the worker of its own resets the device and
\* reports.
Finish ==
  /\ Rewriting /\ country.todo = <<>> /\ country.staged = <<>>
  /\ IF job.kind = "Country"
       THEN job' = [job EXCEPT !.result = IF complete THEN "Ok" ELSE "Err"]
       ELSE Advance(job)
  /\ country' = IF job.kind = "Country" THEN country ELSE NoCountry
  /\ UNCHANGED <<disk, cells, slot, model, stock, held, torn, backups>> /\ Calm

-----------------------------------------------------------------------------
\* The program is killed; a write under way breaks off.
KilledInCountry ==
  /\ Killed
  /\ \/ UNCHANGED <<held, torn>>
     \/ /\ Rewriting /\ country.todo = <<>> /\ country.staged # <<>>
        /\ LET work == Head(country.staged)
           IN  /\ changed(work) /\ ~no_known_code(work)
               /\ \E k \in 0..Len(work.dump.fields) :
                    held' = [held EXCEPT ![work.part] = TornAt(@, Patched(work), k)]
               /\ torn' = torn \cup {work.part}
  /\ country' = NoCountry
  /\ UNCHANGED <<model, stock, backups>>

Init ==
  /\ FirmwareInit
  /\ model \in Models
  /\ \E chosen \in [Parts -> UNION {FieldsOf[p] : p \in Parts}] :
       /\ \A p \in Parts : chosen[p] \in IF p \in Range(country_partitions_for(model))
                                           THEN FieldsOf[p] ELSE {<<>>}
       /\ held = [p \in Parts |-> [fields |-> chosen[p], channel |-> "consumer"]]
  /\ stock = held
  /\ torn = {} /\ backups = {} /\ country = NoCountry

Next ==
  \/ StartFull \/ StartCountry \/ EnterForCountry
  \/ FlashStep /\ job.kind # "Country" /\ UNCHANGED countryVars
  \/ Begin \/ DumpAndSave \/ PatchAndFlash \/ Finish \/ KilledInCountry

Spec == Init /\ [][Next]_vars

-----------------------------------------------------------------------------
TypeOK ==
  /\ FirmwareTypeOK
  /\ model \in Layouts /\ stock \in [Parts -> Held] /\ held \in [Parts -> Held]
  /\ torn \subseteq Parts
  /\ \A b \in backups : b.part \in Parts /\ b.held \in Held
  /\ country \in Country

\* Whatever runs, failures and kills there were, a country partition that is not as
\* it was has its first contents in some backup.
StockIsRecoverable ==
  \A p \in Parts : held[p] # stock[p] => [part |-> p, held |-> stock[p]] \in backups

\* A country change that reports success left the target in every partition that has
\* to carry a code; and where every partition had one code only, or none in persist,
\* and no write ever broke off, no other code that a scan would find is left in any.
OkMeansCountry ==
  job.result = "Ok" /\ job.kind = "Country" =>
    LET expected == Range(country_partitions_for(model))
        Left(p)  == Range(held[p].fields)
    IN  /\ \A p \in expected \ {"persist"} : country.target \in Left(p)
        /\ torn = {} /\ (\A p \in expected : Cardinality(Range(stock[p].fields)) <= 1)
             => \A p \in expected : Left(p) \cap Range(KnownCodes) \subseteq {country.target}
=============================================================================
