------------------------------ MODULE Transfers -------------------------------
(***************************************************************************)
(* The partition and whole-disk wizards of the Advanced view: a first      *)
(* session reads the GPT of every LUN into a table and bounces the device  *)
(* back to EDL, the user picks rows and images, a second session flashes,  *)
(* erases or dumps them.  The whole-disk pair needs no table.              *)
(*                                                                         *)
(* Host and device talk over one Firehose channel without message numbers: *)
(* a reply is the next XML document on the wire, raw data is whatever      *)
(* follows an ACK, and a host that stops waiting leaves the late reply to  *)
(* its next command.  Every LUN carries one partition, named by the LUN.   *)
(***************************************************************************)
EXTENDS EdlEntry, SequencesExt

CONSTANTS
  NLuns,     \* the LUNs a scan goes through are 0..NLuns - 1
  Wizards,   \* the wizards that may run
  MaxFaults, \* commands refused, replies late, host files that fail
  MaxJobs    \* workers started

ASSUME TransferAssumption ==
  /\ NLuns \in Nat \ {0}
  /\ Wizards # {} /\ Wizards \subseteq {"FlashParts", "DumpParts", "FlashPhys", "DumpPhys"}
  /\ MaxFaults \in Nat /\ MaxJobs \in Nat

VARIABLES
  job,    \* the wizard and its worker, see Job
  rows,   \* FlashPartsWizard::rows, DumpPartsWizard::rows or the LUN list
  picker, \* the file dialog: the index and the label of the row it was opened on
  op,     \* the Firehose command of the host, see Op
  wire,   \* what the device has sent and the host has not read
  inbox,  \* what the host has sent and the device has not served
  taking, \* the LUN whose raw data the device waits for, or NoLun
  cells,  \* what each partition holds
  dumps,  \* what the dump files hold
  faults, jobs

channel == <<op, wire, inbox, taking>>
stores  == <<cells, dumps>>
jobVars == <<job, rows, picker>>
limits  == <<faults, jobs>>
transferVars == <<entryVars, jobVars, channel, stores, limits>>

LUNs     == 0..(NLuns - 1)
NoLun    == NLuns
Flashes  == {"FlashParts", "FlashPhys"}
ByTable  == {"FlashParts", "DumpParts"}

\* FlashPartRow: the label the GPT gave it, the LUN it was read from, the image
\* picked for it (named by the row the dialog was opened on), and FlashRowState (a row to
\* dump is "Flash").
States == {"Unchecked", "Flash", "Erase"}
File   == LUNs \cup {NoLun}
NoFile == NoLun
Row    == [label : LUNs, lun : LUNs, file : File, state : States]
NewRow(label, lun) == [label |-> label, lun |-> lun, file |-> NoFile, state |-> "Unchecked"]

\* next: the LUNs still to scan; plan: the rows the worker was given; row: the one
\* it is at, its LUN measured or not; failed: a dump failed; marked: some worker
\* so far has called mark_writes_started.
Job == [kind : Wizards, at : {"Idle", "Scan", "Bounce", "Table", "Work", "Reset", "Done"},
        next : Seq(LUNs), plan : Seq(Row), row : Nat \ {0}, measured : BOOLEAN, failed : BOOLEAN,
        marked : BOOLEAN, result : {"None", "Ok", "Err"}]

\* The command in flight and what the host waits for: a reply to the command,
\* the raw data, the reply that ends it, the reply to a reset after a NAK.
Commands == {"None", "Read", "Program", "Erase", "Power"}
Op == [cmd : Commands, lun : LUNs \cup {NoLun}, file : File,
       stage : {"First", "Data", "Last", "Recover", "Ok", "Err"}, got : LUNs \cup {NoLun}]
NoOp == [cmd |-> "None", lun |-> NoLun, file |-> NoFile, stage |-> "Ok", got |-> NoLun]

At(place) == job.at = place
Working == On("Session")
Free == op = NoOp
Fault == faults < MaxFaults /\ faults' = faults + 1
Alive == phone.at = "Firehose"

-----------------------------------------------------------------------------
(* The Firehose programmer on the device.                                  *)

Ack == [k |-> "Ack", of |-> NoLun]
Nak == [k |-> "Nak", of |-> NoLun]
Data(lun) == [k |-> "Data", of |-> lun]
Says(tokens) == wire' = wire \o tokens

\* What a partition holds.
Holds(what, lun) == <<what, lun>>
Contents == {"Stock", "Torn", "Erased", "Image"} \X (LUNs \cup {NoLun})

Serves(m) ==
  \/ m.cmd # "Raw" /\ Says(<<Nak>>) /\ Fault /\ UNCHANGED <<entryVars, cells, taking>>
  \/ /\ m.cmd = "Read" /\ Says(<<Ack, Data(m.lun), Ack>>)
     /\ UNCHANGED <<entryVars, cells, taking, faults>>
  \/ /\ m.cmd = "Program" /\ Says(<<Ack>>) /\ taking' = m.lun
     /\ UNCHANGED <<entryVars, cells, faults>>
  \/ /\ m.cmd = "Erase" /\ Says(<<Ack>>)
     /\ cells' = [cells EXCEPT ![m.lun] = Holds("Erased", m.lun)]
     /\ UNCHANGED <<entryVars, taking, faults>>
  \/ /\ m.cmd = "Power" /\ Says(<<Ack>>) /\ ResetDevice
     /\ UNCHANGED <<driver, spare, entry, events, cells, taking, faults>>

\* Raw data for the LUN that was announced: the write may fail, and an image
\* that broke off fails it.
Takes(m) ==
  /\ taking' = NoLun /\ UNCHANGED entryVars
  /\ \/ /\ m.whole /\ Says(<<Ack>>) /\ UNCHANGED faults
        /\ cells' = [cells EXCEPT ![taking] = Holds("Image", m.file)]
     \/ /\ Says(<<Nak>>) /\ (IF m.whole THEN Fault ELSE UNCHANGED faults)
        /\ cells' = [cells EXCEPT ![taking] = Holds("Torn", taking)]

Serve ==
  /\ Alive /\ inbox # <<>> /\ UNCHANGED <<jobVars, op, dumps, jobs>>
  /\ IF taking # NoLun THEN Takes(Head(inbox)) ELSE Serves(Head(inbox))
  /\ inbox' = IF phone'.at = "Dark" THEN <<>> ELSE Tail(inbox)

-----------------------------------------------------------------------------
(* The host's end of the channel.                                          *)

\* firehose_write
Sends(message) == inbox' = IF Alive THEN Append(inbox, message) ELSE inbox
Message(cmd, lun) == [cmd |-> cmd, lun |-> lun, file |-> NoFile, whole |-> TRUE]
Command(cmd, lun, file, stage) ==
  /\ op' = [cmd |-> cmd, lun |-> lun, file |-> file, stage |-> stage, got |-> NoLun]
  /\ Sends(Message(cmd, lun))

Stage(stage) == op' = [op EXCEPT !.stage = stage]

\* A read times out: nobody will answer, or the answer is late.
Silent ==
  /\ wire = <<>> /\ UNCHANGED wire
  /\ IF Alive /\ inbox # <<>> THEN Fault ELSE UNCHANGED faults

\* firehose_read: raw data read as XML does not parse, and takes the document
\* that follows it along.
Hears(kind) == wire # <<>> /\ Head(wire).k = kind /\ wire' = Tail(wire) /\ UNCHANGED faults
HearsNoise ==
  \/ wire # <<>> /\ Head(wire).k = "Data" /\ wire' = SubSeq(wire, 3, Len(wire)) /\ UNCHANGED faults
  \/ Silent

Host == Working /\ UNCHANGED <<entryVars, jobVars, taking, cells, jobs>>

\* The reply to a command.  firehose_write_getack resets the device to EDL
\* after a NAK, the storage commands only give up.
FirstReply ==
  /\ Host /\ op.stage = "First" /\ UNCHANGED dumps
  /\ \/ /\ Hears("Ack") /\ UNCHANGED inbox
        /\ Stage(IF op.cmd \in {"Read", "Program"} THEN "Data" ELSE "Ok")
     \/ /\ Hears("Nak")
        /\ IF op.cmd \in {"Read", "Program"} THEN Stage("Err") /\ UNCHANGED inbox
           ELSE Stage("Recover") /\ Sends(Message("Power", NoLun))
     \/ HearsNoise /\ Stage("Err") /\ UNCHANGED inbox

RecoverEdl ==
  /\ Host /\ op.stage = "Recover" /\ UNCHANGED dumps
  /\ \/ Hears("Ack") /\ Stage("Err") /\ UNCHANGED inbox
     \/ Hears("Nak") /\ UNCHANGED op /\ Sends(Message("Power", NoLun))
     \/ HearsNoise /\ Stage("Err") /\ UNCHANGED inbox

Dumping == At("Work") /\ (job.kind = "DumpParts" \/ (job.kind = "DumpPhys" /\ job.measured))
Current == job.plan[job.row]

\* firehose_read_storage: takes bytes for data whatever they are.  A dump file
\* that cannot be written leaves the data unread.
ReadData ==
  /\ Host /\ op.cmd = "Read" /\ op.stage = "Data" /\ UNCHANGED inbox
  /\ \/ /\ wire # <<>> /\ wire' = Tail(wire) /\ UNCHANGED faults
        /\ op' = [op EXCEPT !.stage = "Last", !.got = Head(wire).of]
        /\ dumps' = IF Dumping THEN [dumps EXCEPT ![Current.label] = Head(wire).of]
                    ELSE dumps
     \/ Dumping /\ Fault /\ Stage("Err") /\ UNCHANGED <<wire, dumps>>
     \/ Silent /\ Stage("Err") /\ UNCHANGED dumps

\* firehose_program_storage: the image is read and sent; either may break off.
SendData ==
  /\ Host /\ op.cmd = "Program" /\ op.stage = "Data" /\ UNCHANGED <<wire, dumps>>
  /\ \/ /\ Sends([cmd |-> "Raw", lun |-> op.lun, file |-> op.file, whole |-> TRUE])
        /\ Stage("Last") /\ UNCHANGED faults
     \/ /\ Sends([cmd |-> "Raw", lun |-> op.lun, file |-> op.file, whole |-> FALSE])
        /\ Stage("Err") /\ Fault

\* Fault: the transfer is over once the data has been sent.
SentIsWritten ==
  /\ Host /\ op.stage = "Last" /\ UNCHANGED <<inbox, dumps, wire, faults>> /\ Stage("Ok")
LastReply ==
  /\ Host /\ op.stage = "Last" /\ UNCHANGED <<inbox, dumps>>
  /\ \/ Hears("Ack") /\ Stage("Ok")
     \/ (Hears("Nak") \/ HearsNoise) /\ Stage("Err")

-----------------------------------------------------------------------------
(* The scan.                                                               *)

Quiet == UNCHANGED <<wire, inbox, taking>> /\ UNCHANGED stores

\* begin_op, with the connection of the last poll; the session the worker is
\* after is that of a scan, or of the only pass of the whole-disk wizards.
Begins(kind, at, table) ==
  /\ job' = [job EXCEPT !.kind = kind, !.at = at, !.next = [i \in 1..NLuns |-> i - 1],
                        !.plan = table, !.row = 1, !.measured = FALSE, !.failed = FALSE, !.result = "None"]
  /\ jobs < MaxJobs /\ jobs' = jobs + 1

ScanStart(kind, conn) ==
  /\ kind \in Wizards \cap ByTable /\ At("Idle") /\ EnsureEdl(conn)
  /\ Begins(kind, "Scan", <<>>) /\ rows' = <<>>
  /\ UNCHANGED <<picker, op, faults>> /\ Quiet

\* read_gpt_for_lun, LUN after LUN.
ReadGpt ==
  /\ Working /\ At("Scan") /\ Free /\ job.next # <<>>
  /\ Command("Read", Head(job.next), NoFile, "First")
  /\ UNCHANGED <<entryVars, jobVars, wire, taking, stores, limits>>

\* A LUN whose GPT cannot be read is left out of the table.
GptRead ==
  /\ Working /\ At("Scan") /\ op.cmd = "Read" /\ op.stage \in {"Ok", "Err"}
  /\ op' = NoOp /\ job' = [job EXCEPT !.next = Tail(@)]
  /\ rows' = IF op.stage = "Ok" /\ op.got # NoLun THEN Append(rows, NewRow(op.got, op.lun)) ELSE rows
  /\ UNCHANGED <<entryVars, picker, wire, inbox, taking, stores, limits>>

\* reset_to_edl, so that the next open meets a fresh HELLO.
Bounce ==
  /\ Working /\ At("Scan") /\ Free /\ job.next = <<>>
  /\ Command("Power", NoLun, NoFile, "First") /\ job' = [job EXCEPT !.at = "Bounce"]
  /\ UNCHANGED <<entryVars, rows, picker, wire, taking, stores, limits>>

\* Its failure is only logged.  A scan that lists nothing is an error.
ScanDone ==
  /\ Working /\ At("Bounce") /\ op.stage \in {"Ok", "Err"} /\ op' = NoOp
  /\ Finish /\ UNCHANGED busVars
  /\ job' = [job EXCEPT !.at = IF rows = <<>> THEN "Idle" ELSE "Table"]
  /\ UNCHANGED <<rows, picker, limits>> /\ Quiet

\* An entry or a preflight that failed ends the worker.
EntryFailed ==
  /\ ReportEntry
  /\ job' = IF At("Scan") THEN [job EXCEPT !.at = "Idle"]
            ELSE [job EXCEPT !.at = "Done", !.result = "Err"]
  /\ UNCHANGED <<rows, picker, channel, stores, limits>>

-----------------------------------------------------------------------------
(* The table.                                                              *)

Screen == UNCHANGED <<entryVars, channel, stores, limits>>
Indices == 1..Len(rows)

\* FlashPartsToggleRow, DumpPartsToggleRow
Cycle(state) == CASE state = "Unchecked" -> "Flash"
                  [] state = "Flash" /\ job.kind = "FlashParts" -> "Erase"
                  [] OTHER -> "Unchecked"
ToggleRow(i) ==
  /\ At("Table") /\ rows' = [rows EXCEPT ![i].state = Cycle(@)] /\ UNCHANGED <<job, picker>> /\ Screen

\* FlashPartsPickRowFile: the dialog does not block the window.
PickRowFile(i) ==
  /\ At("Table") /\ job.kind = "FlashParts" /\ picker = {}
  /\ picker' = {[index |-> i, row |-> rows[i].label]} /\ UNCHANGED <<job, rows>> /\ Screen

\* FlashPartsRowFileChosen: the reply carries the index of the row.
RowFileChosen(p) ==
  /\ picker' = picker \ {p} /\ UNCHANGED job /\ Screen
  /\ rows' = IF p.index \in Indices
             THEN [rows EXCEPT ![p.index].file = p.row,
                               ![p.index].state = "Flash"]
             ELSE rows

\* FlashPartsSortBy: another order of the same rows.
SortBy ==
  /\ At("Table") /\ Len(rows) > 1 /\ rows' = Reverse(rows) /\ UNCHANGED <<job, picker>> /\ Screen

\* active_rows, selected_rows
Active(r) == r.state = "Erase" \/ (r.state = "Flash" /\ (job.kind = "DumpParts" \/ r.file # NoFile))
\* in the order of the table.
Ascending(S) == {s \in [1..Cardinality(S) -> S] : \A i, j \in DOMAIN s : i < j => s[i] < s[j]}
ActiveRows == {[k \in DOMAIN order |-> rows[order[k]]] :
                 order \in Ascending({i \in Indices : Active(rows[i])})}

\* preflight_flash_part_sources, preflight_flash_phys_sources: an image is gone.
PreflightFails == entry' = Failed /\ Fault

\* FlashPartsExecStart, DumpPartsFolderChosen: an image that is gone ends the run
\* before the device is touched.  A dialog left open cannot reach the rows the
\* worker was given, so runs start with none.
ExecStart ==
  /\ At("Table") /\ picker = {} /\ jobs < MaxJobs /\ jobs' = jobs + 1
  /\ \E plan \in ActiveRows : plan # <<>> /\ job' = [job EXCEPT !.plan = plan, !.at = "Work"]
  /\ \/ entry' = [AtRest EXCEPT !.pc = "Pause"] /\ UNCHANGED faults
     \/ job.kind = "FlashParts" /\ PreflightFails
  /\ UNCHANGED <<busVars, rows, picker, op>> /\ Quiet

\* Leaving the wizard.
CloseWizard ==
  /\ At("Table") /\ job' = [job EXCEPT !.at = "Idle"] /\ rows' = <<>> /\ UNCHANGED picker /\ Screen

\* dump_physical_execute, flash_physical_execute: one pass over the chosen LUNs.
LunRow(lun, file) == [label |-> lun, lun |-> lun, file |-> file, state |-> "Flash"]
Image(kind, lun) == IF kind = "FlashPhys" THEN lun ELSE NoFile
PhysStart(kind, conn, luns) ==
  /\ kind \in Wizards \ ByTable /\ At("Idle")
  /\ \E order \in Ascending(luns) :
       Begins(kind, "Work", [k \in DOMAIN order |-> LunRow(order[k], Image(kind, order[k]))])
  /\ \/ EnsureEdl(conn) /\ UNCHANGED faults
     \/ kind = "FlashPhys" /\ On("Idle") /\ PreflightFails /\ UNCHANGED busVars
  /\ UNCHANGED <<rows, picker, op>> /\ Quiet

-----------------------------------------------------------------------------
(* The work.                                                               *)

Left == job.row <= Len(job.plan)
Tries(step) ==
  /\ Working /\ At("Work") /\ Free /\ Left
  /\ step /\ UNCHANGED <<entryVars, rows, picker, wire, taking, stores, limits>>
Refused == op' = [NoOp EXCEPT !.stage = "Err"] /\ UNCHANGED inbox

\* Fault: the mark is left to the last row.
MarksLast == job' = [job EXCEPT !.marked = job.row = Len(job.plan)]
\* mark_writes_started comes before the attempt.
Marks == job' = [job EXCEPT !.marked = TRUE]

\* flash_partition_at: an image longer than its partition, by its length now, is
\* refused.
FlashRow ==
  Tries(/\ job.kind = "FlashParts" /\ Current.state = "Flash" /\ Marks
        /\ (Command("Program", Current.lun, Current.file, "First") \/ Refused))

\* Between preflight and attempt the image went, which is found before the mark.
SourceVanished ==
  /\ Working /\ At("Work") /\ Free /\ Left /\ job.kind \in Flashes /\ Current.state = "Flash"
  /\ ~job.measured /\ Refused /\ Fault
  /\ UNCHANGED <<entryVars, jobVars, wire, taking, stores, jobs>>
EraseRow ==
  Tries(job.kind = "FlashParts" /\ Current.state = "Erase" /\ Marks
        /\ Command("Erase", Current.lun, NoFile, "First"))
DumpRow ==
  Tries(job.kind = "DumpParts" /\ UNCHANGED job /\ Command("Read", Current.lun, NoFile, "First"))

\* flash_physical_storage, dump_physical_storage: physical_lun_sector_count, then
\* the transfer.
MeasureLun ==
  Tries(job.kind \in Wizards \ ByTable /\ ~job.measured
        /\ (IF job.kind = "FlashPhys" THEN Marks ELSE UNCHANGED job)
        /\ Command("Read", Current.lun, NoFile, "First"))
Measured ==
  /\ Working /\ At("Work") /\ job.kind \in Wizards \ ByTable /\ ~job.measured
  /\ op.stage = "Ok" /\ op.got # NoLun
  /\ job' = [job EXCEPT !.measured = TRUE] /\ op' = NoOp
  /\ UNCHANGED <<entryVars, rows, picker, wire, inbox, taking, stores, limits>>
FlashLun ==
  Tries(job.kind = "FlashPhys" /\ job.measured /\ UNCHANGED job
        /\ (Command("Program", Current.lun, Current.file, "First") \/ Refused))
DumpLun ==
  Tries(job.kind = "DumpPhys" /\ job.measured /\ UNCHANGED job
        /\ Command("Read", Current.lun, NoFile, "First"))

Fails == op.stage = "Err" \/ (op.stage = "Ok" /\ op.cmd = "Read" /\ ~Dumping /\ op.got = NoLun)
Succeeds == op.stage = "Ok" /\ ~Free /\ (op.cmd = "Read" => Dumping)
Onward(failed) == job' = [job EXCEPT !.row = @ + 1, !.measured = FALSE, !.failed = failed]

RowDone ==
  /\ Working /\ At("Work") /\ Succeeds /\ op' = NoOp /\ Onward(job.failed)
  /\ UNCHANGED <<entryVars, rows, picker, wire, inbox, taking, stores, limits>>

\* A dump goes on to the next row and remembers.
DumpFailed ==
  /\ Working /\ At("Work") /\ job.kind \notin Flashes /\ Fails
  /\ op' = NoOp /\ Onward(TRUE)
  /\ UNCHANGED <<entryVars, rows, picker, wire, inbox, taking, stores, limits>>

\* The worker returns: its transport is dropped with what is unread.
Returns(result) ==
  /\ Finish /\ job' = [job EXCEPT !.at = "Done", !.result = result]
  /\ op' = NoOp /\ wire' = <<>> /\ UNCHANGED <<busVars, rows, picker, inbox, taking, stores, limits>>

\* The output folder of a dump cannot be made.
NoFolder ==
  /\ On("Pause") /\ At("Work") /\ job.kind \notin Flashes /\ Fault
  /\ entry' = Failed /\ UNCHANGED <<busVars, jobVars, channel, stores, jobs>>

\* A flash stops where it is, without a reset.
FlashFailed ==
  /\ Working /\ At("Work") /\ job.kind \in Flashes /\ Fails /\ Returns("Err")

\* reset_tolerant, after EDL_POST_DUMP_STABILIZE for a dump.
ResetSystem ==
  /\ Working /\ At("Work") /\ Free /\ ~Left /\ job' = [job EXCEPT !.at = "Reset"]
  /\ Command("Power", NoLun, NoFile, "First")
  /\ UNCHANGED <<entryVars, rows, picker, wire, taking, stores, limits>>
ExecDone ==
  /\ Working /\ At("Reset") /\ op.stage \in {"Ok", "Err"}
  /\ Returns(IF job.failed THEN "Err" ELSE "Ok")

\* FlashPartsClose and its kin, after the result has been read.
Leave ==
  /\ At("Done") /\ job' = [job EXCEPT !.at = "Idle", !.result = "None"] /\ rows' = <<>>
  /\ UNCHANGED picker /\ Screen

-----------------------------------------------------------------------------
TransferInit ==
  /\ EntryInit
  /\ job \in [kind : {CHOOSE k \in Wizards : TRUE}, at : {"Idle"}, next : {<<>>}, plan : {<<>>}, row : {1},
              measured : {FALSE}, failed : {FALSE}, marked : {FALSE}, result : {"None"}]
  /\ rows = <<>> /\ picker = {} /\ op = NoOp /\ wire = <<>> /\ inbox = <<>> /\ taking = NoLun
  /\ cells = [l \in LUNs |-> Holds("Stock", l)] /\ dumps = [l \in LUNs |-> NoLun]
  /\ faults = 0 /\ jobs = 0

\* A device that goes dark forgets what it was told, and a new transport starts
\* with nothing on the wire.
Entering ==
  /\ Opening /\ UNCHANGED <<jobVars, op, stores, limits, inbox, taking>>
  /\ wire' = IF entry'.pc = "Session" THEN <<>> ELSE wire
World ==
  /\ Surroundings /\ UNCHANGED <<jobVars, op, stores, limits>>
  /\ IF phone'.at = "Dark" THEN wire' = <<>> /\ inbox' = <<>> /\ taking' = NoLun
     ELSE UNCHANGED <<wire, inbox, taking>>

Exchange == Serve \/ FirstReply \/ RecoverEdl \/ ReadData \/ SendData \/ LastReply
Scanning == ReadGpt \/ GptRead \/ Bounce \/ ScanDone
Transfer ==
  \/ FlashRow \/ EraseRow \/ DumpRow \/ MeasureLun \/ Measured \/ FlashLun \/ DumpLun
  \/ SourceVanished \/ NoFolder \/ RowDone \/ DumpFailed \/ FlashFailed \/ ResetSystem \/ ExecDone
Worker == Entering \/ EntryFailed \/ Exchange \/ Scanning \/ Transfer

User ==
  \/ \E kind \in Wizards, conn \in Connections : ScanStart(kind, conn)
  \/ \E kind \in Wizards, conn \in Connections, luns \in (SUBSET LUNs) \ {{}} : PhysStart(kind, conn, luns)
  \/ \E i \in Indices : ToggleRow(i) \/ PickRowFile(i)
  \/ \E p \in picker : RowFileChosen(p)
  \/ SortBy \/ ExecStart \/ CloseWizard \/ Leave

TransferNext == World \/ Worker \/ User

TransferSpec == TransferInit /\ [][TransferNext]_transferVars

-----------------------------------------------------------------------------
\* flash_parts_execute, flash_physical_execute: when the run reports success,
\* every planned row holds the image it was given, or was erased, whatever the
\* device refused, answered late or forgot on the way.  "A partial dump is never
\* reported as unconditional success": every file holds the partition it is named for.
OkMeansDone ==
  At("Done") /\ job.result = "Ok" =>
    \A i \in DOMAIN job.plan : LET r == job.plan[i] IN
      IF job.kind \notin Flashes THEN dumps[r.label] = r.lun
      ELSE cells[r.lun] = IF r.state = "Erase" THEN Holds("Erased", r.lun) ELSE Holds("Image", r.file)

\* mark_writes_started: while no worker has announced writes, a failure may be
\* reported as one that left the device as it was.
UnmarkedMeansUntouched == ~job.marked => \A l \in LUNs : cells[l] = Holds("Stock", l)
=============================================================================
