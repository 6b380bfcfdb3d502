----------------------------- MODULE SelfUpdate -----------------------------
(***************************************************************************)
(* The self-update of a directly downloaded LTBox: a running instance      *)
(* downloads and verifies a release, swaps it with the installed program   *)
(* by renames and copies that may each fail, starts the new program and    *)
(* exits; the new program waits for the single-instance lock and only then *)
(* deletes the copy of the old one.  Processes may be killed at any point. *)
(*                                                                         *)
(* A file holds "None", "Old", "New", "Bad" (not what the release          *)
(* publishes) or "Torn" (a copy or a removal that broke off).  A torn      *)
(* program does not start.                                                 *)
(***************************************************************************)
EXTENDS Naturals

CONSTANTS
  Processes, \* instances of LTBox
  SwapKinds, \* how the platform swaps: "AtomicFile", "MoveAside"
  MaxTries,  \* updates attempted in a behaviour
  MaxStops   \* processes that are killed in a behaviour

ASSUME UpdateAssumption ==
  /\ SwapKinds \subseteq {"AtomicFile", "MoveAside"}
  /\ MaxTries \in Nat /\ MaxStops \in Nat

VARIABLES
  kind,    \* SwapKind of the target
  guarded, \* the lock file can be opened
  files,   \* the install directory
  lock,    \* the processes that hold the single-instance lock
  proc,    \* the processes, see Process
  late,    \* history: the lock was taken while no program was installed
  tries, stops

updateVars == <<kind, guarded, files, lock, proc, late, tries, stops>>

Whole    == {"Old", "New"}
Contents == Whole \cup {"None", "Bad", "Torn"}

\* The installed program, and the siblings of one attempt.
current      == <<"current", 0>>
candidate(i) == <<"ltbox-new", i>>
backup(i)    == <<"ltbox-old", i>>
failed(i)    == <<"ltbox-failed", i>>
Tries        == 1..MaxTries
Names        == {current} \cup ({"ltbox-new", "ltbox-old", "ltbox-failed"} \X Tries)

Steps == {"Off", "Locking", "Cleanup", "Idle", "Fetch", "Candidate", "Backup", "Swap",
          "Place", "Restore", "CopyBack", "Retain", "DropBackup", "Drop", "Spawn", "Roll",
          "RollRestore", "RollCopy", "RollReturn", "DropFailed", "Restarting"}

\* What an attempt that got as far as moving the program reports, once it is
\* over: the installed version is in place, the replacement is, or neither is.
Reports == {"None", "Installed", "Replaced", "Neither"}

Process ==
  [pc : Steps, program : Whole, child : BOOLEAN, payload : {"None", "New", "Bad"},
   try : 0..MaxTries, before : Contents, copying : BOOLEAN, report : Reports]

Stopped == [pc |-> "Off", program |-> "Old", child |-> FALSE, payload |-> "None",
            try |-> 0, before |-> "None", copying |-> FALSE, report |-> "None"]

At(p, pc) == proc[p].pc = pc
Goto(p, pc) == proc' = [proc EXCEPT ![p].pc = pc, ![p].copying = FALSE]
Report(p, pc, report) ==
  proc' = [proc EXCEPT ![p].pc = pc, ![p].copying = FALSE, ![p].report = report]
Disk(p) == UNCHANGED <<kind, guarded, lock, late, tries, stops>>

-----------------------------------------------------------------------------
(* File operations; each may fail and leave the files alone.               *)

Renamed(from, to) == [files EXCEPT ![to] = files[from], ![from] = "None"]

Rename(from, to) == files[from] # "None" /\ files' = Renamed(from, to)

\* remove_unit: its errors are ignored.
Remove(name) == files' \in {files, [files EXCEPT ![name] = "None"]}

\* copy_unit: creates the copy, writes it, and removes it when that fails.
CopyBegins(p, to) ==
  /\ ~proc[p].copying /\ files[to] = "None"
  /\ files' = [files EXCEPT ![to] = "Torn"]
  /\ proc' = [proc EXCEPT ![p].copying = TRUE]
CopyDone(p, what, to) == proc[p].copying /\ files' = [files EXCEPT ![to] = what]
CopyFails(p, to) ==
  IF proc[p].copying
  THEN files' \in {[files EXCEPT ![to] = left] : left \in {"None", "Torn"}}
  ELSE UNCHANGED files

-----------------------------------------------------------------------------
(* Starting.                                                               *)

Started(program, child) == [Stopped EXCEPT !.pc = "Locking", !.program = program, !.child = child]

\* The user starts the installed program, which may be replaced before the new
\* process comes to the lock.
Launch(p) ==
  /\ At(p, "Off") /\ files[current] \in Whole
  /\ proc' = [proc EXCEPT ![p] = Started(files[current], FALSE)]
  /\ UNCHANGED <<kind, guarded, files, lock, late, tries, stops>>

\* The single-instance lock; where its file cannot be opened nobody is guarded,
\* and no backup is deleted.
Lock(p) ==
  /\ At(p, "Locking")
  /\ IF guarded THEN lock = {} /\ lock' = {p} /\ Goto(p, "Cleanup")
     ELSE UNCHANGED lock /\ Goto(p, "Idle")
  /\ late' = (late \/ (guarded /\ files[current] \notin Whole))
  /\ UNCHANGED <<kind, guarded, files, tries, stops>>

\* Fault: the child leaves like an ordinary second launch.
ChildDoesNotWait(p) ==
  /\ At(p, "Locking") /\ guarded /\ lock # {}
  /\ proc' = [proc EXCEPT ![p] = Stopped]
  /\ UNCHANGED <<kind, guarded, files, lock, late, tries, stops>>

\* An ordinary second launch exits quietly.  An updater's child tries again until
\* its deadline, which is long after its parent has gone: a child that gives up
\* has found another launch behind the lock.
TurnedAway(p) ==
  /\ At(p, "Locking") /\ guarded /\ lock # {}
  /\ proc[p].child => \A q \in lock : ~At(q, "Restarting")
  /\ proc' = [proc EXCEPT ![p] = Stopped]
  /\ UNCHANGED <<kind, guarded, files, lock, late, tries, stops>>

\* cleanup_stale_update_backups: only this process is past the lock.
CleanUp(p) ==
  /\ At(p, "Cleanup")
  /\ \E left \in [Tries -> {"None", "Torn", "Kept"}] :
       files' = [n \in Names |->
                   IF n[1] = "ltbox-old" /\ files[n] # "None" /\ left[n[2]] # "Kept"
                   THEN left[n[2]] ELSE files[n]]
  /\ Goto(p, "Idle") /\ Disk(p)

-----------------------------------------------------------------------------
(* Fetching.                                                               *)

\* InstallSelfUpdate: a newer release is offered to the old program only.
Begin(p) ==
  /\ At(p, "Idle") /\ proc[p].program = "Old" /\ tries < MaxTries
  /\ tries' = tries + 1
  /\ proc' = [proc EXCEPT ![p].pc = "Fetch", ![p].try = tries + 1,
                          ![p].before = files[current], ![p].report = "None"]
  /\ UNCHANGED <<kind, guarded, files, lock, late, stops>>

\* Fault: the archive is not compared with its checksum.
Unchecked(archive) == TRUE
MatchesSidecar(archive) == archive = "New"

\* Nothing beside the program is touched before the archive is downloaded,
\* verified, unpacked and resolved.
Fetch(p) ==
  /\ At(p, "Fetch")
  /\ \/ \E archive \in {"New", "Bad"} :
          /\ MatchesSidecar(archive)
          /\ proc' = [proc EXCEPT ![p].pc = "Candidate", ![p].payload = archive]
     \/ Goto(p, "Idle")
  /\ UNCHANGED files /\ Disk(p)

try(p) == proc[p].try

PrepareCandidate(p) ==
  /\ At(p, "Candidate")
  /\ \/ CopyBegins(p, candidate(try(p)))
     \/ /\ CopyDone(p, proc[p].payload, candidate(try(p)))
        /\ Goto(p, IF kind = "AtomicFile" THEN "Backup" ELSE "Swap")
     \/ CopyFails(p, candidate(try(p))) /\ Goto(p, "Idle")
  /\ Disk(p)

PrepareBackup(p) ==
  /\ At(p, "Backup")
  /\ \/ CopyBegins(p, backup(try(p)))
     \/ CopyDone(p, files[current], backup(try(p))) /\ Goto(p, "Swap")
     \/ CopyFails(p, backup(try(p))) /\ Goto(p, "Drop")
  /\ Disk(p)

-----------------------------------------------------------------------------
(* swap_with_ops.                                                          *)

Swap(p) ==
  /\ At(p, "Swap")
  /\ IF kind = "AtomicFile"
     THEN \/ Rename(candidate(try(p)), current) /\ Goto(p, "Spawn")
          \/ UNCHANGED files /\ Goto(p, "DropBackup")
     ELSE \/ Rename(current, backup(try(p))) /\ Goto(p, "Place")
          \/ UNCHANGED files /\ Goto(p, "Drop")
  /\ Disk(p)

Place(p) ==
  /\ At(p, "Place")
  /\ \/ Rename(candidate(try(p)), current) /\ Goto(p, "Spawn")
     \/ UNCHANGED files /\ Goto(p, "Restore")
  /\ Disk(p)

\* Fault: the copy that is no longer needed is tidied away at once.
RestoreAndTidy(p) ==
  /\ At(p, "Restore")
  /\ \/ Rename(backup(try(p)), current) /\ Report(p, "Drop", "Installed")
     \/ files' = [files EXCEPT ![backup(try(p))] = "None"] /\ Goto(p, "Retain")
  /\ Disk(p)

Restore(p) ==
  /\ At(p, "Restore")
  /\ \/ Rename(backup(try(p)), current) /\ Report(p, "Drop", "Installed")
     \/ UNCHANGED files /\ Goto(p, "CopyBack")
  /\ Disk(p)

\* A second primitive, before the replacement is the last resort.
CopyBack(p) ==
  /\ At(p, "CopyBack")
  /\ \/ CopyBegins(p, current)
     \/ CopyDone(p, files[backup(try(p))], current) /\ Report(p, "Drop", "Installed")
     \/ CopyFails(p, current) /\ Goto(p, "Retain")
  /\ Disk(p)

Retain(p) ==
  /\ At(p, "Retain")
  /\ \/ Rename(candidate(try(p)), current) /\ Report(p, "Drop", "Replaced")
     \/ UNCHANGED files /\ Report(p, "Drop", "Neither")
  /\ Disk(p)

DropBackup(p) ==
  /\ At(p, "DropBackup")
  /\ Remove(backup(try(p))) /\ Goto(p, "Drop") /\ Disk(p)

\* The leftovers of a swap that failed.
Drop(p) ==
  /\ At(p, "Drop")
  /\ Remove(candidate(try(p))) /\ Goto(p, "Idle") /\ Disk(p)

-----------------------------------------------------------------------------
(* Restarting, and rollback_with_ops when the new program does not start.  *)

SpawnUpdated(p) ==
  /\ At(p, "Spawn")
  /\ \/ \E q \in Processes \ {p} :
          /\ At(q, "Off") /\ files[current] \in Whole
          /\ proc' = [proc EXCEPT ![p].pc = "Restarting", ![q] = Started(files[current], TRUE)]
     \/ Goto(p, "Roll")
  /\ UNCHANGED files /\ Disk(p)

Roll(p) ==
  /\ At(p, "Roll")
  /\ IF kind = "AtomicFile"
     THEN \/ Rename(backup(try(p)), current) /\ Report(p, "Idle", "Installed")
          \/ UNCHANGED files /\ Report(p, "Idle", "Replaced")
     ELSE \/ Rename(current, failed(try(p))) /\ Goto(p, "RollRestore")
          \/ UNCHANGED files /\ Report(p, "Idle", "Replaced")
  /\ Disk(p)

RollRestore(p) ==
  /\ At(p, "RollRestore")
  /\ \/ Rename(backup(try(p)), current) /\ Report(p, "DropFailed", "Installed")
     \/ UNCHANGED files /\ Goto(p, "RollCopy")
  /\ Disk(p)

RollCopy(p) ==
  /\ At(p, "RollCopy")
  /\ \/ CopyBegins(p, current)
     \/ CopyDone(p, files[backup(try(p))], current) /\ Report(p, "DropFailed", "Installed")
     \/ CopyFails(p, current) /\ Goto(p, "RollReturn")
  /\ Disk(p)

RollReturn(p) ==
  /\ At(p, "RollReturn")
  /\ \/ Rename(failed(try(p)), current) /\ Report(p, "Idle", "Replaced")
     \/ UNCHANGED files /\ Report(p, "Idle", "Neither")
  /\ Disk(p)

DropFailed(p) ==
  /\ At(p, "DropFailed")
  /\ Remove(failed(try(p))) /\ Goto(p, "Idle") /\ Disk(p)

\* ExitAfterUpdate, a closed window, or the end of a process that was killed.
Gone(p) ==
  /\ proc' = [proc EXCEPT ![p] = Stopped] /\ lock' = lock \ {p}
  /\ UNCHANGED <<kind, guarded, files, late, tries>>
LeaveAfterUpdate(p) == At(p, "Restarting") /\ Gone(p) /\ UNCHANGED stops
Close(p)  == At(p, "Idle") /\ Gone(p) /\ UNCHANGED stops
Killed(p) == ~At(p, "Off") /\ stops < MaxStops /\ stops' = stops + 1 /\ Gone(p)

-----------------------------------------------------------------------------
UpdateInit ==
  /\ kind \in SwapKinds /\ guarded \in BOOLEAN
  /\ files = [n \in Names |-> IF n = current THEN "Old" ELSE "None"]
  /\ lock = {} /\ proc = [p \in Processes |-> Stopped]
  /\ late = FALSE /\ tries = 0 /\ stops = 0

\* What the code does on its own.
Work(p) ==
  \/ Lock(p) \/ TurnedAway(p) \/ CleanUp(p) \/ Fetch(p) \/ PrepareCandidate(p) \/ PrepareBackup(p)
  \/ Swap(p) \/ Place(p) \/ Restore(p) \/ CopyBack(p) \/ Retain(p) \/ DropBackup(p) \/ Drop(p)
  \/ SpawnUpdated(p) \/ Roll(p) \/ RollRestore(p) \/ RollCopy(p) \/ RollReturn(p) \/ DropFailed(p)
  \/ LeaveAfterUpdate(p)

UpdateNext == \E p \in Processes :
  Work(p) \/ Launch(p) \/ Begin(p) \/ Close(p) \/ Killed(p)

\* A process that is not stopped goes on.
UpdateSpec == UpdateInit /\ [][UpdateNext]_updateVars /\ \A p \in Processes : WF_updateVars(Work(p))

-----------------------------------------------------------------------------
(* Properties.                                                             *)

\* Whatever fails and whoever is killed, a whole program is left in the install
\* directory, installed or as the copy beside it, unless the lock was ever taken
\* while no program was installed: by a launch that was on its way since before
\* an update that ended, killed or closed, between its renames.
AProgramSurvives ==
  ~late => files[current] \in Whole \/ \E i \in Tries : files[backup(i)] \in Whole

\* "The new executable therefore proves it can start before the old copy goes
\* away": whoever deletes a whole copy leaves a whole program installed.  It does
\* not hold, and the launch that AProgramSurvives excepts is why.
CopyOutlivesTheSwap ==
  [][\A p \in Processes, i \in Tries :
       At(p, "Cleanup") /\ files[backup(i)] \in Whole /\ files'[backup(i)] \notin Whole =>
         files'[current] \in Whole]_updateVars

\* What an update that did not restart reports is what it left behind: the
\* program it found, restored or kept beside, or the verified replacement.
ReportIsTrue ==
  guarded => \A p \in Processes : At(p, "Idle") =>
    /\ proc[p].report = "Installed" => files[current] = proc[p].before
    /\ proc[p].report = "Replaced"  => files[current] = "New"
    /\ proc[p].report = "Neither"   => files[backup(try(p))] = proc[p].before

\* Where the lock works, an update that restarts leaves an instance behind it, its
\* child or a launch that was quicker, unless a process is killed: a child that
\* meets its parent still there is not turned away, and one that is leaves to
\* somebody.
RestartLeavesAnInstance ==
  \A p \in Processes :
    guarded /\ At(p, "Restarting") ~>
      stops > 0 \/ \E q \in Processes : proc[q].pc \notin {"Off", "Locking", "Restarting"}
=============================================================================
