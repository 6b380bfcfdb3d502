---------------------------- MODULE DispatchGate ----------------------------
(***************************************************************************)
(* The input gate of the LTBox GUI: the part of `App` that decides which   *)
(* message may act now, which one waits and which one is dropped, so that  *)
(* one piece of work at a time talks to the device over USB.               *)
(*                                                                         *)
(* One UI thread runs `App::update`, one message at a time.  Everything    *)
(* slow runs in a blocking worker whose completion comes back as another   *)
(* message, in any order relative to the user's input:                     *)
(*   - the 3 s device poll holds the lease poll_in_flight;                 *)
(*   - KillAdbServer holds adb_server_kill_in_flight;                      *)
(*   - closing Lenovo's Software Fix (Windows) holds software_fix.closing; *)
(*   - a workflow (flash, root, inspection, clean-up, self-update, ...)    *)
(*     holds `op`, the reservation of OperationExecution.                  *)
(* While one of the first three is held, workflow input is queued in       *)
(* poll_deferred and replayed, oldest first, when it is released.          *)
(*                                                                         *)
(* A message stands for a class of the program's messages with the same    *)
(* effect on the gate; what it edits in its wizard is left out.            *)
(***************************************************************************)
EXTENDS Naturals, Sequences

CONSTANTS
  MaxOps,      \* the user starts nothing more once this many operations began
  MaxPolls,    \* polls started in a behaviour
  MaxDeferred, \* messages queued at once
  Windows      \* TRUE on Windows: only there is Software Fix monitored

ASSUME BoundsAssumption == /\ MaxOps \in Nat /\ MaxPolls \in Nat
                           /\ MaxDeferred \in Nat /\ Windows \in BOOLEAN

VARIABLES
  op,                        \* operation.active: its id and kind
  generation,                \* operation.generation
  poll_in_flight,            \* queries.poll_in_flight, 0 for None
  sequence,                  \* queries.sequence, as polls advance it
  poll_deferred,             \* queries.poll_deferred
  draining,                  \* TRUE inside resume_after_device_poll
  adb_server_kill_in_flight,
  software_fix,              \* running, confirm_open, checking, closing
  installing_drivers,
  cleaning_temp,
  direct_update,             \* operation.direct_update
  dialog_open,               \* update_dialog_source is Some(Direct)
  prepared,                  \* konabess.prepared is Some
  workers,                   \* blocking tasks whose completion is not yet handled
  applied,                   \* id of the poll whose snapshot was applied last
  process                    \* "Up", "Exited" or "Panicked"

gate     == <<poll_in_flight, sequence, adb_server_kill_in_flight>>
workflow == <<cleaning_temp, direct_update, prepared>>
vars == <<op, generation, gate, poll_deferred, draining, software_fix,
          installing_drivers, workflow, dialog_open, workers, applied, process>>

Kinds == {"Exec", "Probe", "Inspect", "KonaFlash", "Cancel", "Cleanup", "SelfUpdate"}
NoOp  == [id |-> 0, kind |-> "None"]

\* Input that `self_update_gate::blocks_message` names.
Workflow == {"ExecStart", "RootNext", "KonaNext", "KonaBack", "StartOver", "Navigate",
             "KillAdbServer", "ForceClose", "ConfirmClose", "InstallDrivers",
             "CleanupTempFiles", "PollDevice"}
\* Input that only the deferral names: picker replies and the update button.
Messages == Workflow \cup {"PickerReply", "InstallSelfUpdate"}
Starters == {"ExecStart", "RootNext", "KonaNext", "KonaBack", "CleanupTempFiles",
             "InstallSelfUpdate"}

Jobs == {"Poll", "Kill", "Close", "Check", "Drivers", "Op", "ExitTimer"}
Worker(job, id) == [job |-> job, id |-> id]

-----------------------------------------------------------------------------
(* The questions the handlers ask of the state.                            *)

is_running == op # NoOp /\ op.kind # "SelfUpdate"
update_active == direct_update \in {"Updating", "Restarting"}
\* Fault: an adb server kill does not close the gate.
GateOpenDuringKill == poll_in_flight # 0 \/ software_fix.closing

gate_closed   == \/ poll_in_flight # 0
                 \/ adb_server_kill_in_flight
                 \/ software_fix.closing

\* Fault: poll requests are queued too.
DefersPollsToo(m) == m \in Messages

blocks_message(m) == m \in Workflow
defers_message(m) == m # "PollDevice" /\ m \in Messages

\* Fault: the dispatcher forgets the update that is under way.
DroppedByOperationOnly(m) == is_running /\ m # "Navigate"
                             /\ (blocks_message(m) \/ m = "PickerReply")

Dropped(m)  == \/ is_running /\ m # "Navigate"
                  /\ (blocks_message(m) \/ m = "PickerReply")
               \/ update_active /\ blocks_message(m)
Deferred(m) == ~Dropped(m) /\ gate_closed /\ defers_message(m)
Handled(m)  == ~Dropped(m) /\ ~(gate_closed /\ defers_message(m))

\* Fault: a poll may overlap a driver install.
QuietButDrivers == /\ poll_deferred = <<>> /\ ~is_running
                   /\ ~adb_server_kill_in_flight /\ ~software_fix.closing
                   /\ ~update_active /\ ~prepared

\* can_poll_device, its poll_in_flight conjunct apart.
NothingElseOwnsTheDevice ==
  /\ poll_deferred = <<>>
  /\ ~is_running /\ ~installing_drivers /\ ~adb_server_kill_in_flight
  /\ ~software_fix.closing /\ ~update_active /\ ~prepared
can_poll_device == poll_in_flight = 0 /\ NothingElseOwnsTheDevice

self_update_blocked == \/ software_fix.closing \/ installing_drivers
                       \/ cleaning_temp \/ is_running \/ prepared
can_install_self_update == dialog_open /\ ~update_active /\ ~self_update_blocked
can_exit_after_self_update == direct_update = "Restarting" /\ ~self_update_blocked

can_close_software_fix ==
  /\ Windows /\ software_fix.running /\ ~software_fix.closing
  /\ ~is_running /\ ~installing_drivers /\ ~update_active /\ ~prepared

-----------------------------------------------------------------------------
(* OperationExecution.                                                     *)

\* Take the reservation; the worker's completion is bound to the new id.
Reserve(kind, live) ==
  /\ generation' = generation + 1
  /\ op' = [id |-> generation + 1, kind |-> kind]
  /\ workers' = live \cup {Worker("Op", generation + 1)}

\* `start` asserts that no operation owns execution.
start(kind) ==
  IF op = NoOp
  THEN Reserve(kind, workers) /\ UNCHANGED process
  ELSE process' = "Panicked" /\ UNCHANGED <<op, generation, workers>>

Spawn(worker) == workers' = workers \cup {worker}
Idle == UNCHANGED <<op, generation, workers, process>>

-----------------------------------------------------------------------------
(* One operator per handler.  A handler leaves poll_deferred and draining  *)
(* to its caller, which is a fresh message or the replay.                  *)

\* FlashExecStart and the other wizards' start messages: a missing file or
\* an unsupported model refuses, otherwise the operation begins.
ExecStart ==
  /\ Idle \/ start("Exec")
  /\ UNCHANGED <<gate, software_fix, installing_drivers, workflow, dialog_open, applied>>

\* RootNext: move on, and on the last step probe the kernel version first or
\* start at once.
RootNext ==
  /\ \/ Idle
     \/ ~is_running /\ \E kind \in {"Probe", "Exec"} : start(kind)
  /\ UNCHANGED <<gate, software_fix, installing_drivers, workflow, dialog_open, applied>>

\* KonaBessNext: inspect (step 0), move on (step 1) or flash (step 2).
KonaNext ==
  /\ \/ Idle /\ UNCHANGED prepared
     \/ ~is_running /\ prepared' = FALSE /\ start("Inspect")
     \/ ~is_running /\ prepared /\ UNCHANGED prepared /\ start("KonaFlash")
  /\ UNCHANGED <<gate, software_fix, installing_drivers, cleaning_temp, direct_update,
                 dialog_open, applied>>

\* Reopen the EDL session and reset the device.
cancel_konabess_inspection == start("Cancel")

\* KonaBessBack or KonaBessTargetDismiss: step back, or abandon the prepared device flow.
KonaBack ==
  /\ \/ Idle /\ (UNCHANGED prepared \/ prepared' = FALSE)
     \/ prepared /\ UNCHANGED prepared /\ cancel_konabess_inspection
  /\ UNCHANGED <<gate, software_fix, installing_drivers, cleaning_temp, direct_update,
                 dialog_open, applied>>

\* Leaving or entering the KonaBess view resets its wizard when nothing runs.
Navigate ==
  /\ UNCHANGED prepared \/ (~is_running /\ prepared' = FALSE)
  /\ Idle
  /\ UNCHANGED <<gate, software_fix, installing_drivers, cleaning_temp, direct_update,
                 dialog_open, applied>>

\* StartOver resets the wizard of the current view.
StartOver ==
  /\ UNCHANGED prepared \/ prepared' = FALSE
  /\ Idle
  /\ UNCHANGED <<gate, software_fix, installing_drivers, cleaning_temp, direct_update,
                 dialog_open, applied>>

\* FileSelected and FolderSelected edit a wizard only.
PickerReply == UNCHANGED <<op, generation, gate, software_fix, installing_drivers,
                           workflow, dialog_open, workers, applied, process>>

KillAdbServer ==
  /\ IF is_running \/ installing_drivers \/ adb_server_kill_in_flight
     THEN UNCHANGED <<adb_server_kill_in_flight, workers>>
     ELSE adb_server_kill_in_flight' = TRUE /\ Spawn(Worker("Kill", 0))
  /\ UNCHANGED <<op, generation, poll_in_flight, sequence, software_fix,
                 installing_drivers, workflow, dialog_open, applied, process>>

ForceClose ==
  /\ software_fix' = [software_fix EXCEPT
        !.confirm_open = @ \/ can_close_software_fix]
  /\ UNCHANGED <<op, generation, gate, installing_drivers, workflow, dialog_open,
                 workers, applied, process>>

ConfirmClose ==
  /\ IF software_fix.confirm_open /\ can_close_software_fix
     THEN /\ software_fix' = [software_fix EXCEPT !.confirm_open = FALSE, !.closing = TRUE]
          /\ Spawn(Worker("Close", 0))
     ELSE /\ software_fix' = [software_fix EXCEPT !.confirm_open = FALSE]
          /\ UNCHANGED workers
  /\ UNCHANGED <<op, generation, gate, installing_drivers, workflow, dialog_open,
                 applied, process>>

InstallDrivers ==
  /\ IF installing_drivers
     THEN UNCHANGED <<installing_drivers, workers>>
     ELSE installing_drivers' = TRUE /\ Spawn(Worker("Drivers", 0))
  /\ UNCHANGED <<op, generation, gate, software_fix, workflow, dialog_open, applied,
                 process>>

CleanupTempFiles ==
  /\ IF is_running \/ cleaning_temp
     THEN Idle /\ UNCHANGED cleaning_temp
     ELSE cleaning_temp' = TRUE /\ start("Cleanup")
  /\ UNCHANGED <<gate, software_fix, installing_drivers, direct_update, prepared,
                 dialog_open, applied>>

InstallSelfUpdate ==
  /\ IF can_install_self_update
     THEN direct_update' = "Updating" /\ start("SelfUpdate")
     ELSE Idle /\ UNCHANGED direct_update
  /\ UNCHANGED <<gate, software_fix, installing_drivers, cleaning_temp, prepared,
                 dialog_open, applied>>

PollDevice ==
  /\ IF can_poll_device
     THEN /\ sequence' = sequence + 1
          /\ poll_in_flight' = sequence + 1
          /\ Spawn(Worker("Poll", sequence + 1))
     ELSE UNCHANGED <<sequence, poll_in_flight, workers>>
  /\ UNCHANGED <<op, generation, adb_server_kill_in_flight, software_fix,
                 installing_drivers, workflow, dialog_open, applied, process>>

Handle(m) ==
  \/ m = "ExecStart" /\ ExecStart
  \/ m = "RootNext" /\ RootNext
  \/ m = "KonaNext" /\ KonaNext
  \/ m = "KonaBack" /\ KonaBack
  \/ m = "Navigate" /\ Navigate
  \/ m = "StartOver" /\ StartOver
  \/ m = "PickerReply" /\ PickerReply
  \/ m = "KillAdbServer" /\ KillAdbServer
  \/ m = "ForceClose" /\ ForceClose
  \/ m = "ConfirmClose" /\ ConfirmClose
  \/ m = "InstallDrivers" /\ InstallDrivers
  \/ m = "CleanupTempFiles" /\ CleanupTempFiles
  \/ m = "InstallSelfUpdate" /\ InstallSelfUpdate
  \/ m = "PollDevice" /\ PollDevice

-----------------------------------------------------------------------------
(* The dispatcher.  While draining the UI thread is still inside one call  *)
(* of `update`, so nothing else is delivered.                              *)

Listening == process = "Up" /\ ~draining

WithinBounds(m) ==
  /\ m \in Starters => generation + Len(poll_deferred) < MaxOps
  /\ m = "PollDevice" => sequence < MaxPolls

\* A fresh message that acts at once.
Receive(m) ==
  /\ Listening /\ WithinBounds(m) /\ Handled(m)
  /\ Handle(m)
  /\ UNCHANGED <<poll_deferred, draining>>

\* A fresh message that waits for the lease to be released.
Defer(m) ==
  /\ Listening /\ WithinBounds(m) /\ Deferred(m)
  /\ Len(poll_deferred) < MaxDeferred
  /\ poll_deferred' = Append(poll_deferred, m)
  /\ UNCHANGED <<op, generation, gate, draining, software_fix, installing_drivers,
                 workflow, dialog_open, workers, applied, process>>

\* One turn of the loop of resume_after_device_poll: pop the oldest message
\* and dispatch it; the loop ends when the queue is empty or the gate closed.
Drain ==
  /\ process = "Up" /\ draining
  /\ poll_deferred' = Tail(poll_deferred)
  /\ LET m == Head(poll_deferred)
     IN IF Handled(m) THEN Handle(m) ELSE PickerReply
  /\ draining' = (poll_deferred' # <<>> /\ ~gate_closed')

-----------------------------------------------------------------------------
(* Completions.                                                            *)

\* Fault: a released lease does not replay the queue.
ReleaseWithoutReplay == UNCHANGED draining

\* What resume_after_device_poll finds when it is entered.
Resume == draining' = (poll_deferred # <<>> /\ ~gate_closed')

DevicePollFinished(id) ==
  /\ Listening /\ Worker("Poll", id) \in workers
  /\ workers' = workers \ {Worker("Poll", id)}
  /\ UNCHANGED <<op, generation, sequence, adb_server_kill_in_flight, poll_deferred,
                 software_fix, installing_drivers, workflow, dialog_open, process>>
  /\ IF poll_in_flight = id
     THEN /\ poll_in_flight' = 0
          /\ applied' \in (IF NothingElseOwnsTheDevice THEN {id, applied} ELSE {applied})
          /\ Resume
     ELSE UNCHANGED <<poll_in_flight, applied, draining>>

AdbServerKillFinished ==
  /\ Listening /\ Worker("Kill", 0) \in workers
  /\ workers' = workers \ {Worker("Kill", 0)}
  /\ adb_server_kill_in_flight' = FALSE
  /\ UNCHANGED <<op, generation, poll_in_flight, sequence, poll_deferred, software_fix,
                 installing_drivers, workflow, dialog_open, applied, process>>
  /\ Resume

SoftwareFixClosed ==
  /\ Listening /\ Worker("Close", 0) \in workers
  /\ workers' = workers \ {Worker("Close", 0)}
  /\ software_fix' = [software_fix EXCEPT !.closing = FALSE]
  /\ UNCHANGED <<op, generation, gate, poll_deferred, installing_drivers, workflow,
                 dialog_open, applied, process>>
  /\ Resume

InstallDriversDone ==
  /\ Listening /\ Worker("Drivers", 0) \in workers
  /\ workers' = workers \ {Worker("Drivers", 0)}
  /\ installing_drivers' = FALSE
  /\ UNCHANGED <<op, generation, gate, poll_deferred, draining, software_fix, workflow,
                 dialog_open, applied, process>>

finish(id) == /\ op' = NoOp
              /\ workers' = workers \ {Worker("Op", id)}
              /\ UNCHANGED generation

\* *ExecDone of a workflow, or its OperationError.
ExecDone(id) ==
  /\ op.kind = "Exec" /\ finish(id)
  /\ UNCHANGED workflow

\* Fault: a probe whose wizard moved on keeps its reservation.
ProbeKeepsReservation(id) ==
  /\ op.kind = "Probe"
  /\ workers' = workers \ {Worker("Op", id)}
  /\ UNCHANGED <<op, generation, workflow>>

\* RootKernelVersionProbeDone: release, or hand over to the root operation
\* within the same dispatch.
RootKernelVersionProbeDone(id) ==
  /\ op.kind = "Probe"
  /\ \/ finish(id)
     \/ Reserve("Exec", workers \ {Worker("Op", id)})
  /\ UNCHANGED workflow

\* KonaBessInspectionReady keeps the workspace, KonaBessInspectionFailed not.
KonaBessInspectionDone(id) ==
  /\ op.kind = "Inspect" /\ finish(id)
  /\ prepared' \in BOOLEAN
  /\ UNCHANGED <<cleaning_temp, direct_update>>

\* KonaBessFlashDone drops the workspace; an error leaves it where it is.
KonaBessFlashDone(id) ==
  /\ op.kind = "KonaFlash" /\ finish(id)
  /\ UNCHANGED prepared \/ prepared' = FALSE
  /\ UNCHANGED <<cleaning_temp, direct_update>>

KonaBessCancelDone(id) ==
  /\ op.kind = "Cancel" /\ finish(id)
  /\ prepared' = FALSE
  /\ UNCHANGED <<cleaning_temp, direct_update>>

CleanupDone(id) ==
  /\ op.kind = "Cleanup" /\ finish(id)
  /\ cleaning_temp' = FALSE
  /\ UNCHANGED <<direct_update, prepared>>

\* The update is installed: keep the reservation until the timer exits.
SelfUpdateInstalled(id) ==
  /\ direct_update = "Updating"
  /\ direct_update' = "Restarting"
  /\ workers' = (workers \ {Worker("Op", id)}) \cup {Worker("ExitTimer", id)}
  /\ UNCHANGED <<op, generation, cleaning_temp, prepared>>

SelfUpdateFailed(id) ==
  /\ direct_update = "Updating" /\ finish(id)
  /\ direct_update' = "Failed"
  /\ UNCHANGED <<cleaning_temp, prepared>>

\* A completion enters under the id of the running operation; under any
\* other id it is discarded.
OperationEvent(id) ==
  /\ Listening /\ Worker("Op", id) \in workers
  /\ IF op.id = id
     THEN \/ ExecDone(id) \/ RootKernelVersionProbeDone(id)
          \/ KonaBessInspectionDone(id) \/ KonaBessFlashDone(id) \/ KonaBessCancelDone(id)
          \/ CleanupDone(id) \/ SelfUpdateInstalled(id) \/ SelfUpdateFailed(id)
     ELSE /\ workers' = workers \ {Worker("Op", id)}
          /\ UNCHANGED <<op, generation, workflow>>
  /\ UNCHANGED <<gate, poll_deferred, draining, software_fix, installing_drivers,
                 dialog_open, applied, process>>

\* The exit timer: leave the process, or look again in 250 ms.
ExitAfterUpdate(id) ==
  /\ Listening /\ Worker("ExitTimer", id) \in workers /\ op.id = id
  /\ direct_update = "Restarting"
  /\ process' = IF can_exit_after_self_update THEN "Exited" ELSE process
  /\ workers' = IF can_exit_after_self_update
                THEN workers \ {Worker("ExitTimer", id)} ELSE workers
  /\ UNCHANGED <<op, generation, gate, poll_deferred, draining, software_fix,
                 installing_drivers, workflow, dialog_open, applied>>

-----------------------------------------------------------------------------
(* Input that no gate holds back.                                          *)

PollSoftwareFix ==
  /\ Listening /\ Windows /\ ~software_fix.checking
  /\ software_fix' = [software_fix EXCEPT !.checking = TRUE]
  /\ Spawn(Worker("Check", 0))
  /\ UNCHANGED <<op, generation, gate, poll_deferred, draining, installing_drivers,
                 workflow, dialog_open, applied, process>>

\* A failed check keeps the last answer.
SoftwareFixPolled ==
  /\ Listening /\ Worker("Check", 0) \in workers
  /\ workers' = workers \ {Worker("Check", 0)}
  /\ \E running \in BOOLEAN :
       software_fix' = [software_fix EXCEPT
          !.checking = FALSE, !.running = running, !.confirm_open = @ /\ running]
  /\ UNCHANGED <<op, generation, gate, poll_deferred, draining, installing_drivers,
                 workflow, dialog_open, applied, process>>

CancelCloseSoftwareFix ==
  /\ Listening /\ software_fix.confirm_open
  /\ software_fix' = [software_fix EXCEPT !.confirm_open = FALSE]
  /\ UNCHANGED <<op, generation, gate, poll_deferred, draining, installing_drivers,
                 workflow, dialog_open, workers, applied, process>>

OpenUpdate ==
  /\ Listening /\ ~update_active
  /\ direct_update' = "Ready" /\ dialog_open' = TRUE
  /\ UNCHANGED <<op, generation, gate, poll_deferred, draining, software_fix,
                 installing_drivers, cleaning_temp, prepared, workers, applied, process>>

UpdateDialogClose ==
  /\ Listening /\ ~update_active /\ dialog_open
  /\ dialog_open' = FALSE
  /\ UNCHANGED <<op, generation, gate, poll_deferred, draining, software_fix,
                 installing_drivers, workflow, workers, applied, process>>

WindowClose ==
  /\ Listening /\ ~update_active /\ ~is_running
  /\ process' = "Exited" /\ prepared' = FALSE
  /\ UNCHANGED <<op, generation, gate, poll_deferred, draining, software_fix,
                 installing_drivers, cleaning_temp, direct_update, dialog_open, workers,
                 applied>>

-----------------------------------------------------------------------------
Init ==
  /\ op = NoOp /\ generation = 0
  /\ poll_in_flight = 0 /\ sequence = 0
  /\ poll_deferred = <<>> /\ draining = FALSE
  /\ adb_server_kill_in_flight = FALSE
  /\ software_fix = [running |-> FALSE, confirm_open |-> FALSE,
                     checking |-> FALSE, closing |-> FALSE]
  /\ installing_drivers = FALSE /\ cleaning_temp = FALSE
  /\ direct_update = "Ready" /\ dialog_open = FALSE
  /\ prepared = FALSE
  /\ workers = {} /\ applied = 0 /\ process = "Up"

User == \/ \E m \in Messages : Receive(m) \/ Defer(m)
        \/ PollSoftwareFix \/ CancelCloseSoftwareFix
        \/ OpenUpdate \/ UpdateDialogClose \/ WindowClose

GateCompletion == \/ \E w \in workers : DevicePollFinished(w.id)
                  \/ AdbServerKillFinished \/ SoftwareFixClosed

Next == \/ User \/ Drain
        \/ GateCompletion \/ InstallDriversDone \/ SoftwareFixPolled
        \/ \E w \in workers : OperationEvent(w.id) \/ ExitAfterUpdate(w.id)

Spec == Init /\ [][Next]_vars

\* A blocking worker returns (a panic is turned into its error) and iced
\* delivers its completion; the UI thread does not stop inside a replay.
Fairness == /\ WF_vars(Drain) /\ WF_vars(GateCompletion)
            /\ WF_vars(\E w \in workers : OperationEvent(w.id))
            /\ WF_vars(\E w \in workers : ExitAfterUpdate(w.id))
FairSpec == Spec /\ Fairness

-----------------------------------------------------------------------------
(* What the gate guarantees.                                               *)

\* The type of every variable.
TypeOK ==
  /\ op \in {NoOp} \cup [id : Nat \ {0}, kind : Kinds]
  /\ generation \in Nat /\ poll_in_flight \in Nat /\ sequence \in Nat /\ applied \in Nat
  /\ poll_deferred \in Seq(Messages \ {"PollDevice"})
  /\ draining \in BOOLEAN /\ adb_server_kill_in_flight \in BOOLEAN
  /\ software_fix \in [running : BOOLEAN, confirm_open : BOOLEAN,
                       checking : BOOLEAN, closing : BOOLEAN]
  /\ installing_drivers \in BOOLEAN /\ cleaning_temp \in BOOLEAN
  /\ direct_update \in {"Ready", "Updating", "Restarting", "Failed"}
  /\ dialog_open \in BOOLEAN /\ prepared \in BOOLEAN
  /\ workers \subseteq [job : Jobs, id : Nat]
  /\ process \in {"Up", "Exited", "Panicked"}

\* Who holds the device: the poll, the adb kill, the Software Fix close, an
\* operation, a self-update, a driver install.
Holders == {c \in {"poll", "kill", "close", "operation", "update", "drivers"} :
              \/ c = "poll" /\ poll_in_flight # 0
              \/ c = "kill" /\ adb_server_kill_in_flight
              \/ c = "close" /\ software_fix.closing
              \/ c = "operation" /\ is_running
              \/ c = "update" /\ op # NoOp /\ ~is_running
              \/ c = "drivers" /\ installing_drivers}

\* The gate implements the lease of DeviceLease: nothing starts on a device
\* another piece of work holds, whatever order input and completions come in.
Lease == INSTANCE DeviceLease WITH holders <- Holders, open <- (process = "Up")
LeaseSpec == Lease!Spec

\* Never two at once, an operation over a driver install apart.
OneDeviceHolder ==
  \A a, b \in Holders : a = b \/ {a, b} = {"operation", "drivers"}

\* Between two messages, input waits only while a lease is held: nothing is
\* stranded in the queue with no completion left that would replay it.
NoStrandedInput == ~draining /\ poll_deferred # <<>> => gate_closed

\* The assertion of OperationExecution::start never fires.
NeverPanics == process # "Panicked"

\* direct_update and the reservation move together, and an installed update
\* is never kept from exiting by other work.
UpdateOwnsReservation ==
  /\ update_active <=> op.kind = "SelfUpdate"
  /\ direct_update = "Restarting" => ~self_update_blocked

\* Every operation releases its reservation, or the process exits.
OperationEnds ==
  \A id \in 1..(MaxOps + 1) : op.id = id ~> (op.id # id \/ process # "Up")
=============================================================================
