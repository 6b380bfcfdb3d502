---------------------------- MODULE ProgramProofs ----------------------------
(***************************************************************************)
(* Proofs about the program's own processes.  About the input gate, for    *)
(* every value of the bounds: its types, the exclusion of the work that    *)
(* uses the device, that no input is stranded, and that the gate           *)
(* implements the lease of DeviceLease, step by step (IInv is inductive).  *)
(* About the self-update, for any number of instances, updates and kills   *)
(* on either kind of platform: a whole program survives, and what an       *)
(* update reports is true (UpdateInv is inductive); the first until the    *)
(* lock is taken while no program is installed (late).                     *)
(***************************************************************************)
EXTENDS DispatchGate, SelfUpdate, TLAPS

-----------------------------------------------------------------------------
(* The input gate.                                                         *)


\* The types, in the groups a handler changes together.
OwnerType == /\ op \in {NoOp} \cup [id : Nat \ {0}, kind : Kinds]
             /\ generation \in Nat
             /\ workers \subseteq [job : Jobs, id : Nat]
             /\ process \in {"Up", "Exited", "Panicked"}
GateType  == /\ poll_in_flight \in Nat /\ sequence \in Nat /\ applied \in Nat
             /\ adb_server_kill_in_flight \in BOOLEAN
FixType   == software_fix \in [running : BOOLEAN, confirm_open : BOOLEAN,
                               checking : BOOLEAN, closing : BOOLEAN]
FlagType  == /\ installing_drivers \in BOOLEAN /\ cleaning_temp \in BOOLEAN
             /\ direct_update \in {"Ready", "Updating", "Restarting", "Failed"}
             /\ dialog_open \in BOOLEAN /\ prepared \in BOOLEAN

\* Who may hold what beside whom.
Exclusion ==
  /\ poll_in_flight # 0 => ~adb_server_kill_in_flight /\ ~software_fix.closing
  /\ adb_server_kill_in_flight => ~software_fix.closing
  /\ gate_closed => op = NoOp /\ ~installing_drivers
  /\ op.kind = "SelfUpdate" <=> update_active
  /\ update_active => ~installing_drivers /\ ~prepared
  /\ cleaning_temp => op.kind = "Cleanup"
  /\ process # "Panicked"

\* The poll that runs is the newest, and newer than the last applied.
PollOrder ==
  /\ applied <= sequence
  /\ poll_in_flight # 0 => poll_in_flight = sequence /\ applied < sequence

\* What every handler and completion keeps.
Core == OwnerType /\ GateType /\ FixType /\ FlagType /\ Exclusion /\ PollOrder

\* A replay runs only while the gate is open and input is left; outside a
\* replay input waits only while a lease is held.
QueueType  == poll_deferred \in Seq(Messages \ {"PollDevice"})
ReplayOpen == /\ draining \in BOOLEAN
              /\ draining => poll_deferred # <<>> /\ ~gate_closed
Queue == QueueType /\ ReplayOpen /\ NoStrandedInput

IInv == Core /\ Queue

-----------------------------------------------------------------------------
\* What a handler may rely on when the dispatcher lets its message act.
LEMMA HandledMeans ==
  ASSUME NEW m \in Messages, Handled(m)
  PROVE  /\ m # "PollDevice" => ~gate_closed
         /\ m \in Workflow => ~update_active
         /\ m \in Workflow \ {"Navigate"} => ~is_running
  BY DEF Handled, Dropped, defers_message, blocks_message

\* With the gate open and nothing running or updating, no operation is held.
LEMMA NothingHeld ==
  ASSUME Core, ~is_running, ~update_active
  PROVE  op = NoOp
  BY DEF Core, Exclusion, is_running

\* A wizard's start message takes the free reservation or refuses.
LEMMA ExecStartKeeps ==
  ASSUME Core,
         ~gate_closed, ~is_running, ~update_active, ExecStart
  PROVE  Core'
<1>0. op = NoOp
  BY NothingHeld
<1>1. OwnerType'
  BY <1>0 DEF ExecStart, Idle, start, Reserve, Core, OwnerType, GateType, Worker,
     Jobs, Kinds, NoOp
<1>2. GateType'
  BY <1>0 DEF ExecStart, Idle, start, Reserve, Core, GateType, gate
<1>3. FixType'
  BY <1>0 DEF ExecStart, Idle, start, Reserve, Core, FixType
<1>4. FlagType'
  BY <1>0 DEF ExecStart, Idle, start, Reserve, Core, FlagType, workflow
<1>5. Exclusion'
  BY <1>0 DEF ExecStart, Idle, start, Reserve, Core, Exclusion, OwnerType, GateType,
     FixType, FlagType, NoOp, Kinds, gate, workflow, gate_closed, update_active,
     is_running
<1>6. PollOrder'
  BY <1>0 DEF ExecStart, Idle, start, Reserve, Core, PollOrder, GateType, gate
<1> QED
  BY <1>1, <1>2, <1>3, <1>4, <1>5, <1>6 DEF Core

\* RootNext takes the free reservation for a probe or an operation.
LEMMA RootNextKeeps ==
  ASSUME Core,
         ~gate_closed, ~is_running, ~update_active, RootNext
  PROVE  Core'
<1>0. op = NoOp
  BY NothingHeld
<1>1. OwnerType'
  BY <1>0 DEF RootNext, Idle, start, Reserve, Core, OwnerType, GateType, Worker,
     Jobs, Kinds, NoOp
<1>2. GateType'
  BY <1>0 DEF RootNext, Idle, start, Reserve, Core, GateType, gate
<1>3. FixType'
  BY <1>0 DEF RootNext, Idle, start, Reserve, Core, FixType
<1>4. FlagType'
  BY <1>0 DEF RootNext, Idle, start, Reserve, Core, FlagType, workflow
<1>5. Exclusion'
  BY <1>0 DEF RootNext, Idle, start, Reserve, Core, Exclusion, OwnerType, GateType,
     FixType, FlagType, NoOp, Kinds, gate, workflow, gate_closed, update_active,
     is_running
<1>6. PollOrder'
  BY <1>0 DEF RootNext, Idle, start, Reserve, Core, PollOrder, GateType, gate
<1> QED
  BY <1>1, <1>2, <1>3, <1>4, <1>5, <1>6 DEF Core

\* KonaBessNext takes it for an inspection or a flash.
LEMMA KonaNextKeeps ==
  ASSUME Core,
         ~gate_closed, ~is_running, ~update_active, KonaNext
  PROVE  Core'
<1>0. op = NoOp
  BY NothingHeld
<1>1. OwnerType'
  BY <1>0 DEF KonaNext, Idle, start, Reserve, Core, OwnerType, GateType, Worker,
     Jobs, Kinds, NoOp
<1>2. GateType'
  BY <1>0 DEF KonaNext, Idle, start, Reserve, Core, GateType, gate
<1>3. FixType'
  BY <1>0 DEF KonaNext, Idle, start, Reserve, Core, FixType
<1>4. FlagType'
  BY <1>0 DEF KonaNext, Idle, start, Reserve, Core, FlagType, workflow
<1>5. Exclusion'
  BY <1>0 DEF KonaNext, Idle, start, Reserve, Core, Exclusion, OwnerType, GateType,
     FixType, FlagType, NoOp, Kinds, gate, workflow, gate_closed, update_active,
     is_running
<1>6. PollOrder'
  BY <1>0 DEF KonaNext, Idle, start, Reserve, Core, PollOrder, GateType, gate
<1> QED
  BY <1>1, <1>2, <1>3, <1>4, <1>5, <1>6 DEF Core

\* KonaBessBack takes it to abandon the prepared flow.
LEMMA KonaBackKeeps ==
  ASSUME Core,
         ~gate_closed, ~is_running, ~update_active, KonaBack
  PROVE  Core'
<1>0. op = NoOp
  BY NothingHeld
<1>1. OwnerType'
  BY <1>0 DEF KonaBack, cancel_konabess_inspection, Idle, start, Reserve, Core,
     OwnerType, GateType, Worker, Jobs, Kinds, NoOp
<1>2. GateType'
  BY <1>0 DEF KonaBack, cancel_konabess_inspection, Idle, start, Reserve, Core,
     GateType, gate
<1>3. FixType'
  BY <1>0 DEF KonaBack, cancel_konabess_inspection, Idle, start, Reserve, Core,
     FixType
<1>4. FlagType'
  BY <1>0 DEF KonaBack, cancel_konabess_inspection, Idle, start, Reserve, Core,
     FlagType, workflow
<1>5. Exclusion'
  BY <1>0 DEF KonaBack, cancel_konabess_inspection, Idle, start, Reserve, Core,
     Exclusion, OwnerType, GateType, FixType, FlagType, NoOp, Kinds, gate, workflow,
     gate_closed, update_active, is_running
<1>6. PollOrder'
  BY <1>0 DEF KonaBack, cancel_konabess_inspection, Idle, start, Reserve, Core,
     PollOrder, GateType, gate
<1> QED
  BY <1>1, <1>2, <1>3, <1>4, <1>5, <1>6 DEF Core

\* The temp-file sweep takes it and marks itself.
LEMMA CleanupKeeps ==
  ASSUME Core,
         ~gate_closed, ~is_running, ~update_active, CleanupTempFiles
  PROVE  Core'
<1>0. op = NoOp
  BY NothingHeld
<1>1. OwnerType'
  BY <1>0 DEF CleanupTempFiles, Idle, start, Reserve, Core, OwnerType, GateType,
     Worker, Jobs, Kinds, NoOp
<1>2. GateType'
  BY <1>0 DEF CleanupTempFiles, Idle, start, Reserve, Core, GateType, gate
<1>3. FixType'
  BY <1>0 DEF CleanupTempFiles, Idle, start, Reserve, Core, FixType
<1>4. FlagType'
  BY <1>0 DEF CleanupTempFiles, Idle, start, Reserve, Core, FlagType, workflow
<1>5. Exclusion'
  BY <1>0 DEF CleanupTempFiles, Idle, start, Reserve, Core, Exclusion, OwnerType,
     GateType, FixType, FlagType, NoOp, Kinds, gate, workflow, gate_closed,
     update_active, is_running
<1>6. PollOrder'
  BY <1>0 DEF CleanupTempFiles, Idle, start, Reserve, Core, PollOrder, GateType,
     gate
<1> QED
  BY <1>1, <1>2, <1>3, <1>4, <1>5, <1>6 DEF Core

\* Navigation may drop the prepared workspace, nothing else.
LEMMA NavigateKeeps ==
  ASSUME Core,
         Navigate
  PROVE  Core'
<1>1. OwnerType'
  BY DEF Navigate, Idle, Core, OwnerType, GateType, Worker, Jobs, Kinds, NoOp
<1>2. GateType'
  BY DEF Navigate, Idle, Core, GateType, gate
<1>3. FixType'
  BY DEF Navigate, Idle, Core, FixType
<1>4. FlagType'
  BY DEF Navigate, Idle, Core, FlagType, workflow
<1>5. Exclusion'
  BY DEF Navigate, Idle, Core, Exclusion, OwnerType, GateType, FixType, FlagType,
     NoOp, Kinds, gate, workflow, gate_closed, update_active, is_running
<1>6. PollOrder'
  BY DEF Navigate, Idle, Core, PollOrder, GateType, gate
<1> QED
  BY <1>1, <1>2, <1>3, <1>4, <1>5, <1>6 DEF Core

\* So may StartOver.
LEMMA StartOverKeeps ==
  ASSUME Core,
         StartOver
  PROVE  Core'
<1>1. OwnerType'
  BY DEF StartOver, Idle, Core, OwnerType, GateType, Worker, Jobs, Kinds, NoOp
<1>2. GateType'
  BY DEF StartOver, Idle, Core, GateType, gate
<1>3. FixType'
  BY DEF StartOver, Idle, Core, FixType
<1>4. FlagType'
  BY DEF StartOver, Idle, Core, FlagType, workflow
<1>5. Exclusion'
  BY DEF StartOver, Idle, Core, Exclusion, OwnerType, GateType, FixType, FlagType,
     NoOp, Kinds, gate, workflow, gate_closed, update_active, is_running
<1>6. PollOrder'
  BY DEF StartOver, Idle, Core, PollOrder, GateType, gate
<1> QED
  BY <1>1, <1>2, <1>3, <1>4, <1>5, <1>6 DEF Core

\* A picker reply changes nothing the gate reads.
LEMMA PickerReplyKeeps ==
  ASSUME Core,
         PickerReply
  PROVE  Core'
<1>1. OwnerType'
  BY DEF PickerReply, Core, OwnerType, GateType, Worker, Jobs, Kinds, NoOp
<1>2. GateType'
  BY DEF PickerReply, Core, GateType, gate
<1>3. FixType'
  BY DEF PickerReply, Core, FixType
<1>4. FlagType'
  BY DEF PickerReply, Core, FlagType, workflow
<1>5. Exclusion'
  BY DEF PickerReply, Core, Exclusion, OwnerType, GateType, FixType, FlagType, NoOp,
     Kinds, gate, workflow, gate_closed, update_active, is_running
<1>6. PollOrder'
  BY DEF PickerReply, Core, PollOrder, GateType, gate
<1> QED
  BY <1>1, <1>2, <1>3, <1>4, <1>5, <1>6 DEF Core

\* The adb kill takes its lease when no other is held.
LEMMA KillKeeps ==
  ASSUME Core,
         ~gate_closed, ~is_running, ~update_active, KillAdbServer
  PROVE  Core'
<1>0. op = NoOp
  BY NothingHeld
<1>1. OwnerType'
  BY <1>0 DEF KillAdbServer, Spawn, Core, OwnerType, GateType, Worker, Jobs, Kinds,
     NoOp
<1>2. GateType'
  BY <1>0 DEF KillAdbServer, Spawn, Core, GateType, gate
<1>3. FixType'
  BY <1>0 DEF KillAdbServer, Spawn, Core, FixType
<1>4. FlagType'
  BY <1>0 DEF KillAdbServer, Spawn, Core, FlagType, workflow
<1>5. Exclusion'
  BY <1>0 DEF KillAdbServer, Spawn, Core, Exclusion, OwnerType, GateType, FixType,
     FlagType, NoOp, Kinds, gate, workflow, gate_closed, update_active, is_running
<1>6. PollOrder'
  BY <1>0 DEF KillAdbServer, Spawn, Core, PollOrder, GateType, gate
<1> QED
  BY <1>1, <1>2, <1>3, <1>4, <1>5, <1>6 DEF Core

\* Asking to close Software Fix only opens the dialog.
LEMMA ForceCloseKeeps ==
  ASSUME Core,
         ForceClose
  PROVE  Core'
<1>1. OwnerType'
  BY DEF ForceClose, can_close_software_fix, Core, OwnerType, GateType, Worker,
     Jobs, Kinds, NoOp
<1>2. GateType'
  BY DEF ForceClose, can_close_software_fix, Core, GateType, gate
<1>3. FixType'
  BY DEF ForceClose, can_close_software_fix, Core, FixType
<1>4. FlagType'
  BY DEF ForceClose, can_close_software_fix, Core, FlagType, workflow
<1>5. Exclusion'
  BY DEF ForceClose, can_close_software_fix, Core, Exclusion, OwnerType, GateType,
     FixType, FlagType, NoOp, Kinds, gate, workflow, gate_closed, update_active,
     is_running
<1>6. PollOrder'
  BY DEF ForceClose, can_close_software_fix, Core, PollOrder, GateType, gate
<1> QED
  BY <1>1, <1>2, <1>3, <1>4, <1>5, <1>6 DEF Core

\* Confirming takes the close lease when no other is held.
LEMMA ConfirmCloseKeeps ==
  ASSUME Core,
         ~gate_closed, ~is_running, ~update_active, ConfirmClose
  PROVE  Core'
<1>0. op = NoOp
  BY NothingHeld
<1>1. OwnerType'
  BY <1>0 DEF ConfirmClose, Spawn, can_close_software_fix, Core, OwnerType,
     GateType, Worker, Jobs, Kinds, NoOp
<1>2. GateType'
  BY <1>0 DEF ConfirmClose, Spawn, can_close_software_fix, Core, GateType, gate
<1>3. FixType'
  BY <1>0 DEF ConfirmClose, Spawn, can_close_software_fix, Core, FixType
<1>4. FlagType'
  BY <1>0 DEF ConfirmClose, Spawn, can_close_software_fix, Core, FlagType, workflow
<1>5. Exclusion'
  BY <1>0 DEF ConfirmClose, Spawn, can_close_software_fix, Core, Exclusion,
     OwnerType, GateType, FixType, FlagType, NoOp, Kinds, gate, workflow,
     gate_closed, update_active, is_running
<1>6. PollOrder'
  BY <1>0 DEF ConfirmClose, Spawn, can_close_software_fix, Core, PollOrder,
     GateType, gate
<1> QED
  BY <1>1, <1>2, <1>3, <1>4, <1>5, <1>6 DEF Core

\* A driver install starts only beside nothing.
LEMMA InstallDriversKeeps ==
  ASSUME Core,
         ~gate_closed, ~is_running, ~update_active, InstallDrivers
  PROVE  Core'
<1>0. op = NoOp
  BY NothingHeld
<1>1. OwnerType'
  BY <1>0 DEF InstallDrivers, Spawn, Core, OwnerType, GateType, Worker, Jobs, Kinds,
     NoOp
<1>2. GateType'
  BY <1>0 DEF InstallDrivers, Spawn, Core, GateType, gate
<1>3. FixType'
  BY <1>0 DEF InstallDrivers, Spawn, Core, FixType
<1>4. FlagType'
  BY <1>0 DEF InstallDrivers, Spawn, Core, FlagType, workflow
<1>5. Exclusion'
  BY <1>0 DEF InstallDrivers, Spawn, Core, Exclusion, OwnerType, GateType, FixType,
     FlagType, NoOp, Kinds, gate, workflow, gate_closed, update_active, is_running
<1>6. PollOrder'
  BY <1>0 DEF InstallDrivers, Spawn, Core, PollOrder, GateType, gate
<1> QED
  BY <1>1, <1>2, <1>3, <1>4, <1>5, <1>6 DEF Core

\* A self-update takes the free reservation.
LEMMA InstallSelfUpdateKeeps ==
  ASSUME Core,
         ~gate_closed, InstallSelfUpdate
  PROVE  Core'
<1>0. can_install_self_update => op = NoOp
  BY NothingHeld DEF can_install_self_update, self_update_blocked
<1>1. OwnerType'
  BY <1>0 DEF InstallSelfUpdate, can_install_self_update, self_update_blocked, Idle,
     start, Reserve, Core, OwnerType, GateType, Worker, Jobs, Kinds, NoOp
<1>2. GateType'
  BY <1>0 DEF InstallSelfUpdate, can_install_self_update, self_update_blocked, Idle,
     start, Reserve, Core, GateType, gate
<1>3. FixType'
  BY <1>0 DEF InstallSelfUpdate, can_install_self_update, self_update_blocked, Idle,
     start, Reserve, Core, FixType
<1>4. FlagType'
  BY <1>0 DEF InstallSelfUpdate, can_install_self_update, self_update_blocked, Idle,
     start, Reserve, Core, FlagType, workflow
<1>5. Exclusion'
  BY <1>0 DEF InstallSelfUpdate, can_install_self_update, self_update_blocked, Idle,
     start, Reserve, Core, Exclusion, OwnerType, GateType, FixType, FlagType, NoOp,
     Kinds, gate, workflow, gate_closed, update_active, is_running
<1>6. PollOrder'
  BY <1>0 DEF InstallSelfUpdate, can_install_self_update, self_update_blocked, Idle,
     start, Reserve, Core, PollOrder, GateType, gate
<1> QED
  BY <1>1, <1>2, <1>3, <1>4, <1>5, <1>6 DEF Core

\* A poll takes its lease only when nothing else is held.
LEMMA PollDeviceKeeps ==
  ASSUME Core,
         PollDevice
  PROVE  Core'
<1>0. can_poll_device => op = NoOp
  BY NothingHeld DEF can_poll_device, NothingElseOwnsTheDevice
<1>1. OwnerType'
  BY <1>0 DEF PollDevice, can_poll_device, NothingElseOwnsTheDevice, Spawn, Core,
     OwnerType, GateType, Worker, Jobs, Kinds, NoOp
<1>2. GateType'
  BY <1>0 DEF PollDevice, can_poll_device, NothingElseOwnsTheDevice, Spawn, Core,
     GateType, gate
<1>3. FixType'
  BY <1>0 DEF PollDevice, can_poll_device, NothingElseOwnsTheDevice, Spawn, Core,
     FixType
<1>4. FlagType'
  BY <1>0 DEF PollDevice, can_poll_device, NothingElseOwnsTheDevice, Spawn, Core,
     FlagType, workflow
<1>5. Exclusion'
  BY <1>0 DEF PollDevice, can_poll_device, NothingElseOwnsTheDevice, Spawn, Core,
     Exclusion, OwnerType, GateType, FixType, FlagType, NoOp, Kinds, gate, workflow,
     gate_closed, update_active, is_running
<1>6. PollOrder'
  BY <1>0 DEF PollDevice, can_poll_device, NothingElseOwnsTheDevice, Spawn, Core,
     PollOrder, GateType, gate
<1> QED
  BY <1>1, <1>2, <1>3, <1>4, <1>5, <1>6 DEF Core

\* Every handler keeps Core, whether its message is fresh or replayed.
LEMMA HandleKeepsCore ==
  ASSUME Core, NEW m \in Messages, Handled(m), Handle(m)
  PROVE  Core'
<1>1. /\ m # "PollDevice" => ~gate_closed
      /\ m \in Workflow => ~update_active
      /\ m \in Workflow \ {"Navigate"} => ~is_running
  BY HandledMeans
<1>2. CASE m = "ExecStart" /\ ExecStart
  BY <1>1, <1>2, ExecStartKeeps DEF Workflow
<1>3. CASE m = "RootNext" /\ RootNext
  BY <1>1, <1>3, RootNextKeeps DEF Workflow
<1>4. CASE m = "KonaNext" /\ KonaNext
  BY <1>1, <1>4, KonaNextKeeps DEF Workflow
<1>5. CASE m = "KonaBack" /\ KonaBack
  BY <1>1, <1>5, KonaBackKeeps DEF Workflow
<1>6. CASE m = "Navigate" /\ Navigate
  BY <1>6, NavigateKeeps
<1>7. CASE m = "StartOver" /\ StartOver
  BY <1>7, StartOverKeeps
<1>8. CASE m = "PickerReply" /\ PickerReply
  BY <1>8, PickerReplyKeeps
<1>9. CASE m = "KillAdbServer" /\ KillAdbServer
  BY <1>1, <1>9, KillKeeps DEF Workflow
<1>10. CASE m = "ForceClose" /\ ForceClose
  BY <1>10, ForceCloseKeeps
<1>11. CASE m = "ConfirmClose" /\ ConfirmClose
  BY <1>1, <1>11, ConfirmCloseKeeps DEF Workflow
<1>12. CASE m = "InstallDrivers" /\ InstallDrivers
  BY <1>1, <1>12, InstallDriversKeeps DEF Workflow
<1>13. CASE m = "CleanupTempFiles" /\ CleanupTempFiles
  BY <1>1, <1>13, CleanupKeeps DEF Workflow
<1>14. CASE m = "InstallSelfUpdate" /\ InstallSelfUpdate
  BY <1>1, <1>14, InstallSelfUpdateKeeps
<1>15. CASE m = "PollDevice" /\ PollDevice
  BY <1>15, PollDeviceKeeps
<1> QED
  BY <1>2, <1>3, <1>4, <1>5, <1>6, <1>7, <1>8, <1>9, <1>10, <1>11, <1>12, <1>13, <1>14,
     <1>15 DEF Handle

\* A finished poll gives its lease back and may have its snapshot applied.
LEMMA PollFinishedKeeps ==
  ASSUME Core,
         NEW id, DevicePollFinished(id)
  PROVE  Core'
<1>1. OwnerType'
  BY DEF DevicePollFinished, NothingElseOwnsTheDevice, Core, OwnerType, GateType,
     Worker, Jobs, Kinds, NoOp
<1>2. GateType'
  BY DEF DevicePollFinished, NothingElseOwnsTheDevice, Core, GateType, gate
<1>3. FixType'
  BY DEF DevicePollFinished, NothingElseOwnsTheDevice, Core, FixType
<1>4. FlagType'
  BY DEF DevicePollFinished, NothingElseOwnsTheDevice, Core, FlagType, workflow
<1>5. Exclusion'
  BY DEF DevicePollFinished, NothingElseOwnsTheDevice, Core, Exclusion, OwnerType,
     GateType, FixType, FlagType, NoOp, Kinds, gate, workflow, gate_closed,
     update_active, is_running
<1>6. PollOrder'
  BY DEF DevicePollFinished, NothingElseOwnsTheDevice, Core, PollOrder, GateType,
     gate
<1> QED
  BY <1>1, <1>2, <1>3, <1>4, <1>5, <1>6 DEF Core

\* A finished adb kill gives its lease back.
LEMMA KillFinishedKeeps ==
  ASSUME Core,
         AdbServerKillFinished
  PROVE  Core'
<1>1. OwnerType'
  BY DEF AdbServerKillFinished, Core, OwnerType, GateType, Worker, Jobs, Kinds, NoOp
<1>2. GateType'
  BY DEF AdbServerKillFinished, Core, GateType, gate
<1>3. FixType'
  BY DEF AdbServerKillFinished, Core, FixType
<1>4. FlagType'
  BY DEF AdbServerKillFinished, Core, FlagType, workflow
<1>5. Exclusion'
  BY DEF AdbServerKillFinished, Core, Exclusion, OwnerType, GateType, FixType,
     FlagType, NoOp, Kinds, gate, workflow, gate_closed, update_active, is_running
<1>6. PollOrder'
  BY DEF AdbServerKillFinished, Core, PollOrder, GateType, gate
<1> QED
  BY <1>1, <1>2, <1>3, <1>4, <1>5, <1>6 DEF Core

\* A finished Software Fix close gives its lease back.
LEMMA ClosedKeeps ==
  ASSUME Core,
         SoftwareFixClosed
  PROVE  Core'
<1>1. OwnerType'
  BY DEF SoftwareFixClosed, Core, OwnerType, GateType, Worker, Jobs, Kinds, NoOp
<1>2. GateType'
  BY DEF SoftwareFixClosed, Core, GateType, gate
<1>3. FixType'
  BY DEF SoftwareFixClosed, Core, FixType
<1>4. FlagType'
  BY DEF SoftwareFixClosed, Core, FlagType, workflow
<1>5. Exclusion'
  BY DEF SoftwareFixClosed, Core, Exclusion, OwnerType, GateType, FixType, FlagType,
     NoOp, Kinds, gate, workflow, gate_closed, update_active, is_running
<1>6. PollOrder'
  BY DEF SoftwareFixClosed, Core, PollOrder, GateType, gate
<1> QED
  BY <1>1, <1>2, <1>3, <1>4, <1>5, <1>6 DEF Core

\* A finished driver install.
LEMMA DriversDoneKeeps ==
  ASSUME Core,
         InstallDriversDone
  PROVE  Core'
<1>1. OwnerType'
  BY DEF InstallDriversDone, Core, OwnerType, GateType, Worker, Jobs, Kinds, NoOp
<1>2. GateType'
  BY DEF InstallDriversDone, Core, GateType, gate
<1>3. FixType'
  BY DEF InstallDriversDone, Core, FixType
<1>4. FlagType'
  BY DEF InstallDriversDone, Core, FlagType, workflow
<1>5. Exclusion'
  BY DEF InstallDriversDone, Core, Exclusion, OwnerType, GateType, FixType,
     FlagType, NoOp, Kinds, gate, workflow, gate_closed, update_active, is_running
<1>6. PollOrder'
  BY DEF InstallDriversDone, Core, PollOrder, GateType, gate
<1> QED
  BY <1>1, <1>2, <1>3, <1>4, <1>5, <1>6 DEF Core

\* ExecDone under the running operation's id.
LEMMA ExecDoneKeeps ==
  ASSUME Core,
         NEW id, op # NoOp, ExecDone(id),
         UNCHANGED <<gate, software_fix, installing_drivers, dialog_open, applied, process>>
  PROVE  Core'
<1>1. OwnerType'
  BY DEF ExecDone, finish, Core, OwnerType, GateType, Worker, Jobs, Kinds, NoOp
<1>2. GateType'
  BY DEF ExecDone, finish, Core, GateType, gate
<1>3. FixType'
  BY DEF ExecDone, finish, Core, FixType
<1>4. FlagType'
  BY DEF ExecDone, finish, Core, FlagType, workflow
<1>5. Exclusion'
  BY DEF ExecDone, finish, Core, Exclusion, OwnerType, GateType, FixType, FlagType,
     NoOp, Kinds, gate, workflow, gate_closed, update_active, is_running
<1>6. PollOrder'
  BY DEF ExecDone, finish, Core, PollOrder, GateType, gate
<1> QED
  BY <1>1, <1>2, <1>3, <1>4, <1>5, <1>6 DEF Core

\* RootKernelVersionProbeDone under the running operation's id.
LEMMA RootKernelVersionProbeDoneKeeps ==
  ASSUME Core,
         NEW id, op # NoOp, RootKernelVersionProbeDone(id),
         UNCHANGED <<gate, software_fix, installing_drivers, dialog_open, applied, process>>
  PROVE  Core'
<1>1. OwnerType'
  BY DEF RootKernelVersionProbeDone, finish, Reserve, Core, OwnerType, GateType,
     Worker, Jobs, Kinds, NoOp
<1>2. GateType'
  BY DEF RootKernelVersionProbeDone, finish, Reserve, Core, GateType, gate
<1>3. FixType'
  BY DEF RootKernelVersionProbeDone, finish, Reserve, Core, FixType
<1>4. FlagType'
  BY DEF RootKernelVersionProbeDone, finish, Reserve, Core, FlagType, workflow
<1>5. Exclusion'
  BY DEF RootKernelVersionProbeDone, finish, Reserve, Core, Exclusion, OwnerType,
     GateType, FixType, FlagType, NoOp, Kinds, gate, workflow, gate_closed,
     update_active, is_running
<1>6. PollOrder'
  BY DEF RootKernelVersionProbeDone, finish, Reserve, Core, PollOrder, GateType,
     gate
<1> QED
  BY <1>1, <1>2, <1>3, <1>4, <1>5, <1>6 DEF Core

\* KonaBessInspectionDone under the running operation's id.
LEMMA KonaBessInspectionDoneKeeps ==
  ASSUME Core,
         NEW id, op # NoOp, KonaBessInspectionDone(id),
         UNCHANGED <<gate, software_fix, installing_drivers, dialog_open, applied, process>>
  PROVE  Core'
<1>1. OwnerType'
  BY DEF KonaBessInspectionDone, finish, Core, OwnerType, GateType, Worker, Jobs,
     Kinds, NoOp
<1>2. GateType'
  BY DEF KonaBessInspectionDone, finish, Core, GateType, gate
<1>3. FixType'
  BY DEF KonaBessInspectionDone, finish, Core, FixType
<1>4. FlagType'
  BY DEF KonaBessInspectionDone, finish, Core, FlagType, workflow
<1>5. Exclusion'
  BY DEF KonaBessInspectionDone, finish, Core, Exclusion, OwnerType, GateType,
     FixType, FlagType, NoOp, Kinds, gate, workflow, gate_closed, update_active,
     is_running
<1>6. PollOrder'
  BY DEF KonaBessInspectionDone, finish, Core, PollOrder, GateType, gate
<1> QED
  BY <1>1, <1>2, <1>3, <1>4, <1>5, <1>6 DEF Core

\* KonaBessFlashDone under the running operation's id.
LEMMA KonaBessFlashDoneKeeps ==
  ASSUME Core,
         NEW id, op # NoOp, KonaBessFlashDone(id),
         UNCHANGED <<gate, software_fix, installing_drivers, dialog_open, applied, process>>
  PROVE  Core'
<1>1. OwnerType'
  BY DEF KonaBessFlashDone, finish, Core, OwnerType, GateType, Worker, Jobs, Kinds,
     NoOp
<1>2. GateType'
  BY DEF KonaBessFlashDone, finish, Core, GateType, gate
<1>3. FixType'
  BY DEF KonaBessFlashDone, finish, Core, FixType
<1>4. FlagType'
  BY DEF KonaBessFlashDone, finish, Core, FlagType, workflow
<1>5. Exclusion'
  BY DEF KonaBessFlashDone, finish, Core, Exclusion, OwnerType, GateType, FixType,
     FlagType, NoOp, Kinds, gate, workflow, gate_closed, update_active, is_running
<1>6. PollOrder'
  BY DEF KonaBessFlashDone, finish, Core, PollOrder, GateType, gate
<1> QED
  BY <1>1, <1>2, <1>3, <1>4, <1>5, <1>6 DEF Core

\* KonaBessCancelDone under the running operation's id.
LEMMA KonaBessCancelDoneKeeps ==
  ASSUME Core,
         NEW id, op # NoOp, KonaBessCancelDone(id),
         UNCHANGED <<gate, software_fix, installing_drivers, dialog_open, applied, process>>
  PROVE  Core'
<1>1. OwnerType'
  BY DEF KonaBessCancelDone, finish, Core, OwnerType, GateType, Worker, Jobs, Kinds,
     NoOp
<1>2. GateType'
  BY DEF KonaBessCancelDone, finish, Core, GateType, gate
<1>3. FixType'
  BY DEF KonaBessCancelDone, finish, Core, FixType
<1>4. FlagType'
  BY DEF KonaBessCancelDone, finish, Core, FlagType, workflow
<1>5. Exclusion'
  BY DEF KonaBessCancelDone, finish, Core, Exclusion, OwnerType, GateType, FixType,
     FlagType, NoOp, Kinds, gate, workflow, gate_closed, update_active, is_running
<1>6. PollOrder'
  BY DEF KonaBessCancelDone, finish, Core, PollOrder, GateType, gate
<1> QED
  BY <1>1, <1>2, <1>3, <1>4, <1>5, <1>6 DEF Core

\* CleanupDone under the running operation's id.
LEMMA CleanupDoneKeeps ==
  ASSUME Core,
         NEW id, op # NoOp, CleanupDone(id),
         UNCHANGED <<gate, software_fix, installing_drivers, dialog_open, applied, process>>
  PROVE  Core'
<1>1. OwnerType'
  BY DEF CleanupDone, finish, Core, OwnerType, GateType, Worker, Jobs, Kinds, NoOp
<1>2. GateType'
  BY DEF CleanupDone, finish, Core, GateType, gate
<1>3. FixType'
  BY DEF CleanupDone, finish, Core, FixType
<1>4. FlagType'
  BY DEF CleanupDone, finish, Core, FlagType, workflow
<1>5. Exclusion'
  BY DEF CleanupDone, finish, Core, Exclusion, OwnerType, GateType, FixType,
     FlagType, NoOp, Kinds, gate, workflow, gate_closed, update_active, is_running
<1>6. PollOrder'
  BY DEF CleanupDone, finish, Core, PollOrder, GateType, gate
<1> QED
  BY <1>1, <1>2, <1>3, <1>4, <1>5, <1>6 DEF Core

\* SelfUpdateInstalled under the running operation's id.
LEMMA SelfUpdateInstalledKeeps ==
  ASSUME Core,
         NEW id \in Nat, op # NoOp, SelfUpdateInstalled(id),
         UNCHANGED <<gate, software_fix, installing_drivers, dialog_open, applied, process>>
  PROVE  Core'
<1>1. OwnerType'
  BY DEF SelfUpdateInstalled, Core, OwnerType, GateType, Worker, Jobs, Kinds, NoOp
<1>2. GateType'
  BY DEF SelfUpdateInstalled, Core, GateType, gate
<1>3. FixType'
  BY DEF SelfUpdateInstalled, Core, FixType
<1>4. FlagType'
  BY DEF SelfUpdateInstalled, Core, FlagType, workflow
<1>5. Exclusion'
  BY DEF SelfUpdateInstalled, Core, Exclusion, OwnerType, GateType, FixType,
     FlagType, NoOp, Kinds, gate, workflow, gate_closed, update_active, is_running
<1>6. PollOrder'
  BY DEF SelfUpdateInstalled, Core, PollOrder, GateType, gate
<1> QED
  BY <1>1, <1>2, <1>3, <1>4, <1>5, <1>6 DEF Core

\* SelfUpdateFailed under the running operation's id.
LEMMA SelfUpdateFailedKeeps ==
  ASSUME Core,
         NEW id, op # NoOp, SelfUpdateFailed(id),
         UNCHANGED <<gate, software_fix, installing_drivers, dialog_open, applied, process>>
  PROVE  Core'
<1>1. OwnerType'
  BY DEF SelfUpdateFailed, finish, Core, OwnerType, GateType, Worker, Jobs, Kinds,
     NoOp
<1>2. GateType'
  BY DEF SelfUpdateFailed, finish, Core, GateType, gate
<1>3. FixType'
  BY DEF SelfUpdateFailed, finish, Core, FixType
<1>4. FlagType'
  BY DEF SelfUpdateFailed, finish, Core, FlagType, workflow
<1>5. Exclusion'
  BY DEF SelfUpdateFailed, finish, Core, Exclusion, OwnerType, GateType, FixType,
     FlagType, NoOp, Kinds, gate, workflow, gate_closed, update_active, is_running
<1>6. PollOrder'
  BY DEF SelfUpdateFailed, finish, Core, PollOrder, GateType, gate
<1> QED
  BY <1>1, <1>2, <1>3, <1>4, <1>5, <1>6 DEF Core

\* Whatever the completion of an operation's worker says, or under a stale id.
LEMMA OperationEventKeeps ==
  ASSUME Core, NEW id, OperationEvent(id)
  PROVE  Core'
<1>1. UNCHANGED <<gate, software_fix, installing_drivers, dialog_open, applied, process>>
  BY DEF OperationEvent
<1>2. CASE op.id # id
  <2>1. OwnerType'
    BY <1>1, <1>2 DEF OperationEvent, Core, OwnerType, GateType, Worker, Jobs, Kinds,
       NoOp
  <2>2. GateType'
    BY <1>1, <1>2 DEF OperationEvent, Core, GateType, gate
  <2>3. FixType'
    BY <1>1, <1>2 DEF OperationEvent, Core, FixType
  <2>4. FlagType'
    BY <1>1, <1>2 DEF OperationEvent, Core, FlagType, workflow
  <2>5. Exclusion'
    BY <1>1, <1>2 DEF OperationEvent, Core, Exclusion, OwnerType, GateType, FixType,
       FlagType, NoOp, Kinds, gate, workflow, gate_closed, update_active, is_running
  <2>6. PollOrder'
    BY <1>1, <1>2 DEF OperationEvent, Core, PollOrder, GateType, gate
  <2> QED
    BY <2>1, <2>2, <2>3, <2>4, <2>5, <2>6 DEF Core
<1>0. id \in Nat
  BY DEF OperationEvent, Core, OwnerType, Worker
<1>3. CASE op.id = id /\ op # NoOp
  BY <1>0, <1>1, <1>3, ExecDoneKeeps, RootKernelVersionProbeDoneKeeps,
     KonaBessInspectionDoneKeeps, KonaBessFlashDoneKeeps, KonaBessCancelDoneKeeps,
     CleanupDoneKeeps, SelfUpdateInstalledKeeps, SelfUpdateFailedKeeps
     DEF OperationEvent
<1>4. CASE op.id = id /\ op = NoOp
  <2>1. op.kind = "None" /\ ~update_active
    BY <1>4 DEF Core, Exclusion, NoOp
  <2> QED
    BY <1>4, <2>1 DEF OperationEvent, ExecDone, RootKernelVersionProbeDone,
       KonaBessInspectionDone, KonaBessFlashDone, KonaBessCancelDone, CleanupDone,
       SelfUpdateInstalled, SelfUpdateFailed, update_active
<1> QED
  BY <1>2, <1>3, <1>4

\* The exit timer changes the process and its own worker only.
LEMMA ExitAfterUpdateKeeps ==
  ASSUME Core,
         NEW id, ExitAfterUpdate(id)
  PROVE  Core'
<1>1. OwnerType'
  BY DEF ExitAfterUpdate, Core, OwnerType, GateType, Worker, Jobs, Kinds, NoOp
<1>2. GateType'
  BY DEF ExitAfterUpdate, Core, GateType, gate
<1>3. FixType'
  BY DEF ExitAfterUpdate, Core, FixType
<1>4. FlagType'
  BY DEF ExitAfterUpdate, Core, FlagType, workflow
<1>5. Exclusion'
  BY DEF ExitAfterUpdate, Core, Exclusion, OwnerType, GateType, FixType, FlagType,
     NoOp, Kinds, gate, workflow, gate_closed, update_active, is_running
<1>6. PollOrder'
  BY DEF ExitAfterUpdate, Core, PollOrder, GateType, gate
<1> QED
  BY <1>1, <1>2, <1>3, <1>4, <1>5, <1>6 DEF Core

\* Looking for Software Fix.
LEMMA PollSoftwareFixKeeps ==
  ASSUME Core,
         PollSoftwareFix
  PROVE  Core'
<1>1. OwnerType'
  BY DEF PollSoftwareFix, Spawn, Core, OwnerType, GateType, Worker, Jobs, Kinds,
     NoOp
<1>2. GateType'
  BY DEF PollSoftwareFix, Spawn, Core, GateType, gate
<1>3. FixType'
  BY DEF PollSoftwareFix, Spawn, Core, FixType
<1>4. FlagType'
  BY DEF PollSoftwareFix, Spawn, Core, FlagType, workflow
<1>5. Exclusion'
  BY DEF PollSoftwareFix, Spawn, Core, Exclusion, OwnerType, GateType, FixType,
     FlagType, NoOp, Kinds, gate, workflow, gate_closed, update_active, is_running
<1>6. PollOrder'
  BY DEF PollSoftwareFix, Spawn, Core, PollOrder, GateType, gate
<1> QED
  BY <1>1, <1>2, <1>3, <1>4, <1>5, <1>6 DEF Core

\* Its answer.
LEMMA SoftwareFixPolledKeeps ==
  ASSUME Core,
         SoftwareFixPolled
  PROVE  Core'
<1>1. OwnerType'
  BY DEF SoftwareFixPolled, Core, OwnerType, GateType, Worker, Jobs, Kinds, NoOp
<1>2. GateType'
  BY DEF SoftwareFixPolled, Core, GateType, gate
<1>3. FixType'
  BY DEF SoftwareFixPolled, Core, FixType
<1>4. FlagType'
  BY DEF SoftwareFixPolled, Core, FlagType, workflow
<1>5. Exclusion'
  BY DEF SoftwareFixPolled, Core, Exclusion, OwnerType, GateType, FixType, FlagType,
     NoOp, Kinds, gate, workflow, gate_closed, update_active, is_running
<1>6. PollOrder'
  BY DEF SoftwareFixPolled, Core, PollOrder, GateType, gate
<1> QED
  BY <1>1, <1>2, <1>3, <1>4, <1>5, <1>6 DEF Core

\* Withdrawing the close.
LEMMA CancelCloseKeeps ==
  ASSUME Core,
         CancelCloseSoftwareFix
  PROVE  Core'
<1>1. OwnerType'
  BY DEF CancelCloseSoftwareFix, Core, OwnerType, GateType, Worker, Jobs, Kinds,
     NoOp
<1>2. GateType'
  BY DEF CancelCloseSoftwareFix, Core, GateType, gate
<1>3. FixType'
  BY DEF CancelCloseSoftwareFix, Core, FixType
<1>4. FlagType'
  BY DEF CancelCloseSoftwareFix, Core, FlagType, workflow
<1>5. Exclusion'
  BY DEF CancelCloseSoftwareFix, Core, Exclusion, OwnerType, GateType, FixType,
     FlagType, NoOp, Kinds, gate, workflow, gate_closed, update_active, is_running
<1>6. PollOrder'
  BY DEF CancelCloseSoftwareFix, Core, PollOrder, GateType, gate
<1> QED
  BY <1>1, <1>2, <1>3, <1>4, <1>5, <1>6 DEF Core

\* Opening the update dialog.
LEMMA OpenUpdateKeeps ==
  ASSUME Core,
         OpenUpdate
  PROVE  Core'
<1>1. OwnerType'
  BY DEF OpenUpdate, Core, OwnerType, GateType, Worker, Jobs, Kinds, NoOp
<1>2. GateType'
  BY DEF OpenUpdate, Core, GateType, gate
<1>3. FixType'
  BY DEF OpenUpdate, Core, FixType
<1>4. FlagType'
  BY DEF OpenUpdate, Core, FlagType, workflow
<1>5. Exclusion'
  BY DEF OpenUpdate, Core, Exclusion, OwnerType, GateType, FixType, FlagType, NoOp,
     Kinds, gate, workflow, gate_closed, update_active, is_running
<1>6. PollOrder'
  BY DEF OpenUpdate, Core, PollOrder, GateType, gate
<1> QED
  BY <1>1, <1>2, <1>3, <1>4, <1>5, <1>6 DEF Core

\* Closing it.
LEMMA DialogCloseKeeps ==
  ASSUME Core,
         UpdateDialogClose
  PROVE  Core'
<1>1. OwnerType'
  BY DEF UpdateDialogClose, Core, OwnerType, GateType, Worker, Jobs, Kinds, NoOp
<1>2. GateType'
  BY DEF UpdateDialogClose, Core, GateType, gate
<1>3. FixType'
  BY DEF UpdateDialogClose, Core, FixType
<1>4. FlagType'
  BY DEF UpdateDialogClose, Core, FlagType, workflow
<1>5. Exclusion'
  BY DEF UpdateDialogClose, Core, Exclusion, OwnerType, GateType, FixType, FlagType,
     NoOp, Kinds, gate, workflow, gate_closed, update_active, is_running
<1>6. PollOrder'
  BY DEF UpdateDialogClose, Core, PollOrder, GateType, gate
<1> QED
  BY <1>1, <1>2, <1>3, <1>4, <1>5, <1>6 DEF Core

\* Closing the window.
LEMMA WindowCloseKeeps ==
  ASSUME Core,
         WindowClose
  PROVE  Core'
<1>1. OwnerType'
  BY DEF WindowClose, Core, OwnerType, GateType, Worker, Jobs, Kinds, NoOp
<1>2. GateType'
  BY DEF WindowClose, Core, GateType, gate
<1>3. FixType'
  BY DEF WindowClose, Core, FixType
<1>4. FlagType'
  BY DEF WindowClose, Core, FlagType, workflow
<1>5. Exclusion'
  BY DEF WindowClose, Core, Exclusion, OwnerType, GateType, FixType, FlagType, NoOp,
     Kinds, gate, workflow, gate_closed, update_active, is_running
<1>6. PollOrder'
  BY DEF WindowClose, Core, PollOrder, GateType, gate
<1> QED
  BY <1>1, <1>2, <1>3, <1>4, <1>5, <1>6 DEF Core

\* Every step keeps Core; a deferred message that is dropped changes nothing.
LEMMA NextKeepsCore ==
  ASSUME Core, QueueType, ReplayOpen, Next
  PROVE  Core'
<1>1. CASE \E m \in Messages : Receive(m) \/ Defer(m)
  <2>1. PICK m \in Messages : Receive(m) \/ Defer(m)
    BY <1>1
  <2>2. CASE Receive(m)
    BY <2>2, HandleKeepsCore DEF Receive
  <2>3. CASE Defer(m)
    BY <2>3, PickerReplyKeeps DEF Defer, PickerReply
  <2> QED
    BY <2>1, <2>2, <2>3
<1>2. CASE Drain
  <2>1. Head(poll_deferred) \in Messages
    BY <1>2 DEF Drain, QueueType, ReplayOpen
  <2>2. CASE Handled(Head(poll_deferred))
    BY <1>2, <2>1, <2>2, HandleKeepsCore DEF Drain
  <2>3. CASE ~Handled(Head(poll_deferred))
    BY <1>2, <2>3, PickerReplyKeeps DEF Drain
  <2> QED
    BY <2>2, <2>3
<1>3. CASE GateCompletion
  BY <1>3, PollFinishedKeeps, KillFinishedKeeps, ClosedKeeps DEF GateCompletion
<1>4. CASE InstallDriversDone \/ SoftwareFixPolled
  BY <1>4, DriversDoneKeeps, SoftwareFixPolledKeeps
<1>5. CASE \E w \in workers : OperationEvent(w.id) \/ ExitAfterUpdate(w.id)
  BY <1>5, OperationEventKeeps, ExitAfterUpdateKeeps
<1>6. CASE PollSoftwareFix \/ CancelCloseSoftwareFix \/ OpenUpdate \/ UpdateDialogClose
           \/ WindowClose
  BY <1>6, PollSoftwareFixKeeps, CancelCloseKeeps, OpenUpdateKeeps, DialogCloseKeeps,
     WindowCloseKeeps
<1> QED
  BY <1>1, <1>2, <1>3, <1>4, <1>5, <1>6 DEF Next, User

-----------------------------------------------------------------------------
(* The queue.                                                              *)

\* A message is queued only if it is not a poll request.
LEMMA NextKeepsQueueType ==
  ASSUME QueueType, ReplayOpen, Next
  PROVE  QueueType'
<1>1. CASE \E m \in Messages : Defer(m)
  <2>1. PICK m \in Messages : Defer(m)
    BY <1>1
  <2>2. m \in Messages \ {"PollDevice"}
    BY <2>1 DEF Defer, Deferred, defers_message
  <2>3. poll_deferred' = Append(poll_deferred, m)
    BY <2>1 DEF Defer
  <2> QED
    BY <2>2, <2>3 DEF QueueType
<1>2. CASE Drain
  <2>1. poll_deferred # <<>> /\ poll_deferred' = Tail(poll_deferred)
    BY <1>2 DEF Drain, ReplayOpen
  <2> QED
    BY <2>1 DEF QueueType
<1>3. CASE UNCHANGED poll_deferred
  BY <1>3 DEF QueueType
<1> QED
  BY <1>1, <1>2, <1>3 DEF Next, User, GateCompletion, Receive, PollSoftwareFix,
     CancelCloseSoftwareFix, OpenUpdate, UpdateDialogClose, WindowClose,
     DevicePollFinished, AdbServerKillFinished, SoftwareFixClosed, InstallDriversDone,
     SoftwareFixPolled, OperationEvent, ExitAfterUpdate

\* While a lease is held and input waits, only a poll request gets through,
\* and it is refused.
LEMMA ReceiveKeepsGateClosed ==
  ASSUME NEW m \in Messages, Receive(m), poll_deferred # <<>>, gate_closed
  PROVE  gate_closed'
<1>1. m = "PollDevice"
  BY HandledMeans DEF Receive
<1>2. PollDevice
  BY <1>1 DEF Receive, Handle
<1>3. ~can_poll_device
  BY DEF can_poll_device, NothingElseOwnsTheDevice
<1> QED
  BY <1>2, <1>3 DEF PollDevice, gate_closed

\* A completion that releases nothing, and input no gate holds back, leave
\* the leases as they are.
LEMMA OthersKeepGate ==
  ASSUME \/ \E m \in Messages : Defer(m)
         \/ InstallDriversDone \/ SoftwareFixPolled
         \/ PollSoftwareFix \/ CancelCloseSoftwareFix
         \/ OpenUpdate \/ UpdateDialogClose \/ WindowClose
         \/ \E w \in workers : OperationEvent(w.id) \/ ExitAfterUpdate(w.id),
         FixType
  PROVE  UNCHANGED draining /\ (gate_closed' <=> gate_closed)
<1>1. UNCHANGED <<draining, poll_in_flight, adb_server_kill_in_flight>>
  BY DEF Defer, InstallDriversDone, SoftwareFixPolled, PollSoftwareFix,
     CancelCloseSoftwareFix, OpenUpdate, UpdateDialogClose, WindowClose,
     OperationEvent, ExitAfterUpdate, gate
<1>2. CASE UNCHANGED software_fix
  BY <1>1, <1>2 DEF gate_closed
<1>3. CASE PollSoftwareFix \/ SoftwareFixPolled \/ CancelCloseSoftwareFix
  <2>1. software_fix'.closing = software_fix.closing
    BY <1>3 DEF PollSoftwareFix, SoftwareFixPolled, CancelCloseSoftwareFix, FixType
  <2> QED
    BY <1>1, <2>1 DEF gate_closed
<1> QED
  BY <1>2, <1>3 DEF Defer, InstallDriversDone, OpenUpdate, UpdateDialogClose,
     WindowClose, OperationEvent, ExitAfterUpdate

\* Every step keeps the queue's part of the invariant.
LEMMA NextKeepsQueue ==
  ASSUME Core, Queue, Next
  PROVE  Queue'
<1>1. QueueType'
  BY NextKeepsQueueType DEF Queue
<1>2. CASE \E m \in Messages : Receive(m)
  <2>1. PICK m \in Messages : Receive(m)
    BY <1>2
  <2>2. ~draining /\ UNCHANGED <<poll_deferred, draining>>
    BY <2>1 DEF Receive, Listening
  <2>3. NoStrandedInput'
    BY <2>1, <2>2, ReceiveKeepsGateClosed DEF Queue, NoStrandedInput
  <2> QED
    BY <1>1, <2>2, <2>3 DEF Queue, ReplayOpen
<1>3. CASE Drain
  <2>1. draining' = (poll_deferred' # <<>> /\ ~gate_closed')
    BY <1>3 DEF Drain
  <2> QED
    BY <1>1, <2>1 DEF Queue, ReplayOpen, NoStrandedInput
<1>4. CASE GateCompletion
  <2>1. CASE Resume /\ UNCHANGED poll_deferred
    BY <1>1, <2>1 DEF Resume, Queue, ReplayOpen, NoStrandedInput
  <2>2. CASE UNCHANGED <<poll_deferred, draining, gate, software_fix>>
    BY <1>1, <2>2 DEF Queue, ReplayOpen, NoStrandedInput, gate, gate_closed
  <2> QED
    BY <1>4, <2>1, <2>2 DEF GateCompletion, DevicePollFinished, AdbServerKillFinished,
       SoftwareFixClosed, gate
<1>5. CASE \E m \in Messages : Defer(m)
  <2>1. UNCHANGED draining /\ (gate_closed' <=> gate_closed) /\ ~draining /\ gate_closed
    BY <1>5, OthersKeepGate DEF Core, Defer, Deferred, Listening
  <2> QED
    BY <1>1, <2>1 DEF Queue, ReplayOpen, NoStrandedInput
<1>6. CASE \/ InstallDriversDone \/ SoftwareFixPolled
           \/ PollSoftwareFix \/ CancelCloseSoftwareFix
           \/ OpenUpdate \/ UpdateDialogClose \/ WindowClose
           \/ \E w \in workers : OperationEvent(w.id) \/ ExitAfterUpdate(w.id)
  <2>1. UNCHANGED draining /\ (gate_closed' <=> gate_closed)
    BY <1>6, OthersKeepGate DEF Core
  <2>2. UNCHANGED poll_deferred
    BY <1>6 DEF InstallDriversDone, SoftwareFixPolled, PollSoftwareFix,
       CancelCloseSoftwareFix, OpenUpdate, UpdateDialogClose, WindowClose,
       OperationEvent, ExitAfterUpdate
  <2> QED
    BY <1>1, <2>1, <2>2 DEF Queue, ReplayOpen, NoStrandedInput
<1> QED
  BY <1>2, <1>3, <1>4, <1>5, <1>6 DEF Next, User

-----------------------------------------------------------------------------
(* The invariant and what is read off it.                                  *)

\* The program starts in the invariant.
LEMMA InitIInv ==
  ASSUME Init
  PROVE  IInv
<1>1. OwnerType
  BY DEF Init, OwnerType, NoOp
<1>2. GateType
  BY DEF Init, GateType
<1>3. FixType
  BY DEF Init, FixType
<1>4. FlagType
  BY DEF Init, FlagType
<1>5. Exclusion
  BY DEF Init, Exclusion, NoOp, gate_closed, update_active
<1>6. PollOrder
  BY DEF Init, PollOrder
<1>7. poll_deferred = <<>> /\ draining = FALSE
  BY DEF Init
<1>8. QueueType
  BY <1>7 DEF QueueType
<1> QED
  BY <1>1, <1>2, <1>3, <1>4, <1>5, <1>6, <1>7, <1>8
     DEF IInv, Core, Queue, ReplayOpen, NoStrandedInput

\* A stutter keeps it.
LEMMA StutterIInv ==
  ASSUME IInv, UNCHANGED vars
  PROVE  IInv'
<1> USE DEF vars, gate, workflow
<1>1. OwnerType' /\ GateType' /\ FixType' /\ FlagType'
  BY DEF IInv, Core, OwnerType, GateType, FixType, FlagType
<1>2. Exclusion'
  BY DEF IInv, Core, Exclusion, gate_closed, update_active
<1>3. PollOrder'
  BY DEF IInv, Core, PollOrder
<1>4. Queue'
  BY DEF IInv, Queue, QueueType, ReplayOpen, NoStrandedInput, gate_closed
<1> QED
  BY <1>1, <1>2, <1>3, <1>4 DEF IInv, Core

\* IInv holds in every reachable state of the gate.
THEOREM Invariance == Spec => []IInv
<1>1. Init => IInv
  BY InitIInv
<1>2. IInv /\ [Next]_vars => IInv'
  BY NextKeepsCore, NextKeepsQueue, StutterIInv DEF IInv, Queue
<1> QED
  BY <1>1, <1>2, PTL DEF Spec

\* Every variable keeps its type, for any number of operations, polls and
\* queued messages.
THEOREM TypeCorrectness == Spec => []TypeOK
<1>1. IInv => TypeOK
  BY DEF IInv, Core, Queue, OwnerType, GateType, FixType, FlagType, QueueType,
     ReplayOpen, TypeOK
<1> QED
  BY <1>1, Invariance, PTL

\* The poll, the adb kill, the Software Fix close, an operation, a self-update
\* and a driver install never use the device two at a time, save that an
\* operation may run beside a driver install.
THEOREM Exclusive == Spec => []OneDeviceHolder
<1>1. IInv => OneDeviceHolder
  BY DEF IInv, Core, Exclusion, OneDeviceHolder, Holders, gate_closed, is_running,
     update_active, NoOp
<1> QED
  BY <1>1, Invariance, PTL

\* Outside a replay, input waits in the queue only while a lease is held, so
\* the completion that releases the lease will replay it.
THEOREM InputNotStranded == Spec => []NoStrandedInput
<1>1. IInv => NoStrandedInput
  BY DEF IInv, Queue
<1> QED
  BY <1>1, Invariance, PTL

\* The assertion of OperationExecution::start never fires.
THEOREM StartNeverPanics == Spec => []NeverPanics
<1>1. IInv => NeverPanics
  BY DEF IInv, Core, Exclusion, NeverPanics
<1> QED
  BY <1>1, Invariance, PTL

\* direct_update and the reservation move together, and nothing else holds back
\* the exit after an installed update.
THEOREM UpdateOwnership == Spec => []UpdateOwnsReservation
<1>1. IInv => UpdateOwnsReservation
  <2> SUFFICES ASSUME IInv
               PROVE  UpdateOwnsReservation
    OBVIOUS
  <2>1. update_active <=> op.kind = "SelfUpdate"
    BY DEF IInv, Core, Exclusion
  <2>2. ASSUME direct_update = "Restarting"
        PROVE  ~self_update_blocked
    <3>1. op.kind = "SelfUpdate" /\ ~installing_drivers /\ ~prepared
      BY <2>1, <2>2 DEF update_active, IInv, Core, Exclusion
    <3>2. op # NoOp
      BY <3>1 DEF NoOp
    <3> QED
      BY <3>1, <3>2 DEF self_update_blocked, is_running, gate_closed, IInv, Core, Exclusion
  <2> QED
    BY <2>1, <2>2 DEF UpdateOwnsReservation
<1> QED
  BY <1>1, Invariance, PTL

-----------------------------------------------------------------------------
(* The gate implements the lease: every step takes one holder in, lets one *)
(* out, closes the window or leaves the holders as they are.               *)

LeaseStep == [Lease!Next]_(Lease!vars)

\* What decides who holds the device.
SameLeases == /\ UNCHANGED <<poll_in_flight, adb_server_kill_in_flight, installing_drivers>>
              /\ software_fix'.closing = software_fix.closing

\* While nothing but a driver install holds the device, no operation is active.
LEMMA OnlyDriversHold ==
  ASSUME Core, ~gate_closed, op = NoOp
  PROVE  Holders = {} \/ Holders = {"drivers"}
  BY DEF Holders, gate_closed, is_running

\* The same leases and the same kind of owner are the same holders.
LEMMA SameHolders ==
  ASSUME SameLeases, UNCHANGED process, is_running' <=> is_running,
         (op' # NoOp) <=> (op # NoOp)
  PROVE  LeaseStep
<1>1. Holders' = Holders
  BY DEF Holders, SameLeases
<1> QED
  BY <1>1 DEF LeaseStep, Lease!vars

\* An operation takes the device from nobody, or beside a driver install.
LEMMA OperationAcquires ==
  ASSUME Core, ~gate_closed, op = NoOp, process = "Up", SameLeases, UNCHANGED process,
         is_running'
  PROVE  LeaseStep
<1>1. Holders' = Holders \cup {"operation"}
  BY DEF Holders, SameLeases, is_running
<1>2. Lease!Acquire("operation")
  BY <1>1, OnlyDriversHold DEF Lease!Acquire
<1> QED
  BY <1>2 DEF LeaseStep, Lease!Next, Lease!Clients

\* A self-update takes it from nobody.
LEMMA UpdateAcquires ==
  ASSUME Core, ~gate_closed, op = NoOp, ~installing_drivers, process = "Up", SameLeases,
         UNCHANGED process, op' # NoOp, ~is_running'
  PROVE  LeaseStep
<1>1. Holders = {} /\ Holders' = {"update"}
  BY DEF Holders, SameLeases, is_running, gate_closed
<1>2. Lease!Acquire("update")
  BY <1>1 DEF Lease!Acquire
<1> QED
  BY <1>2 DEF LeaseStep, Lease!Next, Lease!Clients

\* So do the poll, the adb kill, the Software Fix close and the driver install.
LEMMA LeaseAcquires ==
  ASSUME NEW c \in {"poll", "kill", "close", "drivers"},
         Core, ~gate_closed, op = NoOp, ~installing_drivers, process = "Up",
         UNCHANGED <<op, process>>,
         (c = "poll") <=> poll_in_flight' # 0,
         (c = "kill") <=> adb_server_kill_in_flight',
         (c = "close") <=> software_fix'.closing,
         (c = "drivers") <=> installing_drivers'
  PROVE  LeaseStep
<1>1. Holders = {} /\ Holders' = {c}
  BY DEF Holders, is_running, gate_closed
<1>2. Lease!Acquire(c)
  BY <1>1 DEF Lease!Acquire
<1> QED
  BY <1>2 DEF LeaseStep, Lease!Next, Lease!Clients

\* Whoever gives its lease back leaves the others as they are.
LEMMA LeaseReleases ==
  ASSUME NEW c \in Holders, process = "Up", UNCHANGED process, Holders' = Holders \ {c}
  PROVE  LeaseStep
<1>1. Lease!Release(c) /\ c \in Lease!Clients
  BY DEF Lease!Release, Lease!Clients, Holders
<1> QED
  BY <1>1 DEF LeaseStep, Lease!Next

\* The handlers that may start an operation.
LEMMA StartersLease ==
  ASSUME Core, process = "Up", ~gate_closed, ~is_running, ~update_active,
         ExecStart \/ RootNext \/ KonaNext \/ KonaBack \/ CleanupTempFiles
  PROVE  LeaseStep
<1>0. op = NoOp
  BY NothingHeld
<1>1. SameLeases /\ UNCHANGED process
  BY <1>0 DEF ExecStart, RootNext, KonaNext, KonaBack, CleanupTempFiles,
     cancel_konabess_inspection, Idle, start, Reserve, gate, SameLeases
<1>2. CASE UNCHANGED op
  BY <1>1, <1>2, SameHolders DEF is_running
<1>3. CASE \E k \in Kinds \ {"SelfUpdate"} : op' = [id |-> generation + 1, kind |-> k]
  <2>1. is_running'
    BY <1>3 DEF is_running, NoOp, Kinds
  <2> QED
    BY <1>0, <1>1, <2>1, OperationAcquires
<1>4. UNCHANGED op \/ \E k \in Kinds \ {"SelfUpdate"} : op' = [id |-> generation + 1, kind |-> k]
  BY <1>0 DEF ExecStart, RootNext, KonaNext, KonaBack, CleanupTempFiles,
     cancel_konabess_inspection, Idle, start, Reserve, Kinds
<1> QED
  BY <1>2, <1>3, <1>4

\* The update button.
LEMMA InstallSelfUpdateLease ==
  ASSUME Core, process = "Up", ~gate_closed, InstallSelfUpdate
  PROVE  LeaseStep
<1>1. CASE can_install_self_update
  <2>1. op = NoOp /\ ~installing_drivers
    BY <1>1, NothingHeld DEF can_install_self_update, self_update_blocked
  <2>2. op' = [id |-> generation + 1, kind |-> "SelfUpdate"]
        /\ SameLeases /\ UNCHANGED process
    BY <1>1, <2>1 DEF InstallSelfUpdate, start, Reserve, gate, SameLeases
  <2>3. op' # NoOp /\ ~is_running'
    BY <2>2 DEF is_running, NoOp
  <2> QED
    BY <2>1, <2>2, <2>3, UpdateAcquires
<1>2. CASE ~can_install_self_update
  <2>1. SameLeases /\ UNCHANGED <<op, process>>
    BY <1>2 DEF InstallSelfUpdate, Idle, gate, SameLeases
  <2> QED
    BY <2>1, SameHolders DEF is_running
<1> QED
  BY <1>1, <1>2

\* The handlers that spawn a worker of their own.
LEMMA SpawnersLease ==
  ASSUME Core, process = "Up", ~gate_closed, ~is_running, ~update_active,
         KillAdbServer \/ ConfirmClose \/ InstallDrivers
  PROVE  LeaseStep
<1>0. op = NoOp /\ UNCHANGED <<op, process>>
  BY NothingHeld DEF KillAdbServer, ConfirmClose, InstallDrivers
<1>a. /\ poll_in_flight = 0 /\ ~adb_server_kill_in_flight /\ ~software_fix.closing
      /\ FixType /\ FlagType /\ GateType
  BY DEF gate_closed, Core
<1>1. CASE SameLeases
  BY <1>0, <1>1, SameHolders DEF is_running
<1>2. CASE KillAdbServer /\ ~SameLeases
  <2>1. /\ ~installing_drivers /\ adb_server_kill_in_flight'
        /\ UNCHANGED <<poll_in_flight, software_fix, installing_drivers>>
    BY <1>2 DEF KillAdbServer, SameLeases
  <2> QED
    BY <1>0, <1>a, <2>1, LeaseAcquires
<1>3. CASE ConfirmClose /\ ~SameLeases
  <2>1. /\ ~installing_drivers /\ software_fix'.closing
        /\ UNCHANGED <<poll_in_flight, adb_server_kill_in_flight, installing_drivers>>
    BY <1>3, <1>a DEF ConfirmClose, SameLeases, gate, can_close_software_fix, FixType
  <2> QED
    BY <1>0, <1>a, <2>1, LeaseAcquires
<1>4. CASE InstallDrivers /\ ~SameLeases
  <2>1. /\ ~installing_drivers /\ installing_drivers'
        /\ UNCHANGED <<poll_in_flight, adb_server_kill_in_flight, software_fix>>
    BY <1>4 DEF InstallDrivers, SameLeases, gate
  <2> QED
    BY <1>0, <1>a, <2>1, LeaseAcquires
<1> QED
  BY <1>1, <1>2, <1>3, <1>4

\* A poll request.
LEMMA PollDeviceLease ==
  ASSUME Core, process = "Up", PollDevice
  PROVE  LeaseStep
<1>0. UNCHANGED <<op, process>>
  BY DEF PollDevice
<1>1. CASE can_poll_device
  <2>1. op = NoOp /\ ~gate_closed /\ ~installing_drivers
    BY <1>1, NothingHeld DEF can_poll_device, NothingElseOwnsTheDevice, gate_closed
  <2>2. /\ poll_in_flight' # 0
        /\ UNCHANGED <<adb_server_kill_in_flight, software_fix, installing_drivers>>
    BY <1>1 DEF PollDevice, Core, GateType
  <2> QED
    BY <1>0, <2>1, <2>2, LeaseAcquires DEF gate_closed
<1>2. CASE ~can_poll_device
  <2>1. SameLeases
    BY <1>2 DEF PollDevice, SameLeases
  <2> QED
    BY <1>0, <2>1, SameHolders DEF is_running
<1> QED
  BY <1>1, <1>2

\* The handlers that touch no lease.
LEMMA QuietLease ==
  ASSUME Core, Navigate \/ StartOver \/ PickerReply \/ ForceClose
  PROVE  LeaseStep
<1>1. SameLeases /\ UNCHANGED <<op, process>>
  BY DEF Navigate, StartOver, PickerReply, ForceClose, Idle, gate, SameLeases, Core, FixType
<1> QED
  BY <1>1, SameHolders DEF is_running

\* Every handler, whether its message is fresh or replayed.
LEMMA HandleLease ==
  ASSUME Core, process = "Up", NEW m \in Messages, Handled(m), Handle(m)
  PROVE  LeaseStep
<1>1. /\ m # "PollDevice" => ~gate_closed
      /\ m \in Workflow => ~update_active
      /\ m \in Workflow \ {"Navigate"} => ~is_running
  BY HandledMeans
<1>2. CASE m \in {"ExecStart", "RootNext", "KonaNext", "KonaBack", "CleanupTempFiles"}
  BY <1>1, <1>2, StartersLease DEF Workflow, Handle
<1>3. CASE m \in {"KillAdbServer", "ConfirmClose", "InstallDrivers"}
  BY <1>1, <1>3, SpawnersLease DEF Workflow, Handle
<1>4. CASE m \in {"Navigate", "StartOver", "PickerReply", "ForceClose"}
  BY <1>4, QuietLease DEF Handle
<1>5. CASE m = "InstallSelfUpdate"
  BY <1>1, <1>5, InstallSelfUpdateLease DEF Handle
<1>6. CASE m = "PollDevice"
  BY <1>6, PollDeviceLease DEF Handle
<1> QED
  BY <1>2, <1>3, <1>4, <1>5, <1>6 DEF Handle

\* A completion of the poll, the kill, the close or the driver install gives
\* its own lease back; that of a stale poll gives back nothing.
LEMMA CompletionLease ==
  ASSUME Core, NEW id,
         \/ DevicePollFinished(id) \/ AdbServerKillFinished \/ SoftwareFixClosed
         \/ InstallDriversDone
  PROVE  LeaseStep
<1>0. process = "Up" /\ UNCHANGED <<op, process>>
  BY DEF DevicePollFinished, AdbServerKillFinished, SoftwareFixClosed, InstallDriversDone,
     Listening
<1>1. CASE SameLeases
  BY <1>0, <1>1, SameHolders DEF is_running
<1>2. CASE DevicePollFinished(id) /\ ~SameLeases
  <2>1. /\ poll_in_flight # 0 /\ poll_in_flight' = 0
        /\ UNCHANGED <<adb_server_kill_in_flight, software_fix, installing_drivers>>
    BY <1>2 DEF DevicePollFinished, SameLeases
  <2>2. "poll" \in Holders /\ Holders' = Holders \ {"poll"}
    BY <1>0, <2>1 DEF Holders, is_running
  <2> QED
    BY <1>0, <2>2, LeaseReleases
<1>3. CASE AdbServerKillFinished /\ ~SameLeases
  <2>1. /\ adb_server_kill_in_flight /\ ~adb_server_kill_in_flight'
        /\ UNCHANGED <<poll_in_flight, software_fix, installing_drivers>>
    BY <1>3 DEF AdbServerKillFinished, SameLeases, Core, GateType
  <2>2. "kill" \in Holders /\ Holders' = Holders \ {"kill"}
    BY <1>0, <2>1 DEF Holders, is_running
  <2> QED
    BY <1>0, <2>2, LeaseReleases
<1>4. CASE SoftwareFixClosed /\ ~SameLeases
  <2>1. /\ software_fix.closing /\ ~software_fix'.closing
        /\ UNCHANGED <<poll_in_flight, adb_server_kill_in_flight, installing_drivers>>
    BY <1>4 DEF SoftwareFixClosed, SameLeases, gate, Core, FixType
  <2>2. "close" \in Holders /\ Holders' = Holders \ {"close"}
    BY <1>0, <2>1 DEF Holders, is_running
  <2> QED
    BY <1>0, <2>2, LeaseReleases
<1>5. CASE InstallDriversDone /\ ~SameLeases
  <2>1. /\ installing_drivers /\ ~installing_drivers'
        /\ UNCHANGED <<poll_in_flight, adb_server_kill_in_flight, software_fix>>
    BY <1>5 DEF InstallDriversDone, SameLeases, gate, Core, FlagType
  <2>2. "drivers" \in Holders /\ Holders' = Holders \ {"drivers"}
    BY <1>0, <2>1 DEF Holders, is_running
  <2> QED
    BY <1>0, <2>2, LeaseReleases
<1> QED
  BY <1>1, <1>2, <1>3, <1>4, <1>5

\* The end of an operation or of a failed update gives the device back; the
\* probe that goes on as a root operation and the update that waits for the
\* exit keep it.
LEMMA OperationEventLease ==
  ASSUME Core, NEW id, OperationEvent(id)
  PROVE  LeaseStep
<1>0. process = "Up" /\ SameLeases /\ UNCHANGED process
  BY DEF OperationEvent, Listening, SameLeases, gate
<1>1. CASE UNCHANGED op
  BY <1>0, <1>1, SameHolders DEF is_running
<1>2. CASE op # NoOp /\ op' = NoOp
  <2>1. CASE is_running
    <3>1. "operation" \in Holders /\ Holders' = Holders \ {"operation"}
      BY <1>0, <1>2, <2>1 DEF Holders, SameLeases, is_running
    <3> QED
      BY <1>0, <3>1, LeaseReleases
  <2>2. CASE ~is_running
    <3>1. "update" \in Holders /\ Holders' = Holders \ {"update"}
      BY <1>0, <1>2, <2>2 DEF Holders, SameLeases, is_running
    <3> QED
      BY <1>0, <3>1, LeaseReleases
  <2> QED
    BY <2>1, <2>2
<1>3. CASE op.kind = "Probe" /\ op' = [id |-> generation + 1, kind |-> "Exec"]
  <2>1. is_running /\ is_running' /\ op # NoOp /\ op' # NoOp
    BY <1>3 DEF is_running, NoOp
  <2> QED
    BY <1>0, <2>1, SameHolders
<1>4. \/ UNCHANGED op \/ op' = NoOp
      \/ op.kind = "Probe" /\ op' = [id |-> generation + 1, kind |-> "Exec"]
  BY DEF OperationEvent, ExecDone, RootKernelVersionProbeDone, KonaBessInspectionDone,
     KonaBessFlashDone, KonaBessCancelDone, CleanupDone, SelfUpdateInstalled,
     SelfUpdateFailed, finish, Reserve
<1> QED
  BY <1>1, <1>2, <1>3, <1>4

\* The window and an installed update leave the process; an operation that
\* runs would have kept the window.
LEMMA LeaveLease ==
  ASSUME Core, NEW id, WindowClose \/ ExitAfterUpdate(id)
  PROVE  LeaseStep
<1>0. SameLeases /\ UNCHANGED op /\ process = "Up" /\ process' \in {"Up", "Exited"}
  BY DEF WindowClose, ExitAfterUpdate, Listening, SameLeases, gate
<1>1. CASE UNCHANGED process
  BY <1>0, <1>1, SameHolders DEF is_running
<1>2. CASE process' = "Exited"
  <2>1. ~is_running
    BY <1>0, <1>2 DEF WindowClose, ExitAfterUpdate, can_exit_after_self_update,
       self_update_blocked
  <2>2. Holders' = Holders /\ Holders \cap {"operation"} = {}
    BY <1>0, <2>1 DEF Holders, SameLeases, is_running
  <2>3. Lease!Close
    BY <1>0, <1>2, <2>2 DEF Lease!Close
  <2> QED
    BY <2>3 DEF LeaseStep, Lease!Next
<1> QED
  BY <1>0, <1>1, <1>2

\* Input that no gate holds back, and a deferral.
LEMMA OthersLease ==
  ASSUME Core,
         \/ \E m \in Messages : Defer(m)
         \/ PollSoftwareFix \/ SoftwareFixPolled \/ CancelCloseSoftwareFix
         \/ OpenUpdate \/ UpdateDialogClose
  PROVE  LeaseStep
<1>0. FixType
  BY DEF Core
<1>1. CASE PollSoftwareFix
  <2>1. SameLeases /\ UNCHANGED <<op, process>>
    BY <1>0, <1>1 DEF PollSoftwareFix, SameLeases, FixType, gate
  <2> QED
    BY <2>1, SameHolders DEF is_running
<1>2. CASE SoftwareFixPolled
  <2>1. SameLeases /\ UNCHANGED <<op, process>>
    BY <1>0, <1>2 DEF SoftwareFixPolled, SameLeases, FixType, gate
  <2> QED
    BY <2>1, SameHolders DEF is_running
<1>3. CASE CancelCloseSoftwareFix
  <2>1. SameLeases /\ UNCHANGED <<op, process>>
    BY <1>0, <1>3 DEF CancelCloseSoftwareFix, SameLeases, FixType, gate
  <2> QED
    BY <2>1, SameHolders DEF is_running
<1>4. CASE (\E m \in Messages : Defer(m)) \/ OpenUpdate \/ UpdateDialogClose
  <2>1. SameLeases /\ UNCHANGED <<op, process>>
    BY <1>4 DEF Defer, OpenUpdate, UpdateDialogClose, SameLeases, gate
  <2> QED
    BY <2>1, SameHolders DEF is_running
<1> QED
  BY <1>1, <1>2, <1>3, <1>4

\* Every step of the gate is a step of the lease or none.
LEMMA NextLease ==
  ASSUME Core, QueueType, ReplayOpen, Next
  PROVE  LeaseStep
<1>1. CASE \E m \in Messages : Receive(m)
  BY <1>1, HandleLease DEF Receive, Listening
<1>2. CASE Drain
  <2>1. Head(poll_deferred) \in Messages /\ process = "Up"
    BY <1>2 DEF Drain, QueueType, ReplayOpen
  <2>2. CASE Handled(Head(poll_deferred))
    BY <1>2, <2>1, <2>2, HandleLease DEF Drain
  <2>3. CASE ~Handled(Head(poll_deferred))
    BY <1>2, <2>3, QuietLease DEF Drain
  <2> QED
    BY <2>2, <2>3
<1>3. CASE GateCompletion \/ InstallDriversDone
  BY <1>3, CompletionLease DEF GateCompletion
<1>4. CASE \E w \in workers : OperationEvent(w.id) \/ ExitAfterUpdate(w.id)
  BY <1>4, OperationEventLease, LeaveLease
<1>5. CASE WindowClose
  BY <1>5, LeaveLease
<1>6. CASE \/ \E m \in Messages : Defer(m)
           \/ PollSoftwareFix \/ SoftwareFixPolled \/ CancelCloseSoftwareFix
           \/ OpenUpdate \/ UpdateDialogClose
  BY <1>6, OthersLease
<1> QED
  BY <1>1, <1>2, <1>3, <1>4, <1>5, <1>6 DEF Next, User

\* The gate implements the lease of DeviceLease: whatever order input and
\* completions come in, work starts only on a device nobody else holds (an
\* operation also beside a driver install), every holder gives its own lease
\* back and no other, and the window closes on no running operation.
THEOREM GateImplementsLease == Spec => LeaseSpec
<1>1. Init => Lease!Init
  <2> SUFFICES ASSUME Init
               PROVE  Holders = {} /\ process = "Up"
    BY DEF Lease!Init
  <2> QED
    BY DEF Init, Holders, is_running, NoOp
<1>2. IInv /\ [Next]_vars => LeaseStep
  <2> SUFFICES ASSUME IInv, [Next]_vars
               PROVE  LeaseStep
    OBVIOUS
  <2>1. CASE Next
    BY <2>1, NextLease DEF IInv, Queue
  <2>2. CASE UNCHANGED vars
    <3>1. SameLeases /\ UNCHANGED <<op, process>>
      BY <2>2 DEF vars, gate, SameLeases
    <3> QED
      BY <3>1, SameHolders DEF is_running
  <2> QED
    BY <2>1, <2>2
<1> QED
  BY <1>1, <1>2, Invariance, PTL DEF Spec, LeaseSpec, Lease!Spec, LeaseStep

-----------------------------------------------------------------------------
(* The self-update.                                                        *)


\* Only what was verified gets among the files.
Verified == Contents \ {"Bad"}

UpdateTypes ==
  /\ kind \in SwapKinds /\ guarded \in BOOLEAN /\ late \in BOOLEAN
  /\ files \in [Names -> Verified] /\ proc \in [Processes -> Process]
  /\ tries \in 0..MaxTries

PC(p)      == proc[p].pc
Attempting == Steps \ {"Off", "Locking", "Cleanup", "Idle"}
\* The program is moved aside, or was, and may be moved back.
Moving     == {"Place", "Restore", "Spawn", "Roll", "RollRestore"}
\* The move back has failed: the copy beside the program is not moved any more.
GivenUp    == {"CopyBack", "Retain", "RollCopy", "RollReturn"}
\* No program is installed.
Amid       == {"Place", "Restore", "RollRestore"} \cup GivenUp

\* A whole copy that nobody is going to move.
Stable(j)  == files[backup(j)] \in Whole /\ \A p \in Processes : try(p) = j => PC(p) \notin Moving
SomeStable == \E j \in Tries : Stable(j)

-----------------------------------------------------------------------------
(* What holds of one process.                                              *)

FitsKind(p) ==
  /\ kind = "AtomicFile" => PC(p) \notin Amid \cup {"DropFailed"}
  /\ kind = "MoveAside"  => PC(p) \notin {"Backup", "DropBackup"}

Numbered(p) == (PC(p) \in Attempting => try(p) # 0) /\ try(p) <= tries

Prepared(p) ==
  /\ PC(p) = "Candidate" => proc[p].payload = "New"
  /\ PC(p) \in {"Backup", "Swap", "Place", "Restore", "CopyBack", "Retain"} =>
       files[candidate(try(p))] = "New"
  /\ PC(p) \in {"Fetch", "Candidate"} => files[backup(try(p))] = "None"

\* Behind the lock one instance works, and it cleans up beside an installed
\* program, unless it came too late.
Locked(p) ==
  /\ PC(p) = "Cleanup" => guarded /\ (late \/ files[current] \in Whole)
  /\ guarded => /\ PC(p) \notin {"Off", "Locking"} => lock = {p}
                /\ PC(p) \in Amid => files[current] \notin Whole

\* What it needs to take its swap back.
Returns(p) ==
  /\ kind = "AtomicFile" /\ PC(p) \in {"Swap", "Spawn", "Roll"} => files[backup(try(p))] \in Whole
  /\ kind = "MoveAside" =>
       /\ PC(p) = "Swap"    => files[backup(try(p))] = "None"
       /\ ~late /\ PC(p) \in Moving  => files[backup(try(p))] \in Whole \/ SomeStable
       /\ ~late /\ PC(p) \in GivenUp => SomeStable

\* What a report will say is so already.
Told(p) ==
  /\ proc[p].report = "Installed" => files[current] = proc[p].before
  /\ proc[p].report = "Replaced"  => files[current] = "New"
  /\ proc[p].report = "Neither"   => files[backup(try(p))] = proc[p].before

Honest(p) == guarded =>
  /\ PC(p) \in (Attempting \ {"Drop", "DropFailed"}) \cup {"Locking", "Cleanup"} =>
       proc[p].report = "None"
  /\ PC(p) \in {"Drop", "DropFailed", "Idle"} => Told(p)
  /\ PC(p) \in {"Fetch", "Candidate", "Backup", "Swap"} => files[current] = proc[p].before
  /\ PC(p) \in Moving \cup GivenUp \/ (kind = "AtomicFile" /\ PC(p) = "Swap") =>
       files[backup(try(p))] = proc[p].before
  /\ PC(p) \in {"Spawn", "Roll"} => files[current] = "New"
  /\ PC(p) \in {"RollRestore", "RollCopy", "RollReturn"} => files[failed(try(p))] = "New"

Own(p) == FitsKind(p) /\ Numbered(p) /\ Prepared(p) /\ Locked(p) /\ Returns(p) /\ Honest(p)

\* An attempt has a number of its own, and names that nobody has used.
NumbersApart ==
  /\ \A p, q \in Processes : p # q /\ try(p) = try(q) => try(p) = 0
  /\ \A i \in Tries : i > tries => files[backup(i)] = "None"

Survives ==
  /\ kind = "AtomicFile" => files[current] \in Whole
  /\ kind = "MoveAside"  => AProgramSurvives /\ (~late /\ files[current] = "Torn" => SomeStable)

UpdateInv ==
  UpdateTypes /\ NumbersApart /\ Survives /\ \A p \in Processes : Own(p)

-----------------------------------------------------------------------------
\* The names of an attempt are names, differ from each other and from those of
\* another attempt.
LEMMA NamesDiffer ==
  ASSUME NEW i \in Tries, NEW j \in Tries
  PROVE  /\ {current, candidate(i), backup(i), failed(i)} \subseteq Names
         /\ current \notin {candidate(i), backup(i), failed(i)}
         /\ candidate(i) \notin {backup(j), failed(j)} /\ backup(i) # failed(j)
         /\ backup(i) = backup(j) => i = j
         /\ candidate(i) = candidate(j) => i = j
         /\ failed(i) = failed(j) => i = j
BY DEF Names, current, candidate, backup, failed, Tries

LEMMA CurrentIsAName == current \in Names
BY DEF Names

\* Numbers of attempts.
LEMMA NumbersTyped ==
  ASSUME UpdateTypes
  PROVE  \A p \in Processes : try(p) \in 0..MaxTries /\ (try(p) # 0 => try(p) \in Tries)
BY UpdateAssumption DEF UpdateTypes, Process, try, Tries

LEMMA KindsTyped == UpdateTypes => kind \in {"AtomicFile", "MoveAside"}
BY UpdateAssumption DEF UpdateTypes

-----------------------------------------------------------------------------
(* One process moves on.                                                   *)

\* Of all processes p alone changes: it is at pc and reports report.
Moved(p, pc, report) ==
  /\ proc' \in [Processes -> Process]
  /\ PC(p)' = pc /\ proc'[p].report = report
  /\ try(p)' = try(p) /\ proc'[p].before = proc[p].before
  /\ \A q \in Processes \ {p} : proc'[q] = proc[q]

LEMMA GotoMoves ==
  ASSUME UpdateTypes, NEW p \in Processes, NEW pc \in Steps, Goto(p, pc)
  PROVE  Moved(p, pc, proc[p].report)
<1>1. proc[p] \in Process
  BY DEF UpdateTypes
<1>2. [proc[p] EXCEPT !.pc = pc, !.copying = FALSE] \in Process
  BY <1>1 DEF Process
<1>3. proc' = [proc EXCEPT ![p] = [proc[p] EXCEPT !.pc = pc, !.copying = FALSE]]
  BY DEF Goto, UpdateTypes
<1> QED BY <1>1, <1>2, <1>3 DEF UpdateTypes, Moved, PC, try, Process

LEMMA ReportMoves ==
  ASSUME UpdateTypes, NEW p \in Processes, NEW pc \in Steps, NEW report \in Reports,
         Report(p, pc, report)
  PROVE  Moved(p, pc, report)
<1>1. proc[p] \in Process
  BY DEF UpdateTypes
<1>2. [proc[p] EXCEPT !.pc = pc, !.copying = FALSE, !.report = report] \in Process
  BY <1>1 DEF Process
<1>3. proc' = [proc EXCEPT ![p] = [proc[p] EXCEPT !.pc = pc, !.copying = FALSE, !.report = report]]
  BY DEF Report, UpdateTypes
<1> QED BY <1>1, <1>2, <1>3 DEF UpdateTypes, Moved, PC, try, Process

LEMMA CopyBeginsMoves ==
  ASSUME UpdateTypes, NEW p \in Processes, NEW to, CopyBegins(p, to)
  PROVE  Moved(p, PC(p), proc[p].report) /\ proc'[p].payload = proc[p].payload
<1>1. proc[p] \in Process
  BY DEF UpdateTypes
<1>2. [proc[p] EXCEPT !.copying = TRUE] \in Process
  BY <1>1 DEF Process
<1>3. proc' = [proc EXCEPT ![p] = [proc[p] EXCEPT !.copying = TRUE]]
  BY DEF CopyBegins, UpdateTypes
<1> QED BY <1>1, <1>2, <1>3 DEF UpdateTypes, Moved, PC, try, Process

\* What files hold after one of the file operations.
Renames(from, to) ==
  /\ files' \in [Names -> Verified]
  /\ files[from] # "None" /\ files'[to] = files[from] /\ files'[from] = "None"
  /\ \A n \in Names \ {from, to} : files'[n] = files[n]
Writes(name, what) ==
  /\ files' \in [Names -> Verified]
  /\ files'[name] = what /\ \A n \in Names \ {name} : files'[n] = files[n]
Nothing == files' = files

LEMMA RenameRenames ==
  ASSUME UpdateTypes, NEW from \in Names, NEW to \in Names, from # to, Rename(from, to)
  PROVE  Renames(from, to)
BY DEF UpdateTypes, Rename, Renamed, Renames, Verified, Contents

LEMMA RemoveWrites ==
  ASSUME UpdateTypes, NEW name \in Names, Remove(name)
  PROVE  Nothing \/ Writes(name, "None")
BY DEF UpdateTypes, Remove, Nothing, Writes, Verified, Contents

LEMMA CopyFailsWrites ==
  ASSUME UpdateTypes, NEW p, NEW to \in Names, CopyFails(p, to)
  PROVE  Nothing \/ Writes(to, "None") \/ Writes(to, "Torn")
BY DEF UpdateTypes, CopyFails, Nothing, Writes, Verified, Contents

LEMMA CopyWrites ==
  ASSUME UpdateTypes, NEW p, NEW to \in Names
  PROVE  /\ CopyBegins(p, to) => Writes(to, "Torn")
         /\ \A what \in Verified : CopyDone(p, what, to) => Writes(to, what)
BY DEF UpdateTypes, CopyBegins, CopyDone, Writes, Verified, Contents

\* A step of an attempt touches its own names and the program.
Local(p) ==
  /\ PC(p) \in Attempting /\ Disk(p)
  /\ \E pc \in Steps, report \in Reports : Moved(p, pc, report)
  /\ files' \in [Names -> Verified]
  /\ \A n \in Names \ {current, candidate(try(p)), backup(try(p)), failed(try(p))} :
       files'[n] = files[n]

\* The number of an attempt is its own, and its names are.
LEMMA AttemptsApart ==
  ASSUME UpdateInv, NEW p \in Processes, PC(p) \in Attempting
  PROVE  /\ try(p) \in Tries /\ try(p) <= tries
         /\ \A q \in Processes \ {p} : try(q) # try(p)
BY NumbersTyped DEF UpdateInv, Own, Numbered, NumbersApart

\* A stable copy stays one, unless it is p's own and p takes it up again.
LEMMA StableStays ==
  ASSUME UpdateInv, NEW p \in Processes, Local(p),
         \/ PC(p) \in Moving
         \/ files[backup(try(p))] \notin Whole
         \/ files'[backup(try(p))] = files[backup(try(p))] /\ PC(p)' \notin Moving,
         SomeStable
  PROVE  SomeStable'
<1>1. PICK j \in Tries : Stable(j)
  BY DEF SomeStable
<1>2. try(p) \in Tries /\ try(p)' = try(p) /\ \A q \in Processes \ {p} : proc'[q] = proc[q]
  BY AttemptsApart DEF Local, Moved
<1>3. CASE j = try(p)
  <2>1. files'[backup(j)] = files[backup(j)] /\ PC(p)' \notin Moving
    BY <1>1, <1>3 DEF Stable
  <2> QED BY <1>1, <1>2, <1>3, <2>1 DEF Stable, SomeStable, try, PC
<1>4. CASE j # try(p)
  <2>1. files'[backup(j)] = files[backup(j)]
    BY <1>2, <1>4, NamesDiffer DEF Local
  <2> QED BY <1>1, <1>2, <1>4, <2>1 DEF Stable, SomeStable, try, PC
<1> QED BY <1>3, <1>4

\* A step of p takes nothing from another process.
LEMMA OthersKeep ==
  ASSUME UpdateInv, NEW p \in Processes, Local(p),
         kind = "MoveAside" => (SomeStable => SomeStable'),
         NEW q \in Processes \ {p}
  PROVE  Own(q)'
<1>1. /\ proc'[q] = proc[q] /\ kind' = kind /\ guarded' = guarded /\ lock' = lock /\ tries' = tries
      /\ late' = late
      /\ Own(q)
  BY DEF Local, Moved, Disk, UpdateInv
<1>2. /\ PC(q)' = PC(q) /\ try(q)' = try(q) /\ proc'[q].payload = proc[q].payload
      /\ proc'[q].report = proc[q].report /\ proc'[q].before = proc[q].before
  BY <1>1 DEF PC, try
<1>3. PC(q) \in Attempting => /\ files'[candidate(try(q))] = files[candidate(try(q))]
                              /\ files'[backup(try(q))] = files[backup(try(q))]
                              /\ files'[failed(try(q))] = files[failed(try(q))]
  BY AttemptsApart, NamesDiffer DEF Local
<1>4. FitsKind(q)' /\ Numbered(q)'
  BY <1>1, <1>2 DEF Own, FitsKind, Numbered
<1>5. Prepared(q)'
  BY <1>1, <1>2, <1>3 DEF Own, Prepared, Attempting, Steps
<1>6. guarded => PC(q) \in {"Off", "Locking"}
  <2>1. proc[q] \in Process /\ proc[p] \in Process
    BY DEF UpdateInv, UpdateTypes
  <2>2. guarded => lock = {p}
    BY DEF UpdateInv, Own, Locked, Local, Attempting
  <2> QED BY <1>1, <2>1, <2>2 DEF Own, Locked, Process
<1>7. Locked(q)'
  BY <1>1, <1>2, <1>6 DEF Own, Locked, Amid, GivenUp
<1>8. Honest(q)'
  BY <1>1, <1>2, <1>6 DEF Own, Honest, Attempting, Moving, GivenUp
<1>9. Returns(q)'
  BY <1>1, <1>2, <1>3 DEF Own, Returns, Attempting, Moving, GivenUp, Steps
<1> QED BY <1>4, <1>5, <1>7, <1>8, <1>9 DEF Own

\* So a step of an attempt keeps the invariant if it does so where p is concerned.
LEMMA LocalKeeps ==
  ASSUME UpdateInv, NEW p \in Processes, Local(p),
         kind = "MoveAside" => (SomeStable => SomeStable'),
         Survives', Own(p)'
  PROVE  UpdateInv'
<1>1. UpdateTypes'
  BY DEF UpdateInv, UpdateTypes, Local, Moved, Disk
<1>2. \A q \in Processes : Own(q)'
  BY OthersKeep
<1>3. NumbersApart'
  <2>1. try(p)' = try(p) /\ tries' = tries /\ \A q \in Processes \ {p} : try(q)' = try(q)
    BY DEF Local, Moved, Disk, try
  <2>2. \A i \in Tries : i > tries => files'[backup(i)] = files[backup(i)]
    BY AttemptsApart, NamesDiffer DEF Local, UpdateInv, UpdateTypes, Tries
  <2> QED BY <2>1, <2>2 DEF NumbersApart, UpdateInv
<1> QED BY <1>1, <1>2, <1>3 DEF UpdateInv

-----------------------------------------------------------------------------
(* The steps of an attempt.                                                *)

\* What every one of them starts from.
Working(p, pc) ==
  /\ PC(p) = pc /\ pc \in Attempting /\ try(p) \in Tries /\ Own(p) /\ UpdateTypes /\ Survives
  /\ kind \in {"AtomicFile", "MoveAside"} /\ {current} \cup {candidate(try(p)), backup(try(p)), failed(try(p))} \subseteq Names
  /\ current \notin {candidate(try(p)), backup(try(p)), failed(try(p))}
  /\ candidate(try(p)) \notin {backup(try(p)), failed(try(p))} /\ backup(try(p)) # failed(try(p))
  /\ \A j \in Tries : backup(j) \in Names \ {current, candidate(try(p)), failed(try(p))}
  /\ files[current] \in Verified /\ files[backup(try(p))] \in Verified
  /\ Disk(p)

LEMMA WorkingStarts ==
  ASSUME UpdateInv, NEW p \in Processes, NEW pc \in Attempting, At(p, pc), Disk(p)
  PROVE  Working(p, pc)
<1>1. try(p) \in Tries /\ PC(p) = pc
  BY AttemptsApart DEF At, PC
<1>2. files[current] \in Verified /\ files[backup(try(p))] \in Verified
  BY <1>1, NamesDiffer DEF UpdateInv, UpdateTypes
<1> QED BY <1>1, <1>2, NamesDiffer, KindsTyped DEF UpdateInv, Working

\* Nobody else's files change.
OwnFiles(p) ==
  /\ files' \in [Names -> Verified]
  /\ \A n \in Names \ {current, candidate(try(p)), backup(try(p)), failed(try(p))} :
       files'[n] = files[n]

LEMMA OutcomeIsLocal ==
  ASSUME NEW p \in Processes, NEW pc, Working(p, pc), OwnFiles(p),
         \E pc1 \in Steps, r \in Reports : Moved(p, pc1, r)
  PROVE  Local(p)
BY DEF Local, Working, OwnFiles

LEMMA ReportTyped ==
  ASSUME UpdateTypes, NEW p \in Processes
  PROVE  proc[p].report \in Reports /\ PC(p) \in Steps
BY DEF UpdateTypes, Process, PC

LEMMA StillSurvives ==
  ASSUME NEW p \in Processes, NEW pc, Working(p, pc),
         kind = "AtomicFile" => files'[current] \in Whole,
         kind = "MoveAside" /\ ~late =>
           \/ files'[current] \in Whole \/ SomeStable'
           \/ files'[current] # "Torn" /\ \E j \in Tries : files'[backup(j)] \in Whole
  PROVE  Survives'
BY DEF Working, Disk, Survives, AProgramSurvives, SomeStable, Stable, Whole

\* A process that will not move its copy any more has a stable one, if it is whole.
LEMMA GivesUp ==
  ASSUME UpdateInv, NEW p \in Processes, Local(p), Nothing, PC(p)' \notin Moving,
         files[backup(try(p))] \in Whole
  PROVE  SomeStable'
<1>1. try(p) \in Tries /\ try(p)' = try(p) /\ \A q \in Processes \ {p} : try(q)' # try(p)
  BY AttemptsApart DEF Local, Moved, try
<1>2. Stable(try(p))'
  BY <1>1 DEF Stable, Nothing
<1> QED BY <1>1, <1>2 DEF SomeStable

USE DEF Working, Disk, Moved, Renames, Writes, Nothing, Attempting, Moving, GivenUp, Amid, Whole

LEMMA PrepareCandidateKeeps ==
  ASSUME UpdateInv, NEW p \in Processes, PrepareCandidate(p)
  PROVE  UpdateInv'
<1> DEFINE i == try(p)
           r == proc[p].report
<1>1. Working(p, "Candidate")
  BY WorkingStarts DEF PrepareCandidate, Steps
<1>2. \/ Writes(candidate(i), "Torn") /\ Moved(p, "Candidate", r) /\ proc'[p].payload = "New"
      \/ Writes(candidate(i), "New") /\ kind = "AtomicFile" /\ Moved(p, "Backup", r)
      \/ Writes(candidate(i), "New") /\ kind = "MoveAside" /\ Moved(p, "Swap", r)
      \/ (Nothing \/ Writes(candidate(i), "None") \/ Writes(candidate(i), "Torn")) /\ Moved(p, "Idle", r)
  BY <1>1, GotoMoves, CopyBeginsMoves, CopyWrites, CopyFailsWrites DEF PrepareCandidate, Steps, Reports, Own, Prepared, Verified, Contents
<1>3. Local(p)
  <2>1. OwnFiles(p)
    BY <1>1, <1>2 DEF OwnFiles, UpdateTypes
  <2>2. \E pc \in Steps, report \in Reports : Moved(p, pc, report)
    BY <1>1, <1>2, ReportTyped DEF Steps, Reports
  <2> QED BY <1>1, <2>1, <2>2, OutcomeIsLocal
<1>4. kind = "MoveAside" => (SomeStable => SomeStable')
  BY <1>1, <1>2, <1>3, StableStays DEF Own, FitsKind, Returns
<1>5. Survives'
  <2>1. kind = "AtomicFile" => files'[current] \in Whole
    BY <1>1, <1>2 DEF Own, FitsKind, Prepared, Returns, Survives
  <2>2. ASSUME kind = "MoveAside", ~late
        PROVE  \/ files'[current] \in Whole \/ SomeStable'
               \/ files'[current] # "Torn" /\ \E j \in Tries : files'[backup(j)] \in Whole
    BY <1>1, <1>2, <1>4, <2>2
    DEF Survives, AProgramSurvives, Own, FitsKind, Prepared, Returns, Verified, Contents, UpdateTypes
  <2> QED BY <1>1, <2>1, <2>2, StillSurvives
<1>6. FitsKind(p)' /\ Numbered(p)' /\ Prepared(p)'
  BY <1>1, <1>2 DEF Own, FitsKind, Numbered, Prepared
<1>7. Locked(p)'
  BY <1>1, <1>2 DEF Own, Locked
<1>8. Returns(p)'
  BY <1>1, <1>2, <1>4 DEF Own, FitsKind, Prepared, Returns, Survives, UpdateTypes, Verified, Contents
<1>9. Honest(p)'
  BY <1>1, <1>2 DEF Own, Prepared, Honest, Told
<1> QED BY <1>3, <1>4, <1>5, <1>6, <1>7, <1>8, <1>9, LocalKeeps DEF Own

LEMMA PrepareBackupKeeps ==
  ASSUME UpdateInv, NEW p \in Processes, PrepareBackup(p)
  PROVE  UpdateInv'
<1> DEFINE i == try(p)
           r == proc[p].report
<1>1. Working(p, "Backup")
  BY WorkingStarts DEF PrepareBackup, Steps
<1>2. \/ Writes(backup(i), "Torn") /\ Moved(p, "Backup", r)
      \/ Writes(backup(i), files[current]) /\ Moved(p, "Swap", r)
      \/ (Nothing \/ Writes(backup(i), "None") \/ Writes(backup(i), "Torn")) /\ Moved(p, "Drop", r)
  <2>1. CASE CopyBegins(p, backup(i))
    BY <1>1, <2>1, CopyBeginsMoves, CopyWrites
  <2>2. CASE CopyDone(p, files[current], backup(i)) /\ Goto(p, "Swap")
    <3>1. Writes(backup(i), files[current])
      BY <1>1, <2>2, CopyWrites
    <3>2. Moved(p, "Swap", r)
      BY <1>1, <2>2, GotoMoves DEF Steps, Reports
    <3> QED BY <3>1, <3>2
  <2>3. CASE CopyFails(p, backup(i)) /\ Goto(p, "Drop")
    BY <1>1, <2>3, CopyFailsWrites, GotoMoves DEF Steps
  <2> QED BY <2>1, <2>2, <2>3 DEF PrepareBackup
<1>3. Local(p)
  <2>1. OwnFiles(p)
    BY <1>1, <1>2 DEF OwnFiles, UpdateTypes
  <2>2. \E pc \in Steps, report \in Reports : Moved(p, pc, report)
    BY <1>1, <1>2, ReportTyped DEF Steps, Reports
  <2> QED BY <1>1, <2>1, <2>2, OutcomeIsLocal
<1>4. kind = "MoveAside" => (SomeStable => SomeStable')
  BY <1>1, <1>2, <1>3, StableStays DEF Own, FitsKind, Returns
<1>5. Survives'
  <2>1. kind = "AtomicFile" => files'[current] \in Whole
    BY <1>1, <1>2 DEF Own, FitsKind, Prepared, Returns, Survives
  <2>2. ASSUME kind = "MoveAside", ~late
        PROVE  \/ files'[current] \in Whole \/ SomeStable'
               \/ files'[current] # "Torn" /\ \E j \in Tries : files'[backup(j)] \in Whole
    BY <1>1, <1>2, <1>4, <2>2
    DEF Survives, AProgramSurvives, Own, FitsKind, Prepared, Returns, Verified, Contents, UpdateTypes
  <2> QED BY <1>1, <2>1, <2>2, StillSurvives
<1>6. FitsKind(p)' /\ Numbered(p)' /\ Prepared(p)'
  BY <1>1, <1>2 DEF Own, FitsKind, Numbered, Prepared
<1>7. Locked(p)'
  BY <1>1, <1>2 DEF Own, Locked
<1>8. Returns(p)'
  BY <1>1, <1>2, <1>4 DEF Own, FitsKind, Prepared, Returns, Survives, UpdateTypes, Verified, Contents
<1>9. Honest(p)'
  BY <1>1, <1>2 DEF Own, Prepared, Honest, Told
<1> QED BY <1>3, <1>4, <1>5, <1>6, <1>7, <1>8, <1>9, LocalKeeps DEF Own

LEMMA SwapKeeps ==
  ASSUME UpdateInv, NEW p \in Processes, Swap(p)
  PROVE  UpdateInv'
<1> DEFINE i == try(p)
           r == proc[p].report
<1>1. Working(p, "Swap")
  BY WorkingStarts DEF Swap, Steps
<1>2. \/ kind = "AtomicFile" /\ Renames(candidate(i), current) /\ Moved(p, "Spawn", r)
      \/ kind = "AtomicFile" /\ Nothing /\ Moved(p, "DropBackup", r)
      \/ kind = "MoveAside" /\ Renames(current, backup(i)) /\ Moved(p, "Place", r)
      \/ kind = "MoveAside" /\ Nothing /\ Moved(p, "Drop", r)
  BY <1>1, GotoMoves, RenameRenames DEF Swap, Steps, Reports
<1>3. Local(p)
  <2>1. OwnFiles(p)
    BY <1>1, <1>2 DEF OwnFiles, UpdateTypes
  <2>2. \E pc \in Steps, report \in Reports : Moved(p, pc, report)
    BY <1>1, <1>2, ReportTyped DEF Steps, Reports
  <2> QED BY <1>1, <2>1, <2>2, OutcomeIsLocal
<1>4. kind = "MoveAside" => (SomeStable => SomeStable')
  BY <1>1, <1>2, <1>3, StableStays DEF Own, FitsKind, Returns
<1>5. Survives'
  <2>1. kind = "AtomicFile" => files'[current] \in Whole
    BY <1>1, <1>2 DEF Own, FitsKind, Prepared, Returns, Survives
  <2>2. ASSUME kind = "MoveAside", ~late
        PROVE  \/ files'[current] \in Whole \/ SomeStable'
               \/ files'[current] # "Torn" /\ \E j \in Tries : files'[backup(j)] \in Whole
    BY <1>1, <1>2, <1>4, <2>2
    DEF Survives, AProgramSurvives, Own, FitsKind, Prepared, Returns, Verified, Contents, UpdateTypes
  <2> QED BY <1>1, <2>1, <2>2, StillSurvives
<1>6. FitsKind(p)' /\ Numbered(p)' /\ Prepared(p)'
  BY <1>1, <1>2 DEF Own, FitsKind, Numbered, Prepared
<1>7. Locked(p)'
  BY <1>1, <1>2 DEF Own, Locked
<1>8. Returns(p)'
  BY <1>1, <1>2, <1>4 DEF Own, FitsKind, Prepared, Returns, Survives, UpdateTypes, Verified, Contents
<1>9. Honest(p)'
  BY <1>1, <1>2 DEF Own, Prepared, Honest, Told
<1> QED BY <1>3, <1>4, <1>5, <1>6, <1>7, <1>8, <1>9, LocalKeeps DEF Own

LEMMA PlaceKeeps ==
  ASSUME UpdateInv, NEW p \in Processes, Place(p)
  PROVE  UpdateInv'
<1> DEFINE i == try(p)
           r == proc[p].report
<1>1. Working(p, "Place")
  BY WorkingStarts DEF Place, Steps
<1>2. \/ Renames(candidate(i), current) /\ Moved(p, "Spawn", r)
      \/ Nothing /\ Moved(p, "Restore", r)
  BY <1>1, GotoMoves, RenameRenames DEF Place, Steps, Reports
<1>3. Local(p)
  <2>1. OwnFiles(p)
    BY <1>1, <1>2 DEF OwnFiles, UpdateTypes
  <2>2. \E pc \in Steps, report \in Reports : Moved(p, pc, report)
    BY <1>1, <1>2, ReportTyped DEF Steps, Reports
  <2> QED BY <1>1, <2>1, <2>2, OutcomeIsLocal
<1>4. kind = "MoveAside" => (SomeStable => SomeStable')
  BY <1>1, <1>2, <1>3, StableStays DEF Own, FitsKind, Returns
<1>5. Survives'
  <2>1. kind = "AtomicFile" => files'[current] \in Whole
    BY <1>1, <1>2 DEF Own, FitsKind, Prepared, Returns, Survives
  <2>2. ASSUME kind = "MoveAside", ~late
        PROVE  \/ files'[current] \in Whole \/ SomeStable'
               \/ files'[current] # "Torn" /\ \E j \in Tries : files'[backup(j)] \in Whole
    BY <1>1, <1>2, <1>4, <2>2
    DEF Survives, AProgramSurvives, Own, FitsKind, Prepared, Returns, Verified, Contents, UpdateTypes
  <2> QED BY <1>1, <2>1, <2>2, StillSurvives
<1>6. FitsKind(p)' /\ Numbered(p)' /\ Prepared(p)'
  BY <1>1, <1>2 DEF Own, FitsKind, Numbered, Prepared
<1>7. Locked(p)'
  BY <1>1, <1>2 DEF Own, Locked
<1>8. Returns(p)'
  BY <1>1, <1>2, <1>4 DEF Own, FitsKind, Prepared, Returns, Survives, UpdateTypes, Verified, Contents
<1>9. Honest(p)'
  BY <1>1, <1>2 DEF Own, Prepared, Honest, Told
<1> QED BY <1>3, <1>4, <1>5, <1>6, <1>7, <1>8, <1>9, LocalKeeps DEF Own

LEMMA RestoreKeeps ==
  ASSUME UpdateInv, NEW p \in Processes, Restore(p)
  PROVE  UpdateInv'
<1> DEFINE i == try(p)
           r == proc[p].report
<1>1. Working(p, "Restore")
  BY WorkingStarts DEF Restore, Steps
<1>2. \/ Renames(backup(i), current) /\ Moved(p, "Drop", "Installed")
      \/ Nothing /\ Moved(p, "CopyBack", r)
  BY <1>1, GotoMoves, ReportMoves, RenameRenames DEF Restore, Steps, Reports
<1>3. Local(p)
  <2>1. OwnFiles(p)
    BY <1>1, <1>2 DEF OwnFiles, UpdateTypes
  <2>2. \E pc \in Steps, report \in Reports : Moved(p, pc, report)
    BY <1>1, <1>2, ReportTyped DEF Steps, Reports
  <2> QED BY <1>1, <2>1, <2>2, OutcomeIsLocal
<1>4. kind = "MoveAside" => (SomeStable => SomeStable')
  BY <1>1, <1>2, <1>3, StableStays DEF Own, FitsKind, Returns
<1>5. Survives'
  <2>1. kind = "AtomicFile" => files'[current] \in Whole
    BY <1>1, <1>2 DEF Own, FitsKind, Prepared, Returns, Survives
  <2>2. ASSUME kind = "MoveAside", ~late
        PROVE  \/ files'[current] \in Whole \/ SomeStable'
               \/ files'[current] # "Torn" /\ \E j \in Tries : files'[backup(j)] \in Whole
    BY <1>1, <1>2, <1>4, <2>2
    DEF Survives, AProgramSurvives, Own, FitsKind, Prepared, Returns, Verified, Contents, UpdateTypes
  <2> QED BY <1>1, <2>1, <2>2, StillSurvives
<1>6. FitsKind(p)' /\ Numbered(p)' /\ Prepared(p)'
  BY <1>1, <1>2 DEF Own, FitsKind, Numbered, Prepared
<1>7. Locked(p)'
  BY <1>1, <1>2 DEF Own, Locked
<1>8. Returns(p)'
  BY <1>1, <1>2, <1>4, <1>3, GivesUp DEF Own, FitsKind, Prepared, Returns, Survives, UpdateTypes, Verified, Contents
<1>9. Honest(p)'
  BY <1>1, <1>2 DEF Own, Prepared, Honest, Told
<1> QED BY <1>3, <1>4, <1>5, <1>6, <1>7, <1>8, <1>9, LocalKeeps DEF Own

LEMMA CopyBackKeeps ==
  ASSUME UpdateInv, NEW p \in Processes, CopyBack(p)
  PROVE  UpdateInv'
<1> DEFINE i == try(p)
           r == proc[p].report
<1>1. Working(p, "CopyBack")
  BY WorkingStarts DEF CopyBack, Steps
<1>2. \/ Writes(current, "Torn") /\ Moved(p, "CopyBack", r)
      \/ Writes(current, files[backup(i)]) /\ Moved(p, "Drop", "Installed")
      \/ (Nothing \/ Writes(current, "None") \/ Writes(current, "Torn")) /\ Moved(p, "Retain", r)
  <2>1. CASE CopyBegins(p, current)
    BY <1>1, <2>1, CopyBeginsMoves, CopyWrites
  <2>2. CASE CopyDone(p, files[backup(i)], current) /\ Report(p, "Drop", "Installed")
    <3>1. Writes(current, files[backup(i)])
      BY <1>1, <2>2, CopyWrites
    <3>2. Moved(p, "Drop", "Installed")
      BY <1>1, <2>2, ReportMoves DEF Steps, Reports
    <3> QED BY <3>1, <3>2
  <2>3. CASE CopyFails(p, current) /\ Goto(p, "Retain")
    BY <1>1, <2>3, CopyFailsWrites, GotoMoves DEF Steps
  <2> QED BY <2>1, <2>2, <2>3 DEF CopyBack
<1>3. Local(p)
  <2>1. OwnFiles(p)
    BY <1>1, <1>2 DEF OwnFiles, UpdateTypes
  <2>2. \E pc \in Steps, report \in Reports : Moved(p, pc, report)
    BY <1>1, <1>2, ReportTyped DEF Steps, Reports
  <2> QED BY <1>1, <2>1, <2>2, OutcomeIsLocal
<1>4. kind = "MoveAside" => (SomeStable => SomeStable')
  BY <1>1, <1>2, <1>3, StableStays DEF Own, FitsKind, Returns
<1>5. Survives'
  <2>1. kind = "AtomicFile" => files'[current] \in Whole
    BY <1>1, <1>2 DEF Own, FitsKind, Prepared, Returns, Survives
  <2>2. ASSUME kind = "MoveAside", ~late
        PROVE  \/ files'[current] \in Whole \/ SomeStable'
               \/ files'[current] # "Torn" /\ \E j \in Tries : files'[backup(j)] \in Whole
    BY <1>1, <1>2, <1>4, <2>2
    DEF Survives, AProgramSurvives, Own, FitsKind, Prepared, Returns, Verified, Contents, UpdateTypes
  <2> QED BY <1>1, <2>1, <2>2, StillSurvives
<1>6. FitsKind(p)' /\ Numbered(p)' /\ Prepared(p)'
  BY <1>1, <1>2 DEF Own, FitsKind, Numbered, Prepared
<1>7. Locked(p)'
  BY <1>1, <1>2 DEF Own, Locked
<1>8. Returns(p)'
  BY <1>1, <1>2, <1>4 DEF Own, FitsKind, Prepared, Returns, Survives, UpdateTypes, Verified, Contents
<1>9. Honest(p)'
  BY <1>1, <1>2 DEF Own, Prepared, Honest, Told
<1> QED BY <1>3, <1>4, <1>5, <1>6, <1>7, <1>8, <1>9, LocalKeeps DEF Own

LEMMA RetainKeeps ==
  ASSUME UpdateInv, NEW p \in Processes, Retain(p)
  PROVE  UpdateInv'
<1> DEFINE i == try(p)
           r == proc[p].report
<1>1. Working(p, "Retain")
  BY WorkingStarts DEF Retain, Steps
<1>2. \/ Renames(candidate(i), current) /\ Moved(p, "Drop", "Replaced")
      \/ Nothing /\ Moved(p, "Drop", "Neither")
  BY <1>1, ReportMoves, RenameRenames DEF Retain, Steps, Reports
<1>3. Local(p)
  <2>1. OwnFiles(p)
    BY <1>1, <1>2 DEF OwnFiles, UpdateTypes
  <2>2. \E pc \in Steps, report \in Reports : Moved(p, pc, report)
    BY <1>1, <1>2, ReportTyped DEF Steps, Reports
  <2> QED BY <1>1, <2>1, <2>2, OutcomeIsLocal
<1>4. kind = "MoveAside" => (SomeStable => SomeStable')
  BY <1>1, <1>2, <1>3, StableStays DEF Own, FitsKind, Returns
<1>5. Survives'
  <2>1. kind = "AtomicFile" => files'[current] \in Whole
    BY <1>1, <1>2 DEF Own, FitsKind, Prepared, Returns, Survives
  <2>2. ASSUME kind = "MoveAside", ~late
        PROVE  \/ files'[current] \in Whole \/ SomeStable'
               \/ files'[current] # "Torn" /\ \E j \in Tries : files'[backup(j)] \in Whole
    BY <1>1, <1>2, <1>4, <2>2
    DEF Survives, AProgramSurvives, Own, FitsKind, Prepared, Returns, Verified, Contents, UpdateTypes
  <2> QED BY <1>1, <2>1, <2>2, StillSurvives
<1>6. FitsKind(p)' /\ Numbered(p)' /\ Prepared(p)'
  BY <1>1, <1>2 DEF Own, FitsKind, Numbered, Prepared
<1>7. Locked(p)'
  BY <1>1, <1>2 DEF Own, Locked
<1>8. Returns(p)'
  BY <1>1, <1>2, <1>4 DEF Own, FitsKind, Prepared, Returns, Survives, UpdateTypes, Verified, Contents
<1>9. Honest(p)'
  BY <1>1, <1>2 DEF Own, Prepared, Honest, Told
<1> QED BY <1>3, <1>4, <1>5, <1>6, <1>7, <1>8, <1>9, LocalKeeps DEF Own

LEMMA DropBackupKeeps ==
  ASSUME UpdateInv, NEW p \in Processes, DropBackup(p)
  PROVE  UpdateInv'
<1> DEFINE i == try(p)
           r == proc[p].report
<1>1. Working(p, "DropBackup")
  BY WorkingStarts DEF DropBackup, Steps
<1>2. (Nothing \/ Writes(backup(i), "None")) /\ Moved(p, "Drop", r)
  BY <1>1, GotoMoves, RemoveWrites DEF DropBackup, Steps, Reports
<1>3. Local(p)
  <2>1. OwnFiles(p)
    BY <1>1, <1>2 DEF OwnFiles, UpdateTypes
  <2>2. \E pc \in Steps, report \in Reports : Moved(p, pc, report)
    BY <1>1, <1>2, ReportTyped DEF Steps, Reports
  <2> QED BY <1>1, <2>1, <2>2, OutcomeIsLocal
<1>4. kind = "MoveAside" => (SomeStable => SomeStable')
  BY <1>1, <1>2, <1>3, StableStays DEF Own, FitsKind, Returns
<1>5. Survives'
  <2>1. kind = "AtomicFile" => files'[current] \in Whole
    BY <1>1, <1>2 DEF Own, FitsKind, Prepared, Returns, Survives
  <2>2. ASSUME kind = "MoveAside", ~late
        PROVE  \/ files'[current] \in Whole \/ SomeStable'
               \/ files'[current] # "Torn" /\ \E j \in Tries : files'[backup(j)] \in Whole
    BY <1>1, <1>2, <1>4, <2>2
    DEF Survives, AProgramSurvives, Own, FitsKind, Prepared, Returns, Verified, Contents, UpdateTypes
  <2> QED BY <1>1, <2>1, <2>2, StillSurvives
<1>6. FitsKind(p)' /\ Numbered(p)' /\ Prepared(p)'
  BY <1>1, <1>2 DEF Own, FitsKind, Numbered, Prepared
<1>7. Locked(p)'
  BY <1>1, <1>2 DEF Own, Locked
<1>8. Returns(p)'
  BY <1>1, <1>2, <1>4 DEF Own, FitsKind, Prepared, Returns, Survives, UpdateTypes, Verified, Contents
<1>9. Honest(p)'
  BY <1>1, <1>2 DEF Own, Prepared, Honest, Told
<1> QED BY <1>3, <1>4, <1>5, <1>6, <1>7, <1>8, <1>9, LocalKeeps DEF Own

LEMMA DropKeeps ==
  ASSUME UpdateInv, NEW p \in Processes, Drop(p)
  PROVE  UpdateInv'
<1> DEFINE i == try(p)
           r == proc[p].report
<1>1. Working(p, "Drop")
  BY WorkingStarts DEF Drop, Steps
<1>2. (Nothing \/ Writes(candidate(i), "None")) /\ Moved(p, "Idle", r)
  BY <1>1, GotoMoves, RemoveWrites DEF Drop, Steps, Reports
<1>3. Local(p)
  <2>1. OwnFiles(p)
    BY <1>1, <1>2 DEF OwnFiles, UpdateTypes
  <2>2. \E pc \in Steps, report \in Reports : Moved(p, pc, report)
    BY <1>1, <1>2, ReportTyped DEF Steps, Reports
  <2> QED BY <1>1, <2>1, <2>2, OutcomeIsLocal
<1>4. kind = "MoveAside" => (SomeStable => SomeStable')
  BY <1>1, <1>2, <1>3, StableStays DEF Own, FitsKind, Returns
<1>5. Survives'
  <2>1. kind = "AtomicFile" => files'[current] \in Whole
    BY <1>1, <1>2 DEF Own, FitsKind, Prepared, Returns, Survives
  <2>2. ASSUME kind = "MoveAside", ~late
        PROVE  \/ files'[current] \in Whole \/ SomeStable'
               \/ files'[current] # "Torn" /\ \E j \in Tries : files'[backup(j)] \in Whole
    BY <1>1, <1>2, <1>4, <2>2
    DEF Survives, AProgramSurvives, Own, FitsKind, Prepared, Returns, Verified, Contents, UpdateTypes
  <2> QED BY <1>1, <2>1, <2>2, StillSurvives
<1>6. FitsKind(p)' /\ Numbered(p)' /\ Prepared(p)'
  BY <1>1, <1>2 DEF Own, FitsKind, Numbered, Prepared
<1>7. Locked(p)'
  BY <1>1, <1>2 DEF Own, Locked
<1>8. Returns(p)'
  BY <1>1, <1>2, <1>4 DEF Own, FitsKind, Prepared, Returns, Survives, UpdateTypes, Verified, Contents
<1>9. Honest(p)'
  BY <1>1, <1>2 DEF Own, Prepared, Honest, Told
<1> QED BY <1>3, <1>4, <1>5, <1>6, <1>7, <1>8, <1>9, LocalKeeps DEF Own

LEMMA RollKeeps ==
  ASSUME UpdateInv, NEW p \in Processes, Roll(p)
  PROVE  UpdateInv'
<1> DEFINE i == try(p)
           r == proc[p].report
<1>1. Working(p, "Roll")
  BY WorkingStarts DEF Roll, Steps
<1>2. \/ kind = "AtomicFile" /\ Renames(backup(i), current) /\ Moved(p, "Idle", "Installed")
      \/ kind = "MoveAside" /\ Renames(current, failed(i)) /\ Moved(p, "RollRestore", r)
      \/ Nothing /\ Moved(p, "Idle", "Replaced")
  BY <1>1, GotoMoves, ReportMoves, RenameRenames DEF Roll, Steps, Reports
<1>3. Local(p)
  <2>1. OwnFiles(p)
    BY <1>1, <1>2 DEF OwnFiles, UpdateTypes
  <2>2. \E pc \in Steps, report \in Reports : Moved(p, pc, report)
    BY <1>1, <1>2, ReportTyped DEF Steps, Reports
  <2> QED BY <1>1, <2>1, <2>2, OutcomeIsLocal
<1>4. kind = "MoveAside" => (SomeStable => SomeStable')
  BY <1>1, <1>2, <1>3, StableStays DEF Own, FitsKind, Returns
<1>5. Survives'
  <2>1. kind = "AtomicFile" => files'[current] \in Whole
    BY <1>1, <1>2 DEF Own, FitsKind, Prepared, Returns, Survives
  <2>2. ASSUME kind = "MoveAside", ~late
        PROVE  \/ files'[current] \in Whole \/ SomeStable'
               \/ files'[current] # "Torn" /\ \E j \in Tries : files'[backup(j)] \in Whole
    BY <1>1, <1>2, <1>4, <2>2
    DEF Survives, AProgramSurvives, Own, FitsKind, Prepared, Returns, Verified, Contents, UpdateTypes
  <2> QED BY <1>1, <2>1, <2>2, StillSurvives
<1>6. FitsKind(p)' /\ Numbered(p)' /\ Prepared(p)'
  BY <1>1, <1>2 DEF Own, FitsKind, Numbered, Prepared
<1>7. Locked(p)'
  BY <1>1, <1>2 DEF Own, Locked
<1>8. Returns(p)'
  BY <1>1, <1>2, <1>4 DEF Own, FitsKind, Prepared, Returns, Survives, UpdateTypes, Verified, Contents
<1>9. Honest(p)'
  BY <1>1, <1>2 DEF Own, Prepared, Honest, Told
<1> QED BY <1>3, <1>4, <1>5, <1>6, <1>7, <1>8, <1>9, LocalKeeps DEF Own

LEMMA RollRestoreKeeps ==
  ASSUME UpdateInv, NEW p \in Processes, RollRestore(p)
  PROVE  UpdateInv'
<1> DEFINE i == try(p)
           r == proc[p].report
<1>1. Working(p, "RollRestore")
  BY WorkingStarts DEF RollRestore, Steps
<1>2. \/ Renames(backup(i), current) /\ Moved(p, "DropFailed", "Installed")
      \/ Nothing /\ Moved(p, "RollCopy", r)
  BY <1>1, GotoMoves, ReportMoves, RenameRenames DEF RollRestore, Steps, Reports
<1>3. Local(p)
  <2>1. OwnFiles(p)
    BY <1>1, <1>2 DEF OwnFiles, UpdateTypes
  <2>2. \E pc \in Steps, report \in Reports : Moved(p, pc, report)
    BY <1>1, <1>2, ReportTyped DEF Steps, Reports
  <2> QED BY <1>1, <2>1, <2>2, OutcomeIsLocal
<1>4. kind = "MoveAside" => (SomeStable => SomeStable')
  BY <1>1, <1>2, <1>3, StableStays DEF Own, FitsKind, Returns
<1>5. Survives'
  <2>1. kind = "AtomicFile" => files'[current] \in Whole
    BY <1>1, <1>2 DEF Own, FitsKind, Prepared, Returns, Survives
  <2>2. ASSUME kind = "MoveAside", ~late
        PROVE  \/ files'[current] \in Whole \/ SomeStable'
               \/ files'[current] # "Torn" /\ \E j \in Tries : files'[backup(j)] \in Whole
    BY <1>1, <1>2, <1>4, <2>2
    DEF Survives, AProgramSurvives, Own, FitsKind, Prepared, Returns, Verified, Contents, UpdateTypes
  <2> QED BY <1>1, <2>1, <2>2, StillSurvives
<1>6. FitsKind(p)' /\ Numbered(p)' /\ Prepared(p)'
  BY <1>1, <1>2 DEF Own, FitsKind, Numbered, Prepared
<1>7. Locked(p)'
  BY <1>1, <1>2 DEF Own, Locked
<1>8. Returns(p)'
  BY <1>1, <1>2, <1>4, <1>3, GivesUp DEF Own, FitsKind, Prepared, Returns, Survives, UpdateTypes, Verified, Contents
<1>9. Honest(p)'
  BY <1>1, <1>2 DEF Own, Prepared, Honest, Told
<1> QED BY <1>3, <1>4, <1>5, <1>6, <1>7, <1>8, <1>9, LocalKeeps DEF Own

LEMMA RollCopyKeeps ==
  ASSUME UpdateInv, NEW p \in Processes, RollCopy(p)
  PROVE  UpdateInv'
<1> DEFINE i == try(p)
           r == proc[p].report
<1>1. Working(p, "RollCopy")
  BY WorkingStarts DEF RollCopy, Steps
<1>2. \/ Writes(current, "Torn") /\ Moved(p, "RollCopy", r)
      \/ Writes(current, files[backup(i)]) /\ Moved(p, "DropFailed", "Installed")
      \/ (Nothing \/ Writes(current, "None") \/ Writes(current, "Torn")) /\ Moved(p, "RollReturn", r)
  <2>1. CASE CopyBegins(p, current)
    BY <1>1, <2>1, CopyBeginsMoves, CopyWrites
  <2>2. CASE CopyDone(p, files[backup(i)], current) /\ Report(p, "DropFailed", "Installed")
    <3>1. Writes(current, files[backup(i)])
      BY <1>1, <2>2, CopyWrites
    <3>2. Moved(p, "DropFailed", "Installed")
      BY <1>1, <2>2, ReportMoves DEF Steps, Reports
    <3> QED BY <3>1, <3>2
  <2>3. CASE CopyFails(p, current) /\ Goto(p, "RollReturn")
    BY <1>1, <2>3, CopyFailsWrites, GotoMoves DEF Steps
  <2> QED BY <2>1, <2>2, <2>3 DEF RollCopy
<1>3. Local(p)
  <2>1. OwnFiles(p)
    BY <1>1, <1>2 DEF OwnFiles, UpdateTypes
  <2>2. \E pc \in Steps, report \in Reports : Moved(p, pc, report)
    BY <1>1, <1>2, ReportTyped DEF Steps, Reports
  <2> QED BY <1>1, <2>1, <2>2, OutcomeIsLocal
<1>4. kind = "MoveAside" => (SomeStable => SomeStable')
  BY <1>1, <1>2, <1>3, StableStays DEF Own, FitsKind, Returns
<1>5. Survives'
  <2>1. kind = "AtomicFile" => files'[current] \in Whole
    BY <1>1, <1>2 DEF Own, FitsKind, Prepared, Returns, Survives
  <2>2. ASSUME kind = "MoveAside", ~late
        PROVE  \/ files'[current] \in Whole \/ SomeStable'
               \/ files'[current] # "Torn" /\ \E j \in Tries : files'[backup(j)] \in Whole
    BY <1>1, <1>2, <1>4, <2>2
    DEF Survives, AProgramSurvives, Own, FitsKind, Prepared, Returns, Verified, Contents, UpdateTypes
  <2> QED BY <1>1, <2>1, <2>2, StillSurvives
<1>6. FitsKind(p)' /\ Numbered(p)' /\ Prepared(p)'
  BY <1>1, <1>2 DEF Own, FitsKind, Numbered, Prepared
<1>7. Locked(p)'
  BY <1>1, <1>2 DEF Own, Locked
<1>8. Returns(p)'
  BY <1>1, <1>2, <1>4 DEF Own, FitsKind, Prepared, Returns, Survives, UpdateTypes, Verified, Contents
<1>9. Honest(p)'
  BY <1>1, <1>2 DEF Own, Prepared, Honest, Told
<1> QED BY <1>3, <1>4, <1>5, <1>6, <1>7, <1>8, <1>9, LocalKeeps DEF Own

LEMMA RollReturnKeeps ==
  ASSUME UpdateInv, NEW p \in Processes, RollReturn(p)
  PROVE  UpdateInv'
<1> DEFINE i == try(p)
           r == proc[p].report
<1>1. Working(p, "RollReturn")
  BY WorkingStarts DEF RollReturn, Steps
<1>2. \/ Renames(failed(i), current) /\ Moved(p, "Idle", "Replaced")
      \/ Nothing /\ Moved(p, "Idle", "Neither")
  BY <1>1, ReportMoves, RenameRenames DEF RollReturn, Steps, Reports
<1>3. Local(p)
  <2>1. OwnFiles(p)
    BY <1>1, <1>2 DEF OwnFiles, UpdateTypes
  <2>2. \E pc \in Steps, report \in Reports : Moved(p, pc, report)
    BY <1>1, <1>2, ReportTyped DEF Steps, Reports
  <2> QED BY <1>1, <2>1, <2>2, OutcomeIsLocal
<1>4. kind = "MoveAside" => (SomeStable => SomeStable')
  BY <1>1, <1>2, <1>3, StableStays DEF Own, FitsKind, Returns
<1>5. Survives'
  <2>1. kind = "AtomicFile" => files'[current] \in Whole
    BY <1>1, <1>2 DEF Own, FitsKind, Prepared, Returns, Survives
  <2>2. ASSUME kind = "MoveAside", ~late
        PROVE  \/ files'[current] \in Whole \/ SomeStable'
               \/ files'[current] # "Torn" /\ \E j \in Tries : files'[backup(j)] \in Whole
    BY <1>1, <1>2, <1>4, <2>2
    DEF Survives, AProgramSurvives, Own, FitsKind, Prepared, Returns, Verified, Contents, UpdateTypes
  <2> QED BY <1>1, <2>1, <2>2, StillSurvives
<1>6. FitsKind(p)' /\ Numbered(p)' /\ Prepared(p)'
  BY <1>1, <1>2 DEF Own, FitsKind, Numbered, Prepared
<1>7. Locked(p)'
  BY <1>1, <1>2 DEF Own, Locked
<1>8. Returns(p)'
  BY <1>1, <1>2, <1>4 DEF Own, FitsKind, Prepared, Returns, Survives, UpdateTypes, Verified, Contents
<1>9. Honest(p)'
  BY <1>1, <1>2 DEF Own, Prepared, Honest, Told
<1> QED BY <1>3, <1>4, <1>5, <1>6, <1>7, <1>8, <1>9, LocalKeeps DEF Own

LEMMA DropFailedKeeps ==
  ASSUME UpdateInv, NEW p \in Processes, DropFailed(p)
  PROVE  UpdateInv'
<1> DEFINE i == try(p)
           r == proc[p].report
<1>1. Working(p, "DropFailed")
  BY WorkingStarts DEF DropFailed, Steps
<1>2. (Nothing \/ Writes(failed(i), "None")) /\ Moved(p, "Idle", r)
  BY <1>1, GotoMoves, RemoveWrites DEF DropFailed, Steps, Reports
<1>3. Local(p)
  <2>1. OwnFiles(p)
    BY <1>1, <1>2 DEF OwnFiles, UpdateTypes
  <2>2. \E pc \in Steps, report \in Reports : Moved(p, pc, report)
    BY <1>1, <1>2, ReportTyped DEF Steps, Reports
  <2> QED BY <1>1, <2>1, <2>2, OutcomeIsLocal
<1>4. kind = "MoveAside" => (SomeStable => SomeStable')
  BY <1>1, <1>2, <1>3, StableStays DEF Own, FitsKind, Returns
<1>5. Survives'
  <2>1. kind = "AtomicFile" => files'[current] \in Whole
    BY <1>1, <1>2 DEF Own, FitsKind, Prepared, Returns, Survives
  <2>2. ASSUME kind = "MoveAside", ~late
        PROVE  \/ files'[current] \in Whole \/ SomeStable'
               \/ files'[current] # "Torn" /\ \E j \in Tries : files'[backup(j)] \in Whole
    BY <1>1, <1>2, <1>4, <2>2
    DEF Survives, AProgramSurvives, Own, FitsKind, Prepared, Returns, Verified, Contents, UpdateTypes
  <2> QED BY <1>1, <2>1, <2>2, StillSurvives
<1>6. FitsKind(p)' /\ Numbered(p)' /\ Prepared(p)'
  BY <1>1, <1>2 DEF Own, FitsKind, Numbered, Prepared
<1>7. Locked(p)'
  BY <1>1, <1>2 DEF Own, Locked
<1>8. Returns(p)'
  BY <1>1, <1>2, <1>4 DEF Own, FitsKind, Prepared, Returns, Survives, UpdateTypes, Verified, Contents
<1>9. Honest(p)'
  BY <1>1, <1>2 DEF Own, Prepared, Honest, Told
<1> QED BY <1>3, <1>4, <1>5, <1>6, <1>7, <1>8, <1>9, LocalKeeps DEF Own

\* Fetching leaves the files alone.
LEMMA FetchKeeps ==
  ASSUME UpdateInv, NEW p \in Processes, Fetch(p)
  PROVE  UpdateInv'
<1> DEFINE r == proc[p].report
<1>1. Working(p, "Fetch")
  BY WorkingStarts DEF Fetch, Steps
<1>2. \/ Nothing /\ Moved(p, "Candidate", r) /\ proc'[p].payload = "New"
      \/ Nothing /\ Moved(p, "Idle", r)
  <2>1. CASE Goto(p, "Idle")
    BY <1>1, <2>1, GotoMoves DEF Steps, Fetch
  <2>2. CASE proc' = [proc EXCEPT ![p].pc = "Candidate", ![p].payload = "New"]
    <3>0. proc[p] \in Process
      BY <1>1 DEF UpdateTypes
    <3>1. [proc[p] EXCEPT !.pc = "Candidate", !.payload = "New"] \in Process
      BY <3>0 DEF Process, Steps
    <3>2. proc' = [proc EXCEPT ![p] = [proc[p] EXCEPT !.pc = "Candidate", !.payload = "New"]]
      BY <1>1, <2>2 DEF UpdateTypes
    <3>3. proc' \in [Processes -> Process] /\ \A q \in Processes \ {p} : proc'[q] = proc[q]
      BY <1>1, <3>1, <3>2 DEF UpdateTypes
    <3>4. proc'[p] = [proc[p] EXCEPT !.pc = "Candidate", !.payload = "New"]
      BY <1>1, <3>2 DEF UpdateTypes
    <3> QED BY <3>0, <3>3, <3>4 DEF Fetch, PC, try, Process
  <2> QED BY <2>1, <2>2 DEF Fetch, MatchesSidecar
<1>3. Local(p)
  <2>1. OwnFiles(p)
    BY <1>1, <1>2 DEF OwnFiles, UpdateTypes
  <2>2. \E pc \in Steps, report \in Reports : Moved(p, pc, report)
    BY <1>1, <1>2, ReportTyped DEF Steps
  <2> QED BY <1>1, <2>1, <2>2, OutcomeIsLocal
<1>4. kind = "MoveAside" => (SomeStable => SomeStable')
  BY <1>1, <1>2, <1>3, StableStays DEF Own, Returns
<1>5. Survives'
  BY <1>1, <1>2, <1>4 DEF Survives, AProgramSurvives
<1>6. Own(p)'
  BY <1>1, <1>2 DEF Own, FitsKind, Numbered, Prepared, Locked, Returns, Honest, Told
<1> QED BY <1>1, <1>2, <1>3, <1>4, <1>5, <1>6, LocalKeeps

-----------------------------------------------------------------------------
(* Starting, waiting and ending.                                           *)

\* Where files stay, processes may start or end: a process that is no more, or is
\* new, holds no copy.
LEMMA QuietKeeps ==
  ASSUME UpdateInv, Nothing, kind' = kind, guarded' = guarded, tries' = tries,
         late' \in BOOLEAN, late => late',
         proc' \in [Processes -> Process],
         \A x \in Processes :
           \/ proc'[x] = proc[x] /\ (guarded /\ lock = {x} => lock' = {x})
           \/ try(x)' \in {0, try(x)} /\ PC(x)' \notin Moving /\ Own(x)'
  PROVE  UpdateInv'
<1>1. UpdateTypes' /\ NumbersApart'
  BY DEF UpdateInv, UpdateTypes, NumbersApart, try
<1>2. SomeStable => SomeStable'
  <2> SUFFICES ASSUME SomeStable PROVE SomeStable'
    OBVIOUS
  <2>1. PICK j \in Tries : Stable(j)
    BY DEF SomeStable
  <2>2. \A x \in Processes : try(x)' = j => PC(x)' \notin Moving
    BY <2>1 DEF Stable, try, PC, Tries
  <2> QED BY <2>1, <2>2 DEF Stable, SomeStable
<1>3. Survives'
  BY <1>2 DEF UpdateInv, Survives, AProgramSurvives
<1>4. ASSUME NEW x \in Processes, proc'[x] = proc[x], guarded /\ lock = {x} => lock' = {x}
      PROVE  Own(x)'
  <2>1. Own(x) /\ PC(x)' = PC(x) /\ try(x)' = try(x)
    BY <1>4 DEF UpdateInv, PC, try
  <2> QED BY <1>2, <1>4, <2>1 DEF Own, FitsKind, Numbered, Prepared, Locked, Returns, Honest, Told
<1> QED BY <1>1, <1>3, <1>4 DEF UpdateInv

LEMMA StoppedTyped == Stopped \in Process
BY UpdateAssumption DEF Stopped, Process, Steps, Contents, Reports

LEMMA StartedTyped ==
  ASSUME NEW program \in Whole, NEW child \in {TRUE, FALSE}
  PROVE  /\ Started(program, child) \in Process
         /\ Started(program, child).pc = "Locking" /\ Started(program, child).try = 0
         /\ Started(program, child).report = "None"
<1>1. [Stopped EXCEPT !.pc = "Locking", !.program = program] \in Process
  BY StoppedTyped DEF Process, Steps
<1>2. CASE child = TRUE
  BY StoppedTyped, <1>1, <1>2 DEF Started, Stopped, Process, Steps
<1>3. CASE child = FALSE
  BY StoppedTyped, <1>1, <1>3 DEF Started, Stopped, Process, Steps
<1> QED BY <1>2, <1>3

\* A process that has ended.
LEMMA StoppedOwn ==
  ASSUME UpdateInv, NEW p \in Processes, tries' = tries, proc'[p] = Stopped
  PROVE  try(p)' = 0 /\ PC(p)' \notin Moving /\ Own(p)'
<1>1. PC(p)' = "Off" /\ try(p)' = 0
  BY DEF Stopped, PC, try
<1>2. tries \in Nat
  BY UpdateAssumption DEF UpdateInv, UpdateTypes
<1> QED BY <1>1, <1>2 DEF Own, FitsKind, Numbered, Prepared, Locked, Returns, Honest

\* A process that starts from a whole program.
LEMMA StartedOwn ==
  ASSUME UpdateInv, NEW p \in Processes, tries' = tries, Nothing,
         files[current] \in Whole, NEW child \in {TRUE, FALSE},
         proc'[p] = Started(files[current], child)
  PROVE  try(p)' = 0 /\ PC(p)' \notin Moving /\ Own(p)'
<1>1. PC(p)' = "Locking" /\ try(p)' = 0 /\ proc'[p].report = "None"
  BY StartedTyped DEF PC, try
<1>2. tries \in Nat
  BY UpdateAssumption DEF UpdateInv, UpdateTypes
<1> QED BY <1>1, <1>2 DEF Own, FitsKind, Numbered, Prepared, Locked, Returns, Honest

LEMMA LaunchKeeps ==
  ASSUME UpdateInv, NEW p \in Processes, Launch(p)
  PROVE  UpdateInv'
<1>1. files[current] \in Whole /\ Nothing
  BY DEF Launch
<1>2. proc' = [proc EXCEPT ![p] = Started(files[current], FALSE)]
  BY DEF Launch
<1>3. proc' \in [Processes -> Process] /\ proc'[p] = Started(files[current], FALSE)
  BY <1>1, <1>2, StartedTyped DEF UpdateInv, UpdateTypes
<1>4. try(p)' = 0 /\ PC(p)' \notin Moving /\ Own(p)'
  BY <1>1, <1>3, StartedOwn DEF Launch
<1> QED BY <1>1, <1>2, <1>3, <1>4, QuietKeeps DEF Launch, UpdateInv, UpdateTypes

\* The end of a process gives its lock back.
LEMMA GoneKeeps ==
  ASSUME UpdateInv, NEW p \in Processes, Gone(p)
  PROVE  UpdateInv'
<1>1. proc' \in [Processes -> Process] /\ proc'[p] = Stopped /\ \A x \in Processes \ {p} : proc'[x] = proc[x]
  BY StoppedTyped DEF Gone, UpdateInv, UpdateTypes
<1>2. try(p)' = 0 /\ PC(p)' \notin Moving /\ Own(p)'
  BY <1>1, StoppedOwn DEF Gone
<1>3. \A x \in Processes \ {p} : lock = {x} => lock' = {x}
  BY DEF Gone
<1> QED BY <1>1, <1>2, <1>3, QuietKeeps DEF Gone, UpdateInv, UpdateTypes

LEMMA TurnedAwayKeeps ==
  ASSUME UpdateInv, NEW p \in Processes, TurnedAway(p)
  PROVE  UpdateInv'
<1>1. proc' \in [Processes -> Process] /\ proc'[p] = Stopped /\ \A x \in Processes \ {p} : proc'[x] = proc[x]
  BY StoppedTyped DEF TurnedAway, UpdateInv, UpdateTypes
<1>2. try(p)' = 0 /\ PC(p)' \notin Moving /\ Own(p)'
  BY <1>1, StoppedOwn DEF TurnedAway
<1> QED BY <1>1, <1>2, QuietKeeps DEF TurnedAway, UpdateInv, UpdateTypes

\* The lock is taken when nobody is behind it.
LEMMA LockKeeps ==
  ASSUME UpdateInv, NEW p \in Processes, Lock(p)
  PROVE  UpdateInv'
<1> DEFINE pc == IF guarded THEN "Cleanup" ELSE "Idle"
<1>1. Moved(p, pc, proc[p].report) /\ PC(p) = "Locking"
  BY GotoMoves DEF Lock, At, PC, Steps, UpdateInv
<1>2. guarded => lock = {} /\ lock' = {p}
  BY DEF Lock
<1>3. Own(p)'
  BY <1>1, <1>2 DEF Lock, UpdateInv, Own, FitsKind, Numbered, Prepared, Locked, Returns, Honest
<1> QED BY <1>1, <1>2, <1>3, QuietKeeps DEF Lock

\* The updated program starts beside the old one.
LEMMA SpawnUpdatedKeeps ==
  ASSUME UpdateInv, NEW p \in Processes, SpawnUpdated(p)
  PROVE  UpdateInv'
<1>1. Own(p) /\ PC(p) = "Spawn" /\ Nothing /\ UpdateTypes /\ Disk(p)
  BY DEF SpawnUpdated, UpdateInv, At, PC
<1>2. CASE Goto(p, "Roll")
  <2>1. Moved(p, "Roll", proc[p].report)
    BY <1>1, <1>2, GotoMoves DEF Steps
  <2>2. Local(p)
    BY <1>1, <2>1, ReportTyped DEF Local, Steps, UpdateTypes
  <2>3. SomeStable => SomeStable'
    BY <1>1, <2>2, StableStays
  <2>4. Survives'
    BY <1>1, <2>3 DEF UpdateInv, Survives, AProgramSurvives
  <2>5. Own(p)'
    <3>1. FitsKind(p)' /\ Numbered(p)' /\ Prepared(p)' /\ Locked(p)'
      BY <1>1, <2>1 DEF Own, FitsKind, Numbered, Prepared, Locked, Steps
    <3>2. Returns(p)'
      BY <1>1, <2>1, <2>3 DEF Own, Returns
    <3>3. Honest(p)'
      BY <1>1, <2>1 DEF Own, Honest, Told, Steps
    <3> QED BY <3>1, <3>2, <3>3 DEF Own
  <2> QED BY <2>2, <2>3, <2>4, <2>5, LocalKeeps
<1>3. ASSUME NEW q \in Processes \ {p}, At(q, "Off"), files[current] \in Whole,
             proc' = [proc EXCEPT ![p].pc = "Restarting", ![q] = Started(files[current], TRUE)]
      PROVE  UpdateInv'
  <2>1. [proc[p] EXCEPT !.pc = "Restarting"] \in Process
    BY <1>1 DEF UpdateTypes, Process, Steps
  <2>2. proc' = [proc EXCEPT ![p] = [proc[p] EXCEPT !.pc = "Restarting"], ![q] = Started(files[current], TRUE)]
    BY <1>1, <1>3 DEF UpdateTypes
  <2>3. /\ proc' \in [Processes -> Process] /\ proc'[q] = Started(files[current], TRUE)
        /\ proc'[p] = [proc[p] EXCEPT !.pc = "Restarting"] /\ \A x \in Processes \ {p, q} : proc'[x] = proc[x]
    BY <1>1, <1>3, <2>1, <2>2, StartedTyped DEF UpdateTypes
  <2>4. try(q)' = 0 /\ PC(q)' \notin Moving /\ Own(q)'
    BY <1>1, <1>3, <2>3, StartedOwn
  <2>5. try(p)' = try(p) /\ PC(p)' = "Restarting" /\ proc'[p].report = proc[p].report
    BY <1>1, <2>3 DEF try, PC, UpdateTypes, Process
  <2>6. Own(p)'
    <3>1. FitsKind(p)' /\ Numbered(p)' /\ Prepared(p)' /\ Locked(p)'
      BY <1>1, <2>5 DEF Own, FitsKind, Numbered, Prepared, Locked, Steps
    <3>2. Returns(p)' /\ Honest(p)'
      BY <1>1, <2>5 DEF Own, Returns, Honest, Steps
    <3> QED BY <3>1, <3>2 DEF Own
  <2> QED BY <1>1, <2>3, <2>4, <2>5, <2>6, QuietKeeps DEF UpdateTypes
<1> QED BY <1>2, <1>3 DEF SpawnUpdated

\* Copies are deleted by the one process behind the lock, beside a whole program
\* unless it came too late.
LEMMA CleanUpKeeps ==
  ASSUME UpdateInv, NEW p \in Processes, CleanUp(p)
  PROVE  UpdateInv'
<1>1. /\ PC(p) = "Cleanup" /\ Own(p) /\ guarded /\ (late \/ files[current] \in Whole) /\ UpdateTypes
      /\ Disk(p) /\ lock = {p}
  BY DEF CleanUp, UpdateInv, At, PC, Own, Locked
<1>2. Moved(p, "Idle", proc[p].report)
  BY <1>1, GotoMoves DEF CleanUp, Steps
<1>3. PICK left \in [Tries -> {"None", "Torn", "Kept"}] :
        files' = [n \in Names |->
                    IF n[1] = "ltbox-old" /\ files[n] # "None" /\ left[n[2]] # "Kept"
                    THEN left[n[2]] ELSE files[n]]
  BY DEF CleanUp
<1>4. files' \in [Names -> Verified]
  <2>1. \A n \in Names : n[1] = "ltbox-old" => n[2] \in Tries
    BY DEF Names, current
  <2> QED BY <1>1, <1>3, <2>1 DEF UpdateTypes, Verified, Contents
<1>5. files'[current] = files[current]
  BY <1>3, CurrentIsAName DEF current
<1>6. \A i \in Tries : files[backup(i)] = "None" => files'[backup(i)] = "None"
  BY <1>3, NamesDiffer
<1>7. UpdateTypes' /\ NumbersApart'
  BY <1>1, <1>2, <1>4, <1>6 DEF UpdateInv, UpdateTypes, NumbersApart, try, Tries
<1>8. Survives'
  BY <1>1, <1>5 DEF UpdateInv, Survives, AProgramSurvives
<1>9. ASSUME NEW q \in Processes \ {p}
      PROVE  Own(q)'
  <2>1. Own(q) /\ PC(q)' = PC(q) /\ try(q)' = try(q) /\ proc'[q].report = proc[q].report
    BY <1>2 DEF UpdateInv, PC, try
  <2>2. PC(q) \in {"Off", "Locking"}
    BY <1>1, <2>1 DEF Own, Locked
  <2> QED BY <1>1, <1>5, <2>1, <2>2 DEF Own, FitsKind, Numbered, Prepared, Locked, Returns, Honest
<1>10. Own(p)'
  BY <1>1, <1>2, <1>5 DEF Own, FitsKind, Numbered, Prepared, Locked, Returns, Honest, Told
<1> QED BY <1>7, <1>8, <1>9, <1>10 DEF UpdateInv

\* An update takes the next number.
LEMMA BeginKeeps ==
  ASSUME UpdateInv, NEW p \in Processes, Begin(p)
  PROVE  UpdateInv'
<1>1. /\ PC(p) = "Idle" /\ Own(p) /\ UpdateTypes /\ Nothing /\ tries' = tries + 1 /\ tries \in Nat
      /\ tries + 1 \in Tries /\ kind' = kind /\ guarded' = guarded /\ lock' = lock /\ late' = late
  BY UpdateAssumption DEF Begin, UpdateInv, UpdateTypes, At, PC, Tries
<1>2. proc' = [proc EXCEPT ![p] = [proc[p] EXCEPT !.pc = "Fetch", !.try = tries + 1,
                                                  !.before = files[current], !.report = "None"]]
  BY <1>1 DEF Begin, UpdateTypes
<1>3. proc[p] \in Process /\ files[current] \in Contents /\ tries + 1 \in 0..MaxTries
  BY <1>1, CurrentIsAName, UpdateAssumption DEF UpdateTypes, Verified, Tries
<1>4. [proc[p] EXCEPT !.pc = "Fetch", !.try = tries + 1, !.before = files[current], !.report = "None"]
        \in Process
  BY <1>3 DEF Process, Steps, Reports
<1>5. proc' \in [Processes -> Process] /\ \A q \in Processes \ {p} : proc'[q] = proc[q]
  BY <1>1, <1>2, <1>4 DEF UpdateTypes
<1>6. /\ PC(p)' = "Fetch" /\ try(p)' = tries + 1
      /\ proc'[p].before = files[current] /\ proc'[p].report = "None"
  BY <1>1, <1>2, <1>3 DEF UpdateTypes, Process, PC, try
<1>7. \A q \in Processes : try(q) <= tries /\ try(q) \in Nat
  BY <1>1, NumbersTyped, UpdateAssumption DEF UpdateInv, Own, Numbered
<1>8. files[backup(tries + 1)] = "None"
  BY <1>1 DEF UpdateInv, NumbersApart
<1>9. UpdateTypes' /\ NumbersApart'
  <2>1. UpdateTypes'
    BY <1>1, <1>3, <1>5 DEF UpdateTypes
  <2>2. \A q \in Processes \ {p} : try(q)' = try(q)
    BY <1>5 DEF try
  <2> QED BY <1>1, <1>6, <1>7, <2>1, <2>2 DEF UpdateInv, NumbersApart, Tries
<1>10. SomeStable => SomeStable'
  <2> SUFFICES ASSUME SomeStable PROVE SomeStable'
    OBVIOUS
  <2>1. PICK j \in Tries : Stable(j)
    BY DEF SomeStable
  <2>2. \A x \in Processes : try(x)' = j => PC(x)' \notin Moving
    BY <1>5, <1>6, <2>1 DEF Stable, try, PC
  <2> QED BY <1>1, <2>1, <2>2 DEF Stable, SomeStable
<1>11. Survives'
  BY <1>1, <1>10 DEF UpdateInv, Survives, AProgramSurvives
<1>12. ASSUME NEW q \in Processes \ {p}
       PROVE  Own(q)'
  <2>1. Own(q) /\ PC(q)' = PC(q) /\ try(q)' = try(q)
    BY <1>5 DEF UpdateInv, PC, try
  <2> QED BY <1>1, <1>5, <1>7, <1>10, <2>1 DEF Own, FitsKind, Numbered, Prepared, Locked, Returns, Honest, Told
<1>13. Own(p)'
  BY <1>1, <1>6, <1>8 DEF Own, FitsKind, Numbered, Prepared, Locked, Returns, Honest, Steps
<1> QED BY <1>9, <1>11, <1>12, <1>13 DEF UpdateInv

-----------------------------------------------------------------------------
LEMMA InitKeeps == UpdateInit => UpdateInv
<1> SUFFICES ASSUME UpdateInit PROVE UpdateInv
  OBVIOUS
<1>1. /\ files \in [Names -> Verified] /\ files[current] = "Old"
      /\ \A i \in Tries : files[backup(i)] = "None"
  BY CurrentIsAName, NamesDiffer DEF UpdateInit, Verified, Contents
<1>2. \A p \in Processes : PC(p) = "Off" /\ try(p) = 0 /\ proc[p] \in Process
  BY StoppedTyped DEF UpdateInit, PC, try, Stopped
<1>3. UpdateTypes
  <2>1. guarded \in BOOLEAN /\ late \in BOOLEAN
    BY DEF UpdateInit
  <2>2. kind \in SwapKinds /\ proc \in [Processes -> Process] /\ tries \in 0..MaxTries
    BY <1>2, UpdateAssumption DEF UpdateInit
  <2> QED BY <1>1, <2>1, <2>2 DEF UpdateTypes
<1>4. Survives /\ NumbersApart
  BY <1>1, <1>2 DEF Survives, AProgramSurvives, NumbersApart
<1>5. \A p \in Processes : Own(p)
  <2>1. tries = 0
    BY DEF UpdateInit
  <2> SUFFICES ASSUME NEW p \in Processes PROVE Own(p)
    OBVIOUS
  <2>2. FitsKind(p) /\ Numbered(p) /\ Prepared(p)
    BY <1>2, <2>1 DEF FitsKind, Numbered, Prepared
  <2>3. Locked(p) /\ Returns(p) /\ Honest(p)
    BY <1>2 DEF Locked, Returns, Honest
  <2> QED BY <2>2, <2>3 DEF Own
<1> QED BY <1>3, <1>4, <1>5 DEF UpdateInv

LEMMA NextKeeps ==
  ASSUME UpdateInv, [UpdateNext]_updateVars
  PROVE  UpdateInv'
<1>1. CASE UNCHANGED updateVars
  <2>1. Nothing /\ kind' = kind /\ guarded' = guarded /\ tries' = tries /\ late' = late /\ lock' = lock /\ proc' = proc
    BY <1>1 DEF updateVars
  <2> QED BY <2>1, QuietKeeps DEF UpdateInv, UpdateTypes
<1>2. ASSUME NEW p \in Processes, Work(p)
      PROVE  UpdateInv'
  BY <1>2, LockKeeps, TurnedAwayKeeps, CleanUpKeeps, FetchKeeps, PrepareCandidateKeeps, PrepareBackupKeeps,
     SwapKeeps, PlaceKeeps, RestoreKeeps, CopyBackKeeps, RetainKeeps, DropBackupKeeps, DropKeeps,
     SpawnUpdatedKeeps, RollKeeps, RollRestoreKeeps, RollCopyKeeps, RollReturnKeeps, DropFailedKeeps,
     GoneKeeps
  DEF Work, LeaveAfterUpdate
<1>3. ASSUME NEW p \in Processes, Launch(p) \/ Begin(p) \/ Close(p) \/ Killed(p)
      PROVE  UpdateInv'
  BY <1>3, LaunchKeeps, BeginKeeps, GoneKeeps DEF Close, Killed
<1> QED BY <1>1, <1>2, <1>3 DEF UpdateNext

\* SelfUpdate, in every instance: the invariant, and with it that attempts never
\* share a file, that one process works behind the lock, and that nothing
\* unverified is ever put beside or in the place of the program.
THEOREM UpdateInvariance == UpdateSpec => []UpdateInv
<1>1. UpdateInv /\ [UpdateNext]_updateVars => UpdateInv'
  BY NextKeeps
<1> QED BY InitKeeps, <1>1, PTL DEF UpdateSpec

\* swap_with_ops, rollback_with_ops and cleanup_stale_update_backups: after any
\* failures, with any processes killed anywhere, the program or a copy of it is
\* whole, as long as nobody has taken the lock while no program was installed.
THEOREM ProgramSurvives == UpdateSpec => []AProgramSurvives
<1>1. UpdateInv => AProgramSurvives
  BY KindsTyped DEF UpdateInv, Survives, AProgramSurvives
<1> QED BY UpdateInvariance, <1>1, PTL

\* Where the lock works, what an update that did not restart reports is true for
\* as long as the instance runs, launches that come too late or not.
THEOREM ReportsAreTrue == UpdateSpec => []ReportIsTrue
<1>1. UpdateInv => ReportIsTrue
  BY DEF UpdateInv, Own, Honest, Told, ReportIsTrue, At, PC
<1> QED BY UpdateInvariance, <1>1, PTL
=============================================================================
