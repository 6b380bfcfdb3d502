------------------------------ MODULE MCProgram ------------------------------
(***************************************************************************)
(* One run over the program's own processes: either one instance and its   *)
(* input gate, or several instances that replace the program on disk.  The *)
(* gate has the self-update as one of its operations; what that does to    *)
(* the files is the other side.                                            *)
(***************************************************************************)
EXTENDS DispatchGate, SelfUpdate

VARIABLE level \* "Gate" or "Disk"

programVars == <<level, vars, updateVars>>

InGate(A)   == level = "Gate" /\ A /\ UNCHANGED <<level, updateVars>>
OnDisk(A)   == level = "Disk" /\ A /\ UNCHANGED <<level, vars>>

\* The side at rest has one state.
ProgramInit ==
  /\ level \in {"Gate", "Disk"} /\ Init /\ UpdateInit
  /\ level = "Gate" => guarded /\ kind = CHOOSE k \in SwapKinds : TRUE

ProgramNext == InGate(Next) \/ OnDisk(UpdateNext)

\* The fairness of FairSpec and of UpdateSpec, each on its side.
ProgramSpec ==
  /\ ProgramInit /\ [][ProgramNext]_programVars
  /\ WF_programVars(InGate(Drain)) /\ WF_programVars(InGate(GateCompletion))
  /\ WF_programVars(InGate(\E w \in workers : OperationEvent(w.id)))
  /\ WF_programVars(InGate(\E w \in workers : ExitAfterUpdate(w.id)))
  /\ \A p \in Processes : WF_programVars(OnDisk(Work(p)))
=============================================================================
