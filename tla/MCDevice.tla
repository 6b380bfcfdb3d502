------------------------------ MODULE MCDevice ------------------------------
(***************************************************************************)
(* One run over a device on the cable: a worker takes it into EDL and      *)
(* opens it, or devices come and go while lookups for them are under way,  *)
(* or the flow of the GPU view works on one, where an edited pair is known *)
(* by the number of its flash.  A worker keeps the poll away               *)
(* (DispatchGate), so these do not overlap.                                *)
(***************************************************************************)
EXTENDS EdlEntry, DeviceSession, KonaBess

VARIABLE activity \* "Entry", "Session" or "Flow"

mcVars == <<activity, entryVars, sessionVars, vars>>

InEntry(A)   == activity = "Entry" /\ A /\ UNCHANGED <<activity, sessionVars, vars>>
InSession(A) == activity = "Session" /\ A /\ UNCHANGED <<activity, entryVars, vars>>
InFlow(A)    == activity = "Flow" /\ A /\ UNCHANGED <<activity, entryVars, sessionVars>>

\* An activity at rest has one state.
EntryRests ==
  LET first == CHOOSE p \in Ports : TRUE IN
  driver = "Kernel" /\ phone.at = "Dark" /\ phone.port = first /\ ghost.port = first
FlowRests == route = "Avb" /\ mode = "Android" /\ abl_ok

DeviceInit ==
  /\ activity \in {"Entry", "Session", "Flow"}
  /\ EntryInit /\ SessionInit /\ Init
  /\ activity # "Entry" => EntryRests
  /\ activity # "Flow" => FlowRests

DeviceNext == InEntry(EntryNext) \/ InSession(SessionNext) \/ InFlow(Next)

\* EntryFairness and the fairness of SessionSpec, each in its activity.
DeviceSpec ==
  /\ DeviceInit /\ [][DeviceNext]_mcVars
  /\ WF_mcVars(InEntry(Opening \/ Close \/ ReportEntry)) /\ WF_mcVars(InEntry(GhostGone))
  /\ \A k \in Kinds \cup {"Region"}, i \in 1..MaxQueries : WF_mcVars(InSession(ReplyTo(k, i)))
=============================================================================
