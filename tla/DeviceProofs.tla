----------------------------- MODULE DeviceProofs -----------------------------
(***************************************************************************)
(* Proofs about the ways LTBox meets its device: no transport is set up on *)
(* a dead handle, what the dashboard shows is about the device it names,   *)
(* no write reaches a device before it is announced, and a transfer that   *)
(* reports success did what its rows asked for.                            *)
(***************************************************************************)
EXTENDS Transfers, DeviceSession, SequenceTheorems, FiniteSetTheorems, TLAPS

-----------------------------------------------------------------------------
(* Entering EDL, for every set of port names, every observation window and *)
(* deadline.  What is needed of the operating system is EntryAssumption: a *)
(* handle is not listed for longer than the window in which a port is      *)
(* watched.                                                                *)

\* While a port is watched, a dead handle that is still listed is the port seen
\* first and has been listed for as long as it was watched; past that it is gone.
WatchInv ==
  /\ On("Find") => entry.observed = 0 /\ entry.waited = 0
  /\ On("Watch") => /\ entry.waited = entry.observed
                    /\ ghost.listed => /\ entry.first = Named(ghost.port)
                                       /\ entry.observed <= ghost.lag
  /\ entry.pc \in {"Settle", "Setup"} => ~ghost.listed

EntryInv == EntryTypeOK /\ WatchInv /\ NeverOpensAGhost

-----------------------------------------------------------------------------
LEMMA AtRestTyped == AtRest \in Entry
BY EntryAssumption DEF AtRest, Entry, Steps, Nothing

LEMMA WaitingTyped == \A next \in {"Pause", "Setup"} : Waiting(next) \in Entry
BY AtRestTyped, EntryAssumption DEF Waiting, AtRest, Entry, Steps, Nothing

\* A wait that is not over may go on for a tick.
LEMMA TicksTyped ==
  ASSUME entry \in Entry
  PROVE  /\ entry.waited < Deadline + Patience => entry.waited + 1 \in 0..(Deadline + Patience)
         /\ ~TimedOut => entry.waited + 1 \in 0..(Deadline + Patience)
         /\ entry.observed < Observe => entry.observed + 1 \in 0..Observe
<1>1. entry.waited \in 0..(Deadline + Patience) /\ entry.observed \in 0..Observe
  BY DEF Entry
<1> QED BY <1>1, EntryAssumption DEF TimedOut

LEMMA FailedTyped == Failed \in Entry
BY AtRestTyped DEF Failed, AtRest, Entry, Steps, Nothing

\* Asleep, a dead handle grows older by a tick.
LEMMA SleepAges ==
  ASSUME ghost \in Ghost, Sleep
  PROVE  /\ ghost' \in Ghost /\ ghost'.listed = ghost.listed /\ ghost'.port = ghost.port
         /\ ghost.listed => ghost'.lag = ghost.lag + 1
BY EntryAssumption DEF Sleep, Ghost

\* A dead handle that is listed is what the host sees, if it sees one name.
LEMMA GhostIsSeen ==
  ASSUME NEW name, ghost.listed, Sees(name)
  PROVE  name = Named(ghost.port)
<1>1. <<"ghost", Named(ghost.port)>> \in Listed
  BY DEF Listed
<1>2. PICK c \in Candidates : c[2] = name
  BY DEF Sees
<1>3. PICK d \in Candidates : d[2] = Named(ghost.port)
  <2>1. CASE driver = "Kernel"
    <3>1. <<"ghost", Named(ghost.port)>>[1] = "ghost" /\ <<"ghost", Named(ghost.port)>>[2] = Named(ghost.port)
      OBVIOUS
    <3>2. <<FALSE, Named(ghost.port)>> \in Candidates
      BY <1>1, <2>1, <3>1 DEF Candidates
    <3> QED BY <3>2
  <2>2. CASE driver # "Kernel"
    BY <1>1, <2>2 DEF Candidates
  <2> QED BY <2>1, <2>2
<1>4. c = d
  BY DEF Sees, Ambiguous
<1> QED BY <1>2, <1>3, <1>4

-----------------------------------------------------------------------------
LEMMA InitEntry == EntryInit => EntryInv
<1> SUFFICES ASSUME EntryInit PROVE EntryInv
  OBVIOUS
<1>1. EntryTypeOK
  <2>1. phone \in Phone
    BY DEF EntryInit
  <2>2. ghost \in Ghost
    BY DEF EntryInit
  <2>3. entry \in Entry
    BY AtRestTyped DEF EntryInit
  <2> QED BY <2>1, <2>2, <2>3, EntryAssumption DEF EntryInit, EntryTypeOK
<1>2. entry.pc = "Idle" /\ entry.handle = "None"
  BY DEF EntryInit, AtRest
<1> QED BY <1>1, <1>2 DEF EntryInv, WatchInv, NeverOpensAGhost, On

\* Steps of the surroundings leave the worker alone; they add no dead handle.
LEMMA SurroundingsKeep == EntryInv /\ Surroundings => EntryInv'
<1> SUFFICES ASSUME EntryInv, Surroundings PROVE EntryInv'
  OBVIOUS
<1> USE DEF EntryInv
<1>1. driver' = driver /\ entry' = entry
  BY DEF Surroundings, Boots, Unplugged, GhostGone, SpareMoves
<1>2. \/ ghost' = ghost
      \/ ghost' = [ghost EXCEPT !.listed = FALSE]
  BY DEF Surroundings, Boots, Unplugged, GhostGone, SpareMoves
<1>3. ghost' \in Ghost /\ (ghost'.listed => ghost' = ghost)
  BY <1>2 DEF EntryTypeOK, Ghost
<1>4. phone' \in Phone
  <2>1. CASE Boots
    BY <2>1 DEF Boots, Phone, PhoneModes
  <2>2. CASE Unplugged
    BY <2>2 DEF Unplugged, EntryTypeOK, Phone, PhoneModes
  <2>3. CASE GhostGone \/ SpareMoves
    BY <2>3 DEF GhostGone, SpareMoves, EntryTypeOK
  <2> QED BY <2>1, <2>2, <2>3 DEF Surroundings
<1>5. spare' \in {"None"} \cup SpareModes /\ events' \in 0..MaxEvents
  BY EntryAssumption DEF EntryTypeOK, Surroundings, Boots, Unplugged, GhostGone, SpareMoves, Happens
<1>6. EntryTypeOK'
  BY <1>1, <1>3, <1>4, <1>5 DEF EntryTypeOK
<1>7. WatchInv'
  BY <1>1, <1>3 DEF WatchInv, On, Named, Marker
<1>8. NeverOpensAGhost'
  BY <1>1 DEF NeverOpensAGhost
<1> QED BY <1>6, <1>7, <1>8

\* Every place a step of the worker sends it to that keeps no watch.
LEMMA PlacesKeep ==
  ASSUME EntryTypeOK,
         \/ entry' = Failed \/ entry' = AtRest
         \/ \E next \in {"Pause", "Setup"} : entry' = Waiting(next)
         \/ \E pc \in Steps \ {"Find", "Watch", "Settle", "Setup"} :
              entry' = [entry EXCEPT !.pc = pc] \/ entry' = [AtRest EXCEPT !.pc = pc],
         NeverOpensAGhost
  PROVE  entry' \in Entry /\ WatchInv' /\ NeverOpensAGhost'
<1>1. CASE entry' = Failed
  BY <1>1, FailedTyped DEF Failed, AtRest, WatchInv, NeverOpensAGhost, On
<1>2. CASE entry' = AtRest
  BY <1>2, AtRestTyped DEF AtRest, WatchInv, NeverOpensAGhost, On
<1>3. ASSUME NEW next \in {"Pause", "Setup"}, entry' = Waiting(next)
      PROVE  entry' \in Entry /\ WatchInv' /\ NeverOpensAGhost'
  BY <1>3, WaitingTyped DEF Waiting, AtRest, WatchInv, NeverOpensAGhost, On
<1>4. ASSUME NEW pc \in Steps \ {"Find", "Watch", "Settle", "Setup"},
             entry' = [entry EXCEPT !.pc = pc]
      PROVE  entry' \in Entry /\ WatchInv' /\ NeverOpensAGhost'
  BY <1>4 DEF EntryTypeOK, Entry, Steps, WatchInv, NeverOpensAGhost, On
<1>5. ASSUME NEW pc \in Steps \ {"Find", "Watch", "Settle", "Setup"},
             entry' = [AtRest EXCEPT !.pc = pc]
      PROVE  entry' \in Entry /\ WatchInv' /\ NeverOpensAGhost'
  BY <1>5, AtRestTyped DEF AtRest, Entry, Steps, WatchInv, NeverOpensAGhost, On
<1> QED BY <1>1, <1>2, <1>3, <1>4, <1>5

\* A step that moves nothing but the worker, or lets it sleep.
LEMMA BusTyped ==
  ASSUME EntryTypeOK, UNCHANGED <<driver, spare, events>>,
         ghost' \in Ghost, phone' \in Phone, entry' \in Entry
  PROVE  EntryTypeOK'
BY DEF EntryTypeOK

\* A device that is reset by the host is dark.
LEMMA DarkTyped ==
  ASSUME phone \in Phone
  PROVE  [phone EXCEPT !.at = "Dark", !.hello = FALSE] \in Phone
BY DEF Phone, PhoneModes

\* A port is trusted when no dead handle is listed.
LEMMA TrustKeeps ==
  ASSUME EntryTypeOK, NEW name \in Names \cup {Nothing}, Trust(name), ~ghost'.listed,
         NeverOpensAGhost
  PROVE  entry' \in Entry /\ WatchInv' /\ NeverOpensAGhost'
<1>1. entry.next \in {"Pause", "Setup"}
  BY DEF EntryTypeOK, Entry
<1>2. entry' = [AtRest EXCEPT !.pc = entry.next, !.first = name]
  BY DEF Trust
<1>3. entry' \in Entry
  BY <1>1, <1>2, AtRestTyped DEF AtRest, Entry, Steps
<1>4. entry'.pc \in {"Pause", "Setup"} /\ entry'.handle = "None"
  BY <1>1, <1>2 DEF AtRest
<1> QED BY <1>3, <1>4 DEF On, WatchInv, NeverOpensAGhost

-----------------------------------------------------------------------------
LEMMA OpeningKeeps == EntryInv /\ Opening => EntryInv'
<1> SUFFICES ASSUME EntryInv, Opening PROVE EntryInv'
  OBVIOUS
<1> USE DEF EntryInv
<1>0. phone \in Phone /\ ghost \in Ghost /\ entry \in Entry
  BY DEF EntryTypeOK
<1>1. CASE AdbReboot
  <2>1. entry' \in Entry /\ WatchInv' /\ NeverOpensAGhost'
    BY <1>1, PlacesKeep DEF AdbReboot
  <2>2. phone' \in Phone /\ ghost' \in Ghost
    BY <1>0, <1>1, DarkTyped DEF AdbReboot
  <2> QED BY <1>1, <2>1, <2>2, BusTyped DEF AdbReboot
<1>2. CASE FastbootReboot
  <2>1. entry' \in Entry /\ WatchInv' /\ NeverOpensAGhost'
    BY <1>2, PlacesKeep DEF FastbootReboot, Go, Steps
  <2>2. phone' \in Phone /\ ghost' \in Ghost
    BY <1>0, <1>2, DarkTyped DEF FastbootReboot
  <2> QED BY <1>2, <2>1, <2>2, BusTyped DEF FastbootReboot
<1>3. CASE AdbWait
  <2>1. entry' \in Entry /\ WatchInv' /\ NeverOpensAGhost'
    <3>1. CASE entry' = Waiting("Pause") \/ Go("AdbState")
      BY <1>3, <3>1, PlacesKeep DEF AdbWait, Go, Steps
    <3>2. CASE entry.waited < Patience /\ entry' = [entry EXCEPT !.waited = @ + 1]
      BY <1>0, <1>3, <3>2, EntryAssumption
      DEF AdbWait, On, Entry, WatchInv, NeverOpensAGhost
    <3> QED BY <1>3, <3>1, <3>2 DEF AdbWait
  <2>2. phone' \in Phone /\ ghost' \in Ghost
    BY <1>0, <1>3, SleepAges DEF AdbWait
  <2> QED BY <1>3, <2>1, <2>2, BusTyped DEF AdbWait
<1>4. CASE Find
  <2>1. entry' \in Entry /\ WatchInv' /\ NeverOpensAGhost'
    <3>1. CASE Absent /\ Go("Settle")
      <4>1. ~ghost.listed
        BY <3>1 DEF Absent, Candidates, Listed
      <4> QED BY <1>0, <1>4, <3>1, <4>1
          DEF Find, busVars, On, Go, Entry, Steps, WatchInv, NeverOpensAGhost
    <3>2. CASE entry' = Failed
      BY <3>2, PlacesKeep
    <3>3. ASSUME NEW name \in Names, Sees(name),
                 entry' = [entry EXCEPT !.pc = "Watch", !.first = name]
          PROVE  entry' \in Entry /\ WatchInv' /\ NeverOpensAGhost'
      <4>1. ghost.listed => name = Named(ghost.port)
        BY <3>3, GhostIsSeen
      <4>2. UNCHANGED <<driver, ghost>> /\ entry.observed = 0 /\ entry.waited = 0
        BY <1>4 DEF Find, busVars, WatchInv
      <4>3. ghost.lag >= 0
        BY <1>0, EntryAssumption DEF Ghost
      <4>4. entry' \in Entry
        BY <1>0, <3>3 DEF Entry, Steps
      <4>5. entry'.pc = "Watch" /\ entry'.first = name /\ entry'.observed = 0 /\ entry'.waited = 0
            /\ entry'.handle = entry.handle
        BY <1>0, <3>3, <4>2 DEF Entry
      <4>6. Named(ghost.port)' = Named(ghost.port)
        BY <4>2 DEF Named
      <4> QED BY <4>1, <4>2, <4>3, <4>4, <4>5, <4>6 DEF On, WatchInv, NeverOpensAGhost
    <3> QED BY <1>4, <3>1, <3>2, <3>3 DEF Find
  <2>2. phone' \in Phone /\ ghost' \in Ghost
    BY <1>0, <1>4 DEF Find, busVars
  <2> QED BY <1>4, <2>1, <2>2, BusTyped DEF Find, busVars
<1>5. CASE Watch
  <2>0. On("Watch") /\ entry.waited = entry.observed /\ UNCHANGED driver /\ ghost' \in Ghost
        /\ ghost'.listed = ghost.listed /\ ghost'.port = ghost.port
        /\ (ghost.listed => ghost'.lag = ghost.lag + 1)
    BY <1>0, <1>5, SleepAges DEF Watch, WatchInv
  <2>1. entry' \in Entry /\ WatchInv' /\ NeverOpensAGhost'
    <3>1. CASE Ambiguous
      BY <1>5, <3>1, PlacesKeep DEF Watch
    <3>2. CASE ~Ambiguous /\ Sees(entry.first)
      <4>1. entry' = [entry EXCEPT !.observed = @ + 1, !.waited = @ + 1]
            /\ entry.observed < Observe /\ ~TimedOut
        BY <1>5, <3>2 DEF Watch
      <4>2. entry' \in Entry /\ entry'.pc = "Watch" /\ entry'.first = entry.first
            /\ entry'.observed = entry.observed + 1 /\ entry'.waited = entry.waited + 1
            /\ entry'.handle = entry.handle
        BY <1>0, <2>0, <4>1, TicksTyped DEF Entry, On
      <4>3. ghost.listed => /\ entry.first = Named(ghost.port)' /\ entry.observed <= ghost.lag
        BY <2>0 DEF WatchInv, Named
      <4>4. entry.observed \in Nat /\ ghost.lag \in Nat
        BY <1>0, EntryAssumption DEF Entry, Ghost
      <4> QED BY <2>0, <4>2, <4>3, <4>4 DEF On, WatchInv, NeverOpensAGhost
    <3>3. CASE ~Ambiguous /\ ~Sees(entry.first)
      <4>1. entry' = [entry EXCEPT !.pc = "Settle", !.waited = @ + 1] /\ ~TimedOut
        BY <1>5, <3>3 DEF Watch
      <4>2. entry' \in Entry /\ entry'.pc = "Settle" /\ entry'.handle = entry.handle
        BY <1>0, <4>1, TicksTyped DEF Entry, Steps
      <4>3. ~ghost.listed
        <5>1. SUFFICES ASSUME ghost.listed PROVE FALSE
          OBVIOUS
        <5>2. Candidates # {}
          BY <5>1 DEF Candidates, Listed
        <5>3. PICK c \in Candidates : TRUE
          BY <5>2
        <5>4. Sees(c[2])
          BY <3>3, <5>3 DEF Sees
        <5>5. c[2] = entry.first
          BY <2>0, <5>1, <5>4, GhostIsSeen DEF WatchInv
        <5> QED BY <3>3, <5>4, <5>5
      <4> QED BY <2>0, <4>2, <4>3 DEF On, WatchInv, NeverOpensAGhost
    <3> QED BY <3>1, <3>2, <3>3
  <2>2. phone' \in Phone
    BY <1>0, <1>5 DEF Watch
  <2> QED BY <1>5, <2>0, <2>1, <2>2, BusTyped DEF Watch
<1>6. CASE Watched
  <2>0. On("Watch") /\ ~ghost.listed /\ UNCHANGED <<driver, ghost>>
    <3>1. entry.waited = entry.observed /\ (ghost.listed => entry.observed <= ghost.lag)
          /\ (entry.observed >= Observe \/ entry.waited >= Deadline) /\ On("Watch")
      BY <1>6 DEF Watched, WatchInv, TimedOut
    <3>2. entry.observed \in Nat /\ ghost.lag \in 0..MaxLag
      BY <1>0, EntryAssumption DEF Entry, Ghost
    <3>3. ~ghost.listed
      BY <3>1, <3>2, EntryAssumption
    <3> QED BY <1>6, <3>1, <3>3 DEF Watched, busVars
  <2>1. entry' \in Entry /\ WatchInv' /\ NeverOpensAGhost'
    BY <1>0, <1>6, <2>0, TrustKeeps DEF Watched, Entry
  <2> QED BY <1>0, <1>6, <2>1, BusTyped DEF Watched, busVars
<1>7. CASE Settle
  <2>0. ~ghost.listed /\ On("Settle")
    BY <1>7 DEF Settle, WatchInv, On
  <2>1. ghost' \in Ghost /\ ~ghost'.listed
    BY <1>0, <1>7, <2>0, SleepAges DEF Settle
  <2>2. entry' \in Entry /\ WatchInv' /\ NeverOpensAGhost'
    <3>1. CASE entry' = Failed
      BY <3>1, PlacesKeep
    <3>2. ASSUME NEW name \in Names, Trust(name)
          PROVE  entry' \in Entry /\ WatchInv' /\ NeverOpensAGhost'
      BY <1>0, <2>1, <3>2, TrustKeeps DEF Entry
    <3>3. ASSUME NEW last \in Names \cup {Nothing}, ~TimedOut,
                 entry' = [entry EXCEPT !.last = last, !.waited = @ + 1]
          PROVE  entry' \in Entry /\ WatchInv' /\ NeverOpensAGhost'
      <4>1. entry' \in Entry
        BY <1>0, <3>3, TicksTyped DEF Entry
      <4>2. entry'.pc = "Settle" /\ entry'.handle = entry.handle
        BY <1>0, <2>0, <3>3 DEF Entry, On
      <4> QED BY <2>1, <4>1, <4>2 DEF On, WatchInv, NeverOpensAGhost
    <3> QED BY <1>7, <3>1, <3>2, <3>3 DEF Settle
  <2>3. phone' \in Phone
    BY <1>0, <1>7 DEF Settle
  <2> QED BY <1>7, <2>1, <2>2, <2>3, BusTyped DEF Settle
<1>8. CASE Pause
  <2>1. entry' \in Entry /\ WatchInv' /\ NeverOpensAGhost'
    <3>1. CASE entry.waited = 0 /\ entry' = [entry EXCEPT !.waited = 1]
      <4>1. 1 \in 0..(Deadline + Patience)
        BY EntryAssumption
      <4> QED BY <1>0, <1>8, <3>1, <4>1 DEF Pause, On, Entry, WatchInv, NeverOpensAGhost
    <3>2. CASE entry' = [AtRest EXCEPT !.pc = "Open"]
      BY <3>2, PlacesKeep DEF Steps
    <3> QED BY <1>8, <3>1, <3>2 DEF Pause
  <2>2. phone' \in Phone /\ ghost' \in Ghost
    BY <1>0, <1>8, SleepAges DEF Pause
  <2> QED BY <1>8, <2>1, <2>2, BusTyped DEF Pause
<1>9. CASE Open
  <2>1. entry' \in Entry /\ WatchInv' /\ NeverOpensAGhost'
    BY <1>9, PlacesKeep DEF Open
  <2> QED BY <1>0, <1>9, <2>1, BusTyped DEF Open, busVars
<1>10. CASE Setup
  <2>1. entry' \in Entry /\ WatchInv' /\ NeverOpensAGhost'
    <3>1. CASE entry' = Failed
      BY <3>1, PlacesKeep
    <3>2. CASE entry' = [AtRest EXCEPT !.pc = "Hello", !.handle = Handle]
      <4>1. Handle \in {"Live", "Spare"}
        BY <1>10 DEF Setup, Handle, WatchInv, On
      <4> QED BY <3>2, <4>1, AtRestTyped DEF AtRest, Entry, Steps, On, WatchInv, NeverOpensAGhost
    <3> QED BY <1>10, <3>1, <3>2 DEF Setup
  <2> QED BY <1>0, <1>10, <2>1, BusTyped DEF Setup, busVars
<1>11. CASE GivesUp
  <2>1. entry' \in Entry /\ WatchInv' /\ NeverOpensAGhost'
    BY <1>11, PlacesKeep DEF GivesUp
  <2>2. phone' \in Phone /\ ghost' \in Ghost
    BY <1>0, <1>11 DEF GivesUp, Phone
  <2> QED BY <1>11, <2>1, <2>2, BusTyped DEF GivesUp
<1>12. CASE Hello \/ Nudge
  <2>1. entry' = Failed \/ (\E pc \in {"Configure", "Nudge"} : entry' = [entry EXCEPT !.pc = pc])
    BY <1>12 DEF Hello, Nudge, Uploaded, Go
  <2>2. entry' \in Entry /\ WatchInv' /\ NeverOpensAGhost'
    BY <2>1, PlacesKeep DEF Steps
  <2>3. phone' \in Phone /\ ghost' \in Ghost
    BY <1>0, <1>12 DEF Hello, Nudge, Uploaded, SpareAnswers, Phone, PhoneModes
  <2> QED BY <1>12, <2>2, <2>3, BusTyped DEF Hello, Nudge
<1>13. CASE Configure
  <2>1. entry' \in Entry /\ WatchInv' /\ NeverOpensAGhost'
    BY <1>13, PlacesKeep DEF Configure, Go, Steps
  <2> QED BY <1>0, <1>13, <2>1, BusTyped DEF Configure, busVars
<1> QED
  BY <1>1, <1>2, <1>3, <1>4, <1>5, <1>6, <1>7, <1>8, <1>9, <1>10, <1>11, <1>12, <1>13 DEF Opening

-----------------------------------------------------------------------------
LEMMA EntryStep == EntryInv /\ [EntryNext]_entryVars => EntryInv'
<1> SUFFICES ASSUME EntryInv, [EntryNext]_entryVars PROVE EntryInv'
  OBVIOUS
<1> USE DEF EntryInv
<1>0. phone \in Phone /\ ghost \in Ghost /\ entry \in Entry
  BY DEF EntryTypeOK
<1>1. CASE Surroundings
  BY <1>1, SurroundingsKeep
<1>2. ASSUME NEW conn \in Connections, EnsureEdl(conn) PROVE EntryInv'
  <2>1. entry' \in Entry /\ WatchInv' /\ NeverOpensAGhost'
    BY <1>2, PlacesKeep DEF EnsureEdl, Steps
  <2> QED BY <1>0, <1>2, <2>1, BusTyped DEF EnsureEdl, busVars
<1>3. CASE Opening
  BY <1>3, OpeningKeeps
<1>4. CASE Close
  <2>1. entry' \in Entry /\ WatchInv' /\ NeverOpensAGhost'
    BY <1>4, PlacesKeep DEF Close, Finish
  <2>2. phone' \in Phone /\ ghost' \in Ghost
    <3>1. phone' \in Phone
      BY <1>0, <1>4, DarkTyped DEF Close, ResetDevice
    <3>2. CASE ResetDevice
      <4>1. phone.port \in Ports /\ 0 \in 0..MaxLag
        BY <1>0, EntryAssumption DEF Phone
      <4> QED BY <3>1, <3>2, <4>1 DEF ResetDevice, Ghost
    <3> QED BY <1>0, <1>4, <3>1, <3>2 DEF Close
  <2> QED BY <1>4, <2>1, <2>2, BusTyped DEF Close
<1>5. CASE ReportEntry
  <2>1. entry' \in Entry /\ WatchInv' /\ NeverOpensAGhost'
    BY <1>5, PlacesKeep DEF ReportEntry, Finish
  <2> QED BY <1>0, <1>5, <2>1, BusTyped DEF ReportEntry, busVars
<1>6. CASE UNCHANGED entryVars
  BY <1>6 DEF entryVars, EntryTypeOK, WatchInv, NeverOpensAGhost, On, Named
<1> QED BY <1>1, <1>2, <1>3, <1>4, <1>5, <1>6 DEF EntryNext

LEMMA EntryInvariance == EntrySpec => []EntryInv
BY InitEntry, EntryStep, PTL DEF EntrySpec

\* The bus, the ghost and the worker that enters EDL keep their types.
THEOREM EntryKeepsItsTypes == EntrySpec => []EntryTypeOK
<1>1. EntryInv => EntryTypeOK
  BY DEF EntryInv
<1> QED BY <1>1, EntryInvariance, PTL

\* No transport is ever set up on the handle of a port that is gone, as long as a
\* dead handle is listed for less than the time the port is watched.
THEOREM NoGhostIsOpened == EntrySpec => []NeverOpensAGhost
<1>1. EntryInv => NeverOpensAGhost
  BY DEF EntryInv
<1> QED BY <1>1, EntryInvariance, PTL

-----------------------------------------------------------------------------
(* The dashboard, for every set of serials, kinds and bounds.  A token     *)
(* names one worker: that is what lets a late reply be told from the one   *)
(* that is awaited.                                                        *)

\* A token was given to one worker, and none is ahead of the sequence.
TokensAreUnique ==
  /\ \A w \in workers : w.id <= sequence
  /\ \A v, w \in workers : v.id = w.id => v = w

SessionInv == SessionTypeOK /\ ViewsAreOfTheDevice /\ WaitsHaveAWorker /\ TokensAreUnique

-----------------------------------------------------------------------------
LEMMA InitSession == SessionInit => SessionInv
<1> SUFFICES ASSUME SessionInit PROVE SessionInv
  OBVIOUS
<1>1. SessionTypeOK
  <2>1. NoDevice \in Snapshots
    BY DEF NoDevice, Snapshots
  <2>2. popup \in [Kinds -> Popups]
    BY DEF SessionInit, Popups
  <2>3. plugged \in {EmptyCable} /\ cable_moves \in 0..MaxCableMoves /\ sequence \in 0..MaxQueries
        /\ region_pending \in 0..MaxQueries /\ pending \in [Kinds -> 0..MaxQueries]
    BY SessionAssumption DEF SessionInit
  <2> QED BY <2>1, <2>2, <2>3 DEF SessionInit, SessionTypeOK
<1>2. ViewsAreOfTheDevice /\ WaitsHaveAWorker /\ TokensAreUnique
  BY DEF SessionInit, ViewsAreOfTheDevice, WaitsHaveAWorker, TokensAreUnique, Closed
<1> QED BY <1>1, <1>2 DEF SessionInv

\* What a poll may read is a snapshot; one without a device names none.
LEMMA ReadingsTyped ==
  ASSUME SessionTypeOK, NEW r \in Readings
  PROVE  r \in Snapshots
<1>1. plugged.mode # "None" => plugged.serial \in Serials /\ plugged.mode \in DeviceModes
  BY DEF SessionTypeOK, EmptyCable
<1>2. NoDevice \in Snapshots
  BY DEF NoDevice, Snapshots
<1>3. \A c \in DeviceModes \cup {"None", "AdbUnauthorized"}, s \in Serials \cup {NoSerial}, f \in BOOLEAN :
        Read(c, s, f) \in Snapshots
  BY DEF Read, Snapshots
<1>4. plugged.mode \in DeviceModes \cup {"None"}
  BY <1>1
<1>5. plugged.mode \notin {"None", "Adb", "AdbUnauthorized", "Fastboot"} => plugged.mode = "Edl"
  BY <1>4, SessionAssumption
<1> QED BY <1>1, <1>2, <1>3, <1>5 DEF Readings

\* A snapshot that leaves the views alone names the device they are about.
LEMMA SameDevice ==
  ASSUME device \in Snapshots, NEW r \in Snapshots, ~ViewsAreStale(r)
  PROVE  /\ apply(r).serial = device.serial
         /\ device.rollback_floors /\ r.connection = "Fastboot" => apply(r).rollback_floors
BY DEF Snapshots, ViewsAreStale, reset_identity, serial_changed, apply

LEMMA AppliedTyped ==
  ASSUME device \in Snapshots, NEW r \in Snapshots
  PROVE  apply(r) \in Snapshots
<1> DEFINE before == IF reset_identity(r) THEN NoDevice ELSE device
           floors == r.rollback_floors \/ (before.rollback_floors /\ r.connection = "Fastboot")
<1>1. before.serial \in Serials \cup {NoSerial}
  BY DEF Snapshots, NoDevice
<1>2. floors \in BOOLEAN
  OBVIOUS
<1>3. (IF r.serial # NoSerial THEN r.serial ELSE before.serial) \in Serials \cup {NoSerial}
  BY <1>1 DEF Snapshots
<1>4. r.connection \in DeviceModes \cup {"None", "AdbUnauthorized"}
  BY DEF Snapshots
<1> HIDE DEF before, floors
<1>5. apply(r) = [connection |-> r.connection,
                  serial |-> IF r.serial # NoSerial THEN r.serial ELSE before.serial,
                  rollback_floors |-> floors]
  BY DEF apply, before, floors
<1> QED BY <1>2, <1>3, <1>4, <1>5 DEF Snapshots

-----------------------------------------------------------------------------
LEMMA PollKeeps == ASSUME SessionInv, DevicePollFinished(TRUE) PROVE SessionInv'
<1> USE DEF SessionInv
<1>1. CASE UNCHANGED <<device, queryVars, rollback_popup_open>>
  BY <1>1 DEF DevicePollFinished, SessionTypeOK, ViewsAreOfTheDevice, WaitsHaveAWorker,
     TokensAreUnique, queryVars, cableVars
<1>2. CASE DevicePolled(reading)
  <2>1. reading \in Snapshots /\ device \in Snapshots
    BY DEF SessionTypeOK, DevicePollFinished
  <2>2. device' \in Snapshots
    BY <1>2, <2>1, AppliedTyped DEF DevicePolled
  <2>3. CASE ViewsAreStale(reading)
    <3>1. /\ pending' = [k \in Kinds |-> 0] /\ region_pending' = 0 /\ popup' = [k \in Kinds |-> Closed]
          /\ UNCHANGED <<sequence, workers, cache>> /\ rollback_popup_open' = FALSE
      BY <1>2, <2>3 DEF DevicePolled, invalidate_device_views, invalidate_context
    <3>2. popup' \in [Kinds -> Popups] /\ pending' \in [Kinds -> 0..MaxQueries] /\ region_pending' \in 0..MaxQueries
      BY <3>1, SessionAssumption DEF Popups
    <3>3. SessionTypeOK'
      BY <2>2, <3>1, <3>2 DEF DevicePollFinished, SessionTypeOK, cableVars
    <3>4. \A k \in Kinds : popup'[k] = Closed
      BY <3>1, Zenon
    <3>5. ViewsAreOfTheDevice'
      BY <3>1, <3>4 DEF ViewsAreOfTheDevice
    <3>6. WaitsHaveAWorker'
      BY <3>1, <3>4 DEF WaitsHaveAWorker, Closed
    <3>7. TokensAreUnique'
      BY <3>1 DEF TokensAreUnique
    <3> QED BY <3>3, <3>5, <3>6, <3>7
  <2>4. CASE ~ViewsAreStale(reading)
    <3>1. UNCHANGED queryVars /\ device' = apply(reading)
          /\ rollback_popup_open' = (rollback_popup_open /\ reading.connection = "Fastboot")
      BY <1>2, <2>4 DEF DevicePolled
    <3>2. device'.serial = device.serial
      BY <2>1, <2>4, <3>1, SameDevice
    <3>3. rollback_popup_open' => device'.rollback_floors
      BY <2>1, <2>4, <3>1, SameDevice DEF ViewsAreOfTheDevice
    <3>4. rollback_popup_open' \in BOOLEAN
      BY <3>1, Zenon
    <3> QED BY <2>2, <3>1, <3>2, <3>3, <3>4 DEF DevicePollFinished, SessionTypeOK, ViewsAreOfTheDevice,
          WaitsHaveAWorker, TokensAreUnique, cableVars, queryVars
  <2> QED BY <2>3, <2>4
<1> QED BY <1>1, <1>2 DEF DevicePollFinished

\* Neither the cable nor a poll that begins nor the rollback popup touches a query.
LEMMA QuietKeeps ==
  ASSUME SessionInv, CableMoves \/ PollDevice \/ RollbackDetailOpen \/ RollbackDetailClose
  PROVE  SessionInv'
<1> USE DEF SessionInv
<1>1. CASE CableMoves
  BY <1>1, SessionAssumption DEF CableMoves, SessionTypeOK, ViewsAreOfTheDevice, WaitsHaveAWorker,
     TokensAreUnique, queryVars, deviceVars
<1>2. CASE PollDevice
  BY <1>2, ReadingsTyped DEF PollDevice, SessionTypeOK, ViewsAreOfTheDevice, WaitsHaveAWorker,
     TokensAreUnique, queryVars, cableVars
<1>3. CASE RollbackDetailOpen
  BY <1>3 DEF RollbackDetailOpen, SessionTypeOK, ViewsAreOfTheDevice, WaitsHaveAWorker,
     TokensAreUnique, queryVars, cableVars
<1>4. CASE RollbackDetailClose
  BY <1>4 DEF RollbackDetailClose, SessionTypeOK, ViewsAreOfTheDevice, WaitsHaveAWorker,
     TokensAreUnique, queryVars, cableVars
<1> QED BY <1>1, <1>2, <1>3, <1>4

\* A request for the device that is shown: it takes a new token.
LEMMA QueryKeeps ==
  ASSUME SessionInv, NEW k \in Kinds, NEW s \in Serials, s = device.serial,
         start_lookup(k, s), Shows(k, s, "Loading"),
         UNCHANGED <<cableVars, deviceVars, region_pending, cache>>
  PROVE  SessionInv'
<1> USE DEF SessionInv
<1> DEFINE w == [kind |-> k, id |-> sequence', serial |-> s]
<1>1. sequence' = sequence + 1 /\ sequence' \in 1..MaxQueries /\ sequence \in Nat
  BY SessionAssumption DEF start_lookup, SessionTypeOK
<1>2. workers' = workers \cup {w} /\ pending' = [pending EXCEPT ![k] = sequence']
  BY DEF start_lookup
<1>3. popup' = [popup EXCEPT ![k] = [serial |-> s, state |-> "Loading"]]
  BY DEF Shows
<1>4. \A v \in workers : v.id \in Nat /\ v.id < sequence'
  BY <1>1 DEF SessionTypeOK, Workers, TokensAreUnique
<1>5. SessionTypeOK'
  BY <1>1, <1>2, <1>3, SessionAssumption DEF SessionTypeOK, cableVars, deviceVars, Workers, Popups
<1>6. TokensAreUnique'
  BY <1>1, <1>2, <1>4 DEF TokensAreUnique
<1>7. ViewsAreOfTheDevice'
  BY <1>3 DEF ViewsAreOfTheDevice, deviceVars, SessionTypeOK
<1>8. WaitsHaveAWorker'
  BY <1>2, <1>3 DEF WaitsHaveAWorker, deviceVars, SessionTypeOK
<1> QED BY <1>5, <1>6, <1>7, <1>8

LEMMA DialogKeeps ==
  ASSUME SessionInv, NEW k \in Kinds,
         LookupOpen(k) \/ LookupRetry(k) \/ LookupClose(k)
  PROVE  SessionInv'
<1> USE DEF SessionInv
<1>0. device.serial \in Serials \cup {NoSerial} /\ popup \in [Kinds -> Popups]
  BY DEF SessionTypeOK, Snapshots
<1>1. CASE LookupOpen(k)
  <2>1. device.serial \in Serials
    BY <1>0, <1>1 DEF LookupOpen
  <2>2. CASE <<k, device.serial>> \in cache
    <3>1. /\ popup' = [popup EXCEPT ![k] = [serial |-> device.serial, state |-> "Ready"]]
          /\ pending' = [pending EXCEPT ![k] = 0]
          /\ UNCHANGED <<sequence, workers, cableVars, deviceVars, region_pending, cache>>
      BY <1>1, <2>2 DEF LookupOpen, Shows
    <3>2. SessionTypeOK'
      BY <2>1, <3>1, SessionAssumption DEF SessionTypeOK, cableVars, deviceVars, Popups
    <3>3. ViewsAreOfTheDevice' /\ WaitsHaveAWorker' /\ TokensAreUnique'
      BY <3>1 DEF SessionTypeOK, ViewsAreOfTheDevice, WaitsHaveAWorker, TokensAreUnique, deviceVars
    <3> QED BY <3>2, <3>3
  <2>3. CASE <<k, device.serial>> \notin cache
    BY <1>1, <2>1, <2>3, QueryKeeps DEF LookupOpen
  <2> QED BY <2>2, <2>3
<1>2. CASE LookupRetry(k)
  <2>1. popup[k] # Closed
    BY <1>2 DEF LookupRetry, Closed
  <2>2. popup[k].serial \in Serials /\ popup[k].serial = device.serial
    BY <1>0, <2>1 DEF Popups, ViewsAreOfTheDevice
  <2> QED BY <1>2, <2>2, QueryKeeps DEF LookupRetry
<1>3. CASE LookupClose(k)
  <2>1. /\ popup' = [popup EXCEPT ![k] = Closed] /\ pending' = [pending EXCEPT ![k] = 0]
        /\ UNCHANGED <<cableVars, deviceVars, sequence, region_pending, workers, cache>>
    BY <1>3 DEF LookupClose
  <2>2. SessionTypeOK'
    BY <2>1, SessionAssumption DEF SessionTypeOK, cableVars, deviceVars, Popups
  <2>3. ViewsAreOfTheDevice' /\ WaitsHaveAWorker' /\ TokensAreUnique'
    BY <2>1 DEF SessionTypeOK, ViewsAreOfTheDevice, WaitsHaveAWorker, TokensAreUnique, deviceVars, Closed
  <2> QED BY <2>2, <2>3
<1> QED BY <1>1, <1>2, <1>3

-----------------------------------------------------------------------------
\* The reply of the worker that is awaited closes or settles the popup it is
\* about; a late one changes nothing, and takes no other worker with it.
LEMMA LookupKeeps ==
  ASSUME SessionInv, NEW w \in workers, LookupFetched(w)
  PROVE  SessionInv'
<1> USE DEF SessionInv
<1>0. w.kind \in Kinds /\ w.serial \in Serials /\ w.id \in 1..MaxQueries
  BY DEF LookupFetched, SessionTypeOK, Workers
<1>1. workers' = workers \ {w} /\ UNCHANGED <<cableVars, deviceVars, sequence, region_pending>>
  BY DEF LookupFetched
<1>2. TokensAreUnique'
  BY <1>1 DEF TokensAreUnique
<1>3. region_pending # 0 => [kind |-> "Region", id |-> region_pending, serial |-> device.serial] \in workers'
  <2>1. [kind |-> "Region", id |-> region_pending, serial |-> device.serial] # w
    BY DEF LookupFetched
  <2> QED BY <1>1, <2>1 DEF WaitsHaveAWorker
<1>4. CASE ~finish_lookup(w)
  <2>1. UNCHANGED <<pending, popup, cache>>
    BY <1>4 DEF LookupFetched
  <2>2. \A k \in Kinds : [kind |-> k, id |-> pending[k], serial |-> popup[k].serial] # w
    BY <1>4 DEF finish_lookup
  <2>3. SessionTypeOK' /\ ViewsAreOfTheDevice'
    BY <1>1, <2>1 DEF SessionTypeOK, ViewsAreOfTheDevice, cableVars, deviceVars
  <2>4. WaitsHaveAWorker'
    BY <1>1, <1>3, <2>1, <2>2 DEF WaitsHaveAWorker, deviceVars
  <2> QED BY <1>2, <2>3, <2>4
<1>5. CASE finish_lookup(w)
  <2>1. pending' = [pending EXCEPT ![w.kind] = 0]
    BY <1>5 DEF LookupFetched
  <2>2. popup[w.kind] \in Popups
    BY <1>0 DEF SessionTypeOK
  <2>3. popup[w.kind].state = "Loading" => popup[w.kind].serial = w.serial
    <3> DEFINE v == [kind |-> w.kind, id |-> pending[w.kind], serial |-> popup[w.kind].serial]
    <3> SUFFICES ASSUME popup[w.kind].state = "Loading" PROVE popup[w.kind].serial = w.serial
      OBVIOUS
    <3>1. v \in workers
      BY <1>0 DEF WaitsHaveAWorker
    <3>2. v.id = w.id
      BY <1>5 DEF finish_lookup
    <3>3. v = w
      BY <3>1, <3>2 DEF TokensAreUnique
    <3> QED BY <3>3
  <2>4. \/ popup' = popup /\ popup[w.kind].state # "Loading"
        \/ \E state \in {"Ready", "Error"} :
             /\ popup[w.kind] # Closed
             /\ popup' = [popup EXCEPT ![w.kind] = [serial |-> popup[w.kind].serial, state |-> state]]
    <3>1. popup[w.kind].serial = w.serial => popup[w.kind] # Closed
      BY <1>0, SessionAssumption DEF Closed
    <3>2. CASE Answered(w)
      BY <2>3, <3>1, <3>2 DEF Answered, Shows
    <3>3. CASE LookupFails(w)
      BY <2>3, <3>1, <3>3 DEF LookupFails, Shows
    <3>4. CASE Panicked(w)
      BY <3>4 DEF Panicked, Shows, Closed
    <3> QED BY <1>5, <3>2, <3>3, <3>4 DEF LookupFetched
  <2>5. cache' \subseteq Kinds \X Serials
    BY <1>0, <1>5 DEF LookupFetched, Answered, LookupFails, Panicked, SessionTypeOK
  <2>6. popup[w.kind] # Closed => popup[w.kind].serial \in Serials /\ popup[w.kind].serial = device.serial
    BY <1>0, <2>2 DEF Popups, ViewsAreOfTheDevice
  <2>7. popup' \in [Kinds -> Popups]
    BY <1>0, <2>4, <2>6 DEF SessionTypeOK, Popups
  <2>8. SessionTypeOK'
    <3>1. pending' \in [Kinds -> 0..MaxQueries]
      BY <1>0, <2>1, SessionAssumption DEF SessionTypeOK
    <3>2. workers' \subseteq Workers
      BY <1>1 DEF SessionTypeOK
    <3> QED BY <1>1, <2>5, <2>7, <3>1, <3>2 DEF SessionTypeOK, cableVars, deviceVars
  <2>9. ViewsAreOfTheDevice'
    BY <1>0, <1>1, <2>4, <2>6 DEF ViewsAreOfTheDevice, SessionTypeOK, deviceVars
  <2>10. \A k \in Kinds \ {w.kind} :
           /\ popup'[k] = popup[k] /\ pending'[k] = pending[k]
           /\ [kind |-> k, id |-> pending[k], serial |-> popup[k].serial] # w
    BY <1>0, <2>1, <2>4 DEF SessionTypeOK
  <2>11. popup'[w.kind].state # "Loading"
    BY <1>0, <2>4 DEF SessionTypeOK
  <2>12. WaitsHaveAWorker'
    BY <1>1, <1>3, <2>10, <2>11 DEF WaitsHaveAWorker, deviceVars
  <2> QED BY <1>2, <2>8, <2>9, <2>12
<1> QED BY <1>4, <1>5

LEMMA RegionKeeps ==
  ASSUME SessionInv, RegionProbe \/ \E w \in workers : AutoRegionFetched(w)
  PROVE  SessionInv'
<1> USE DEF SessionInv
<1>1. CASE RegionProbe
  <2> DEFINE w == [kind |-> "Region", id |-> sequence', serial |-> device.serial]
  <2>1. sequence' = sequence + 1 /\ sequence' \in 1..MaxQueries /\ sequence \in Nat
    BY <1>1, SessionAssumption DEF RegionProbe, start_region_probe, SessionTypeOK
  <2>2. /\ workers' = workers \cup {w} /\ region_pending' = sequence'
        /\ UNCHANGED <<pending, popup, cache, cableVars, deviceVars>>
    BY <1>1 DEF RegionProbe, start_region_probe
  <2>3. \A v \in workers : v.id \in Nat /\ v.id < sequence'
    BY <2>1 DEF SessionTypeOK, Workers, TokensAreUnique
  <2>4. device.serial \in Serials
    BY <1>1 DEF RegionProbe, has_pollable_serial, SessionTypeOK, Snapshots
  <2>5. SessionTypeOK'
    BY <2>1, <2>2, <2>4 DEF SessionTypeOK, cableVars, deviceVars, Workers
  <2>6. TokensAreUnique'
    BY <2>1, <2>2, <2>3 DEF TokensAreUnique
  <2>7. ViewsAreOfTheDevice' /\ WaitsHaveAWorker'
    BY <2>2 DEF ViewsAreOfTheDevice, WaitsHaveAWorker, deviceVars
  <2> QED BY <2>5, <2>6, <2>7
<1>2. ASSUME NEW w \in workers, NEW fetched \in BOOLEAN, RegionReply(w, fetched),
             UNCHANGED <<cableVars, deviceVars>>
      PROVE  SessionInv'
  <2>1. w.kind = "Region" /\ w.serial \in Serials /\ w.id # 0
    BY <1>2 DEF RegionReply, SessionTypeOK, Workers
  <2>2. workers' = workers \ {w} /\ UNCHANGED <<sequence, pending, popup>>
    BY <1>2 DEF RegionReply
  <2>3. cache' \subseteq Kinds \X Serials
    BY <1>2, <2>1 DEF RegionReply, SessionTypeOK
  <2>4. region_pending' \in {0, region_pending} /\ (region_pending' # 0 => region_pending # w.id)
    BY <1>2 DEF RegionReply
  <2>5. SessionTypeOK'
    BY <1>2, <2>2, <2>3, <2>4, SessionAssumption DEF SessionTypeOK, cableVars, deviceVars
  <2>6. TokensAreUnique' /\ ViewsAreOfTheDevice'
    BY <1>2, <2>2 DEF TokensAreUnique, ViewsAreOfTheDevice, deviceVars
  <2>7. \A k \in Kinds : [kind |-> k, id |-> pending[k], serial |-> popup[k].serial] # w
    BY <2>1, SessionAssumption
  <2>8. region_pending' # 0 => [kind |-> "Region", id |-> region_pending, serial |-> device.serial] # w
    BY <2>4
  <2>9. WaitsHaveAWorker'
    BY <1>2, <2>2, <2>4, <2>7, <2>8 DEF WaitsHaveAWorker, deviceVars
  <2> QED BY <2>5, <2>6, <2>9
<1> QED BY <1>1, <1>2 DEF AutoRegionFetched

-----------------------------------------------------------------------------
LEMMA SessionStep == SessionInv /\ [SessionNext]_sessionVars => SessionInv'
<1> SUFFICES ASSUME SessionInv, [SessionNext]_sessionVars PROVE SessionInv'
  OBVIOUS
<1>1. CASE UNCHANGED sessionVars
  BY <1>1 DEF SessionInv, SessionTypeOK, ViewsAreOfTheDevice, WaitsHaveAWorker, TokensAreUnique,
     sessionVars, cableVars, queryVars, deviceVars
<1>2. CASE CableMoves \/ PollDevice \/ RollbackDetailOpen \/ RollbackDetailClose
  BY <1>2, QuietKeeps
<1>3. CASE DevicePollFinished(TRUE)
  BY <1>3, PollKeeps
<1>4. CASE RegionProbe
  BY <1>4, RegionKeeps
<1>5. CASE Replies
  BY <1>5, LookupKeeps, RegionKeeps DEF Replies
<1> QED BY <1>1, <1>2, <1>3, <1>4, <1>5, DialogKeeps DEF SessionNext

LEMMA SessionInvariance == SessionSpec => []SessionInv
BY InitSession, SessionStep, PTL DEF SessionSpec

\* Polls, popups, lookups and the region probe keep their types.
THEOREM SessionKeepsItsTypes == SessionSpec => []SessionTypeOK
<1>1. SessionInv => SessionTypeOK
  BY DEF SessionInv
<1> QED BY <1>1, SessionInvariance, PTL

\* However devices are swapped under polls and lookups, what the dashboard shows
\* is about the device it names, and the rollback popup has floors to show.
THEOREM ViewsStayWithTheirDevice == SessionSpec => []ViewsAreOfTheDevice
<1>1. SessionInv => ViewsAreOfTheDevice
  BY DEF SessionInv
<1> QED BY <1>1, SessionInvariance, PTL

\* Whatever loads or probes has a worker under way whose reply will be taken.
THEOREM WhatWaitsHasAWorker == SessionSpec => []WaitsHaveAWorker
<1>1. SessionInv => WaitsHaveAWorker
  BY DEF SessionInv
<1> QED BY <1>1, SessionInvariance, PTL

-----------------------------------------------------------------------------
(* Transfers.  While no write was announced, nothing that could write is   *)
(* on its way: the host has no such command in flight, the device has none *)
(* to serve and waits for no data.  A LUN to flash is measured with a read *)
(* that is announced itself.                                               *)

\* A worker has a device to talk to while its wizard is busy, and a command only in
\* a session.
EntryIs(e) == {"pc", "next", "waited", "handle"} \subseteq DOMAIN e /\ e.next \in {"Pause", "Setup"}

JobShape ==
  /\ {"kind", "at", "next", "plan", "row", "measured", "failed", "marked", "result"} \subseteq DOMAIN job
  /\ {"cmd", "stage", "got"} \subseteq DOMAIN op

Busy ==
  /\ job.at \in {"Idle", "Table", "Done"} <=> On("Idle")
  /\ ~Working => op = NoOp
  /\ job.at \in {"Scan", "Bounce", "Table"} => job.kind # "FlashPhys"

Writing == {"Program", "Erase", "Raw"}
Harmless(sent) == \E S : sent \in Seq(S) /\ \A m \in S : m.cmd \notin Writing

Clean ==
  /\ cells = [l \in LUNs |-> Holds("Stock", l)] /\ taking = NoLun /\ Harmless(inbox)
  /\ op.cmd \notin Writing /\ (op.cmd = "None" => op.got = NoLun)
  /\ job.kind = "FlashPhys" /\ At("Work") => op.cmd = "None" /\ ~job.measured

TransferInv == EntryIs(entry) /\ JobShape /\ Busy /\ (~job.marked => Clean)

-----------------------------------------------------------------------------
LEMMA NothingIsHarmless == Harmless(<<>>)
<1> DEFINE S == {}
<1>1. <<>> \in Seq(S) /\ \A m \in S : m.cmd \notin Writing
  OBVIOUS
<1> HIDE DEF S
<1> QED BY <1>1 DEF Harmless

LEMMA SentIsHarmless ==
  ASSUME NEW sent, Harmless(sent), NEW m, m.cmd \notin Writing
  PROVE  Harmless(Append(sent, m))
<1>1. PICK S : sent \in Seq(S) /\ \A x \in S : x.cmd \notin Writing
  BY DEF Harmless
<1>2. sent \in Seq(S \cup {m})
  BY <1>1, SeqMonotonic
<1>3. Append(sent, m) \in Seq(S \cup {m})
  BY <1>2
<1>4. \A x \in S \cup {m} : x.cmd \notin Writing
  BY <1>1
<1> QED BY <1>3, <1>4 DEF Harmless

LEMMA TakenIsHarmless ==
  ASSUME NEW sent, Harmless(sent), sent # <<>>
  PROVE  Head(sent).cmd \notin Writing /\ Harmless(Tail(sent))
<1>1. PICK S : sent \in Seq(S) /\ \A x \in S : x.cmd \notin Writing
  BY DEF Harmless
<1>2. Head(sent) \in S /\ Tail(sent) \in Seq(S)
  BY <1>1
<1> QED BY <1>1, <1>2 DEF Harmless

LEMMA SendsHarmless ==
  ASSUME Harmless(inbox), NEW m, m.cmd \notin Writing, Sends(m)
  PROVE  Harmless(inbox')
BY SentIsHarmless DEF Sends

-----------------------------------------------------------------------------
\* Entering EDL begins at rest and ends in a session or an error.
LEMMA EntriesAre ==
  /\ \A n \in {"Pause", "Setup"} : EntryIs(Waiting(n)) /\ Waiting(n).pc = "Find"
  /\ EntryIs(Failed) /\ Failed.pc = "Failed"
  /\ EntryIs(AtRest) /\ AtRest.pc = "Idle"
  /\ \A pc : EntryIs([AtRest EXCEPT !.pc = pc]) /\ [AtRest EXCEPT !.pc = pc].pc = pc
<1>1. EntryIs(AtRest) /\ AtRest.pc = "Idle"
  BY DEF EntryIs, AtRest
<1>2. EntryIs(Failed) /\ Failed.pc = "Failed"
  BY DEF EntryIs, AtRest, Failed
<1>3. \A n \in {"Pause", "Setup"} : EntryIs(Waiting(n)) /\ Waiting(n).pc = "Find"
  BY DEF EntryIs, AtRest, Waiting
<1>4. \A pc : EntryIs([AtRest EXCEPT !.pc = pc]) /\ [AtRest EXCEPT !.pc = pc].pc = pc
  BY DEF EntryIs, AtRest
<1> QED BY <1>1, <1>2, <1>3, <1>4

LEMMA OpeningShape ==
  ASSUME EntryIs(entry), Opening
  PROVE  EntryIs(entry') /\ ~On("Idle") /\ ~On("Session") /\ entry'.pc # "Idle"
<1>1. ~On("Idle") /\ ~On("Session")
  BY DEF Opening, AdbReboot, FastbootReboot, AdbWait, Find, Watch, Watched, Settle, Pause, Open, Setup,
         GivesUp, Hello, Nudge, Configure, On
<1>2. ASSUME \/ entry' = Waiting("Pause") \/ entry' = Waiting("Setup") \/ entry' = Failed
             \/ entry' = [AtRest EXCEPT !.pc = "Open"]
      PROVE  EntryIs(entry') /\ entry'.pc # "Idle"
  BY <1>2 DEF EntryIs, Waiting, Failed, AtRest
<1>3. ASSUME NEW pc \in {"Settle", "AdbWait", "AdbState", "Watch", "Configure", "Nudge", "Session"},
             \/ entry' = [entry EXCEPT !.pc = pc]
             \/ \E name \in Names : entry' = [entry EXCEPT !.pc = pc, !.first = name]
             \/ entry' = [entry EXCEPT !.pc = pc, !.waited = @ + 1]
      PROVE  EntryIs(entry') /\ entry'.pc # "Idle"
  BY <1>3 DEF EntryIs
<1>4. ASSUME \/ entry' = [entry EXCEPT !.waited = @ + 1]
             \/ entry' = [entry EXCEPT !.waited = 1]
             \/ entry' = [entry EXCEPT !.observed = @ + 1, !.waited = @ + 1]
             \/ entry' = [entry EXCEPT !.last = Nothing, !.waited = @ + 1]
             \/ \E name \in Names : entry' = [entry EXCEPT !.last = name, !.waited = @ + 1]
      PROVE  EntryIs(entry') /\ entry'.pc # "Idle"
  BY <1>1, <1>4 DEF EntryIs, On
<1>5. ASSUME NEW name, entry' = [AtRest EXCEPT !.pc = entry.next, !.first = name]
      PROVE  EntryIs(entry') /\ entry'.pc # "Idle"
  BY <1>5 DEF EntryIs, AtRest
<1>6. ASSUME NEW pc, NEW handle, entry' = [AtRest EXCEPT !.pc = "Hello", !.handle = handle]
      PROVE  EntryIs(entry') /\ entry'.pc # "Idle"
  BY <1>6 DEF EntryIs, AtRest
<1>7. CASE AdbReboot \/ FastbootReboot \/ AdbWait
  BY <1>1, <1>2, <1>3, <1>4, <1>7 DEF AdbReboot, FastbootReboot, AdbWait, Go
<1>14. CASE Find \/ Open
  BY <1>1, <1>2, <1>3, <1>14 DEF Find, Open, Go
<1>8. CASE Watch
  BY <1>1, <1>2, <1>3, <1>4, <1>8 DEF Watch
<1>9. CASE Watched
  <2>1. PICK name : name = entry.first
    OBVIOUS
  <2> QED BY <1>1, <1>5, <1>9, <2>1 DEF Watched, Trust
<1>10. CASE Settle
  BY <1>1, <1>2, <1>4, <1>5, <1>10 DEF Settle, Trust
<1>11. CASE Pause
  BY <1>1, <1>2, <1>4, <1>11 DEF Pause
<1>12. CASE Setup
  <2>1. PICK handle : handle = Handle
    OBVIOUS
  <2> QED BY <1>1, <1>2, <1>6, <1>12, <2>1 DEF Setup
<1>13. CASE GivesUp \/ Hello \/ Nudge \/ Configure
  BY <1>1, <1>2, <1>3, <1>13 DEF GivesUp, Hello, Nudge, Configure, Uploaded, Go
<1> QED BY <1>1, <1>7, <1>8, <1>9, <1>10, <1>11, <1>12, <1>13, <1>14 DEF Opening

LEMMA InitTransfers == TransferInit => TransferInv
<1> SUFFICES ASSUME TransferInit PROVE TransferInv
  OBVIOUS
<1>1. /\ entry = AtRest /\ op = NoOp /\ inbox = <<>> /\ taking = NoLun
      /\ cells = [l \in LUNs |-> Holds("Stock", l)] /\ job.at = "Idle"
      /\ {"kind", "at", "next", "plan", "row", "measured", "failed", "marked", "result"}
           \subseteq DOMAIN job
  BY DEF TransferInit, EntryInit
<1>2. EntryIs(entry) /\ On("Idle")
  BY <1>1, EntriesAre DEF On
<1>3. JobShape /\ Busy
  BY <1>1, <1>2 DEF JobShape, NoOp, Busy
<1>4. Clean
  BY <1>1, NothingIsHarmless DEF Clean, NoOp, Writing, At
<1> QED BY <1>2, <1>3, <1>4 DEF TransferInv

\* What goes on around the worker, and on its way into EDL.
LEMMA WorldKeeps == ASSUME TransferInv, World \/ Entering PROVE TransferInv'
<1>1. /\ EntryIs(entry) /\ JobShape /\ Busy /\ (~job.marked => Clean)
      /\ UNCHANGED <<job, rows, picker, op, cells>>
  BY DEF TransferInv, World, Entering, jobVars, stores
<1>2. EntryIs(entry') /\ (On("Idle")' <=> On("Idle")) /\ (On("Session") => On("Session")')
  <2>1. CASE World
    BY <1>1, <2>1 DEF World, Surroundings, Boots, Unplugged, GhostGone, SpareMoves, On
  <2>2. CASE Entering
    BY <1>1, <2>2, OpeningShape DEF Entering, On
  <2> QED BY <2>1, <2>2
<1>3. JobShape' /\ Busy'
  BY <1>1, <1>2 DEF JobShape, Busy, Working
<1>4. (inbox' = inbox \/ inbox' = <<>>) /\ (taking' = taking \/ taking' = NoLun)
  BY DEF World, Entering
<1>5. Clean => Clean'
  BY <1>1, <1>4, NothingIsHarmless DEF Clean, At
<1> QED BY <1>1, <1>2, <1>3, <1>5 DEF TransferInv

\* The device serves what it was sent.
LEMMA ServeKeeps == ASSUME TransferInv, Serve PROVE TransferInv'
<1>1. /\ EntryIs(entry) /\ JobShape /\ Busy /\ (~job.marked => Clean)
      /\ UNCHANGED <<job, op>> /\ inbox # <<>>
  BY DEF TransferInv, Serve, jobVars
<1>2. UNCHANGED entry
  BY DEF Serve, Takes, Serves, entryVars
<1>3. JobShape' /\ Busy'
  BY <1>1, <1>2 DEF JobShape, Busy, Working, On
<1>4. ASSUME Clean PROVE Clean'
  <2>1. Head(inbox).cmd \notin Writing /\ Harmless(Tail(inbox))
    BY <1>1, <1>4, TakenIsHarmless DEF Clean
  <2>2. Serves(Head(inbox)) /\ (inbox' = <<>> \/ inbox' = Tail(inbox))
    BY <1>4 DEF Serve, Clean
  <2>3. UNCHANGED <<cells, taking>>
    BY <2>1, <2>2 DEF Serves, Writing
  <2> QED BY <1>1, <1>4, <2>1, <2>2, <2>3, NothingIsHarmless DEF Clean, At
<1> QED BY <1>1, <1>2, <1>3, <1>4 DEF TransferInv

\* The host hears of a command, or gives it up: what it sends is a reset, or the
\* data it announced.
LEMMA HostKeeps ==
  ASSUME TransferInv, FirstReply \/ RecoverEdl \/ ReadData \/ SendData \/ LastReply
  PROVE  TransferInv'
<1>1. /\ EntryIs(entry) /\ JobShape /\ Busy /\ (~job.marked => Clean) /\ Working
      /\ UNCHANGED <<entry, job, taking, cells>>
  BY DEF TransferInv, FirstReply, RecoverEdl, ReadData, SendData, LastReply, Host, jobVars, entryVars
<1>2. \/ op' = op
      \/ \E stage : op' = [op EXCEPT !.stage = stage]
      \/ op.cmd = "Read" /\ \E got : op' = [op EXCEPT !.stage = "Last", !.got = got]
  BY DEF FirstReply, RecoverEdl, ReadData, SendData, LastReply, Stage
<1>3. /\ {"cmd", "stage", "got"} \subseteq DOMAIN op' /\ op'.cmd = op.cmd
      /\ op.cmd # "Read" => op'.got = op.got
  BY <1>1, <1>2 DEF JobShape
<1>4. JobShape' /\ Busy'
  BY <1>1, <1>3 DEF JobShape, Busy, Working, On
<1>5. ASSUME Clean PROVE Clean'
  <2>1. ~SendData
    BY <1>5 DEF Clean, SendData, Writing
  <2>2. UNCHANGED inbox \/ Sends(Message("Power", NoLun))
    BY <2>1 DEF FirstReply, RecoverEdl, ReadData, LastReply
  <2>3. PICK m : m = Message("Power", NoLun)
    OBVIOUS
  <2>4. m.cmd \notin Writing
    BY <2>3 DEF Message, Writing
  <2>5. Harmless(inbox')
    BY <1>5, <2>2, <2>3, <2>4, SendsHarmless DEF Clean
  <2> QED BY <1>1, <1>3, <1>5, <2>5 DEF Clean, At
<1> QED BY <1>1, <1>4, <1>5 DEF TransferInv

-----------------------------------------------------------------------------
\* A step of the worker in its session that sends at most one command.
LEMMA CommandKeeps ==
  ASSUME TransferInv, Working, UNCHANGED <<entry, taking, cells>>,
         DOMAIN job' = DOMAIN job, job'.kind = job.kind, job.marked => job'.marked,
         \/ job'.at = job.at
         \/ job'.at = "Bounce" /\ job.at = "Scan"
         \/ job'.at = "Reset" /\ job.at = "Work",
         \/ op' = NoOp /\ UNCHANGED inbox
         \/ Refused
         \/ \E cmd, lun, file : Command(cmd, lun, file, "First"),
         ~job'.marked =>
           /\ op'.cmd \notin Writing
           /\ job.kind = "FlashPhys" /\ At("Work")' => op'.cmd = "None" /\ ~job'.measured
  PROVE  TransferInv'
<1>1. EntryIs(entry) /\ JobShape /\ Busy /\ (~job.marked => Clean)
  BY DEF TransferInv
<1>4. {"cmd", "stage", "got"} \subseteq DOMAIN op' /\ op'.got = NoLun
  BY DEF NoOp, Refused, Command
<1>5. JobShape' /\ Busy'
  BY <1>1, <1>4 DEF JobShape, Busy, Working, On
<1>6. ASSUME ~job'.marked PROVE Clean'
  <2>1. Clean /\ op'.cmd \notin Writing
    BY <1>1, <1>6
  <2>2. Harmless(inbox')
    <3>1. CASE UNCHANGED inbox
      BY <2>1, <3>1 DEF Clean
    <3>2. CASE \E cmd, lun, file : Command(cmd, lun, file, "First")
      <4>1. PICK cmd, lun, file : Command(cmd, lun, file, "First")
        BY <3>2
      <4>2. op'.cmd = cmd /\ Sends(Message(cmd, lun)) /\ Message(cmd, lun).cmd = cmd
        BY <4>1 DEF Command, Message
      <4>3. PICK m : m = Message(cmd, lun)
        OBVIOUS
      <4> QED BY <2>1, <4>2, <4>3, SendsHarmless DEF Clean
    <3> QED BY <3>1, <3>2 DEF Refused
  <2> QED BY <1>4, <1>6, <2>1, <2>2 DEF Clean, At
<1> QED BY <1>1, <1>5, <1>6 DEF TransferInv

\* A worker that is through with a row, or with its device.
LEMMA LeavesKeep ==
  ASSUME TransferInv, UNCHANGED <<taking, cells, inbox>>, op' = NoOp, EntryIs(entry'),
         {"kind", "at", "next", "plan", "row", "measured", "failed", "marked", "result"} \subseteq DOMAIN job',
         job'.kind = job.kind, job'.marked = job.marked,
         job'.at \in {"Idle", "Table", "Done"} <=> On("Idle")',
         job'.at = "Table" => job.at = "Bounce",
         job'.at \in {"Scan", "Bounce"} => job.at = job'.at,
         job'.at = "Work" => job.at = "Work" /\ (~job'.measured \/ job'.measured = job.measured)
  PROVE  TransferInv'
<1>1. JobShape /\ Busy /\ (~job.marked => Clean)
  BY DEF TransferInv
<1>2. {"cmd", "stage", "got"} \subseteq DOMAIN op' /\ op'.got = NoLun /\ op'.cmd = "None"
  BY DEF NoOp
<1>3. JobShape' /\ Busy'
  BY <1>1, <1>2 DEF JobShape, Busy
<1>4. Clean => Clean'
  BY <1>2 DEF Clean, At, Writing
<1> QED BY <1>1, <1>3, <1>4 DEF TransferInv

LEMMA ScanKeeps == ASSUME TransferInv, Scanning PROVE TransferInv'
<1>1. /\ EntryIs(entry) /\ JobShape /\ Busy /\ (~job.marked => Clean) /\ Working
      /\ UNCHANGED <<taking, cells>>
  BY DEF TransferInv, Scanning, ReadGpt, GptRead, Bounce, ScanDone, Quiet, stores
<1>2. CASE ReadGpt
  <2>1. /\ UNCHANGED <<entry, job>> /\ \E cmd, lun, file : Command(cmd, lun, file, "First")
        /\ op'.cmd = "Read" /\ At("Scan")
    BY <1>2 DEF ReadGpt, entryVars, jobVars, Command
  <2> QED BY <1>1, <2>1, CommandKeeps DEF Writing, At
<1>3. CASE Bounce
  <2>1. /\ UNCHANGED entry /\ \E cmd, lun, file : Command(cmd, lun, file, "First")
        /\ op'.cmd = "Power" /\ At("Scan") /\ job' = [job EXCEPT !.at = "Bounce"]
        /\ job'.at = "Bounce" /\ job'.marked = job.marked /\ job'.kind = job.kind
        /\ DOMAIN job' = DOMAIN job
    BY <1>1, <1>3 DEF Bounce, entryVars, Command, JobShape
  <2> QED BY <1>1, <2>1, CommandKeeps DEF Writing, At
<1>4. CASE GptRead
  <2>1. /\ UNCHANGED <<entry, inbox>> /\ op' = NoOp /\ job' = [job EXCEPT !.next = Tail(@)]
        /\ At("Scan")
    BY <1>4 DEF GptRead, entryVars
  <2>2. /\ {"kind", "at", "next", "plan", "row", "measured", "failed", "marked", "result"} \subseteq DOMAIN job'
        /\ job'.kind = job.kind /\ job'.marked = job.marked /\ job'.at = "Scan"
    BY <1>1, <2>1 DEF JobShape, At
  <2> QED BY <1>1, <2>1, <2>2, LeavesKeep DEF At, On, Working
<1>5. CASE ScanDone
  <2>1. /\ UNCHANGED inbox /\ op' = NoOp /\ At("Bounce") /\ entry' = AtRest
        /\ job' = [job EXCEPT !.at = IF rows = <<>> THEN "Idle" ELSE "Table"]
    BY <1>5 DEF ScanDone, Finish, Quiet
  <2>2. /\ {"kind", "at", "next", "plan", "row", "measured", "failed", "marked", "result"} \subseteq DOMAIN job'
        /\ job'.kind = job.kind /\ job'.marked = job.marked /\ job'.at \in {"Idle", "Table"}
    BY <1>1, <2>1 DEF JobShape
  <2>3. EntryIs(entry') /\ On("Idle")'
    BY <2>1, EntriesAre DEF On
  <2> QED BY <1>1, <2>1, <2>2, <2>3, LeavesKeep DEF At
<1> QED BY <1>2, <1>3, <1>4, <1>5 DEF Scanning

\* A row's command, which is announced before it is sent if it writes.
LEMMA RowsKeep ==
  ASSUME TransferInv, \/ FlashRow \/ EraseRow \/ DumpRow \/ MeasureLun \/ FlashLun \/ DumpLun
                      \/ SourceVanished \/ ResetSystem
  PROVE  TransferInv'
<1>1. /\ EntryIs(entry) /\ JobShape /\ Busy /\ (~job.marked => Clean) /\ Working /\ At("Work") /\ Free
      /\ UNCHANGED <<entry, taking, cells>>
  BY DEF TransferInv, FlashRow, EraseRow, DumpRow, MeasureLun, FlashLun, DumpLun, SourceVanished,
         ResetSystem, Tries, stores, entryVars
<1>2. CASE FlashRow \/ EraseRow \/ (MeasureLun /\ job.kind = "FlashPhys")
  <2>1. /\ job' = [job EXCEPT !.marked = TRUE]
        /\ Refused \/ \E cmd, lun, file : Command(cmd, lun, file, "First")
    BY <1>2 DEF FlashRow, EraseRow, MeasureLun, Tries, Marks
  <2>2. DOMAIN job' = DOMAIN job /\ job'.kind = job.kind /\ job'.at = job.at /\ job'.marked
    BY <1>1, <2>1 DEF JobShape
  <2> QED BY <1>1, <2>1, <2>2, CommandKeeps
<1>3. CASE DumpRow \/ DumpLun \/ (MeasureLun /\ job.kind # "FlashPhys")
  <2>1. /\ UNCHANGED job /\ op'.cmd = "Read" /\ job.kind # "FlashPhys"
        /\ \E cmd, lun, file : Command(cmd, lun, file, "First")
    BY <1>3 DEF DumpRow, DumpLun, MeasureLun, Tries, Command
  <2> QED BY <1>1, <2>1, CommandKeeps DEF Writing
<1>4. CASE FlashLun
  <2>1. /\ UNCHANGED job /\ job.kind = "FlashPhys" /\ job.measured
        /\ Refused \/ \E cmd, lun, file : Command(cmd, lun, file, "First")
    BY <1>4 DEF FlashLun, Tries
  <2>2. job.marked
    BY <1>1, <2>1 DEF Clean
  <2> QED BY <1>1, <2>1, <2>2, CommandKeeps
<1>5. CASE SourceVanished
  <2>1. UNCHANGED job /\ Refused /\ ~job.measured /\ op'.cmd = "None"
    BY <1>5 DEF SourceVanished, jobVars, Refused, NoOp
  <2> QED BY <1>1, <2>1, CommandKeeps DEF Writing
<1>6. CASE ResetSystem
  <2>1. /\ job' = [job EXCEPT !.at = "Reset"] /\ op'.cmd = "Power"
        /\ \E cmd, lun, file : Command(cmd, lun, file, "First")
    BY <1>6 DEF ResetSystem, Command
  <2>2. /\ DOMAIN job' = DOMAIN job /\ job'.kind = job.kind /\ job'.at = "Reset"
        /\ job'.marked = job.marked
    BY <1>1, <2>1 DEF JobShape
  <2> QED BY <1>1, <2>1, <2>2, CommandKeeps DEF Writing, At
<1> QED BY <1>2, <1>3, <1>4, <1>5, <1>6

LEMMA WorkKeeps ==
  ASSUME TransferInv, Measured \/ RowDone \/ DumpFailed \/ FlashFailed \/ ExecDone
  PROVE  TransferInv'
<1>1. /\ EntryIs(entry) /\ JobShape /\ Busy /\ (~job.marked => Clean) /\ Working
      /\ UNCHANGED <<taking, cells, inbox>> /\ op' = NoOp
  BY DEF TransferInv, Measured, RowDone, DumpFailed, FlashFailed, ExecDone, Returns, stores
<1>2. CASE Measured
  <2>1. /\ UNCHANGED entry /\ job' = [job EXCEPT !.measured = TRUE] /\ At("Work") /\ op.got # NoLun
    BY <1>2 DEF Measured, entryVars
  <2>2. /\ DOMAIN job' = DOMAIN job /\ job'.kind = job.kind /\ job'.marked = job.marked
        /\ job'.at = "Work"
    BY <1>1, <2>1 DEF JobShape, At
  <2>3. ~job.marked => job.kind # "FlashPhys"
    BY <1>1, <2>1 DEF Clean
  <2>4. /\ {"cmd", "stage", "got"} \subseteq DOMAIN op' /\ op'.got = NoLun /\ op'.cmd = "None"
    BY <1>1 DEF NoOp
  <2>5. JobShape' /\ Busy' /\ EntryIs(entry')
    BY <1>1, <2>1, <2>2, <2>4 DEF JobShape, Busy, Working, On, At
  <2>6. ~job'.marked => Clean'
    BY <1>1, <2>2, <2>3, <2>4 DEF Clean, At, Writing
  <2> QED BY <2>5, <2>6 DEF TransferInv
<1>3. CASE RowDone \/ DumpFailed
  <2>1. /\ UNCHANGED entry /\ At("Work")
        /\ \E failed : job' = [job EXCEPT !.row = @ + 1, !.measured = FALSE, !.failed = failed]
    BY <1>3 DEF RowDone, DumpFailed, Onward, entryVars
  <2>2. /\ DOMAIN job' = DOMAIN job /\ job'.kind = job.kind /\ job'.marked = job.marked
        /\ job'.at = "Work" /\ ~job'.measured
    BY <1>1, <2>1 DEF JobShape, At
  <2> QED BY <1>1, <2>1, <2>2, LeavesKeep DEF JobShape, At, On, Working
<1>4. CASE FlashFailed \/ ExecDone
  <2>1. entry' = AtRest /\ \E result : job' = [job EXCEPT !.at = "Done", !.result = result]
    BY <1>4 DEF FlashFailed, ExecDone, Returns, Finish
  <2>2. /\ DOMAIN job' = DOMAIN job /\ job'.kind = job.kind /\ job'.marked = job.marked
        /\ job'.at = "Done"
    BY <1>1, <2>1 DEF JobShape
  <2>3. EntryIs(entry') /\ On("Idle")'
    BY <2>1, EntriesAre DEF On
  <2> QED BY <1>1, <2>2, <2>3, LeavesKeep DEF JobShape, At
<1> QED BY <1>2, <1>3, <1>4

\* An entry that failed, or a folder that cannot be made.
LEMMA FailuresKeep == ASSUME TransferInv, EntryFailed \/ NoFolder PROVE TransferInv'
<1>1. /\ EntryIs(entry) /\ JobShape /\ Busy /\ (~job.marked => Clean) /\ ~Working /\ ~On("Idle")
      /\ UNCHANGED <<taking, cells, inbox, op>>
  BY DEF TransferInv, EntryFailed, NoFolder, ReportEntry, On, Working, channel, stores
<1>2. op' = NoOp
  BY <1>1 DEF Busy
<1>3. CASE EntryFailed
  <2>1. /\ entry' = AtRest
        /\ \/ job' = [job EXCEPT !.at = "Idle"]
           \/ job' = [job EXCEPT !.at = "Done", !.result = "Err"]
    BY <1>3 DEF EntryFailed, ReportEntry, Finish
  <2>2. /\ DOMAIN job' = DOMAIN job /\ job'.kind = job.kind /\ job'.marked = job.marked
        /\ job'.at \in {"Idle", "Done"}
    BY <1>1, <2>1 DEF JobShape
  <2>3. EntryIs(entry') /\ On("Idle")'
    BY <2>1, EntriesAre DEF On
  <2> QED BY <1>1, <1>2, <2>2, <2>3, LeavesKeep DEF JobShape
<1>4. CASE NoFolder
  <2>1. entry' = Failed /\ UNCHANGED job /\ At("Work")
    BY <1>4 DEF NoFolder, jobVars
  <2>2. EntryIs(entry') /\ ~On("Idle")'
    BY <2>1, EntriesAre DEF On
  <2> QED BY <1>1, <1>2, <2>1, <2>2, LeavesKeep DEF JobShape, At
<1> QED BY <1>3, <1>4

-----------------------------------------------------------------------------
\* A worker is started over a device at rest.
LEMMA StartKeeps ==
  ASSUME TransferInv, On("Idle"), UNCHANGED <<taking, cells, inbox, op>>,
         EntryIs(entry'), ~On("Idle")', ~On("Session")',
         DOMAIN job' = DOMAIN job, job'.marked = job.marked, job'.at \in {"Scan", "Work"},
         job'.at = "Scan" => job'.kind # "FlashPhys",
         job'.at = "Work" => job'.kind # "FlashPhys" \/ ~job'.measured
  PROVE  TransferInv'
<1>1. JobShape /\ Busy /\ (~job.marked => Clean) /\ op = NoOp
  BY DEF TransferInv, Busy, Working, On
<1>2. JobShape' /\ Busy'
  BY <1>1 DEF JobShape, Busy, Working
<1>3. Clean => Clean'
  BY <1>1 DEF Clean, At, NoOp
<1> QED BY <1>1, <1>2, <1>3 DEF TransferInv

LEMMA EnsureShape ==
  ASSUME NEW conn, EnsureEdl(conn)
  PROVE  On("Idle") /\ EntryIs(entry') /\ ~On("Idle")' /\ ~On("Session")'
<1>1. /\ On("Idle")
      /\ \/ entry' = Failed
         \/ entry' = Waiting("Pause")
         \/ \E pc \in {"Pause", "AdbState", "FastbootReboot"} : entry' = [AtRest EXCEPT !.pc = pc]
  BY DEF EnsureEdl
<1>2. EntryIs(entry') /\ entry'.pc \notin {"Idle", "Session"}
  <2>1. CASE entry' \in {Failed, Waiting("Pause")}
    BY <2>1, EntriesAre
  <2>2. CASE \E pc \in {"Pause", "AdbState", "FastbootReboot"} : entry' = [AtRest EXCEPT !.pc = pc]
    BY <2>2, EntriesAre
  <2> QED BY <1>1, <2>1, <2>2
<1> QED BY <1>1, <1>2 DEF On

\* While nothing runs, the user moves in the wizard.
LEMMA ScreenKeeps ==
  ASSUME TransferInv, UNCHANGED <<entry, taking, cells, inbox, op>>,
         job' = job \/ (job.at \in {"Table", "Done"} /\ job'.at = "Idle" /\ DOMAIN job' = DOMAIN job
                        /\ job'.marked = job.marked)
  PROVE  TransferInv'
<1>1. EntryIs(entry) /\ JobShape /\ Busy /\ (~job.marked => Clean)
  BY DEF TransferInv
<1>2. JobShape' /\ Busy'
  BY <1>1 DEF JobShape, Busy, Working, On
<1>3. Clean => Clean'
  BY DEF Clean, At
<1> QED BY <1>1, <1>2, <1>3 DEF TransferInv

LEMMA UserKeeps == ASSUME TransferInv, User PROVE TransferInv'
<1>1. JobShape /\ Busy
  BY DEF TransferInv
<1>2. ASSUME NEW kind, NEW at, NEW table, Begins(kind, at, table)
      PROVE  /\ DOMAIN job' = DOMAIN job /\ job'.kind = kind /\ job'.at = at
             /\ job'.measured = FALSE /\ job'.marked = job.marked
  BY <1>1, <1>2 DEF Begins, JobShape
<1>3. ASSUME NEW kind \in Wizards, NEW conn \in Connections, ScanStart(kind, conn)
      PROVE  TransferInv'
  <2>1. /\ kind \in ByTable /\ EnsureEdl(conn) /\ Begins(kind, "Scan", <<>>)
        /\ UNCHANGED <<taking, cells, inbox, op>>
    BY <1>3 DEF ScanStart, Quiet, stores
  <2>2. kind # "FlashPhys"
    BY <2>1 DEF ByTable
  <2>3. On("Idle") /\ EntryIs(entry') /\ ~On("Idle")' /\ ~On("Session")'
    BY <2>1, EnsureShape
  <2>4. /\ DOMAIN job' = DOMAIN job /\ job'.kind = kind /\ job'.at = "Scan"
        /\ job'.marked = job.marked
    BY <1>2, <2>1
  <2> QED BY <2>1, <2>2, <2>3, <2>4, StartKeeps
<1>4. ASSUME NEW kind \in Wizards, NEW conn \in Connections, NEW luns, PhysStart(kind, conn, luns)
      PROVE  TransferInv'
  <2>1. /\ \E table : Begins(kind, "Work", table)
        /\ EnsureEdl(conn) \/ (On("Idle") /\ PreflightFails)
        /\ UNCHANGED <<taking, cells, inbox, op>>
    BY <1>4 DEF PhysStart, Quiet, stores
  <2>2. On("Idle") /\ EntryIs(entry') /\ ~On("Idle")' /\ ~On("Session")'
    BY <2>1, EnsureShape, EntriesAre DEF PreflightFails, On
  <2>3. /\ DOMAIN job' = DOMAIN job /\ job'.at = "Work" /\ job'.measured = FALSE
        /\ job'.marked = job.marked
    BY <1>2, <2>1
  <2> QED BY <2>1, <2>2, <2>3, StartKeeps
<1>5. CASE ExecStart
  <2>1. /\ At("Table") /\ \E plan : job' = [job EXCEPT !.plan = plan, !.at = "Work"]
        /\ entry' = [AtRest EXCEPT !.pc = "Pause"] \/ entry' = Failed
        /\ UNCHANGED <<taking, cells, inbox, op>>
    BY <1>5 DEF ExecStart, PreflightFails, Quiet, stores
  <2>2. EntryIs(entry') /\ ~On("Idle")' /\ ~On("Session")'
    <3>1. CASE entry' = Failed
      BY <3>1, EntriesAre DEF On
    <3>2. CASE entry' = [AtRest EXCEPT !.pc = "Pause"]
      BY <3>2, EntriesAre DEF On
    <3> QED BY <2>1, <3>1, <3>2
  <2>3. /\ DOMAIN job' = DOMAIN job /\ job'.at = "Work" /\ job'.marked = job.marked
        /\ job'.kind = job.kind
    BY <1>1, <2>1 DEF JobShape
  <2>4. On("Idle") /\ job.kind # "FlashPhys"
    BY <1>1, <2>1 DEF Busy, At
  <2> QED BY <2>1, <2>2, <2>3, <2>4, StartKeeps
<1>6. CASE CloseWizard \/ Leave
  <2>1. /\ UNCHANGED <<entry, taking, cells, inbox, op>> /\ job.at \in {"Table", "Done"}
        /\ \/ job' = [job EXCEPT !.at = "Idle"]
           \/ job' = [job EXCEPT !.at = "Idle", !.result = "None"]
    BY <1>6 DEF CloseWizard, Leave, Screen, At, entryVars, channel, stores
  <2>2. DOMAIN job' = DOMAIN job /\ job'.at = "Idle" /\ job'.marked = job.marked
    BY <1>1, <2>1 DEF JobShape
  <2> QED BY <2>1, <2>2, ScreenKeeps
<1>7. CASE \/ \E i \in Indices : ToggleRow(i) \/ PickRowFile(i)
           \/ \E p \in picker : RowFileChosen(p)
           \/ SortBy
  <2>1. UNCHANGED <<entry, taking, cells, inbox, op, job>>
    BY <1>7 DEF ToggleRow, PickRowFile, RowFileChosen, SortBy, Screen, entryVars, channel, stores
  <2> QED BY <2>1, ScreenKeeps
<1> QED BY <1>3, <1>4, <1>5, <1>6, <1>7 DEF User

LEMMA TransferStep == ASSUME TransferInv, [TransferNext]_transferVars PROVE TransferInv'
<1>1. CASE UNCHANGED transferVars
  BY <1>1 DEF transferVars, entryVars, jobVars, channel, stores, TransferInv, JobShape, Busy, Clean, Working,
     On, At
<1> QED BY <1>1, WorldKeeps, ServeKeeps, HostKeeps, ScanKeeps, RowsKeep, WorkKeeps, FailuresKeep, UserKeeps
        DEF TransferNext, Worker, Exchange, Transfer

\* mark_writes_started: for any LUNs, wizards, loss of messages and number of jobs,
\* a worker that fails before it announced its writes leaves the device as it was.
THEOREM NothingUnannounced == TransferSpec => []UnmarkedMeansUntouched
<1>1. TransferInv /\ [TransferNext]_transferVars => TransferInv'
  BY TransferStep
<1>2. TransferInv => UnmarkedMeansUntouched
  BY DEF TransferInv, Clean, UnmarkedMeansUntouched
<1> QED BY <1>1, <1>2, InitTransfers, PTL DEF TransferSpec

-----------------------------------------------------------------------------
(* What is on the channel and in the table, by types.                      *)

Token == [k : {"Ack", "Nak", "Data"}, of : LUNs \cup {NoLun}]
Sent  == [cmd : Commands \cup {"Raw"}, lun : LUNs \cup {NoLun}, file : File, whole : BOOLEAN]

TransferTypes ==
  /\ job \in Job /\ op \in Op /\ (op.cmd \in {"Read", "Program", "Erase"} => op.lun \in LUNs)
  /\ At("Scan") /\ op.cmd = "Read" => job.next # <<>>
  /\ wire \in Seq(Token) /\ inbox \in Seq(Sent) /\ taking \in LUNs \cup {NoLun}
  /\ rows \in Seq(Row) /\ picker \subseteq [index : Nat, row : LUNs]
  /\ DOMAIN cells = LUNs /\ DOMAIN dumps = LUNs

LEMMA LunsAre == NLuns \in Nat \ {0} /\ LUNs \subseteq Nat /\ NoLun \in Nat /\ NoLun \notin LUNs /\ NoFile \in File
BY TransferAssumption DEF LUNs, NoLun, NoFile, File

LEMMA TokensTyped ==
  /\ Ack \in Token /\ Nak \in Token
  /\ \A lun \in LUNs \cup {NoLun} : Data(lun) \in Token
  /\ \A cmd \in Commands, lun \in LUNs \cup {NoLun} : Message(cmd, lun) \in Sent
  /\ NoOp \in Op
BY LunsAre DEF Ack, Nak, Data, Token, Message, Sent, NoOp, Op, Commands, File, NoFile

\* A command that is sent, and its message.
LEMMA CommandTyped ==
  ASSUME TransferTypes, NEW cmd \in Commands \ {"None"}, NEW lun \in LUNs \cup {NoLun}, NEW file \in File,
         cmd \in {"Read", "Program", "Erase"} => lun \in LUNs, Command(cmd, lun, file, "First")
  PROVE  /\ op' \in Op /\ (op'.cmd \in {"Read", "Program", "Erase"} => op'.lun \in LUNs)
         /\ inbox' \in Seq(Sent)
<1>1. Message(cmd, lun) \in Sent
  BY TokensTyped
<1>2. inbox' \in Seq(Sent)
  BY <1>1 DEF Command, Sends, TransferTypes
<1>3. op' = [cmd |-> cmd, lun |-> lun, file |-> file, stage |-> "First", got |-> NoLun]
  BY DEF Command
<1> QED BY <1>2, <1>3 DEF Op

LEMMA TypesOfWorld == ASSUME TransferTypes, World \/ Entering PROVE TransferTypes'
<1>1. /\ UNCHANGED <<job, rows, picker, op, cells, dumps>>
      /\ wire' = wire \/ wire' = <<>>
      /\ inbox' = inbox \/ inbox' = <<>>
      /\ taking' = taking \/ taking' = NoLun
  BY DEF World, Entering, jobVars, stores
<1>2. <<>> \in Seq(Token) /\ <<>> \in Seq(Sent)
  OBVIOUS
<1> QED BY <1>1, <1>2 DEF TransferTypes, At

LEMMA TypesOfServe == ASSUME TransferTypes, Serve PROVE TransferTypes'
<1>1. inbox \in Seq(Sent) /\ inbox # <<>> /\ wire \in Seq(Token) /\ taking \in LUNs \cup {NoLun}
  BY DEF Serve, TransferTypes
<1>2. PICK m : m = Head(inbox)
  OBVIOUS
<1>3. m \in Sent /\ Tail(inbox) \in Seq(Sent)
  BY <1>1, <1>2
<1>4. /\ UNCHANGED <<job, rows, picker, op, dumps>> /\ (inbox' = <<>> \/ inbox' = Tail(inbox))
      /\ IF taking # NoLun THEN Takes(m) ELSE Serves(m)
  BY <1>2 DEF Serve, jobVars
<1>5. wire' \in Seq(Token)
  <2>1. \/ wire' = wire \o <<Ack>> \/ wire' = wire \o <<Nak>> \/ wire' = wire \o <<Ack, Data(m.lun), Ack>>
    BY <1>4 DEF Takes, Serves, Says
  <2>2. Data(m.lun) \in Token
    BY <1>3, TokensTyped DEF Sent
  <2>3. <<Ack>> \in Seq(Token) /\ <<Nak>> \in Seq(Token) /\ <<Ack, Data(m.lun), Ack>> \in Seq(Token)
    BY <2>2, TokensTyped
  <2>4. PICK says \in Seq(Token) : wire' = wire \o says
    BY <2>1, <2>3
  <2> QED BY <1>1, <2>4
<1>6. taking' \in LUNs \cup {NoLun}
  BY <1>1, <1>3, <1>4 DEF Takes, Serves, Sent
<1>7. DOMAIN cells' = DOMAIN cells
  BY <1>4 DEF Takes, Serves
<1>8. inbox' \in Seq(Sent)
  <2>1. <<>> \in Seq(Sent)
    OBVIOUS
  <2> QED BY <1>3, <1>4, <2>1
<1> QED BY <1>4, <1>5, <1>6, <1>7, <1>8 DEF TransferTypes, At

LEMMA TypesOfHost ==
  ASSUME TransferTypes, FirstReply \/ RecoverEdl \/ ReadData \/ SendData \/ LastReply
  PROVE  TransferTypes'
<1>1. /\ op \in Op /\ wire \in Seq(Token) /\ inbox \in Seq(Sent)
      /\ UNCHANGED <<job, rows, picker, taking, cells>>
  BY DEF TransferTypes, FirstReply, RecoverEdl, ReadData, SendData, LastReply, Host, jobVars
<1>2. wire' \in Seq(Token)
  <2>1. \/ UNCHANGED wire
        \/ wire # <<>> /\ wire' = Tail(wire)
        \/ wire' = SubSeq(wire, 3, Len(wire))
    BY DEF FirstReply, RecoverEdl, ReadData, SendData, LastReply, Hears, HearsNoise, Silent
  <2>2. wire # <<>> => Tail(wire) \in Seq(Token)
    BY <1>1
  <2>3. SubSeq(wire, 3, Len(wire)) \in Seq(Token)
    BY <1>1
  <2> QED BY <1>1, <2>1, <2>2, <2>3
<1>3. inbox' \in Seq(Sent)
  <2>1. UNCHANGED inbox \/ Sends(Message("Power", NoLun))
        \/ \E whole \in BOOLEAN : Sends([cmd |-> "Raw", lun |-> op.lun, file |-> op.file, whole |-> whole])
    BY DEF FirstReply, RecoverEdl, ReadData, SendData, LastReply
  <2>2. Message("Power", NoLun) \in Sent
    BY TokensTyped DEF Commands
  <2>3. \A whole \in BOOLEAN : [cmd |-> "Raw", lun |-> op.lun, file |-> op.file, whole |-> whole] \in Sent
    BY <1>1 DEF Op, Sent
  <2>4. UNCHANGED inbox \/ \E m \in Sent : Sends(m)
    BY <2>1, <2>2, <2>3
  <2> QED BY <1>1, <2>4 DEF Sends
<1>4. op' \in Op /\ op'.cmd = op.cmd /\ op'.lun = op.lun
  <2>1. \/ op' = op
        \/ \E stage \in {"Data", "Last", "Recover", "Ok", "Err"} : op' = [op EXCEPT !.stage = stage]
        \/ wire # <<>> /\ op' = [op EXCEPT !.stage = "Last", !.got = Head(wire).of]
    BY DEF FirstReply, RecoverEdl, ReadData, SendData, LastReply, Stage
  <2>2. wire # <<>> => Head(wire).of \in LUNs \cup {NoLun}
    <3>1. wire # <<>> => Head(wire) \in Token
      BY <1>1
    <3> QED BY <3>1 DEF Token
  <2> QED BY <1>1, <2>1, <2>2 DEF Op
<1>5. DOMAIN dumps' = DOMAIN dumps
  BY DEF FirstReply, RecoverEdl, ReadData, SendData, LastReply
<1> QED BY <1>1, <1>2, <1>3, <1>4, <1>5 DEF TransferTypes, At

\* The row the worker is at.
LEMMA CurrentTyped == ASSUME TransferTypes, Left PROVE job.row \in DOMAIN job.plan /\ Current \in Row
<1>1. job.plan \in Seq(Row) /\ job.row \in Nat \ {0} /\ job.row <= Len(job.plan)
  BY DEF TransferTypes, Job, Left
<1>2. job.row \in 1..Len(job.plan)
  BY <1>1
<1> QED BY <1>1, <1>2 DEF Current

LEMMA TypesOfWork == ASSUME TransferTypes, Scanning \/ Transfer \/ EntryFailed PROVE TransferTypes'
<1>1. /\ job \in Job /\ op \in Op /\ wire \in Seq(Token) /\ inbox \in Seq(Sent)
      /\ job.next \in Seq(LUNs) /\ rows \in Seq(Row) /\ job.row \in Nat \ {0}
  BY DEF TransferTypes, Job
<1>2. UNCHANGED <<picker, taking, cells, dumps>>
  BY DEF Scanning, Transfer, EntryFailed, ReadGpt, GptRead, Bounce, ScanDone, FlashRow, EraseRow, DumpRow,
         MeasureLun, Measured, FlashLun, DumpLun, SourceVanished, NoFolder, RowDone, DumpFailed, FlashFailed,
         ResetSystem, ExecDone, Tries, Returns, Quiet, channel, stores, jobVars
<1>3. wire' \in Seq(Token)
  <2>1. UNCHANGED wire \/ wire' = <<>>
    BY DEF Scanning, Transfer, EntryFailed, ReadGpt, GptRead, Bounce, ScanDone, FlashRow, EraseRow, DumpRow,
         MeasureLun, Measured, FlashLun, DumpLun, SourceVanished, NoFolder, RowDone, DumpFailed, FlashFailed,
         ResetSystem, ExecDone, Tries, Returns, Quiet, channel
  <2>2. <<>> \in Seq(Token)
    OBVIOUS
  <2> QED BY <1>1, <2>1, <2>2
<1>4. /\ op' \in Op /\ (op'.cmd \in {"Read", "Program", "Erase"} => op'.lun \in LUNs)
      /\ inbox' \in Seq(Sent)
  <2>1. CASE UNCHANGED <<op, inbox>>
    BY <2>1 DEF TransferTypes
  <2>2. CASE op' = NoOp /\ UNCHANGED inbox
    BY <1>1, <2>2, TokensTyped DEF NoOp
  <2>3. CASE Refused
    BY <1>1, <2>3, TokensTyped DEF Refused, NoOp, Op
  <2>4. CASE \/ Command("Power", NoLun, NoFile, "First")
             \/ job.next # <<>> /\ Command("Read", Head(job.next), NoFile, "First")
             \/ Left /\ \E cmd \in {"Read", "Program", "Erase"}, file \in {NoFile, Current.file} :
                          Command(cmd, Current.lun, file, "First")
    <3>1. CASE Command("Power", NoLun, NoFile, "First")
      BY <3>1, LunsAre, CommandTyped DEF Commands
    <3>2. CASE job.next # <<>> /\ Command("Read", Head(job.next), NoFile, "First")
      <4>1. PICK lun : lun = Head(job.next)
        OBVIOUS
      <4>2. lun \in LUNs
        BY <1>1, <3>2, <4>1
      <4> QED BY <3>2, <4>1, <4>2, LunsAre, CommandTyped DEF Commands
    <3>3. ASSUME Left, NEW cmd \in {"Read", "Program", "Erase"}, NEW file \in {NoFile, Current.file},
                 Command(cmd, Current.lun, file, "First")
          PROVE  /\ op' \in Op /\ (op'.cmd \in {"Read", "Program", "Erase"} => op'.lun \in LUNs)
                 /\ inbox' \in Seq(Sent)
      <4>1. PICK lun, f : lun = Current.lun /\ f = file
        OBVIOUS
      <4>2. lun \in LUNs /\ f \in File
        BY <3>3, <4>1, CurrentTyped, LunsAre DEF Row
      <4> QED BY <3>3, <4>1, <4>2, CommandTyped DEF Commands
    <3> QED BY <2>4, <3>1, <3>2, <3>3
  <2> QED
    BY <2>1, <2>2, <2>3, <2>4
    DEF Scanning, Transfer, EntryFailed, ReadGpt, GptRead, Bounce, ScanDone, FlashRow, EraseRow, DumpRow,
        MeasureLun, Measured, FlashLun, DumpLun, SourceVanished, NoFolder, RowDone, DumpFailed, FlashFailed,
        ResetSystem, ExecDone, Tries, Returns, Quiet, channel
<1>5. job' \in Job
  <2>1. \/ UNCHANGED job
        \/ \E at \in {"Bounce", "Idle", "Table", "Reset"} : job' = [job EXCEPT !.at = at]
        \/ \E result \in {"Ok", "Err"} : job' = [job EXCEPT !.at = "Done", !.result = result]
        \/ job' = [job EXCEPT !.marked = TRUE] \/ job' = [job EXCEPT !.measured = TRUE]
        \/ \E failed \in {TRUE, job.failed} :
             job' = [job EXCEPT !.row = @ + 1, !.measured = FALSE, !.failed = failed]
        \/ job.next # <<>> /\ job' = [job EXCEPT !.next = Tail(@)]
    BY DEF Scanning, Transfer, EntryFailed, ReadGpt, GptRead, Bounce, ScanDone, FlashRow, EraseRow, DumpRow,
        MeasureLun, Measured, FlashLun, DumpLun, SourceVanished, NoFolder, RowDone, DumpFailed, FlashFailed,
        ResetSystem, ExecDone, Tries, Returns, Marks, Onward, jobVars, TransferTypes, At
  <2>2. job.next # <<>> => Tail(job.next) \in Seq(LUNs)
    BY <1>1
  <2>3. ASSUME job.next # <<>>, job' = [job EXCEPT !.next = Tail(@)] PROVE job' \in Job
    BY <1>1, <2>2, <2>3 DEF Job
  <2>4. ASSUME NEW failed \in BOOLEAN, job' = [job EXCEPT !.row = @ + 1, !.measured = FALSE, !.failed = failed]
        PROVE  job' \in Job
    <3>1. job.row + 1 \in Nat \ {0}
      BY <1>1
    <3> QED BY <1>1, <2>4, <3>1 DEF Job
  <2>5. job.failed \in BOOLEAN
    BY <1>1 DEF Job
  <2> QED BY <1>1, <2>1, <2>3, <2>4, <2>5 DEF Job
<1>6. rows' \in Seq(Row)
  <2>1. UNCHANGED rows \/ (op.cmd = "Read" /\ op.got # NoLun /\ rows' = Append(rows, NewRow(op.got, op.lun)))
    BY DEF Scanning, Transfer, EntryFailed, ReadGpt, GptRead, Bounce, ScanDone, FlashRow, EraseRow, DumpRow,
        MeasureLun, Measured, FlashLun, DumpLun, SourceVanished, NoFolder, RowDone, DumpFailed, FlashFailed,
        ResetSystem, ExecDone, Tries, Returns, Marks, Onward, jobVars
  <2>2. op.cmd = "Read" => op.lun \in LUNs /\ op.got \in LUNs \cup {NoLun}
    BY DEF TransferTypes, Op
  <2>3. \A label \in LUNs, lun \in LUNs : NewRow(label, lun) \in Row
    BY LunsAre DEF NewRow, Row, States
  <2>4. UNCHANGED rows \/ \E row \in Row : rows' = Append(rows, row)
    BY <2>1, <2>2, <2>3
  <2>5. ASSUME NEW row \in Row, rows' = Append(rows, row) PROVE rows' \in Seq(Row)
    BY <1>1, <2>5
  <2> QED BY <1>1, <2>4, <2>5
<1>7. At("Scan")' /\ op'.cmd = "Read" => job'.next # <<>>
  <2>1. \/ UNCHANGED <<job, op>> \/ (job.next # <<>> /\ UNCHANGED job) \/ op' = NoOp \/ ~At("Scan")'
    BY DEF Scanning, Transfer, EntryFailed, ReadGpt, GptRead, Bounce, ScanDone, FlashRow, EraseRow, DumpRow,
        MeasureLun, Measured, FlashLun, DumpLun, SourceVanished, NoFolder, RowDone, DumpFailed, FlashFailed,
        ResetSystem, ExecDone, Tries, Returns, Marks, Onward, jobVars, channel, TransferTypes, Job, At
  <2> QED BY <2>1 DEF TransferTypes, NoOp, At
<1> QED BY <1>2, <1>3, <1>4, <1>5, <1>6, <1>7 DEF TransferTypes

\* One pass over the table, or over the chosen LUNs: rows of theirs, each but once.
LEMMA AscendingIs ==
  ASSUME NEW S, S \subseteq Nat, IsFiniteSet(S), NEW order \in Ascending(S)
  PROVE  /\ \E n \in Nat : DOMAIN order = 1..n
         /\ \A k \in DOMAIN order : order[k] \in S
         /\ \A i, j \in DOMAIN order : i # j => order[i] # order[j]
<1>1. PICK n \in Nat : n = Cardinality(S)
  BY FS_CardinalityType
<1>2. DOMAIN order = 1..n /\ \A k \in DOMAIN order : order[k] \in S
  BY <1>1 DEF Ascending
<1>3. ASSUME NEW i \in DOMAIN order, NEW j \in DOMAIN order, i # j PROVE order[i] # order[j]
  <2>1. order[i] \in Nat /\ order[j] \in Nat
    BY <1>2, <1>3
  <2>2. i < j \/ j < i
    <3>1. i \in 1..n /\ j \in 1..n
      BY <1>2, <1>3
    <3> QED BY <1>3, <3>1
  <2>3. order[i] < order[j] \/ order[j] < order[i]
    BY <2>2 DEF Ascending
  <2> QED BY <2>1, <2>3
<1> QED BY <1>1, <1>2, <1>3

Distinct(table) ==
  \A i, j \in DOMAIN table : i # j => table[i].label # table[j].label /\ table[i].lun # table[j].lun

LEMMA FiniteIndices == ASSUME NEW n \in Nat, NEW S, S \subseteq 0..n PROVE IsFiniteSet(S)
<1>1. IsFiniteSet(0..n)
  BY FS_Interval
<1> QED BY <1>1, FS_Subset

LEMMA ActiveRowsAre ==
  ASSUME rows \in Seq(Row), NEW plan \in ActiveRows
  PROVE  plan \in Seq(Row) /\ (Distinct(rows) => Distinct(plan))
<1> DEFINE S == {i \in Indices : Active(rows[i])}
<1>1. Len(rows) \in Nat /\ Indices = 1..Len(rows) /\ DOMAIN rows = 1..Len(rows)
  BY DEF Indices
<1>2. S \subseteq Nat /\ S \subseteq 1..Len(rows)
  BY <1>1
<1>3. IsFiniteSet(S)
  <2>1. PICK n \in Nat : n = Len(rows)
    BY <1>1
  <2>2. S \subseteq 0..n
    BY <1>2, <2>1
  <2> HIDE DEF S
  <2> QED BY <2>2, FiniteIndices
<1>4. PICK order \in Ascending(S) : plan = [k \in DOMAIN order |-> rows[order[k]]]
  BY DEF ActiveRows, Indices
<1> HIDE DEF S
<1>5. /\ \E n \in Nat : DOMAIN order = 1..n
      /\ \A k \in DOMAIN order : order[k] \in S
      /\ \A i, j \in DOMAIN order : i # j => order[i] # order[j]
  BY <1>2, <1>3, AscendingIs
<1>6. \A k \in DOMAIN order : order[k] \in DOMAIN rows /\ rows[order[k]] \in Row
  <2>1. \A i \in DOMAIN rows : rows[i] \in Row
    BY <1>1
  <2>2. \A k \in DOMAIN order : order[k] \in DOMAIN rows
    BY <1>1, <1>2, <1>5
  <2> QED BY <2>1, <2>2
<1>7. plan \in Seq(Row)
  BY <1>4, <1>5, <1>6
<1>8. Distinct(rows) => Distinct(plan)
  BY <1>1, <1>4, <1>5, <1>6 DEF Distinct
<1> QED BY <1>7, <1>8

LEMMA LunRowsAre ==
  ASSUME NEW kind, NEW luns \in SUBSET LUNs, NEW order \in Ascending(luns),
         NEW table, table = [k \in DOMAIN order |-> LunRow(order[k], Image(kind, order[k]))]
  PROVE  table \in Seq(Row) /\ Distinct(table) /\ \A i \in DOMAIN table : table[i].state = "Flash"
<1>1. luns \subseteq Nat /\ IsFiniteSet(luns)
  <2>1. NLuns - 1 \in Nat /\ luns \subseteq 0..(NLuns - 1)
    BY LunsAre DEF LUNs
  <2> QED BY <2>1, LunsAre, FiniteIndices
<1>2. /\ \E n \in Nat : DOMAIN order = 1..n
      /\ \A k \in DOMAIN order : order[k] \in luns
      /\ \A i, j \in DOMAIN order : i # j => order[i] # order[j]
  BY <1>1, AscendingIs
<1>3. \A lun \in LUNs : LunRow(lun, Image(kind, lun)) \in Row
  BY LunsAre DEF LunRow, Image, Row, File, States
<1>4. table \in Seq(Row)
  BY <1>2, <1>3
<1>5. \A k \in DOMAIN table : /\ table[k].label = order[k] /\ table[k].lun = order[k]
                              /\ table[k].state = "Flash"
  BY DEF LunRow
<1> QED BY <1>2, <1>4, <1>5 DEF Distinct

LEMMA RowsTyped ==
  ASSUME TransferTypes,
         \/ \E i \in Indices : ToggleRow(i) \/ PickRowFile(i)
         \/ \E p \in picker : RowFileChosen(p)
         \/ SortBy
  PROVE  /\ rows' \in Seq(Row) /\ picker' \subseteq [index : Nat, row : LUNs]
         /\ Distinct(rows) => Distinct(rows')
<1>1. /\ rows \in Seq(Row) /\ Len(rows) \in Nat /\ DOMAIN rows = 1..Len(rows) /\ Indices = 1..Len(rows)
      /\ picker \subseteq [index : Nat, row : LUNs]
  BY DEF TransferTypes, Indices
<1>2. ASSUME NEW i \in Indices, ToggleRow(i) PROVE rows' \in Seq(Row) /\ (Distinct(rows) => Distinct(rows'))
  <2>1. rows' = [rows EXCEPT ![i].state = Cycle(@)] /\ rows[i] \in Row
    BY <1>1, <1>2 DEF ToggleRow
  <2>2. \A s : Cycle(s) \in States
    BY DEF Cycle, States
  <2>3. rows' = [rows EXCEPT ![i] = [rows[i] EXCEPT !.state = Cycle(rows[i].state)]]
    BY <2>1
  <2>4. PICK row : row = [rows[i] EXCEPT !.state = Cycle(rows[i].state)]
    OBVIOUS
  <2>5. row \in Row /\ row.label = rows[i].label /\ row.lun = rows[i].lun
    BY <2>1, <2>2, <2>4 DEF Row
  <2> QED BY <1>1, <1>2, <2>3, <2>4, <2>5 DEF Distinct
<1>3. ASSUME NEW p \in picker, RowFileChosen(p) PROVE rows' \in Seq(Row) /\ (Distinct(rows) => Distinct(rows'))
  <2>1. CASE p.index \notin Indices
    BY <1>1, <1>3, <2>1 DEF RowFileChosen
  <2>2. CASE p.index \in Indices
    <3>1. PICK i \in Indices : i = p.index
      BY <2>2
    <3>2. PICK row : row = [rows[i] EXCEPT !.file = p.row, !.state = "Flash"]
      OBVIOUS
    <3>3. rows' = [rows EXCEPT ![i] = row]
      BY <1>3, <2>2, <3>1, <3>2 DEF RowFileChosen
    <3>4. row \in Row /\ row.label = rows[i].label /\ row.lun = rows[i].lun
      <4>1. PICK old \in Row : old = rows[i]
        BY <1>1
      <4>2. PICK file \in File : file = p.row
        BY <1>1 DEF File
      <4> QED BY <3>2, <4>1, <4>2 DEF Row, States
    <3> QED BY <1>1, <3>3, <3>4 DEF Distinct
  <2> QED BY <2>1, <2>2
<1>4. CASE SortBy
  <2>1. rows' = [i \in 1..Len(rows) |-> rows[(Len(rows) - i) + 1]]
    BY <1>1, <1>4 DEF SortBy, Reverse
  <2>2. \A i \in 1..Len(rows) : (Len(rows) - i) + 1 \in 1..Len(rows)
    BY <1>1
  <2>3. rows' \in Seq(Row) /\ DOMAIN rows' = 1..Len(rows)
    BY <1>1, <2>1, <2>2
  <2>4. \A i, j \in 1..Len(rows) : i # j => (Len(rows) - i) + 1 # (Len(rows) - j) + 1
    BY <1>1
  <2>5. ASSUME Distinct(rows), NEW i \in DOMAIN rows', NEW j \in DOMAIN rows', i # j
        PROVE  (rows'[i]).label # (rows'[j]).label /\ (rows'[i]).lun # (rows'[j]).lun
    <3>1. PICK a, b : a = (Len(rows) - i) + 1 /\ b = (Len(rows) - j) + 1
      OBVIOUS
    <3>2. a \in DOMAIN rows /\ b \in DOMAIN rows /\ a # b /\ rows'[i] = rows[a] /\ rows'[j] = rows[b]
      BY <1>1, <2>1, <2>2, <2>3, <2>4, <2>5, <3>1
    <3> QED BY <2>5, <3>2 DEF Distinct
  <2> QED BY <1>1, <1>4, <2>3, <2>5 DEF SortBy, Distinct
<1>5. ASSUME NEW i \in Indices, PickRowFile(i) PROVE UNCHANGED rows /\ picker' \subseteq [index : Nat, row : LUNs]
  <2>1. rows[i] \in Row /\ i \in Nat
    BY <1>1
  <2> QED BY <1>5, <2>1 DEF PickRowFile, Row
<1>6. (SortBy \/ (\E i \in Indices : ToggleRow(i)) \/ \E p \in picker : RowFileChosen(p))
        => picker' \subseteq [index : Nat, row : LUNs]
  BY <1>1 DEF SortBy, ToggleRow, RowFileChosen
<1> QED BY <1>1, <1>2, <1>3, <1>4, <1>5, <1>6

LEMMA TypesOfUser == ASSUME TransferInv, TransferTypes, User PROVE TransferTypes'
<1>1. /\ job \in Job /\ rows \in Seq(Row) /\ picker \subseteq [index : Nat, row : LUNs]
      /\ Busy
  BY DEF TransferTypes, TransferInv
<1>2. UNCHANGED <<op, wire, inbox, taking, cells, dumps>>
  BY DEF User, ScanStart, PhysStart, ToggleRow, PickRowFile, RowFileChosen, SortBy, ExecStart, CloseWizard,
         Leave, Screen, Quiet, channel, stores
<1>3. ASSUME NEW kind \in Wizards, NEW at \in {"Scan", "Work"}, NEW table \in Seq(Row), Begins(kind, at, table)
      PROVE  job' \in Job
  <2>1. [i \in 1..NLuns |-> i - 1] \in Seq(LUNs)
    BY LunsAre DEF LUNs
  <2>2. PICK next \in Seq(LUNs) : next = [i \in 1..NLuns |-> i - 1]
    BY <2>1
  <2>3. job' = [job EXCEPT !.kind = kind, !.at = at, !.next = next, !.plan = table, !.row = 1,
                           !.measured = FALSE, !.failed = FALSE, !.result = "None"]
    BY <1>3, <2>2 DEF Begins
  <2>4. 1 \in Nat \ {0}
    OBVIOUS
  <2> QED BY <1>1, <1>3, <2>3, <2>4 DEF Job
<1>4. job' \in Job
  <2>1. CASE \E kind \in Wizards, conn \in Connections : ScanStart(kind, conn)
    <3>1. <<>> \in Seq(Row)
      OBVIOUS
    <3> QED BY <1>3, <2>1, <3>1 DEF ScanStart
  <2>2. ASSUME NEW kind \in Wizards, NEW conn \in Connections, NEW luns \in SUBSET LUNs,
               PhysStart(kind, conn, luns)
        PROVE  job' \in Job
    <3>1. PICK order \in Ascending(luns) :
            Begins(kind, "Work", [k \in DOMAIN order |-> LunRow(order[k], Image(kind, order[k]))])
      BY <2>2 DEF PhysStart
    <3>2. PICK table : table = [k \in DOMAIN order |-> LunRow(order[k], Image(kind, order[k]))]
      OBVIOUS
    <3>3. table \in Seq(Row)
      BY <3>2, LunRowsAre
    <3> QED BY <1>3, <3>1, <3>2, <3>3
  <2>3. CASE ExecStart
    <3>1. PICK plan \in ActiveRows : job' = [job EXCEPT !.plan = plan, !.at = "Work"]
      BY <2>3 DEF ExecStart
    <3>2. plan \in Seq(Row)
      BY <1>1, ActiveRowsAre
    <3> QED BY <1>1, <3>1, <3>2 DEF Job
  <2>4. \/ UNCHANGED job \/ job' = [job EXCEPT !.at = "Idle"] \/ job' = [job EXCEPT !.at = "Idle", !.result = "None"]
        \/ (\E kind \in Wizards, conn \in Connections : ScanStart(kind, conn)) \/ ExecStart
        \/ \E kind \in Wizards, conn \in Connections, luns \in (SUBSET LUNs) \ {{}} : PhysStart(kind, conn, luns)
    BY DEF User, ToggleRow, PickRowFile, RowFileChosen, SortBy, CloseWizard, Leave
  <2>5. ASSUME \/ UNCHANGED job \/ job' = [job EXCEPT !.at = "Idle"]
               \/ job' = [job EXCEPT !.at = "Idle", !.result = "None"]
        PROVE  job' \in Job
    BY <1>1, <2>5 DEF Job
  <2> QED BY <2>1, <2>2, <2>3, <2>4, <2>5
<1>5. rows' \in Seq(Row) /\ picker' \subseteq [index : Nat, row : LUNs]
  <2>1. <<>> \in Seq(Row)
    OBVIOUS
  <2>2. \/ UNCHANGED <<rows, picker>> \/ (rows' = <<>> /\ UNCHANGED picker)
        \/ \E i \in Indices : ToggleRow(i) \/ PickRowFile(i)
        \/ \E p \in picker : RowFileChosen(p)
        \/ SortBy
    BY DEF User, ScanStart, PhysStart, ExecStart, CloseWizard, Leave
  <2> QED BY <1>1, <2>1, <2>2, RowsTyped
<1>6. At("Scan")' /\ op'.cmd = "Read" => job'.next # <<>>
  <2>1. UNCHANGED job \/ On("Idle") \/ job.at \in {"Table", "Done"}
    BY DEF User, ScanStart, PhysStart, ExecStart, ToggleRow, PickRowFile, RowFileChosen, SortBy, CloseWizard,
           Leave, EnsureEdl, At
  <2>2. On("Idle") \/ job.at \in {"Table", "Done"} => op = NoOp
    BY <1>1 DEF Busy, Working, On
  <2> QED BY <1>2, <2>1, <2>2 DEF TransferTypes, NoOp, At
<1> QED BY <1>2, <1>4, <1>5, <1>6 DEF TransferTypes

LEMMA InitTypes == TransferInit => TransferTypes
<1> SUFFICES ASSUME TransferInit PROVE TransferTypes
  OBVIOUS
<1>1. (CHOOSE k \in Wizards : TRUE) \in Wizards
  BY TransferAssumption
<1>2. <<>> \in Seq(LUNs) /\ <<>> \in Seq(Row) /\ <<>> \in Seq(Token) /\ <<>> \in Seq(Sent)
  OBVIOUS
<1>3. job \in Job
  <2>1. PICK first \in Wizards : first = CHOOSE k \in Wizards : TRUE
    BY <1>1
  <2>2. job \in [kind : {first}, at : {"Idle"}, next : {<<>>}, plan : {<<>>}, row : {1},
                 measured : {FALSE}, failed : {FALSE}, marked : {FALSE}, result : {"None"}]
    BY <2>1 DEF TransferInit
  <2>3. 1 \in Nat \ {0}
    OBVIOUS
  <2> QED BY <1>2, <2>2, <2>3 DEF Job
<1>4. /\ op = NoOp /\ wire = <<>> /\ inbox = <<>> /\ taking = NoLun /\ rows = <<>> /\ picker = {}
      /\ DOMAIN cells = LUNs /\ DOMAIN dumps = LUNs
  BY DEF TransferInit
<1> QED BY <1>2, <1>3, <1>4, TokensTyped DEF TransferTypes, NoOp

LEMMA TypesStep == ASSUME TransferInv, TransferTypes, [TransferNext]_transferVars PROVE TransferTypes'
<1>1. CASE UNCHANGED transferVars
  BY <1>1 DEF transferVars, jobVars, channel, stores, TransferTypes, At
<1> QED BY <1>1, TypesOfWorld, TypesOfServe, TypesOfHost, TypesOfWork, TypesOfUser DEF TransferNext, Worker, Exchange

-----------------------------------------------------------------------------
(* A device that no programmer runs on has been told nothing, and what a   *)
(* session begins with is a programmer just uploaded.                      *)

Greeting == {"Hello", "Nudge", "Configure", "Session"}
LinkInv ==
  /\ "at" \in DOMAIN phone
  /\ ~Alive => inbox = <<>> /\ taking = NoLun
  /\ entry.pc \in Greeting /\ entry.handle # "Live" => ~Alive
  /\ On("Configure") => inbox = <<>> /\ taking = NoLun

LEMMA InitLink == TransferInit => LinkInv
<1> SUFFICES ASSUME TransferInit PROVE LinkInv
  OBVIOUS
<1>1. phone \in Phone /\ entry = AtRest /\ inbox = <<>> /\ taking = NoLun
  BY DEF TransferInit, EntryInit
<1> QED BY <1>1 DEF LinkInv, Phone, AtRest, Greeting, On

LEMMA LinkOfWorld == ASSUME LinkInv, World PROVE LinkInv'
<1>1. /\ "at" \in DOMAIN phone /\ UNCHANGED entry
      /\ IF phone'.at = "Dark" THEN inbox' = <<>> /\ taking' = NoLun ELSE UNCHANGED <<inbox, taking>>
  BY DEF LinkInv, World, Surroundings, Boots, Unplugged, GhostGone, SpareMoves
<1>2. "at" \in DOMAIN phone' /\ (Alive' => Alive)
  <2>1. CASE Boots
    <3>1. phone'.at # "Firehose" /\ "at" \in DOMAIN phone'
      BY <2>1 DEF Boots
    <3> QED BY <3>1 DEF Alive
  <2>2. CASE Unplugged
    <3>1. phone'.at # "Firehose" /\ "at" \in DOMAIN phone'
      BY <1>1, <2>2 DEF Unplugged
    <3> QED BY <3>1 DEF Alive
  <2>3. CASE GhostGone \/ SpareMoves
    BY <1>1, <2>3 DEF GhostGone, SpareMoves, Alive
  <2> QED BY <2>1, <2>2, <2>3 DEF World, Surroundings
<1>3. phone'.at # "Dark" => UNCHANGED phone \/ ~Alive
  BY <1>1 DEF World, Surroundings, Boots, Unplugged, GhostGone, SpareMoves, Alive
<1> QED BY <1>1, <1>2, <1>3 DEF LinkInv, On, Alive

LEMMA LinkOfEntering == ASSUME TransferInv, LinkInv, Entering PROVE LinkInv'
<1>1. /\ "at" \in DOMAIN phone /\ EntryIs(entry) /\ UNCHANGED <<inbox, taking>> /\ Opening /\ "pc" \in DOMAIN entry
  BY DEF LinkInv, Entering, TransferInv, EntryIs
<1>2. ASSUME phone' = phone \/ (~Alive /\ phone'.at = "Dark" /\ "at" \in DOMAIN phone'),
             entry'.pc \notin Greeting
      PROVE  LinkInv'
  BY <1>1, <1>2 DEF LinkInv, Alive, On, Greeting
<1>3. /\ Waiting("Pause").pc = "Find" /\ Waiting("Setup").pc = "Find" /\ Failed.pc = "Failed"
  BY EntriesAre
<1>4. CASE AdbReboot
  BY <1>1, <1>2, <1>3, <1>4 DEF AdbReboot, Greeting, Alive
<1>5. CASE FastbootReboot
  BY <1>1, <1>2, <1>3, <1>5 DEF FastbootReboot, Greeting, Alive, Go
<1>6. CASE AdbWait
  BY <1>1, <1>2, <1>3, <1>6 DEF AdbWait, Greeting, Go, On
<1>7. CASE Find \/ Watch \/ Open \/ Pause
  BY <1>1, <1>2, <1>3, <1>7 DEF Find, Watch, Open, Pause, Greeting, Go, On, busVars, AtRest
<1>8. CASE Watched \/ Settle
  <2>1. \A name : [AtRest EXCEPT !.pc = entry.next, !.first = name].pc \in {"Pause", "Setup"}
    BY <1>1 DEF EntryIs, AtRest
  <2>2. entry'.pc \notin Greeting /\ UNCHANGED phone
    BY <1>1, <1>3, <1>8, <2>1 DEF Watched, Settle, Trust, busVars, On, Greeting
  <2> QED BY <1>2, <2>2
<1>9. CASE Setup
  <2>1. UNCHANGED phone /\ (entry' = Failed \/ entry' = [AtRest EXCEPT !.pc = "Hello", !.handle = Handle])
    BY <1>9 DEF Setup, busVars
  <2>2. CASE entry' = Failed
    BY <1>2, <1>3, <2>1, <2>2 DEF Greeting
  <2>3. CASE entry' = [AtRest EXCEPT !.pc = "Hello", !.handle = Handle]
    <3>1. entry'.pc = "Hello" /\ entry'.handle = Handle
      BY <2>3 DEF AtRest
    <3>2. Handle # "Live" => ~Alive
      BY DEF Handle, InEdl, Alive
    <3> QED BY <1>1, <2>1, <3>1, <3>2 DEF LinkInv, On, Alive
  <2> QED BY <2>1, <2>2, <2>3
<1>10. CASE GivesUp
  <2>1. entry'.pc = "Failed" /\ phone'.at = phone.at /\ "at" \in DOMAIN phone'
    BY <1>1, <1>3, <1>10 DEF GivesUp
  <2> QED BY <1>1, <2>1 DEF LinkInv, On, Alive, Greeting
<1>11. ASSUME Linked("Sahara"), Uploaded PROVE LinkInv'
  <2>1. phone'.at = "Firehose" /\ "at" \in DOMAIN phone' /\ entry'.pc = "Configure" /\ entry'.handle = "Live"
    BY <1>1, <1>11 DEF Uploaded, EntryIs, Linked
  <2>2. phone.at = "Sahara"
    BY <1>11 DEF Linked
  <2> QED BY <1>1, <2>1, <2>2 DEF LinkInv, On, Alive
<1>12. ASSUME UNCHANGED phone, entry.pc \in Greeting,
              \/ entry' = Failed \/ \E pc \in {"Nudge", "Session"} : entry' = [entry EXCEPT !.pc = pc]
              \/ entry' = [entry EXCEPT !.pc = "Configure"] /\ entry.handle = "Spare"
       PROVE  LinkInv'
  <2>1. CASE entry' = Failed
    BY <1>2, <1>3, <1>12, <2>1 DEF Greeting
  <2>2. CASE \E pc \in {"Nudge", "Session"} : entry' = [entry EXCEPT !.pc = pc]
    <3>1. entry'.pc \in {"Nudge", "Session"} /\ entry'.handle = entry.handle
      BY <1>1, <2>2 DEF EntryIs
    <3> QED BY <1>1, <1>12, <3>1 DEF LinkInv, On, Alive
  <2>3. CASE entry' = [entry EXCEPT !.pc = "Configure"] /\ entry.handle = "Spare"
    <3>1. entry'.pc = "Configure" /\ entry'.handle = entry.handle
      BY <1>1, <2>3 DEF EntryIs
    <3> QED BY <1>1, <1>12, <2>3, <3>1 DEF LinkInv, On, Alive
  <2> QED BY <1>12, <2>1, <2>2, <2>3
<1>13. CASE Hello
  BY <1>11, <1>12, <1>13 DEF Hello, SpareAnswers, Go, On, Greeting
<1>14. CASE Nudge
  BY <1>11, <1>12, <1>14 DEF Nudge, SpareAnswers, Go, On, Greeting
<1>15. CASE Configure
  BY <1>12, <1>15 DEF Configure, SpareAnswers, Go, On, Greeting, busVars
<1> QED BY <1>1, <1>4, <1>5, <1>6, <1>7, <1>8, <1>9, <1>10, <1>13, <1>14, <1>15 DEF Opening

LEMMA LinkOfServe == ASSUME LinkInv, Serve PROVE LinkInv'
<1>1. /\ "at" \in DOMAIN phone /\ UNCHANGED entry /\ ~On("Configure") /\ Alive
      /\ entry.pc \in Greeting => entry.handle = "Live"
  BY DEF LinkInv, Serve, Takes, Serves, entryVars
<1>2. CASE UNCHANGED phone
  BY <1>1, <1>2 DEF LinkInv, On, Alive
<1>3. CASE phone' # phone
  <2>1. taking = NoLun /\ Serves(Head(inbox))
    BY <1>3 DEF Serve, Takes, entryVars
  <2>2. phone' = [phone EXCEPT !.at = "Dark", !.hello = FALSE] /\ UNCHANGED taking
    BY <1>3, <2>1 DEF Serves, ResetDevice, entryVars
  <2>3. phone'.at = "Dark" /\ "at" \in DOMAIN phone'
    BY <1>1, <2>2
  <2>4. inbox' = <<>>
    BY <2>3 DEF Serve
  <2> QED BY <1>1, <2>1, <2>2, <2>3, <2>4 DEF LinkInv, On, Alive
<1> QED BY <1>2, <1>3

\* Otherwise the worker sends within its session, or leaves it.
LEMMA LinkKeeps ==
  ASSUME LinkInv, UNCHANGED <<phone, taking>>, UNCHANGED entry \/ entry'.pc \notin Greeting,
         UNCHANGED inbox \/ (Working /\ UNCHANGED entry /\ \E m : Sends(m))
  PROVE  LinkInv'
<1>1. ~Alive => UNCHANGED inbox
  BY DEF Sends
<1> QED BY <1>1 DEF LinkInv, Alive, On, Greeting, Working

LEMMA LinkOfWorker ==
  ASSUME LinkInv, \/ FirstReply \/ RecoverEdl \/ ReadData \/ SendData \/ LastReply
                  \/ Scanning \/ Transfer \/ EntryFailed
  PROVE  LinkInv'
<1>1. UNCHANGED <<phone, taking>>
  BY DEF FirstReply, RecoverEdl, ReadData, SendData, LastReply, Host, Scanning, Transfer, EntryFailed, ReadGpt, GptRead,
         Bounce, ScanDone, FlashRow, EraseRow, DumpRow, MeasureLun, Measured, FlashLun, DumpLun, SourceVanished,
         NoFolder, RowDone, DumpFailed, FlashFailed, ResetSystem, ExecDone, Tries, Returns, Quiet, ReportEntry,
         entryVars, busVars, channel
<1>2. UNCHANGED entry \/ entry' = AtRest \/ entry' = Failed
  BY DEF FirstReply, RecoverEdl, ReadData, SendData, LastReply, Host, Scanning, Transfer, EntryFailed, ReadGpt, GptRead,
         Bounce, ScanDone, FlashRow, EraseRow, DumpRow, MeasureLun, Measured, FlashLun, DumpLun, SourceVanished,
         NoFolder, RowDone, DumpFailed, FlashFailed, ResetSystem, ExecDone, Tries, Returns, ReportEntry, Finish,
         entryVars
<1>3. UNCHANGED inbox \/ (Working /\ UNCHANGED entry /\ \E m : Sends(m))
  <2>1. \/ UNCHANGED inbox
        \/ /\ Working /\ UNCHANGED entry
           /\ \/ Sends(Message("Power", NoLun))
              \/ \E m : Sends(m)
              \/ \E cmd, lun, file : Command(cmd, lun, file, "First")
    BY DEF FirstReply, RecoverEdl, ReadData, SendData, LastReply, Host, Scanning, Transfer, EntryFailed, ReadGpt, GptRead,
         Bounce, ScanDone, FlashRow, EraseRow, DumpRow, MeasureLun, Measured, FlashLun, DumpLun, SourceVanished,
         NoFolder, RowDone, DumpFailed, FlashFailed, ResetSystem, ExecDone, Tries, Returns, Quiet, Refused,
         entryVars, channel
  <2> QED BY <2>1 DEF Command
<1>4. Failed.pc \notin Greeting /\ AtRest.pc \notin Greeting
  BY EntriesAre DEF Greeting
<1> QED BY <1>1, <1>2, <1>3, <1>4, LinkKeeps

LEMMA LinkOfUser == ASSUME LinkInv, User PROVE LinkInv'
<1>1. UNCHANGED <<phone, inbox, taking>>
  BY DEF User, ScanStart, PhysStart, ToggleRow, PickRowFile, RowFileChosen, SortBy, ExecStart, CloseWizard,
         Leave, Screen, Quiet, EnsureEdl, entryVars, busVars, channel
<1>2. \/ UNCHANGED entry \/ entry' \in {Failed, Waiting("Pause")}
      \/ \E pc \in {"Pause", "AdbState", "FastbootReboot"} : entry' = [AtRest EXCEPT !.pc = pc]
  BY DEF User, ScanStart, PhysStart, ToggleRow, PickRowFile, RowFileChosen, SortBy, ExecStart, CloseWizard,
         Leave, Screen, EnsureEdl, PreflightFails, entryVars
<1>3. UNCHANGED entry \/ entry'.pc \notin Greeting
  <2>1. Failed.pc = "Failed" /\ Waiting("Pause").pc = "Find"
    BY EntriesAre
  <2>2. \A pc : [AtRest EXCEPT !.pc = pc].pc = pc
    BY EntriesAre
  <2> QED BY <1>2, <2>1, <2>2 DEF Greeting
<1> QED BY <1>1, <1>3, LinkKeeps

LEMMA LinkStep == ASSUME TransferInv, LinkInv, [TransferNext]_transferVars PROVE LinkInv'
<1>1. CASE UNCHANGED transferVars
  BY <1>1 DEF transferVars, entryVars, channel, LinkInv, Alive, On
<1> QED BY <1>1, LinkOfWorld, LinkOfEntering, LinkOfServe, LinkOfWorker, LinkOfUser DEF TransferNext, Worker, Exchange

-----------------------------------------------------------------------------
(* The scan.  A reply carries no number: what tells whose it is, is that   *)
(* the LUNs are asked for in order and the channel keeps the order.  A     *)
(* host that gave up may read an earlier label as a later one, never the   *)
(* same label twice.                                                       *)

\* The labels that are still to be read, in the order in which they were asked for.
InTurn(w, b) ==
  /\ \A i, j \in DOMAIN w : i < j /\ w[i].of # NoLun /\ w[j].of # NoLun => w[i].of < w[j].of
  /\ \A i \in DOMAIN w, j \in DOMAIN b : w[i].of # NoLun /\ b[j].cmd = "Read" => w[i].of < b[j].lun
  /\ \A i, j \in DOMAIN b : i < j /\ b[i].cmd = "Read" /\ b[j].cmd = "Read" => b[i].lun < b[j].lun
Above(x, w, b) ==
  /\ \A i \in DOMAIN w : w[i].of # NoLun => x < w[i].of
  /\ \A j \in DOMAIN b : b[j].cmd = "Read" => x < b[j].lun
Below(x, w, b) ==
  /\ \A i \in DOMAIN w : w[i].of # NoLun => w[i].of < x
  /\ \A j \in DOMAIN b : b[j].cmd = "Read" => b[j].lun < x

\* v and c hold no label that is not in w and b, in the same order.
NoMore(w, b, v, c) ==
  /\ \E d \in Nat : \A i \in DOMAIN v : v[i].of # NoLun => i + d \in DOMAIN w /\ v[i].of = w[i + d].of
  /\ \E d \in Nat : \A j \in DOMAIN c : c[j].cmd = "Read" =>
       j + d \in DOMAIN b /\ b[j + d].cmd = "Read" /\ c[j].lun = b[j + d].lun

Channel(w, b) == w \in Seq(Token) /\ b \in Seq(Sent)

LEMMA PlacesAre ==
  ASSUME NEW w, NEW b, Channel(w, b)
  PROVE  /\ \A i \in DOMAIN w : i \in Nat /\ w[i] \in Token /\ w[i].of \in Nat
         /\ \A j \in DOMAIN b : j \in Nat /\ b[j] \in Sent /\ b[j].lun \in Nat
<1>1. /\ DOMAIN w = 1..Len(w) /\ Len(w) \in Nat /\ \A i \in DOMAIN w : w[i] \in Token
      /\ DOMAIN b = 1..Len(b) /\ Len(b) \in Nat /\ \A j \in DOMAIN b : b[j] \in Sent
  BY DEF Channel
<1>2. LUNs \cup {NoLun} \subseteq Nat
  BY LunsAre
<1>3. \A t \in Token : t.of \in Nat
  BY <1>2 DEF Token
<1>4. \A m \in Sent : m.lun \in Nat
  BY <1>2 DEF Sent
<1> QED BY <1>1, <1>3, <1>4

LEMMA NoMoreKeeps ==
  ASSUME NEW w, NEW b, NEW v, NEW c, Channel(w, b), Channel(v, c), NoMore(w, b, v, c)
  PROVE  /\ InTurn(w, b) => InTurn(v, c)
         /\ \A x \in Nat : Above(x, w, b) => Above(x, v, c)
         /\ \A x \in Nat : Below(x, w, b) => Below(x, v, c)
<1>1. PICK d \in Nat : \A i \in DOMAIN v : v[i].of # NoLun => i + d \in DOMAIN w /\ v[i].of = w[i + d].of
  BY DEF NoMore
<1>2. PICK e \in Nat : \A j \in DOMAIN c : c[j].cmd = "Read" =>
        j + e \in DOMAIN b /\ b[j + e].cmd = "Read" /\ c[j].lun = b[j + e].lun
  BY DEF NoMore
<1>3. /\ \A i \in DOMAIN v : i \in Nat
      /\ \A j \in DOMAIN c : j \in Nat
  BY PlacesAre
<1>4. ASSUME InTurn(w, b) PROVE InTurn(v, c)
  <2>1. ASSUME NEW i \in DOMAIN v, NEW j \in DOMAIN v, i < j, v[i].of # NoLun, v[j].of # NoLun
        PROVE  v[i].of < v[j].of
    <3>1. i + d < j + d
      BY <1>3, <2>1
    <3> QED BY <1>1, <1>4, <2>1, <3>1 DEF InTurn
  <2>2. ASSUME NEW i \in DOMAIN v, NEW j \in DOMAIN c, v[i].of # NoLun, c[j].cmd = "Read"
        PROVE  v[i].of < c[j].lun
    BY <1>1, <1>2, <1>4, <2>2 DEF InTurn
  <2>3. ASSUME NEW i \in DOMAIN c, NEW j \in DOMAIN c, i < j, c[i].cmd = "Read", c[j].cmd = "Read"
        PROVE  c[i].lun < c[j].lun
    <3>1. i + e < j + e
      BY <1>3, <2>3
    <3> QED BY <1>2, <1>4, <2>3, <3>1 DEF InTurn
  <2> QED BY <2>1, <2>2, <2>3 DEF InTurn
<1>5. ASSUME NEW x \in Nat, Above(x, w, b) PROVE Above(x, v, c)
  BY <1>1, <1>2, <1>5 DEF Above
<1>6. ASSUME NEW x \in Nat, Below(x, w, b) PROVE Below(x, v, c)
  BY <1>1, <1>2, <1>6 DEF Below
<1> QED BY <1>4, <1>5, <1>6

\* Where the elements of a sequence come from.
LEMMA TailAt ==
  ASSUME NEW T, NEW s \in Seq(T), s # <<>>
  PROVE  /\ Len(s) \in Nat /\ DOMAIN s = 1..Len(s) /\ 1 \in DOMAIN s /\ s[1] = Head(s)
         /\ \A i \in DOMAIN Tail(s) : i \in Nat /\ i + 1 \in DOMAIN s /\ Tail(s)[i] = s[i + 1]
<1>1. Len(s) \in Nat \ {0} /\ DOMAIN s = 1..Len(s)
  OBVIOUS
<1>2. DOMAIN Tail(s) = 1..(Len(s) - 1) /\ \A i \in 1..(Len(s) - 1) : Tail(s)[i] = s[i + 1]
  OBVIOUS
<1>3. \A i \in 1..(Len(s) - 1) : i \in Nat /\ i + 1 \in 1..Len(s)
  BY <1>1
<1> QED BY <1>1, <1>2, <1>3

LEMMA AppendAt ==
  ASSUME NEW T, NEW s \in Seq(T), NEW x \in T
  PROVE  /\ Len(s) \in Nat /\ DOMAIN s = 1..Len(s) /\ DOMAIN Append(s, x) = 1..(Len(s) + 1)
         /\ \A i \in DOMAIN Append(s, x) :
              \/ i \in DOMAIN s /\ Append(s, x)[i] = s[i]
              \/ i = Len(s) + 1 /\ Append(s, x)[i] = x
<1>1. Len(s) \in Nat /\ DOMAIN s = 1..Len(s) /\ DOMAIN Append(s, x) = 1..(Len(s) + 1)
  OBVIOUS
<1>2. \A i \in 1..(Len(s) + 1) : Append(s, x)[i] = IF i = Len(s) + 1 THEN x ELSE s[i]
  OBVIOUS
<1>3. \A i \in 1..(Len(s) + 1) : i \in 1..Len(s) \/ i = Len(s) + 1
  BY <1>1
<1>4. Len(s) + 1 \notin 1..Len(s)
  BY <1>1
<1> QED BY <1>1, <1>2, <1>3, <1>4

LEMMA ConcatAt ==
  ASSUME NEW T, NEW s \in Seq(T), NEW t \in Seq(T)
  PROVE  /\ Len(s) \in Nat /\ DOMAIN s = 1..Len(s)
         /\ \A i \in DOMAIN (s \o t) :
              /\ i \in Nat
              /\ \/ i \in DOMAIN s /\ (s \o t)[i] = s[i]
                 \/ i > Len(s) /\ i - Len(s) \in DOMAIN t /\ (s \o t)[i] = t[i - Len(s)]
<1>1. /\ Len(s) \in Nat /\ DOMAIN s = 1..Len(s) /\ Len(t) \in Nat /\ DOMAIN t = 1..Len(t)
      /\ DOMAIN (s \o t) = 1..(Len(s) + Len(t))
  OBVIOUS
<1>2. \A i \in 1..(Len(s) + Len(t)) : (s \o t)[i] = IF i <= Len(s) THEN s[i] ELSE t[i - Len(s)]
  OBVIOUS
<1>3. ASSUME NEW i \in 1..(Len(s) + Len(t))
      PROVE  i \in Nat /\ (IF i <= Len(s) THEN i \in 1..Len(s) ELSE i > Len(s) /\ i - Len(s) \in 1..Len(t))
  BY <1>1
<1> QED BY <1>1, <1>2, <1>3

\* What takes nothing new onto the wire, and no question off the host.
LEMMA LessOnTheWire ==
  ASSUME NEW w \in Seq(Token), NEW v,
         \/ v = w \/ v = <<>> \/ (w # <<>> /\ v = Tail(w)) \/ v = SubSeq(w, 3, Len(w))
         \/ v = w \o <<Ack>> \/ v = w \o <<Nak>>
  PROVE  \E d \in Nat : \A i \in DOMAIN v : v[i].of # NoLun => i + d \in DOMAIN w /\ v[i].of = w[i + d].of
<1>1. Len(w) \in Nat /\ DOMAIN w = 1..Len(w)
  OBVIOUS
<1>2. CASE v = w
  <2>1. \A i \in DOMAIN v : i + 0 \in DOMAIN w /\ v[i].of = w[i + 0].of
    BY <1>1, <1>2
  <2> QED BY <2>1
<1>3. CASE v = <<>>
  <2>1. DOMAIN v = {}
    BY <1>3
  <2> QED BY <2>1
<1>4. CASE w # <<>> /\ v = Tail(w)
  <2>1. \A i \in DOMAIN v : i + 1 \in DOMAIN w /\ v[i].of = w[i + 1].of
    BY <1>4, TailAt
  <2> QED BY <2>1
<1>5. CASE v = SubSeq(w, 3, Len(w))
  <2>1. \A i \in DOMAIN v : i + 2 \in DOMAIN w /\ v[i].of = w[i + 2].of
    BY <1>1, <1>5
  <2> QED BY <2>1
<1>6. CASE v = w \o <<Ack>> \/ v = w \o <<Nak>>
  <2>1. PICK t \in {Ack, Nak} : v = w \o <<t>>
    BY <1>6
  <2>2. t.of = NoLun /\ t \in Token
    BY <2>1, TokensTyped DEF Ack, Nak
  <2>3. PICK s : s = <<t>>
    OBVIOUS
  <2>4. s \in Seq(Token) /\ DOMAIN s = 1..1 /\ s[1] = t
    BY <2>2, <2>3
  <2>5. \A k \in DOMAIN s : s[k].of = NoLun
    BY <2>2, <2>4
  <2>6. \A i \in DOMAIN v : i \in Nat /\ (v[i].of # NoLun => i \in DOMAIN w /\ v[i] = w[i])
    BY <2>1, <2>3, <2>4, <2>5, ConcatAt
  <2>7. \A i \in DOMAIN v : v[i].of # NoLun => i + 0 \in DOMAIN w /\ v[i].of = w[i + 0].of
    BY <2>6
  <2> QED BY <2>7
<1> QED BY <1>2, <1>3, <1>4, <1>5, <1>6

LEMMA LessInTheInbox ==
  ASSUME NEW b \in Seq(Sent), NEW c,
         \/ c = b \/ c = <<>> \/ (b # <<>> /\ c = Tail(b))
         \/ \E m \in Sent : m.cmd # "Read" /\ c = Append(b, m)
  PROVE  \E d \in Nat : \A j \in DOMAIN c : c[j].cmd = "Read" =>
           j + d \in DOMAIN b /\ b[j + d].cmd = "Read" /\ c[j].lun = b[j + d].lun
<1>1. Len(b) \in Nat /\ DOMAIN b = 1..Len(b)
  OBVIOUS
<1>2. CASE c = b
  <2>1. \A i \in DOMAIN c : i + 0 \in DOMAIN b /\ c[i] = b[i + 0]
    BY <1>1, <1>2
  <2> QED BY <2>1
<1>3. CASE c = <<>>
  <2>1. DOMAIN c = {}
    BY <1>3
  <2> QED BY <2>1
<1>4. CASE b # <<>> /\ c = Tail(b)
  <2>1. \A i \in DOMAIN c : i + 1 \in DOMAIN b /\ c[i] = b[i + 1]
    BY <1>4, TailAt
  <2> QED BY <2>1
<1>5. CASE \E m \in Sent : m.cmd # "Read" /\ c = Append(b, m)
  <2>1. PICK m \in Sent : m.cmd # "Read" /\ c = Append(b, m)
    BY <1>5
  <2>2. \A i \in DOMAIN c : c[i].cmd = "Read" => i \in DOMAIN b /\ c[i] = b[i]
    BY <2>1, AppendAt
  <2>3. \A i \in DOMAIN b : i + 0 = i
    BY <1>1
  <2>4. \A i \in DOMAIN c : c[i].cmd = "Read" =>
          i + 0 \in DOMAIN b /\ b[i + 0].cmd = "Read" /\ c[i].lun = b[i + 0].lun
    BY <2>2, <2>3
  <2> QED BY <2>4
<1> QED BY <1>2, <1>3, <1>4, <1>5

\* A read that is served: its label is the last on the wire.
LEMMA LabelSent ==
  ASSUME NEW w, NEW b, Channel(w, b), b # <<>>, Head(b).cmd = "Read", NEW lun, lun = Head(b).lun,
         NEW v, v = w \o <<Ack, Data(lun), Ack>>, Channel(v, Tail(b))
  PROVE  /\ InTurn(w, b) => InTurn(v, Tail(b))
         /\ \A x \in Nat : Above(x, w, b) => Above(x, v, Tail(b))
         /\ \A x \in Nat : Below(x, w, b) => Below(x, v, Tail(b))
<1>1. PICK c : c = Tail(b)
  OBVIOUS
<1>2. /\ Len(b) \in Nat /\ DOMAIN b = 1..Len(b) /\ 1 \in DOMAIN b /\ b[1] = Head(b)
      /\ \A j \in DOMAIN c : j \in Nat /\ j + 1 \in DOMAIN b /\ c[j] = b[j + 1] /\ 1 < j + 1
  BY <1>1, TailAt DEF Channel
<1>3. /\ Len(w) \in Nat /\ DOMAIN w = 1..Len(w)
      /\ \A i \in DOMAIN v : /\ i \in Nat
                            /\ \/ i \in DOMAIN w /\ v[i] = w[i]
                               \/ i > Len(w) /\ v[i] = Ack
                               \/ i > Len(w) /\ i = Len(w) + 2 /\ v[i] = Data(lun)
  <2>1. PICK s : s = <<Ack, Data(lun), Ack>>
    OBVIOUS
  <2>5. lun \in LUNs \cup {NoLun}
    <3>1. Head(b) \in Sent
      BY DEF Channel
    <3> QED BY <3>1 DEF Sent
  <2>2. DOMAIN s = 1..3 /\ s[1] = Ack /\ s[2] = Data(lun) /\ s[3] = Ack /\ s \in Seq(Token)
    BY <2>1, <2>5, TokensTyped
  <2>3. Len(w) \in Nat /\ DOMAIN w = 1..Len(w)
    BY DEF Channel
  <2>4. ASSUME NEW i \in DOMAIN v
        PROVE  /\ i \in Nat
               /\ \/ i \in DOMAIN w /\ v[i] = w[i]
                  \/ i > Len(w) /\ v[i] = Ack
                  \/ i > Len(w) /\ i = Len(w) + 2 /\ v[i] = Data(lun)
    <3>1. /\ i \in Nat
          /\ \/ i \in DOMAIN w /\ v[i] = w[i]
             \/ i > Len(w) /\ i - Len(w) \in DOMAIN s /\ v[i] = s[i - Len(w)]
      BY <2>1, <2>2, <2>4, ConcatAt DEF Channel
    <3>2. i > Len(w) /\ i - Len(w) \in 1..3 => i = Len(w) + 2 \/ i - Len(w) = 1 \/ i - Len(w) = 3
      BY <2>3, <3>1
    <3>3. i = Len(w) + 2 => i - Len(w) = 2
      BY <2>3
    <3> QED BY <2>2, <3>1, <3>2, <3>3
  <2> QED BY <2>3, <2>4
<1>4. Ack.of = NoLun /\ Data(lun).of = lun
  BY DEF Ack, Data
<1>5. \A i \in DOMAIN v : v[i].of # NoLun =>
        \/ i \in DOMAIN w /\ v[i] = w[i]
        \/ i = Len(w) + 2 /\ v[i].of = lun
  BY <1>3, <1>4
<1>6. b[1].cmd = "Read" /\ b[1].lun = lun
  BY <1>2
<1>7. ASSUME InTurn(w, b) PROVE InTurn(v, c)
  <2>1. ASSUME NEW i \in DOMAIN v, NEW j \in DOMAIN v, i < j, v[i].of # NoLun, v[j].of # NoLun
        PROVE  v[i].of < v[j].of
    <3>1. i \in DOMAIN w /\ v[i] = w[i]
      BY <1>3, <1>5, <2>1
    <3>2. CASE j \in DOMAIN w /\ v[j] = w[j]
      BY <1>7, <2>1, <3>1, <3>2 DEF InTurn
    <3>3. CASE v[j].of = lun
      BY <1>2, <1>6, <1>7, <2>1, <3>1, <3>3 DEF InTurn
    <3> QED BY <1>5, <2>1, <3>2, <3>3
  <2>2. ASSUME NEW i \in DOMAIN v, NEW j \in DOMAIN c, v[i].of # NoLun, c[j].cmd = "Read"
        PROVE  v[i].of < c[j].lun
    BY <1>2, <1>5, <1>6, <1>7, <2>2 DEF InTurn
  <2>3. ASSUME NEW i \in DOMAIN c, NEW j \in DOMAIN c, i < j, c[i].cmd = "Read", c[j].cmd = "Read"
        PROVE  c[i].lun < c[j].lun
    <3>1. i + 1 < j + 1
      BY <1>2, <2>3
    <3> QED BY <1>2, <1>7, <2>3, <3>1 DEF InTurn
  <2> QED BY <2>1, <2>2, <2>3 DEF InTurn
<1>8. ASSUME NEW x \in Nat, Above(x, w, b) PROVE Above(x, v, c)
  BY <1>2, <1>5, <1>6, <1>8 DEF Above
<1>9. ASSUME NEW x \in Nat, Below(x, w, b) PROVE Below(x, v, c)
  BY <1>2, <1>5, <1>6, <1>9 DEF Below
<1> QED BY <1>1, <1>7, <1>8, <1>9

\* A read that is sent: the LUN is one past those asked for so far.
LEMMA ReadSent ==
  ASSUME NEW w, NEW b, Channel(w, b), NEW lun \in LUNs, Below(lun, w, b), InTurn(w, b),
         NEW c, c = Append(b, Message("Read", lun))
  PROVE  /\ InTurn(w, c) /\ Below(lun + 1, w, c)
         /\ \A x \in Nat : x < lun /\ Above(x, w, b) => Above(x, w, c)
<1>1. /\ Len(b) \in Nat /\ DOMAIN b = 1..Len(b) /\ DOMAIN c = 1..(Len(b) + 1)
      /\ \A j \in DOMAIN c : \/ j \in DOMAIN b /\ c[j] = b[j]
                             \/ j = Len(b) + 1 /\ c[j].cmd = "Read" /\ c[j].lun = lun
  <2>1. PICK m : m = Message("Read", lun)
    OBVIOUS
  <2>2. m.cmd = "Read" /\ m.lun = lun /\ m \in Sent
    BY <2>1, TokensTyped DEF Message, Commands
  <2>3. c = Append(b, m) /\ b \in Seq(Sent)
    BY <2>1 DEF Channel
  <2>4. /\ Len(b) \in Nat /\ DOMAIN b = 1..Len(b) /\ DOMAIN c = 1..(Len(b) + 1)
        /\ \A j \in DOMAIN c : \/ j \in DOMAIN b /\ c[j] = b[j]
                               \/ j = Len(b) + 1 /\ c[j] = m
    BY <2>2, <2>3, AppendAt
  <2> QED BY <2>2, <2>4
<1>2. lun \in Nat /\ (\A i \in DOMAIN w : w[i].of \in Nat) /\ (\A j \in DOMAIN b : b[j].lun \in Nat)
  BY LunsAre, PlacesAre
<1>3. InTurn(w, c)
  <2>1. ASSUME NEW i \in DOMAIN w, NEW j \in DOMAIN c, w[i].of # NoLun, c[j].cmd = "Read"
        PROVE  w[i].of < c[j].lun
    BY <1>1, <2>1 DEF InTurn, Below
  <2>2. ASSUME NEW i \in DOMAIN c, NEW j \in DOMAIN c, i < j, c[i].cmd = "Read", c[j].cmd = "Read"
        PROVE  c[i].lun < c[j].lun
    <3>1. i \in DOMAIN b /\ c[i] = b[i]
      BY <1>1, <2>2
    <3> QED BY <1>1, <2>2, <3>1 DEF InTurn, Below
  <2> QED BY <2>1, <2>2 DEF InTurn
<1>4. Below(lun + 1, w, c)
  BY <1>1, <1>2 DEF Below
<1>5. ASSUME NEW x \in Nat, x < lun, Above(x, w, b) PROVE Above(x, w, c)
  BY <1>1, <1>5 DEF Above
<1> QED BY <1>3, <1>4, <1>5

\* The next token is taken for the label: it is later than those read, earlier than
\* those to come.
LEMMA LabelRead ==
  ASSUME NEW w, NEW b, Channel(w, b), InTurn(w, b), w # <<>>, NEW label, label = Head(w).of, label # NoLun
  PROVE  /\ label \in Nat /\ Above(label, Tail(w), b)
         /\ \A x \in Nat : (Above(x, w, b) => x < label) /\ (Below(x, w, b) => label < x)
<1>1. PICK v : v = Tail(w)
  OBVIOUS
<1>2. /\ 1 \in DOMAIN w /\ w[1] = Head(w)
      /\ \A i \in DOMAIN v : i \in Nat /\ i + 1 \in DOMAIN w /\ v[i] = w[i + 1] /\ 1 < i + 1
  BY <1>1 DEF Channel
<1>3. label \in Nat /\ w[1].of = label
  BY <1>2, PlacesAre
<1>4. Above(label, v, b)
  BY <1>2, <1>3 DEF InTurn, Above
<1> QED BY <1>1, <1>2, <1>3, <1>4 DEF Above, Below

\* What no step but a read that is sent or served may do.
Plain(w, b, v, c) ==
  /\ \/ v = w \/ v = <<>> \/ (w # <<>> /\ v = Tail(w)) \/ v = SubSeq(w, 3, Len(w))
     \/ v = w \o <<Ack>> \/ v = w \o <<Nak>>
  /\ \/ c = b \/ c = <<>> \/ (b # <<>> /\ c = Tail(b))
     \/ \E m \in Sent : m.cmd # "Read" /\ c = Append(b, m)

LEMMA PlainIsNoMore ==
  ASSUME NEW w, NEW b, NEW v, NEW c, Channel(w, b), Plain(w, b, v, c)
  PROVE  NoMore(w, b, v, c)
<1>1. \E d \in Nat : \A i \in DOMAIN v : v[i].of # NoLun => i + d \in DOMAIN w /\ v[i].of = w[i + d].of
  <2>1. w \in Seq(Token)
    BY DEF Channel
  <2>2. \/ v = w \/ v = <<>> \/ (w # <<>> /\ v = Tail(w)) \/ v = SubSeq(w, 3, Len(w))
        \/ v = w \o <<Ack>> \/ v = w \o <<Nak>>
    BY DEF Plain
  <2> QED BY <2>1, <2>2, LessOnTheWire
<1>2. \E d \in Nat : \A j \in DOMAIN c : c[j].cmd = "Read" =>
        j + d \in DOMAIN b /\ b[j + d].cmd = "Read" /\ c[j].lun = b[j + d].lun
  <2>1. b \in Seq(Sent)
    BY DEF Channel
  <2>2. \/ c = b \/ c = <<>> \/ (b # <<>> /\ c = Tail(b))
        \/ \E m \in Sent : m.cmd # "Read" /\ c = Append(b, m)
    BY DEF Plain
  <2> QED BY <2>1, <2>2, LessInTheInbox
<1> QED BY <1>1, <1>2 DEF NoMore

\* Where the labels stand against the LUNs the worker has left.
ScanTurn ==
  /\ InTurn(wire, inbox)
  /\ \A i \in DOMAIN rows : Above(rows[i].label, wire, inbox)
  /\ op.cmd = "Read" => /\ op.lun = Head(job.next) /\ Below(op.lun + 1, wire, inbox)
                        /\ op.got # NoLun => /\ op.got <= op.lun /\ Above(op.got, wire, inbox)
                                             /\ \A i \in DOMAIN rows : rows[i].label < op.got
  /\ op.cmd # "Read" => \A k \in DOMAIN job.next : Below(job.next[k], wire, inbox)

ScanInv ==
  /\ job.at \in {"Scan", "Bounce", "Table"} => job.row = 1 /\ ~job.failed /\ ~job.measured /\ Distinct(rows)
  /\ At("Scan") =>
       /\ \A i, j \in DOMAIN job.next : i < j => job.next[i] < job.next[j]
       /\ \A i \in DOMAIN rows, k \in DOMAIN job.next : rows[i].label < job.next[k] /\ rows[i].lun < job.next[k]
       /\ IF Working THEN ScanTurn ELSE rows = <<>>

LEMMA InitScan == TransferInit => ScanInv
BY DEF TransferInit, ScanInv, At

LEMMA RowsAre ==
  ASSUME TransferTypes
  PROVE  /\ \A i \in DOMAIN rows : rows[i].label \in Nat /\ rows[i].lun \in Nat
         /\ \A k \in DOMAIN job.next : job.next[k] \in LUNs /\ job.next[k] \in Nat
         /\ Channel(wire, inbox) /\ op.lun \in Nat /\ op.got \in Nat
<1>1. rows \in Seq(Row) /\ job.next \in Seq(LUNs) /\ wire \in Seq(Token) /\ inbox \in Seq(Sent) /\ op \in Op
  BY DEF TransferTypes, Job
<1>2. (\A i \in DOMAIN rows : rows[i] \in Row) /\ (\A k \in DOMAIN job.next : job.next[k] \in LUNs)
  BY <1>1
<1>3. LUNs \subseteq Nat /\ LUNs \cup {NoLun} \subseteq Nat
  BY LunsAre
<1>4. \A r \in Row : r.label \in Nat /\ r.lun \in Nat
  BY <1>3 DEF Row
<1>5. op.lun \in Nat /\ op.got \in Nat
  BY <1>1, <1>3 DEF Op
<1> QED BY <1>1, <1>2, <1>3, <1>4, <1>5 DEF Channel

\* A step that takes nothing new onto the channel.
LEMMA ScanFrame ==
  ASSUME TransferTypes, TransferTypes', UNCHANGED <<job, rows>>, op'.cmd = op.cmd, op'.lun = op.lun,
         Plain(wire, inbox, wire', inbox'), ScanTurn, op'.got = op.got \/ op'.got = NoLun
  PROVE  ScanTurn'
<1>1. PICK w : w = wire
  OBVIOUS
<1>2. PICK b : b = inbox
  OBVIOUS
<1>3. PICK v : v = wire'
  OBVIOUS
<1>4. PICK c : c = inbox'
  OBVIOUS
<1>5. Channel(w, b) /\ Channel(v, c) /\ NoMore(w, b, v, c)
  <2>1. Channel(w, b) /\ Channel(v, c) /\ Plain(w, b, v, c)
    BY <1>1, <1>2, <1>3, <1>4 DEF TransferTypes, Channel
  <2> QED BY <2>1, PlainIsNoMore
<1>6. /\ InTurn(w, b) => InTurn(v, c)
      /\ \A x \in Nat : Above(x, w, b) => Above(x, v, c)
      /\ \A x \in Nat : Below(x, w, b) => Below(x, v, c)
  BY <1>5, NoMoreKeeps
<1>7. /\ \A i \in DOMAIN rows : rows[i].label \in Nat
      /\ \A k \in DOMAIN job.next : job.next[k] \in Nat
      /\ op.lun \in Nat /\ op.got \in Nat /\ op.lun + 1 \in Nat
  BY RowsAre
<1> QED BY <1>1, <1>2, <1>3, <1>4, <1>6, <1>7 DEF ScanTurn

LEMMA ScanOfServe ==
  ASSUME TransferTypes, TransferTypes', ScanTurn, Serve
  PROVE  ScanTurn'
<1>1. /\ wire \in Seq(Token) /\ inbox \in Seq(Sent) /\ inbox # <<>> /\ UNCHANGED <<job, rows, op>> /\ Alive
      /\ wire' \in Seq(Token) /\ inbox' \in Seq(Sent)
  BY DEF Serve, TransferTypes, jobVars
<1>2. CASE /\ wire' = wire \o <<Ack>> \/ wire' = wire \o <<Nak>>
           /\ inbox' = <<>> \/ inbox' = Tail(inbox)
  <2>1. Plain(wire, inbox, wire', inbox')
    BY <1>1, <1>2 DEF Plain
  <2> QED BY <1>1, <2>1, ScanFrame
<1>3. CASE /\ Head(inbox).cmd = "Read" /\ wire' = wire \o <<Ack, Data(Head(inbox).lun), Ack>>
           /\ inbox' = Tail(inbox)
  <2>1. PICK w : w = wire
    OBVIOUS
  <2>2. PICK b : b = inbox
    OBVIOUS
  <2>3. PICK v : v = wire'
    OBVIOUS
  <2>4. PICK lun : lun = Head(b).lun
    OBVIOUS
  <2>5. Channel(w, b) /\ Channel(v, Tail(b)) /\ b # <<>> /\ Head(b).cmd = "Read" /\ v = w \o <<Ack, Data(lun), Ack>>
    BY <1>1, <1>3, <2>1, <2>2, <2>3, <2>4 DEF Channel
  <2>6. /\ InTurn(w, b) => InTurn(v, Tail(b))
        /\ \A x \in Nat : Above(x, w, b) => Above(x, v, Tail(b))
        /\ \A x \in Nat : Below(x, w, b) => Below(x, v, Tail(b))
    BY <2>4, <2>5, LabelSent
  <2>7. /\ \A i \in DOMAIN rows : rows[i].label \in Nat
        /\ \A k \in DOMAIN job.next : job.next[k] \in Nat
        /\ op.lun \in Nat /\ op.got \in Nat /\ op.lun + 1 \in Nat
    BY RowsAre
  <2> QED BY <1>1, <1>3, <2>1, <2>2, <2>3, <2>6, <2>7 DEF ScanTurn
<1>4. /\ IF taking # NoLun THEN Takes(Head(inbox)) ELSE Serves(Head(inbox))
      /\ inbox' = <<>> \/ inbox' = Tail(inbox)
      /\ UNCHANGED phone => inbox' = Tail(inbox)
  BY <1>1 DEF Serve, Alive
<1>5. (Head(inbox).cmd = "Read" /\ wire' = wire \o <<Ack, Data(Head(inbox).lun), Ack>> /\ UNCHANGED phone)
        \/ wire' = wire \o <<Ack>> \/ wire' = wire \o <<Nak>>
  BY <1>4 DEF Takes, Serves, Says, entryVars
<1> QED BY <1>2, <1>3, <1>4, <1>5

LEMMA ScanOfHost ==
  ASSUME TransferTypes, TransferTypes', At("Scan"), ScanTurn,
         FirstReply \/ RecoverEdl \/ ReadData \/ SendData \/ LastReply
  PROVE  ScanTurn'
<1>1. /\ op \in Op /\ wire \in Seq(Token) /\ inbox \in Seq(Sent) /\ UNCHANGED <<job, rows>>
      /\ wire' \in Seq(Token) /\ inbox' \in Seq(Sent)
  BY DEF TransferTypes, FirstReply, RecoverEdl, ReadData, SendData, LastReply, Host, jobVars
<1>2. CASE /\ op' = op \/ \E stage : op' = [op EXCEPT !.stage = stage]
           /\ UNCHANGED wire \/ (wire # <<>> /\ wire' = Tail(wire)) \/ wire' = SubSeq(wire, 3, Len(wire))
           /\ UNCHANGED inbox \/ \E m \in Sent : m.cmd # "Read" /\ Sends(m)
  <2>1. op'.cmd = op.cmd /\ op'.lun = op.lun /\ op'.got = op.got
    BY <1>1, <1>2 DEF Op
  <2>2. Plain(wire, inbox, wire', inbox')
    BY <1>1, <1>2 DEF Plain, Sends
  <2> QED BY <1>1, <2>1, <2>2, ScanFrame
<1>3. CASE /\ op.cmd = "Read" /\ wire # <<>> /\ wire' = Tail(wire) /\ UNCHANGED inbox
           /\ op' = [op EXCEPT !.stage = "Last", !.got = Head(wire).of]
  <2>1. op'.cmd = op.cmd /\ op'.lun = op.lun /\ op'.got = Head(wire).of
    BY <1>1, <1>3 DEF Op
  <2>2. CASE op'.got = NoLun
    <3>1. Plain(wire, inbox, wire', inbox')
      BY <1>1, <1>3 DEF Plain
    <3> QED BY <1>1, <2>1, <2>2, <3>1, ScanFrame
  <2>3. CASE op'.got # NoLun
    <3>1. PICK w : w = wire
      OBVIOUS
    <3>2. PICK b : b = inbox
      OBVIOUS
    <3>3. PICK v : v = wire'
      OBVIOUS
    <3>4. PICK label : label = op'.got
      OBVIOUS
    <3>5. Channel(w, b) /\ Channel(v, b) /\ w # <<>> /\ v = Tail(w) /\ label = Head(w).of /\ label # NoLun
          /\ Plain(w, b, v, b) /\ InTurn(w, b)
      BY <1>1, <1>3, <2>1, <2>3, <3>1, <3>2, <3>3, <3>4 DEF Channel, Plain, ScanTurn
    <3>6. NoMore(w, b, v, b)
      BY <3>5, PlainIsNoMore
    <3>7. /\ InTurn(v, b)
          /\ \A x \in Nat : Above(x, w, b) => Above(x, v, b)
          /\ \A x \in Nat : Below(x, w, b) => Below(x, v, b)
      BY <3>5, <3>6, NoMoreKeeps
    <3>8. /\ label \in Nat /\ Above(label, v, b)
          /\ \A x \in Nat : (Above(x, w, b) => x < label) /\ (Below(x, w, b) => label < x)
      BY <3>5, LabelRead
    <3>9. (\A i \in DOMAIN rows : rows[i].label \in Nat) /\ op.lun \in Nat /\ op.lun + 1 \in Nat
      BY RowsAre
    <3>10. label <= op.lun
      BY <1>3, <3>1, <3>2, <3>8, <3>9 DEF ScanTurn
    <3> QED BY <1>1, <1>3, <2>1, <3>1, <3>2, <3>3, <3>4, <3>7, <3>8, <3>9, <3>10 DEF ScanTurn
  <2> QED BY <2>2, <2>3
<1>4. Message("Power", NoLun) \in Sent /\ Message("Power", NoLun).cmd = "Power"
  BY TokensTyped DEF Commands, Message
<1>5. \A whole \in BOOLEAN : [cmd |-> "Raw", lun |-> op.lun, file |-> op.file, whole |-> whole] \in Sent
  BY <1>1 DEF Op, Sent
<1> QED BY <1>2, <1>3, <1>4, <1>5
        DEF FirstReply, RecoverEdl, ReadData, SendData, LastReply, Hears, HearsNoise, Silent, Stage

LEMMA BelowGrows ==
  ASSUME NEW w, NEW b, Channel(w, b), NEW x \in Nat, NEW y \in Nat, x <= y, Below(x, w, b)
  PROVE  Below(y, w, b)
<1>1. (\A i \in DOMAIN w : w[i].of \in Nat) /\ \A j \in DOMAIN b : b[j].lun \in Nat
  BY PlacesAre
<1> QED BY <1>1 DEF Below

LEMMA ScanOfReadGpt == ASSUME TransferTypes, ScanInv, ReadGpt PROVE ScanInv'
<1>1. /\ Working /\ At("Scan") /\ op = NoOp /\ job.next # <<>> /\ Command("Read", Head(job.next), NoFile, "First")
      /\ UNCHANGED <<entry, job, rows, wire>> /\ ScanTurn
  BY DEF ReadGpt, Free, entryVars, jobVars, ScanInv
<1>2. PICK lun : lun = Head(job.next)
  OBVIOUS
<1>3. PICK w : w = wire
  OBVIOUS
<1>4. PICK b : b = inbox
  OBVIOUS
<1>5. PICK c : c = inbox'
  OBVIOUS
<1>6. lun \in LUNs /\ lun \in Nat /\ 1 \in DOMAIN job.next /\ job.next[1] = lun
  <2>1. job.next \in Seq(LUNs)
    BY DEF TransferTypes, Job
  <2>2. 1 \in DOMAIN job.next /\ job.next[1] = lun
    BY <1>1, <1>2, <2>1, TailAt
  <2> QED BY <2>2, RowsAre
<1>7. /\ op'.cmd = "Read" /\ op'.lun = lun /\ op'.got = NoLun
      /\ c = b \/ c = Append(b, Message("Read", lun))
  BY <1>1, <1>2, <1>4, <1>5 DEF Command, Sends
<1>8. /\ Channel(w, b) /\ InTurn(w, b) /\ Below(lun, w, b)
      /\ \A i \in DOMAIN rows : rows[i].label \in Nat /\ rows[i].label < lun /\ Above(rows[i].label, w, b)
  BY <1>1, <1>3, <1>4, <1>6, RowsAre DEF NoOp, ScanTurn, ScanInv
<1>9. /\ InTurn(w, c) /\ Below(lun + 1, w, c)
      /\ \A x \in Nat : x < lun /\ Above(x, w, b) => Above(x, w, c)
  <2>1. CASE c = b
    <3>1. lun + 1 \in Nat /\ lun <= lun + 1
      BY <1>6
    <3> QED BY <1>6, <1>8, <2>1, <3>1, BelowGrows
  <2>2. CASE c = Append(b, Message("Read", lun))
    BY <1>6, <1>8, <2>2, ReadSent
  <2> QED BY <1>7, <2>1, <2>2
<1>10. ScanTurn'
  BY <1>1, <1>2, <1>3, <1>5, <1>7, <1>8, <1>9 DEF ScanTurn
<1> QED BY <1>1, <1>10 DEF ScanInv, At, Working, On

LEMMA ScanOfGptRead == ASSUME TransferTypes, ScanInv, GptRead PROVE ScanInv'
<1>1. /\ Working /\ At("Scan") /\ op.cmd = "Read" /\ op' = NoOp /\ job' = [job EXCEPT !.next = Tail(@)]
      /\ UNCHANGED <<entry, wire, inbox>> /\ ScanTurn
      /\ \/ UNCHANGED rows
         \/ op.got # NoLun /\ rows' = Append(rows, NewRow(op.got, op.lun))
  BY DEF GptRead, entryVars, ScanInv
<1>2. /\ job \in Job /\ job.next # <<>> /\ job.next \in Seq(LUNs) /\ rows \in Seq(Row)
      /\ op.lun \in LUNs /\ op.got \in LUNs \cup {NoLun}
  BY <1>1 DEF TransferTypes, Job, Op
<1>3. /\ job'.at = "Scan" /\ job'.next = Tail(job.next) /\ job'.row = job.row /\ job'.failed = job.failed
      /\ job'.measured = job.measured
  BY <1>1, <1>2 DEF Job, At
<1>4. PICK lun \in LUNs : lun = op.lun
  BY <1>2
<1>5. PICK got \in LUNs \cup {NoLun} : got = op.got
  BY <1>2
<1>6. PICK n : n = job.next
  OBVIOUS
<1>7. PICK t : t = Tail(n)
  OBVIOUS
<1>8. /\ 1 \in DOMAIN n /\ n[1] = lun
      /\ \A k \in DOMAIN t : k \in Nat /\ k + 1 \in DOMAIN n /\ t[k] = n[k + 1] /\ 1 < k + 1
  BY <1>1, <1>2, <1>4, <1>6, <1>7, TailAt DEF ScanTurn
<1>9. /\ \A i, j \in DOMAIN n : i < j => n[i] < n[j]
      /\ \A i \in DOMAIN rows, k \in DOMAIN n : rows[i].label < n[k] /\ rows[i].lun < n[k]
      /\ \A k \in DOMAIN n : n[k] \in Nat
      /\ lun \in Nat /\ got \in Nat /\ Distinct(rows)
  BY <1>1, <1>4, <1>5, <1>6, RowsAre DEF ScanInv, At
<1>10. \A i, j \in DOMAIN t : i < j => t[i] < t[j]
  BY <1>8, <1>9
<1>11. \A k \in DOMAIN t : lun < t[k] /\ lun + 1 <= t[k] /\ t[k] \in Nat
  BY <1>8, <1>9
<1>12. got # NoLun => got <= lun /\ Above(got, wire, inbox) /\ \A i \in DOMAIN rows : rows[i].label < got
  BY <1>1, <1>4, <1>5 DEF ScanTurn
<1>13. ASSUME NEW i \in DOMAIN rows'
       PROVE  /\ \A k \in DOMAIN t : (rows'[i]).label < t[k] /\ (rows'[i]).lun < t[k]
              /\ Above((rows'[i]).label, wire, inbox)
  <2>1. CASE i \in DOMAIN rows /\ rows'[i] = rows[i]
    BY <1>1, <1>8, <1>9, <2>1 DEF ScanTurn
  <2>2. CASE got # NoLun /\ rows'[i] = NewRow(got, lun)
    <3>1. (rows'[i]).label = got /\ (rows'[i]).lun = lun
      BY <2>2 DEF NewRow
    <3> QED BY <1>9, <1>11, <1>12, <2>2, <3>1
  <2>3. CASE UNCHANGED rows
    BY <1>13, <2>1, <2>3
  <2>4. CASE got # NoLun /\ rows' = Append(rows, NewRow(got, lun))
    <3>1. PICK r : r = NewRow(got, lun)
      OBVIOUS
    <3>2. r \in Row
      BY <2>4, <3>1, LunsAre DEF NewRow, Row, States
    <3>3. \/ i \in DOMAIN rows /\ rows'[i] = rows[i]
          \/ rows'[i] = r
      BY <1>2, <1>13, <2>4, <3>1, <3>2, AppendAt
    <3> QED BY <2>1, <2>2, <2>4, <3>1, <3>3
  <2> QED BY <1>1, <1>4, <1>5, <2>3, <2>4
<1>14. Distinct(rows')
  <2>1. CASE UNCHANGED rows
    BY <1>9, <2>1
  <2>2. CASE got # NoLun /\ rows' = Append(rows, NewRow(got, lun))
    <3>1. PICK r : r = NewRow(got, lun)
      OBVIOUS
    <3>2. r \in Row /\ r.label = got /\ r.lun = lun
      BY <2>2, <3>1, LunsAre DEF NewRow, Row, States
    <3>3. /\ Len(rows) \in Nat
          /\ \A i \in DOMAIN rows' : \/ i \in DOMAIN rows /\ rows'[i] = rows[i]
                                     \/ i = Len(rows) + 1 /\ rows'[i] = r
      BY <1>2, <2>2, <3>1, <3>2, AppendAt
    <3>4. \A i \in DOMAIN rows : /\ rows[i].label < got /\ rows[i].lun < lun
                                 /\ rows[i].label \in Nat /\ rows[i].lun \in Nat
      BY <1>8, <1>9, <1>12, <2>2, RowsAre
    <3> QED BY <1>9, <3>2, <3>3, <3>4 DEF Distinct
  <2> QED BY <1>1, <1>4, <1>5, <2>1, <2>2
<1>15. \A k \in DOMAIN t : Below(t[k], wire, inbox)
  <2>1. PICK w : w = wire
    OBVIOUS
  <2>2. PICK b : b = inbox
    OBVIOUS
  <2>3. Channel(w, b) /\ Below(lun + 1, w, b) /\ lun + 1 \in Nat
    BY <1>1, <1>4, <1>9, <2>1, <2>2, RowsAre DEF ScanTurn
  <2> QED BY <1>11, <2>1, <2>2, <2>3, BelowGrows
<1>16. ScanTurn'
  BY <1>1, <1>3, <1>6, <1>7, <1>13, <1>15 DEF ScanTurn, NoOp
<1> QED BY <1>1, <1>3, <1>6, <1>7, <1>10, <1>13, <1>14, <1>16 DEF ScanInv, At, Working, On

LEMMA ScanOfBounce == ASSUME TransferTypes, ScanInv, Bounce \/ ScanDone PROVE ScanInv'
<1>1. /\ UNCHANGED rows /\ job.at \in {"Scan", "Bounce"} /\ job \in Job
      /\ \E at \in {"Bounce", "Table", "Idle"} : job' = [job EXCEPT !.at = at]
  BY DEF Bounce, ScanDone, At, TransferTypes
<1>2. /\ job'.at \in {"Bounce", "Table", "Idle"} /\ job'.row = job.row /\ job'.failed = job.failed
      /\ job'.measured = job.measured
  BY <1>1 DEF Job
<1> QED BY <1>1, <1>2 DEF ScanInv, At

LEMMA ScanOfTransfer == ASSUME TransferTypes, Transfer \/ EntryFailed PROVE ScanInv'
<1>1. job \in Job
  BY DEF TransferTypes
<1>2. \/ UNCHANGED job /\ At("Work")
      \/ \E at \in {"Idle", "Reset"} : job' = [job EXCEPT !.at = at]
      \/ \E result \in {"Ok", "Err"} : job' = [job EXCEPT !.at = "Done", !.result = result]
      \/ At("Work") /\ (job' = [job EXCEPT !.marked = TRUE] \/ job' = [job EXCEPT !.measured = TRUE])
      \/ At("Work") /\ \E failed : job' = [job EXCEPT !.row = @ + 1, !.measured = FALSE, !.failed = failed]
  BY DEF Transfer, EntryFailed, FlashRow, EraseRow, DumpRow, MeasureLun, Measured, FlashLun, DumpLun,
         SourceVanished, NoFolder, RowDone, DumpFailed, FlashFailed, ResetSystem, ExecDone, Tries, Returns,
         Marks, Onward, jobVars
<1>3. job'.at \notin {"Scan", "Bounce", "Table"}
  BY <1>1, <1>2 DEF Job, At
<1> QED BY <1>3 DEF ScanInv, At

\* A session begins with an empty channel.
LEMMA SessionBegins ==
  ASSUME EntryIs(entry), LinkInv, Opening, On("Session")'
  PROVE  inbox = <<>> /\ taking = NoLun
<1>1. /\ Waiting("Pause").pc = "Find" /\ Waiting("Setup").pc = "Find" /\ Failed.pc = "Failed"
  BY EntriesAre
<1>2. {"pc", "next", "waited", "handle"} \subseteq DOMAIN entry /\ entry.next \in {"Pause", "Setup"} /\ entry'.pc = "Session"
  BY DEF EntryIs, On
<1>3. \A name : [AtRest EXCEPT !.pc = entry.next, !.first = name].pc \in {"Pause", "Setup"}
  BY <1>2 DEF AtRest
<1>4. ~AdbReboot /\ ~FastbootReboot /\ ~AdbWait
  BY <1>1, <1>2 DEF AdbReboot, FastbootReboot, AdbWait, Go, On
<1>5. ~Find /\ ~Watch /\ ~Open /\ ~Pause
  BY <1>1, <1>2 DEF Find, Watch, Open, Pause, Go, On, AtRest
<1>6. ~Watched /\ ~Settle
  BY <1>1, <1>2, <1>3 DEF Watched, Settle, Trust, On
<1>7. ~Setup /\ ~GivesUp /\ ~Hello /\ ~Nudge
  BY <1>1, <1>2 DEF Setup, GivesUp, Hello, Nudge, Go, AtRest, Uploaded
<1> QED BY <1>4, <1>5, <1>6, <1>7 DEF LinkInv, Opening, Configure

LEMMA ScanOfEntering ==
  ASSUME TransferInv, TransferTypes, TransferTypes', LinkInv, ScanInv, Entering
  PROVE  ScanInv'
<1>1. /\ UNCHANGED <<job, rows, op, inbox>> /\ Opening /\ EntryIs(entry) /\ Busy
      /\ wire' = IF entry'.pc = "Session" THEN <<>> ELSE wire
  BY DEF Entering, jobVars, TransferInv
<1>2. ~Working
  BY <1>1, OpeningShape DEF Working
<1>3. CASE ~Working' \/ ~At("Scan")
  BY <1>1, <1>2, <1>3 DEF ScanInv, At
<1>4. CASE Working' /\ At("Scan")
  <2>1. wire' = <<>> /\ inbox' = <<>> /\ op' = NoOp /\ rows' = <<>>
    BY <1>1, <1>2, <1>4, SessionBegins DEF Working, On, Busy, ScanInv
  <2>2. ScanTurn'
    BY <2>1 DEF ScanTurn, InTurn, Below, NoOp
  <2> QED BY <1>1, <1>2, <1>4, <2>2 DEF ScanInv, At
<1> QED BY <1>3, <1>4

LEMMA ScanOfWorld ==
  ASSUME TransferTypes, TransferTypes', ScanInv, World
  PROVE  ScanInv'
<1>1. /\ UNCHANGED <<job, rows, op, entry>> /\ (wire' = wire \/ wire' = <<>>) /\ (inbox' = inbox \/ inbox' = <<>>)
  BY DEF World, jobVars, Surroundings, Boots, Unplugged, GhostGone, SpareMoves
<1>2. Plain(wire, inbox, wire', inbox')
  BY <1>1 DEF Plain
<1>3. ScanTurn => ScanTurn'
  BY <1>1, <1>2, ScanFrame
<1> QED BY <1>1, <1>3 DEF ScanInv, At, Working, On

LEMMA ScanOfExchange ==
  ASSUME TransferTypes, TransferTypes', ScanInv, Exchange
  PROVE  ScanInv'
<1>1. UNCHANGED <<job, rows, entry>> /\ (Serve \/ Working)
  BY DEF Exchange, Serve, Takes, Serves, FirstReply, RecoverEdl, ReadData, SendData, LastReply, Host, jobVars,
         entryVars
<1>2. CASE At("Scan") /\ Working
  <2>1. ScanTurn'
    BY <1>2, ScanOfServe, ScanOfHost DEF Exchange, ScanInv
  <2> QED BY <1>1, <1>2, <2>1 DEF ScanInv, At, Working, On
<1>3. CASE ~(At("Scan") /\ Working)
  BY <1>1, <1>3 DEF ScanInv, At, Working, On
<1> QED BY <1>2, <1>3

\* A dialog left open may answer in the next scan; it moves no label.
LEMMA FileChosenKeeps ==
  ASSUME TransferTypes, NEW p \in picker, RowFileChosen(p)
  PROVE  /\ DOMAIN rows' = DOMAIN rows
         /\ \A i \in DOMAIN rows : (rows'[i]).label = rows[i].label /\ (rows'[i]).lun = rows[i].lun
<1>1. \A i \in DOMAIN rows : rows[i] \in Row
  BY DEF TransferTypes
<1>2. CASE p.index \notin Indices
  BY <1>2 DEF RowFileChosen
<1>3. CASE p.index \in Indices
  <2>1. PICK i \in Indices : i = p.index
    BY <1>3
  <2>2. PICK row : row = [rows[i] EXCEPT !.file = p.row, !.state = "Flash"]
    OBVIOUS
  <2>3. rows' = [rows EXCEPT ![i] = row]
    BY <1>3, <2>1, <2>2 DEF RowFileChosen
  <2>4. i \in DOMAIN rows => row.label = rows[i].label /\ row.lun = rows[i].lun
    BY <1>1, <2>2 DEF Row
  <2> QED BY <2>3, <2>4
<1> QED BY <1>2, <1>3

LEMMA ScanOfUser ==
  ASSUME TransferInv, TransferTypes, ScanInv, User
  PROVE  ScanInv'
<1>1. job \in Job /\ Busy
  BY DEF TransferTypes, TransferInv
<1>2. CASE \E kind \in Wizards, conn \in Connections : ScanStart(kind, conn)
  <2>1. PICK kind \in Wizards, conn \in Connections : ScanStart(kind, conn)
    BY <1>2
  <2>2. Begins(kind, "Scan", <<>>) /\ rows' = <<>> /\ ~Working'
    BY <2>1, EnsureShape DEF ScanStart, Working
  <2>3. /\ job'.at = "Scan" /\ job'.row = 1 /\ ~job'.failed /\ ~job'.measured
        /\ job'.next = [i \in 1..NLuns |-> i - 1]
    BY <1>1, <2>2 DEF Begins, Job
  <2>4. NLuns \in Nat
    BY TransferAssumption
  <2>5. \A i, j \in DOMAIN job'.next : i < j => job'.next[i] < job'.next[j]
    <3>1. PICK n : n = [i \in 1..NLuns |-> i - 1]
      OBVIOUS
    <3>2. \A i, j \in DOMAIN n : i < j => n[i] < n[j]
      BY <2>4, <3>1
    <3> QED BY <2>3, <3>1, <3>2
  <2> QED BY <2>2, <2>3, <2>5 DEF ScanInv, Distinct, At
<1>3. CASE \E kind \in Wizards, conn \in Connections, luns \in (SUBSET LUNs) \ {{}} : PhysStart(kind, conn, luns)
  <2>1. \E kind, table : Begins(kind, "Work", table)
    BY <1>3 DEF PhysStart
  <2>2. job'.at = "Work"
    BY <1>1, <2>1 DEF Begins, Job
  <2> QED BY <2>2 DEF ScanInv, At
<1>4. CASE ExecStart \/ CloseWizard \/ Leave
  <2>1. job'.at \in {"Work", "Idle"}
    BY <1>1, <1>4 DEF ExecStart, CloseWizard, Leave, Job
  <2> QED BY <2>1 DEF ScanInv, At
<1>5. CASE \/ \E i \in Indices : ToggleRow(i) \/ PickRowFile(i)
           \/ \E p \in picker : RowFileChosen(p)
           \/ SortBy
  <2>1. UNCHANGED <<job, entry, wire, inbox, op>>
    BY <1>5 DEF ToggleRow, PickRowFile, RowFileChosen, SortBy, Screen, entryVars, channel
  <2>2. Distinct(rows) => Distinct(rows')
    BY <1>5, RowsTyped
  <2>3. At("Scan") => /\ DOMAIN rows' = DOMAIN rows
                      /\ \A i \in DOMAIN rows : (rows'[i]).label = rows[i].label /\ (rows'[i]).lun = rows[i].lun
    BY <1>5, FileChosenKeeps DEF ToggleRow, PickRowFile, SortBy, At
  <2>4. At("Scan") /\ rows = <<>> => rows' = <<>>
    BY <1>5 DEF ToggleRow, PickRowFile, SortBy, RowFileChosen, At, Indices
  <2>5. At("Scan") /\ ScanTurn => ScanTurn'
    BY <2>1, <2>3 DEF ScanTurn
  <2> QED BY <2>1, <2>2, <2>3, <2>4, <2>5 DEF ScanInv, At, Working, On
<1> QED BY <1>2, <1>3, <1>4, <1>5 DEF User

LEMMA ScanStep ==
  ASSUME TransferInv, TransferTypes, TransferTypes', LinkInv, ScanInv, [TransferNext]_transferVars
  PROVE  ScanInv'
<1>1. CASE UNCHANGED transferVars
  BY <1>1 DEF transferVars, entryVars, jobVars, channel, ScanInv, ScanTurn, At, Working, On
<1>2. CASE Scanning
  BY <1>2, ScanOfReadGpt, ScanOfGptRead, ScanOfBounce DEF Scanning
<1> QED BY <1>1, <1>2, ScanOfTransfer, ScanOfEntering, ScanOfWorld, ScanOfExchange, ScanOfUser
        DEF TransferNext, Worker

-----------------------------------------------------------------------------
(* The work.  As long as nothing has gone wrong host and device are in     *)
(* step: what is on the channel belongs to the command of the row at hand, *)
(* or the device is gone and nothing will come.                            *)

\* What a row is to come to.
Written(r) == cells[r.lun] = IF r.state = "Erase" THEN Holds("Erased", r.lun) ELSE Holds("Image", r.file)
Through(r) == IF job.kind \notin Flashes THEN dumps[r.label] = r.lun ELSE Written(r)
Earlier    == \A i \in DOMAIN job.plan : i < job.row => Through(job.plan[i])

Silence    == wire = <<>> /\ inbox = <<>> /\ taking = NoLun
Lost       == Silence /\ ~Alive
Asked(m)   == wire = <<>> /\ inbox = <<m>> /\ taking = NoLun
Answers(w) == wire = w /\ inbox = <<>> /\ taking = NoLun
Announced(w, b, r) == wire = w /\ inbox = b /\ taking = r.lun
Raw(r)     == [cmd |-> "Raw", lun |-> r.lun, file |-> r.file, whole |-> TRUE]
Gets(r)    == op.got = r.lun /\ (Dumping => dumps[r.label] = r.lun)

ReadTurn(r) ==
  /\ op.cmd = "Read" /\ op.lun = r.lun
  /\ \/ /\ op.stage = "First"
        /\ \/ Lost \/ Asked(Message("Read", r.lun)) \/ Answers(<<Nak>>)
           \/ Answers(<<Ack, Data(r.lun), Ack>>)
     \/ op.stage = "Data" /\ (Lost \/ Answers(<<Data(r.lun), Ack>>))
     \/ op.stage = "Last" /\ (Lost \/ Answers(<<Ack>>)) /\ Gets(r)
     \/ op.stage = "Ok" /\ Silence /\ Gets(r)
ProgramTurn(r) ==
  /\ op.cmd = "Program" /\ op.lun = r.lun /\ job.kind \in Flashes /\ r.state = "Flash" /\ op.file = r.file
  /\ \/ /\ op.stage = "First"
        /\ \/ Lost \/ Asked(Message("Program", r.lun)) \/ Answers(<<Nak>>)
           \/ Announced(<<Ack>>, <<>>, r)
     \/ op.stage = "Data" /\ (Lost \/ Announced(<<>>, <<>>, r))
     \/ /\ op.stage = "Last"
        /\ \/ Lost \/ Answers(<<Nak>>) \/ (Answers(<<Ack>>) /\ Written(r))
           \/ Announced(<<>>, <<Raw(r)>>, r)
     \/ op.stage = "Ok" /\ Silence /\ Written(r)
EraseTurn(r) ==
  /\ op.cmd = "Erase" /\ op.lun = r.lun /\ job.kind \in Flashes /\ r.state = "Erase"
  /\ \/ /\ op.stage = "First"
        /\ \/ Lost \/ Asked(Message("Erase", r.lun)) \/ Answers(<<Nak>>)
           \/ (Answers(<<Ack>>) /\ Written(r))
     \/ op.stage = "Ok" /\ Silence /\ Written(r)
TurnOf(r) == ReadTurn(r) \/ ProgramTurn(r) \/ EraseTurn(r)
Turn == (op = NoOp /\ Silence) \/ (Left /\ TurnOf(Current))

Off   == op.stage \in {"Recover", "Err"}
Still == taking = NoLun /\ \A j \in DOMAIN inbox : inbox[j].cmd \notin Writing
WorkInv ==
  /\ job.at \in {"Work", "Reset"} =>
       Distinct(job.plan) /\ (job.kind = "FlashPhys" => \A i \in DOMAIN job.plan : job.plan[i].state = "Flash")
  /\ At("Work") /\ ~Working => job.row = 1 /\ ~job.failed /\ ~job.measured
  /\ At("Work") /\ Working /\ ~job.failed /\ ~Off => Turn /\ Earlier
  /\ At("Reset") => op.cmd = "Power" /\ job.row > Len(job.plan) /\ (~job.failed => Still /\ Earlier)
  /\ At("Done") /\ job.result = "Ok" => Still /\ Earlier /\ job.row > Len(job.plan)

LEMMA InitWork == TransferInit => WorkInv
BY DEF TransferInit, WorkInv, At

LEMMA OneIs ==
  ASSUME NEW a
  PROVE  /\ <<a>> # <<>> /\ Head(<<a>>) = a /\ Tail(<<a>>) = <<>> /\ Append(<<>>, a) = <<a>> /\ <<>> \o <<a>> = <<a>>
OBVIOUS
LEMMA MoreAre ==
  ASSUME NEW a, NEW b, NEW c
  PROVE  /\ <<a, b>> # <<>> /\ Head(<<a, b>>) = a /\ Tail(<<a, b>>) = <<b>>
         /\ <<a, b, c>> # <<>> /\ Head(<<a, b, c>>) = a /\ Tail(<<a, b, c>>) = <<b, c>>
         /\ <<>> \o <<a, b, c>> = <<a, b, c>>
OBVIOUS
LEMMA TokensAre == Ack.k = "Ack" /\ Nak.k = "Nak" /\ \A lun : Data(lun).k = "Data" /\ Data(lun).of = lun
BY DEF Ack, Nak, Data

\* The device, and the hands that unplug it.
LEMMA TurnOfWorld ==
  ASSUME NEW r, TurnOf(r), UNCHANGED <<job, op, cells, dumps>>,
         \/ UNCHANGED <<wire, inbox, taking>> /\ (Alive' => Alive)
         \/ wire' = <<>> /\ inbox' = <<>> /\ taking' = NoLun /\ ~Alive'
  PROVE  TurnOf(r)'
<1>1. (Lost => Lost') /\ (Silence => Silence') /\ (Gets(r) => Gets(r)') /\ (Written(r) => Written(r)')
  BY DEF Lost, Silence, Gets, Written, Dumping, At
<1>2. CASE UNCHANGED <<wire, inbox, taking>>
  <2>1. /\ \A w : Answers(w) => Answers(w)'
        /\ \A m : Asked(m) => Asked(m)'
        /\ \A w, b : Announced(w, b, r) => Announced(w, b, r)'
    BY <1>2 DEF Answers, Asked, Announced
  <2>2. ReadTurn(r) => ReadTurn(r)'
    BY <1>1, <2>1 DEF ReadTurn
  <2>3. ProgramTurn(r) => ProgramTurn(r)'
    BY <1>1, <2>1 DEF ProgramTurn
  <2>4. EraseTurn(r) => EraseTurn(r)'
    BY <1>1, <2>1 DEF EraseTurn
  <2> QED BY <2>2, <2>3, <2>4 DEF TurnOf
<1>3. CASE wire' = <<>> /\ inbox' = <<>> /\ taking' = NoLun /\ ~Alive'
  <2>1. Lost' /\ Silence'
    BY <1>3 DEF Lost, Silence
  <2>2. ReadTurn(r) => ReadTurn(r)'
    BY <1>1, <2>1 DEF ReadTurn
  <2>3. ProgramTurn(r) => ProgramTurn(r)'
    BY <1>1, <2>1 DEF ProgramTurn
  <2>4. EraseTurn(r) => EraseTurn(r)'
    BY <1>1, <2>1 DEF EraseTurn
  <2> QED BY <2>2, <2>3, <2>4 DEF TurnOf
<1> QED BY <1>2, <1>3

LEMMA TurnOfServe ==
  ASSUME TransferTypes, NEW r \in Row, TurnOf(r), Serve
  PROVE  /\ TurnOf(r)' /\ \A lun \in LUNs : lun # r.lun => cells'[lun] = cells[lun]
         /\ cells' = cells \/ job.kind \in Flashes
<1>1. /\ Alive /\ inbox # <<>> /\ UNCHANGED <<job, op, dumps>> /\ r.lun \in LUNs /\ r.lun # NoLun
      /\ IF taking # NoLun THEN Takes(Head(inbox)) ELSE Serves(Head(inbox))
      /\ UNCHANGED phone => inbox' = Tail(inbox)
      /\ DOMAIN cells = LUNs
  BY LunsAre DEF Serve, jobVars, Row, Alive, TransferTypes
<1>2. ~Silence /\ ~Lost /\ \A w : ~Answers(w)
  BY <1>1 DEF Silence, Lost, Answers
<1>3. CASE ReadTurn(r)
  <2>1. op.stage = "First" /\ Asked(Message("Read", r.lun)) /\ op.cmd = "Read" /\ op.lun = r.lun
    BY <1>2, <1>3 DEF ReadTurn
  <2>2. PICK m : m = Message("Read", r.lun)
    OBVIOUS
  <2>3. m.cmd = "Read" /\ m.lun = r.lun /\ wire = <<>> /\ inbox = <<m>> /\ taking = NoLun
    BY <2>1, <2>2 DEF Message, Asked
  <2>4. Serves(m)
    BY <1>1, <2>3, OneIs
  <2>5. UNCHANGED <<phone, cells, taking>> /\ (wire' = wire \o <<Nak>> \/ wire' = wire \o <<Ack, Data(r.lun), Ack>>)
    BY <2>3, <2>4 DEF Serves, Says, entryVars
  <2>6. inbox' = <<>>
    BY <1>1, <2>3, <2>5, OneIs
  <2>7. wire' = <<Nak>> \/ wire' = <<Ack, Data(r.lun), Ack>>
    BY <2>3, <2>5, OneIs, MoreAre
  <2>8. Answers(<<Nak>>)' \/ Answers(<<Ack, Data(r.lun), Ack>>)'
    BY <2>3, <2>5, <2>6, <2>7 DEF Answers
  <2> QED BY <1>1, <2>1, <2>5, <2>8 DEF TurnOf, ReadTurn
<1>4. CASE ProgramTurn(r) /\ op.stage = "First"
  <2>1. Asked(Message("Program", r.lun)) \/ Announced(<<Ack>>, <<>>, r)
    BY <1>2, <1>4 DEF ProgramTurn
  <2>2. PICK m : m = Message("Program", r.lun)
    OBVIOUS
  <2>3. m.cmd = "Program" /\ m.lun = r.lun /\ wire = <<>> /\ inbox = <<m>> /\ taking = NoLun
    BY <1>1, <2>1, <2>2 DEF Message, Asked, Announced
  <2>4. Serves(m)
    BY <1>1, <2>3, OneIs
  <2>5. /\ UNCHANGED <<phone, cells>>
        /\ \/ wire' = wire \o <<Nak>> /\ taking' = NoLun
           \/ wire' = wire \o <<Ack>> /\ taking' = r.lun
    BY <2>3, <2>4 DEF Serves, Says, entryVars
  <2>6. inbox' = <<>>
    BY <1>1, <2>3, <2>5, OneIs
  <2>7. Answers(<<Nak>>)' \/ Announced(<<Ack>>, <<>>, r)'
    BY <2>3, <2>5, <2>6, OneIs DEF Answers, Announced
  <2> QED BY <1>1, <1>4, <2>5, <2>7 DEF TurnOf, ProgramTurn
<1>5. CASE ProgramTurn(r) /\ op.stage # "First"
  <2>1. op.stage = "Last" /\ Announced(<<>>, <<Raw(r)>>, r)
    BY <1>1, <1>2, <1>5 DEF ProgramTurn, Announced
  <2>2. PICK m : m = Raw(r)
    OBVIOUS
  <2>3. m.file = r.file /\ m.whole /\ wire = <<>> /\ inbox = <<m>> /\ taking = r.lun
    BY <2>1, <2>2 DEF Raw, Announced
  <2>4. Takes(m)
    BY <1>1, <2>3, OneIs
  <2>5. /\ UNCHANGED phone /\ taking' = NoLun
        /\ \/ wire' = wire \o <<Ack>> /\ cells' = [cells EXCEPT ![r.lun] = Holds("Image", r.file)]
           \/ wire' = wire \o <<Nak>> /\ cells' = [cells EXCEPT ![r.lun] = Holds("Torn", r.lun)]
    BY <2>3, <2>4 DEF Takes, Says, entryVars
  <2>6. inbox' = <<>>
    BY <1>1, <2>3, <2>5, OneIs
  <2>7. r.state = "Flash" /\ op.lun = r.lun /\ op.file = r.file /\ op.cmd = "Program" /\ job.kind \in Flashes
    BY <1>5 DEF ProgramTurn
  <2>8. Answers(<<Nak>>)' \/ (Answers(<<Ack>>)' /\ Written(r)')
    BY <1>1, <2>3, <2>5, <2>6, <2>7, OneIs DEF Answers, Written
  <2> QED BY <1>1, <1>5, <2>1, <2>5, <2>7, <2>8 DEF TurnOf, ProgramTurn
<1>6. CASE EraseTurn(r)
  <2>1. op.stage = "First" /\ Asked(Message("Erase", r.lun))
    BY <1>2, <1>6 DEF EraseTurn
  <2>2. PICK m : m = Message("Erase", r.lun)
    OBVIOUS
  <2>3. m.cmd = "Erase" /\ m.lun = r.lun /\ wire = <<>> /\ inbox = <<m>> /\ taking = NoLun
    BY <2>1, <2>2 DEF Message, Asked
  <2>4. Serves(m)
    BY <1>1, <2>3, OneIs
  <2>5. /\ UNCHANGED <<phone, taking>>
        /\ \/ wire' = wire \o <<Nak>> /\ UNCHANGED cells
           \/ wire' = wire \o <<Ack>> /\ cells' = [cells EXCEPT ![r.lun] = Holds("Erased", r.lun)]
    BY <2>3, <2>4 DEF Serves, Says, entryVars
  <2>6. inbox' = <<>>
    BY <1>1, <2>3, <2>5, OneIs
  <2>7. r.state = "Erase" /\ job.kind \in Flashes
    BY <1>6 DEF EraseTurn
  <2>8. Answers(<<Nak>>)' \/ (Answers(<<Ack>>)' /\ Written(r)')
    BY <1>1, <2>3, <2>5, <2>6, <2>7, OneIs DEF Answers, Written
  <2> QED BY <1>1, <1>6, <2>1, <2>5, <2>7, <2>8 DEF TurnOf, EraseTurn
<1> QED BY <1>3, <1>4, <1>5, <1>6 DEF TurnOf

LEMMA TurnOfHost ==
  ASSUME TransferTypes, LinkInv, NEW r \in Row, r = Current, TurnOf(r), ~Off,
         FirstReply \/ RecoverEdl \/ ReadData \/ SendData \/ LastReply
  PROVE  /\ UNCHANGED cells /\ (Off' \/ TurnOf(r)')
         /\ \A label \in LUNs : label # r.label => dumps'[label] = dumps[label]
         /\ dumps' = dumps \/ job.kind \notin Flashes
<1>1. /\ UNCHANGED <<phone, job, taking, cells>> /\ op \in Op /\ r.lun \in LUNs /\ r.lun # NoLun /\ r.label \in LUNs
      /\ DOMAIN dumps = LUNs /\ (~Alive => taking = NoLun)
  BY LunsAre DEF FirstReply, RecoverEdl, ReadData, SendData, LastReply, Host, jobVars, entryVars, Row, TransferTypes,
                 LinkInv
<1>2. ASSUME NEW stage, op' = [op EXCEPT !.stage = stage]
      PROVE  op'.stage = stage /\ op'.cmd = op.cmd /\ op'.lun = op.lun /\ op'.file = op.file /\ op'.got = op.got
  BY <1>1, <1>2 DEF Op
<1>3. CASE Off' /\ UNCHANGED dumps
  BY <1>1, <1>3
<1>4. ASSUME UNCHANGED dumps
      PROVE  (Gets(r) /\ op'.got = op.got => Gets(r)') /\ (Written(r) => Written(r)') /\ (Alive' <=> Alive)
  BY <1>1, <1>4 DEF Gets, Written, Dumping, At, Alive
<1>5. CASE FirstReply /\ ~Off'
  <2>1. /\ op.stage = "First" /\ UNCHANGED <<dumps, inbox>> /\ wire # <<>> /\ Head(wire).k = "Ack" /\ wire' = Tail(wire)
        /\ Stage(IF op.cmd \in {"Read", "Program"} THEN "Data" ELSE "Ok")
    BY <1>2, <1>5 DEF FirstReply, Hears, HearsNoise, Stage, Off
  <2>2. wire # <<Nak>> /\ ~Silence /\ \A m : ~Asked(m)
    BY <2>1, TokensAre, OneIs DEF Silence, Asked
  <2>3. CASE ReadTurn(r)
    <3>1. Answers(<<Ack, Data(r.lun), Ack>>) /\ op.cmd = "Read"
      BY <2>1, <2>2, <2>3 DEF ReadTurn, Lost, Answers
    <3>2. op'.stage = "Data" /\ op'.cmd = "Read" /\ op'.lun = op.lun
      BY <1>2, <2>1, <3>1 DEF Stage
    <3>3. Answers(<<Data(r.lun), Ack>>)'
      BY <1>1, <2>1, <3>1, MoreAre DEF Answers
    <3> QED BY <1>1, <2>1, <2>3, <3>2, <3>3 DEF ReadTurn, TurnOf
  <2>4. CASE ProgramTurn(r)
    <3>1. Announced(<<Ack>>, <<>>, r) /\ op.cmd = "Program"
      BY <2>1, <2>2, <2>4 DEF ProgramTurn, Lost, Answers
    <3>2. op'.stage = "Data" /\ op'.cmd = "Program" /\ op'.lun = op.lun /\ op'.file = op.file
      BY <1>2, <2>1, <3>1 DEF Stage
    <3>3. Announced(<<>>, <<>>, r)'
      BY <1>1, <2>1, <3>1, OneIs DEF Announced
    <3> QED BY <1>1, <2>1, <2>4, <3>2, <3>3 DEF ProgramTurn, TurnOf
  <2>5. CASE EraseTurn(r)
    <3>1. Answers(<<Ack>>) /\ Written(r) /\ op.cmd = "Erase"
      BY <2>1, <2>2, <2>5 DEF EraseTurn, Lost, Answers
    <3>2. op'.stage = "Ok" /\ op'.cmd = "Erase" /\ op'.lun = op.lun
      BY <1>2, <2>1, <3>1 DEF Stage
    <3>3. Silence' /\ Written(r)'
      BY <1>1, <1>4, <2>1, <3>1, OneIs DEF Answers, Silence
    <3> QED BY <1>1, <2>1, <2>5, <3>2, <3>3 DEF EraseTurn, TurnOf
  <2> QED BY <2>3, <2>4, <2>5 DEF TurnOf
<1>6. ~RecoverEdl
  BY DEF RecoverEdl, Off
<1>7. CASE ReadData /\ ~(Off' /\ UNCHANGED dumps)
  <2>1. /\ op.cmd = "Read" /\ op.stage = "Data" /\ UNCHANGED inbox /\ wire # <<>> /\ wire' = Tail(wire)
        /\ op' = [op EXCEPT !.stage = "Last", !.got = Head(wire).of]
        /\ dumps' = IF Dumping THEN [dumps EXCEPT ![r.label] = Head(wire).of] ELSE dumps
    BY <1>2, <1>7 DEF ReadData, Stage, Off
  <2>2. ReadTurn(r)
    BY <2>1 DEF TurnOf, ProgramTurn, EraseTurn
  <2>3. Answers(<<Data(r.lun), Ack>>)
    BY <2>1, <2>2 DEF ReadTurn, Lost, Silence
  <2>4. Head(wire).of = r.lun /\ wire' = <<Ack>> /\ inbox' = <<>> /\ taking' = NoLun
    BY <1>1, <2>1, <2>3, MoreAre, TokensAre DEF Answers
  <2>5. op'.stage = "Last" /\ op'.cmd = "Read" /\ op'.lun = op.lun /\ op'.got = r.lun
    BY <1>1, <2>1, <2>4 DEF Op
  <2>6. Dumping' <=> Dumping
    BY <1>1 DEF Dumping, At
  <2>7. dumps' = IF Dumping THEN [dumps EXCEPT ![r.label] = r.lun] ELSE dumps
    BY <2>1, <2>4
  <2>8. Gets(r)'
    BY <1>1, <2>5, <2>6, <2>7 DEF Gets
  <2>9. Answers(<<Ack>>)'
    BY <2>4 DEF Answers
  <2>10. TurnOf(r)'
    BY <2>2, <2>5, <2>8, <2>9 DEF TurnOf, ReadTurn
  <2>11. Dumping => job.kind \notin Flashes
    BY DEF Dumping, Flashes
  <2> QED BY <1>1, <2>7, <2>10, <2>11
<1>8. CASE SendData /\ ~Off'
  <2>1. /\ op.cmd = "Program" /\ op.stage = "Data" /\ UNCHANGED <<wire, dumps>>
        /\ Sends([cmd |-> "Raw", lun |-> op.lun, file |-> op.file, whole |-> TRUE]) /\ Stage("Last")
    BY <1>2, <1>8 DEF SendData, Stage, Off
  <2>2. ProgramTurn(r)
    BY <2>1 DEF TurnOf, ReadTurn, EraseTurn
  <2>3. op'.stage = "Last" /\ op'.cmd = "Program" /\ op'.lun = op.lun /\ op'.file = op.file
    BY <1>2, <2>1 DEF Stage
  <2>4. CASE Lost
    <3>1. Lost'
      BY <1>1, <2>1, <2>4 DEF Lost, Silence, Sends, Alive
    <3> QED BY <1>1, <2>1, <2>2, <2>3, <3>1 DEF ProgramTurn, TurnOf
  <2>5. CASE Announced(<<>>, <<>>, r)
    <3>1. Alive /\ Sends(Raw(r))
      BY <1>1, <2>1, <2>2, <2>5 DEF Announced, ProgramTurn, Raw
    <3>2. PICK m : m = Raw(r)
      OBVIOUS
    <3>3. inbox' = <<m>>
      BY <2>5, <3>1, <3>2, OneIs DEF Sends, Announced
    <3>4. Announced(<<>>, <<Raw(r)>>, r)'
      BY <1>1, <2>1, <2>5, <3>2, <3>3 DEF Announced
    <3> QED BY <1>1, <2>1, <2>2, <2>3, <3>4 DEF ProgramTurn, TurnOf
  <2> QED BY <2>1, <2>2, <2>4, <2>5 DEF ProgramTurn
<1>9. CASE LastReply /\ ~Off'
  <2>1. /\ op.stage = "Last" /\ UNCHANGED <<inbox, dumps>> /\ wire # <<>> /\ Head(wire).k = "Ack" /\ wire' = Tail(wire)
        /\ Stage("Ok")
    BY <1>2, <1>9 DEF LastReply, Hears, HearsNoise, Stage, Off
  <2>2. op'.stage = "Ok" /\ op'.cmd = op.cmd /\ op'.lun = op.lun /\ op'.file = op.file /\ op'.got = op.got
    BY <1>2, <2>1 DEF Stage
  <2>3. wire # <<Nak>> /\ ~Silence /\ \A b : ~Announced(<<>>, b, r)
    BY <2>1, TokensAre, OneIs DEF Silence, Announced
  <2>4. CASE ReadTurn(r)
    <3>1. Answers(<<Ack>>) /\ Gets(r)
      BY <2>1, <2>3, <2>4 DEF ReadTurn, Lost
    <3>2. Silence' /\ Gets(r)'
      BY <1>1, <1>4, <2>1, <2>2, <3>1, OneIs DEF Answers, Silence
    <3> QED BY <1>1, <2>1, <2>2, <2>4, <3>2 DEF ReadTurn, TurnOf
  <2>5. CASE ProgramTurn(r)
    <3>1. Answers(<<Ack>>) /\ Written(r)
      BY <2>1, <2>3, <2>5 DEF ProgramTurn, Lost, Answers
    <3>2. Silence' /\ Written(r)'
      BY <1>1, <1>4, <2>1, <3>1, OneIs DEF Answers, Silence
    <3> QED BY <1>1, <2>1, <2>2, <2>5, <3>2 DEF ProgramTurn, TurnOf
  <2>6. ~EraseTurn(r)
    BY <2>1 DEF EraseTurn
  <2> QED BY <2>4, <2>5, <2>6 DEF TurnOf
<1>10. FirstReply \/ SendData \/ LastReply => UNCHANGED dumps
  BY DEF FirstReply, SendData, LastReply
<1> QED BY <1>3, <1>5, <1>6, <1>7, <1>8, <1>9, <1>10

LEMMA PlansAre ==
  ASSUME TransferTypes
  PROVE  /\ job \in Job /\ job.row \in Nat /\ 1 <= job.row
         /\ \A i \in DOMAIN job.plan : i \in Nat /\ 1 <= i /\ job.plan[i] \in Row
                                       /\ job.plan[i].label \in LUNs /\ job.plan[i].lun \in LUNs
         /\ Left => job.row \in DOMAIN job.plan /\ Current \in Row
<1>1. job \in Job /\ job.plan \in Seq(Row) /\ job.row \in Nat \ {0}
  BY DEF TransferTypes, Job
<1>2. Len(job.plan) \in Nat /\ DOMAIN job.plan = 1..Len(job.plan) /\ \A i \in DOMAIN job.plan : job.plan[i] \in Row
  BY <1>1
<1>3. \A r \in Row : r.label \in LUNs /\ r.lun \in LUNs
  BY DEF Row
<1>4. job.row \in Nat /\ 1 <= job.row /\ \A i \in DOMAIN job.plan : i \in Nat /\ 1 <= i
  BY <1>1, <1>2
<1> QED BY <1>1, <1>2, <1>3, <1>4, CurrentTyped

\* A step of the exchange touches what belongs to the row at hand and leaves what
\* the rows before it came to.
LEMMA EarlierKeeps ==
  ASSUME TransferTypes, Distinct(job.plan), UNCHANGED job, Left, NEW r, r = Current, Earlier,
         \A lun \in LUNs : lun # r.lun => cells'[lun] = cells[lun],
         cells' = cells \/ job.kind \in Flashes,
         \A label \in LUNs : label # r.label => dumps'[label] = dumps[label],
         dumps' = dumps \/ job.kind \notin Flashes
  PROVE  Earlier'
<1>1. ASSUME NEW i \in DOMAIN job.plan, i < job.row PROVE Through(job.plan[i])'
  <2>1. PICK s : s = job.plan[i]
    OBVIOUS
  <2>2. s \in Row /\ s.label \in LUNs /\ s.lun \in LUNs /\ job.row \in DOMAIN job.plan /\ i # job.row
    BY <1>1, <2>1, PlansAre
  <2>3. s.label # r.label /\ s.lun # r.lun
    BY <1>1, <2>1, <2>2 DEF Distinct, Current
  <2>4. Through(s)
    BY <1>1, <2>1 DEF Earlier
  <2>5. Through(s)'
    BY <2>2, <2>3, <2>4 DEF Through, Written
  <2> QED BY <2>1, <2>5
<1> QED BY <1>1 DEF Earlier

LEMMA EarlierStays == ASSUME UNCHANGED <<cells, dumps>>, job'.plan = job.plan, job'.row = job.row, job'.kind = job.kind
                      PROVE  Earlier => Earlier'
BY DEF Earlier, Through, Written

-----------------------------------------------------------------------------
LEMMA SilentIsHeard == ASSUME Silence, UNCHANGED <<wire, inbox, taking>> PROVE Silence'
BY DEF Silence

LEMMA WorkOfWorld == ASSUME LinkInv, WorkInv, World PROVE WorkInv'
<1>1. /\ UNCHANGED <<job, op, entry, cells, dumps>> /\ "at" \in DOMAIN phone
      /\ \/ UNCHANGED <<wire, inbox, taking>> /\ phone'.at # "Dark"
         \/ wire' = <<>> /\ inbox' = <<>> /\ taking' = NoLun /\ phone'.at = "Dark"
  BY DEF World, Surroundings, Boots, Unplugged, GhostGone, SpareMoves, jobVars, stores, LinkInv
<1>2. Alive' => Alive
  <2>1. CASE Boots
    <3>1. phone'.at # "Firehose"
      BY <2>1 DEF Boots
    <3> QED BY <3>1 DEF Alive
  <2>2. CASE Unplugged
    <3>1. phone'.at # "Firehose"
      BY <1>1, <2>2 DEF Unplugged
    <3> QED BY <3>1 DEF Alive
  <2>3. CASE GhostGone \/ SpareMoves
    BY <2>3 DEF GhostGone, SpareMoves, Alive
  <2> QED BY <2>1, <2>2, <2>3 DEF World, Surroundings
<1>3. Turn => Turn'
  <2>1. PICK r : r = Current
    OBVIOUS
  <2>2. TurnOf(r) => TurnOf(r)'
    BY <1>1, <1>2, TurnOfWorld DEF Alive
  <2>3. Silence => Silence'
    BY <1>1 DEF Silence
  <2>4. (Left' <=> Left) /\ Current' = Current
    BY <1>1 DEF Left, Current
  <2> QED BY <1>1, <2>1, <2>2, <2>3, <2>4 DEF Turn
<1>4. (Still => Still') /\ (Earlier => Earlier')
  BY <1>1, EarlierStays DEF Still
<1> QED BY <1>1, <1>3, <1>4 DEF WorkInv, At, Working, On, Off

LEMMA WorkOfEntering == ASSUME TransferInv, TransferTypes, LinkInv, WorkInv, Entering PROVE WorkInv'
<1>1. /\ UNCHANGED <<job, op, inbox, taking, cells, dumps>> /\ Opening /\ EntryIs(entry) /\ Busy
      /\ wire' = IF entry'.pc = "Session" THEN <<>> ELSE wire
  BY DEF Entering, jobVars, stores, TransferInv
<1>2. ~Working /\ ~On("Idle")
  BY <1>1, OpeningShape DEF Working
<1>3. op = NoOp /\ ~At("Done") /\ ~At("Reset")
  BY <1>1, <1>2 DEF Busy, At, WorkInv, NoOp
<1>4. At("Work") /\ Working' => Turn' /\ Earlier'
  <2>1. Working' => Silence' /\ op' = NoOp
    BY <1>1, <1>3, SessionBegins DEF Working, On, Silence
  <2>2. At("Work") => Earlier
    BY <1>2, PlansAre DEF WorkInv, Earlier
  <2> QED BY <1>1, <2>1, <2>2, EarlierStays DEF Turn
<1> QED BY <1>1, <1>2, <1>3, <1>4 DEF WorkInv, At

LEMMA WorkOfServe == ASSUME TransferTypes, WorkInv, Serve PROVE WorkInv'
<1>1. /\ inbox # <<>> /\ inbox \in Seq(Sent) /\ UNCHANGED <<job, op, dumps, entry>>
      /\ inbox' = <<>> \/ inbox' = Tail(inbox)
      /\ IF taking # NoLun THEN Takes(Head(inbox)) ELSE Serves(Head(inbox))
  BY DEF Serve, Takes, Serves, jobVars, entryVars, TransferTypes
<1>2. CASE At("Work") /\ Working /\ ~job.failed /\ ~Off
  <2>1. Distinct(job.plan) /\ Turn /\ Earlier
    BY <1>2 DEF WorkInv, At
  <2>2. ~Silence
    BY <1>1 DEF Silence
  <2>3. PICK r : r = Current
    OBVIOUS
  <2>4. Left /\ TurnOf(r) /\ r \in Row
    BY <2>1, <2>2, <2>3, PlansAre DEF Turn
  <2>5. /\ TurnOf(r)' /\ \A lun \in LUNs : lun # r.lun => cells'[lun] = cells[lun]
        /\ cells' = cells \/ job.kind \in Flashes
    BY <2>4, TurnOfServe
  <2>6. Earlier'
    BY <1>1, <2>1, <2>3, <2>4, <2>5, EarlierKeeps
  <2>7. Turn'
    <3>1. Left' /\ Current' = Current
      BY <1>1, <2>4 DEF Left, Current
    <3> QED BY <2>3, <2>5, <3>1 DEF Turn
  <2> QED BY <1>1, <1>2, <2>6, <2>7 DEF WorkInv, At, Working, On, Off
<1>3. CASE At("Work") /\ ~(Working /\ ~job.failed /\ ~Off)
  BY <1>1, <1>3 DEF WorkInv, At, Working, On, Off
<1>4. Still => Still' /\ UNCHANGED cells
  <2>1. PICK m : m = Head(inbox)
    OBVIOUS
  <2>2. PICK b : b = inbox
    OBVIOUS
  <2>3. PICK c : c = Tail(b)
    OBVIOUS
  <2>4. 1 \in DOMAIN b /\ m = b[1] /\ \A i \in DOMAIN c : i + 1 \in DOMAIN b /\ c[i] = b[i + 1]
    BY <1>1, <2>1, <2>2, <2>3, TailAt
  <2>5. ASSUME Still PROVE UNCHANGED <<cells, taking>> /\ taking = NoLun
    <3>1. Serves(m) /\ m.cmd \notin Writing /\ taking = NoLun
      BY <1>1, <2>1, <2>2, <2>4, <2>5 DEF Still
    <3> QED BY <3>1 DEF Serves, Writing
  <2>6. ASSUME Still, NEW j \in DOMAIN inbox' PROVE (inbox'[j]).cmd \notin Writing
    BY <1>1, <2>2, <2>3, <2>4, <2>6 DEF Still
  <2> QED BY <2>5, <2>6 DEF Still
<1>5. CASE ~At("Work")
  BY <1>1, <1>4, <1>5, EarlierStays DEF WorkInv, At
<1> QED BY <1>2, <1>3, <1>5

LEMMA WorkOfHost ==
  ASSUME TransferInv, TransferTypes, LinkInv, WorkInv, FirstReply \/ RecoverEdl \/ ReadData \/ SendData \/ LastReply
  PROVE  WorkInv'
<1>1. /\ Working /\ UNCHANGED <<job, entry, taking, cells>> /\ Busy /\ op \in Op /\ inbox \in Seq(Sent)
  BY DEF FirstReply, RecoverEdl, ReadData, SendData, LastReply, Host, jobVars, entryVars, TransferInv, TransferTypes
<1>2. ~At("Done")
  BY <1>1 DEF Busy, At, Working, On
<1>3. Off => Off'
  <2>1. Off => RecoverEdl
    BY DEF Off, FirstReply, ReadData, SendData, LastReply
  <2>2. RecoverEdl => op' = op \/ op' = [op EXCEPT !.stage = "Err"]
    BY DEF RecoverEdl, Stage
  <2> QED BY <1>1, <2>1, <2>2 DEF Off, Op
<1>4. CASE At("Work") /\ ~job.failed /\ ~Off
  <2>1. Distinct(job.plan) /\ Turn /\ Earlier
    BY <1>1, <1>4 DEF WorkInv, At
  <2>2. op # NoOp
    BY <1>4 DEF FirstReply, RecoverEdl, ReadData, SendData, LastReply, NoOp
  <2>3. PICK r : r = Current
    OBVIOUS
  <2>4. Left /\ TurnOf(r) /\ r \in Row
    BY <2>1, <2>2, <2>3, PlansAre DEF Turn
  <2>5. /\ Off' \/ TurnOf(r)'
        /\ \A label \in LUNs : label # r.label => dumps'[label] = dumps[label]
        /\ dumps' = dumps \/ job.kind \notin Flashes
    BY <1>4, <2>3, <2>4, TurnOfHost
  <2>6. Earlier'
    BY <1>1, <2>1, <2>3, <2>4, <2>5, EarlierKeeps
  <2>7. Off' \/ Turn'
    <3>1. Left' /\ Current' = Current
      BY <1>1, <2>4 DEF Left, Current
    <3> QED BY <2>3, <2>5, <3>1 DEF Turn
  <2> QED BY <1>1, <1>4, <2>6, <2>7 DEF WorkInv, At, Working, On
<1>5. CASE At("Work") /\ (job.failed \/ Off)
  BY <1>1, <1>3, <1>5 DEF WorkInv, At, Working, On
<1>6. CASE At("Reset")
  <2>1. op.cmd = "Power" /\ ~ReadData /\ ~SendData
    BY <1>6 DEF WorkInv, ReadData, SendData
  <2>2. UNCHANGED dumps /\ (UNCHANGED inbox \/ Sends(Message("Power", NoLun)))
    BY <2>1 DEF FirstReply, RecoverEdl, LastReply
  <2>3. op'.cmd = "Power"
    <3>1. op' = op \/ \E stage : op' = [op EXCEPT !.stage = stage]
      BY <2>1 DEF FirstReply, RecoverEdl, LastReply, Stage
    <3> QED BY <1>1, <2>1, <3>1 DEF Op
  <2>4. Still => Still'
    <3>1. PICK m : m = Message("Power", NoLun)
      OBVIOUS
    <3>2. m \in Sent /\ m.cmd \notin Writing
      BY <3>1, TokensTyped DEF Commands, Message, Writing
    <3>3. inbox' = inbox \/ inbox' = Append(inbox, m)
      BY <2>2, <3>1 DEF Sends
    <3>4. CASE inbox' = Append(inbox, m)
      <4>1. \A j \in DOMAIN inbox' : \/ j \in DOMAIN inbox /\ inbox'[j] = inbox[j]
                                     \/ inbox'[j] = m
        BY <1>1, <3>2, <3>4, AppendAt
      <4> QED BY <1>1, <3>2, <4>1 DEF Still
    <3> QED BY <1>1, <3>3, <3>4 DEF Still
  <2> QED BY <1>1, <1>6, <2>2, <2>3, <2>4, EarlierStays DEF WorkInv, At
<1>7. CASE job.at \notin {"Work", "Reset", "Done"}
  BY <1>1, <1>7 DEF WorkInv, At
<1> QED BY <1>2, <1>4, <1>5, <1>6, <1>7 DEF At

\* The command of a row goes out on a channel that is silent.
LEMMA CommandOut ==
  ASSUME Silence, NEW cmd, NEW r, NEW file, Command(cmd, r.lun, file, "First"), UNCHANGED <<phone, wire, taking>>
  PROVE  /\ op'.cmd = cmd /\ op'.lun = r.lun /\ op'.file = file /\ op'.stage = "First"
         /\ Lost' \/ Asked(Message(cmd, r.lun))'
<1>1. op' = [cmd |-> cmd, lun |-> r.lun, file |-> file, stage |-> "First", got |-> NoLun] /\ Sends(Message(cmd, r.lun))
  BY DEF Command
<1>2. PICK m : m = Message(cmd, r.lun)
  OBVIOUS
<1>3. inbox' = IF Alive THEN <<m>> ELSE <<>>
  BY <1>1, <1>2, OneIs DEF Sends, Silence
<1> QED BY <1>1, <1>2, <1>3 DEF Lost, Asked, Silence, Alive

LEMMA WorkOfTries ==
  ASSUME TransferTypes, WorkInv, FlashRow \/ EraseRow \/ DumpRow \/ MeasureLun \/ FlashLun \/ DumpLun
  PROVE  WorkInv'
<1>1. /\ Working /\ At("Work") /\ op = NoOp /\ Left /\ job \in Job
      /\ UNCHANGED <<entry, phone, wire, taking, cells, dumps>>
      /\ UNCHANGED job \/ job' = [job EXCEPT !.marked = TRUE]
  BY DEF FlashRow, EraseRow, DumpRow, MeasureLun, FlashLun, DumpLun, Tries, Free, Marks, entryVars, stores,
         TransferTypes
<1>2. /\ job'.at = "Work" /\ job'.kind = job.kind /\ job'.plan = job.plan /\ job'.row = job.row
      /\ job'.failed = job.failed /\ job'.measured = job.measured
  BY <1>1 DEF Job, At
<1>3. PICK r : r = Current
  OBVIOUS
<1>4. r \in Row /\ job.row \in DOMAIN job.plan
  BY <1>1, <1>3, PlansAre
<1>5. /\ Distinct(job.plan) /\ (job.kind = "FlashPhys" => r.state = "Flash")
      /\ ~job.failed => Silence /\ Earlier
  <2>1. ~Off
    BY <1>1 DEF Off, NoOp
  <2>2. ~TurnOf(r)
    BY <1>1 DEF TurnOf, ReadTurn, ProgramTurn, EraseTurn, NoOp
  <2> QED BY <1>1, <1>3, <1>4, <2>1, <2>2 DEF WorkInv, At, Turn, Current
<1>6. ~job.failed => Off' \/ TurnOf(r)'
  <2> SUFFICES ASSUME ~job.failed, ~Off' PROVE TurnOf(r)'
    OBVIOUS
  <2>1. ~Refused
    BY DEF Refused, Off, NoOp
  <2>2. CASE FlashRow \/ FlashLun
    <3>1. job.kind \in Flashes /\ r.state = "Flash" /\ Command("Program", r.lun, r.file, "First")
      BY <1>3, <1>5, <2>1, <2>2 DEF FlashRow, FlashLun, Tries, Flashes
    <3>2. /\ op'.cmd = "Program" /\ op'.lun = r.lun /\ op'.file = r.file /\ op'.stage = "First"
          /\ Lost' \/ Asked(Message("Program", r.lun))'
      BY <1>1, <1>5, <3>1, CommandOut
    <3> QED BY <1>2, <3>1, <3>2 DEF TurnOf, ProgramTurn
  <2>3. CASE EraseRow
    <3>1. job.kind \in Flashes /\ r.state = "Erase" /\ Command("Erase", r.lun, NoFile, "First")
      BY <1>3, <2>3 DEF EraseRow, Tries, Flashes
    <3>2. op'.cmd = "Erase" /\ op'.lun = r.lun /\ op'.stage = "First" /\ (Lost' \/ Asked(Message("Erase", r.lun))')
      BY <1>1, <1>5, <3>1, CommandOut
    <3> QED BY <1>2, <3>1, <3>2 DEF TurnOf, EraseTurn
  <2>4. CASE DumpRow \/ MeasureLun \/ DumpLun
    <3>1. Command("Read", r.lun, NoFile, "First")
      BY <1>3, <2>4 DEF DumpRow, MeasureLun, DumpLun, Tries
    <3>2. op'.cmd = "Read" /\ op'.lun = r.lun /\ op'.stage = "First" /\ (Lost' \/ Asked(Message("Read", r.lun))')
      BY <1>1, <1>5, <3>1, CommandOut
    <3> QED BY <3>2 DEF TurnOf, ReadTurn
  <2> QED BY <2>2, <2>3, <2>4
<1>7. ~job.failed => Off' \/ Turn'
  <2>1. Left' /\ Current' = Current
    BY <1>1, <1>2 DEF Left, Current
  <2> QED BY <1>3, <1>6, <2>1 DEF Turn
<1>8. Earlier => Earlier'
  BY <1>1, <1>2, EarlierStays
<1>9. job.kind = "FlashPhys" => \A i \in DOMAIN job.plan : job.plan[i].state = "Flash"
  BY <1>1 DEF WorkInv, At
<1> QED BY <1>1, <1>2, <1>5, <1>7, <1>8, <1>9 DEF WorkInv, At, Working, On

\* A row is through when the reply that ends its command has been read.
LEMMA WorkOfDone == ASSUME TransferTypes, WorkInv, Measured \/ RowDone \/ DumpFailed PROVE WorkInv'
<1>1. /\ Working /\ At("Work") /\ job \in Job /\ op' = NoOp /\ UNCHANGED <<entry, wire, inbox, taking, cells, dumps>>
  BY DEF Measured, RowDone, DumpFailed, entryVars, stores, TransferTypes
<1>2. /\ Distinct(job.plan) /\ (job.kind = "FlashPhys" => \A i \in DOMAIN job.plan : job.plan[i].state = "Flash")
      /\ ~job.failed /\ ~Off => Turn /\ Earlier
  BY <1>1 DEF WorkInv, At
<1>3. PICK r : r = Current
  OBVIOUS
<1>4. op.stage = "Ok" /\ Turn /\ op # NoOp => Silence /\ Left /\ TurnOf(r)
  BY <1>3 DEF Turn, TurnOf, ReadTurn, ProgramTurn, EraseTurn
<1>5. CASE Measured
  <2>1. job' = [job EXCEPT !.measured = TRUE] /\ op.stage = "Ok" /\ op.got # NoLun
    BY <1>5 DEF Measured
  <2>2. /\ job'.at = "Work" /\ job'.kind = job.kind /\ job'.plan = job.plan /\ job'.row = job.row
        /\ job'.failed = job.failed
    BY <1>1, <2>1 DEF Job, At
  <2>3. ~Off /\ op # NoOp
    BY <2>1 DEF Off, NoOp
  <2>4. ~job.failed => Turn' /\ Earlier'
    BY <1>1, <1>2, <1>4, <2>1, <2>2, <2>3, EarlierStays, SilentIsHeard DEF Turn
  <2> QED BY <1>1, <1>2, <2>2, <2>4 DEF WorkInv, At, Working, On
<1>6. CASE RowDone
  <2>1. /\ job' = [job EXCEPT !.row = @ + 1, !.measured = FALSE, !.failed = job.failed] /\ op.stage = "Ok" /\ op # NoOp
        /\ op.cmd = "Read" => Dumping
    BY <1>6 DEF RowDone, Onward, Succeeds, Free
  <2>2. /\ job'.at = "Work" /\ job'.kind = job.kind /\ job'.plan = job.plan /\ job'.row = job.row + 1
        /\ job'.failed = job.failed
    BY <1>1, <2>1 DEF Job, At
  <2>3. ~Off
    BY <2>1 DEF Off
  <2>4. ASSUME ~job.failed PROVE Turn' /\ Earlier'
    <3>1. Silence /\ Left /\ TurnOf(r) /\ Earlier
      BY <1>2, <1>4, <2>1, <2>3, <2>4
    <3>2. Through(r)
      <4>1. Dumping => job.kind \notin Flashes
        BY DEF Dumping, Flashes
      <4> QED BY <2>1, <3>1, <4>1 DEF TurnOf, ReadTurn, ProgramTurn, EraseTurn, Through, Gets
    <3>3. ASSUME NEW i \in DOMAIN job.plan, i < job.row + 1 PROVE Through(job.plan[i])
      <4>1. i \in Nat /\ job.row \in Nat
        BY PlansAre, <3>3
      <4>2. i < job.row \/ i = job.row
        BY <3>3, <4>1
      <4>3. i < job.row => Through(job.plan[i])
        BY <3>1, <3>3 DEF Earlier
      <4>4. i = job.row => job.plan[i] = r
        BY <1>3 DEF Current
      <4> QED BY <3>2, <4>2, <4>3, <4>4
    <3>4. Earlier'
      BY <1>1, <2>2, <3>3 DEF Earlier, Through, Written
    <3>5. Silence'
      BY <1>1, <3>1, SilentIsHeard
    <3> QED BY <1>1, <3>4, <3>5 DEF Turn
  <2> QED BY <1>1, <1>2, <2>2, <2>4 DEF WorkInv, At, Working, On
<1>7. CASE DumpFailed
  <2>1. job' = [job EXCEPT !.row = @ + 1, !.measured = FALSE, !.failed = TRUE]
    BY <1>7 DEF DumpFailed, Onward
  <2>2. /\ job'.at = "Work" /\ job'.kind = job.kind /\ job'.plan = job.plan /\ job'.failed
    BY <1>1, <2>1 DEF Job, At
  <2> QED BY <1>1, <1>2, <2>2 DEF WorkInv, At, Working, On
<1> QED BY <1>5, <1>6, <1>7

LEMMA WorkOfEnds ==
  ASSUME TransferTypes, WorkInv, SourceVanished \/ NoFolder \/ FlashFailed \/ ResetSystem \/ ExecDone \/ EntryFailed
  PROVE  WorkInv'
<1>1. job \in Job /\ op \in Op /\ inbox \in Seq(Sent)
  BY DEF TransferTypes
<1>2. CASE SourceVanished
  <2>1. UNCHANGED <<job, entry>> /\ At("Work") /\ Working /\ Refused
    BY <1>2 DEF SourceVanished, entryVars, jobVars
  <2>2. Off'
    BY <2>1 DEF Refused, NoOp, Off
  <2> QED BY <2>1, <2>2 DEF WorkInv, At, Working, On
<1>3. CASE NoFolder
  <2>1. UNCHANGED job /\ At("Work") /\ On("Pause") /\ entry' = Failed
    BY <1>3 DEF NoFolder, jobVars
  <2>2. ~Working /\ ~Working'
    BY <2>1, EntriesAre DEF Working, On
  <2> QED BY <2>1, <2>2 DEF WorkInv, At
<1>4. CASE FlashFailed
  <2>1. job' = [job EXCEPT !.at = "Done", !.result = "Err"]
    BY <1>4 DEF FlashFailed, Returns
  <2>2. job'.at = "Done" /\ job'.result = "Err"
    BY <1>1, <2>1 DEF Job
  <2> QED BY <2>2 DEF WorkInv, At
<1>5. CASE ResetSystem
  <2>1. /\ Working /\ At("Work") /\ op = NoOp /\ ~Left /\ job' = [job EXCEPT !.at = "Reset"]
        /\ Command("Power", NoLun, NoFile, "First") /\ UNCHANGED <<entry, taking, cells, dumps>>
    BY <1>5 DEF ResetSystem, Free, entryVars, stores
  <2>2. /\ job'.at = "Reset" /\ job'.kind = job.kind /\ job'.plan = job.plan /\ job'.row = job.row
        /\ job'.failed = job.failed
    BY <1>1, <2>1 DEF Job
  <2>3. op'.cmd = "Power" /\ job.row > Len(job.plan)
    <3>1. Len(job.plan) \in Nat /\ job.row \in Nat
      BY <1>1 DEF Job
    <3> QED BY <2>1, <3>1 DEF Command, Left
  <2>4. ~job.failed => Silence /\ Earlier
    BY <2>1 DEF WorkInv, Turn, Off, NoOp
  <2>5. PICK m : m = Message("Power", NoLun)
    OBVIOUS
  <2>6. m.cmd \notin Writing /\ (inbox' = inbox \/ inbox' = Append(inbox, m))
    BY <2>1, <2>5 DEF Command, Sends, Message, Writing
  <2>7. Silence => Still'
    <3>1. ASSUME Silence PROVE inbox' = <<>> \/ inbox' = <<m>>
      BY <2>6, <3>1, OneIs DEF Silence
    <3>2. inbox' = <<>> => DOMAIN inbox' = {}
      OBVIOUS
    <3>3. inbox' = <<m>> => DOMAIN inbox' = {1} /\ inbox'[1] = m
      OBVIOUS
    <3> QED BY <2>1, <2>6, <3>1, <3>2, <3>3 DEF Still, Silence
  <2>8. Earlier => Earlier'
    BY <2>1, <2>2, EarlierStays
  <2> QED BY <2>1, <2>2, <2>3, <2>4, <2>7, <2>8 DEF WorkInv, At
<1>6. CASE ExecDone
  <2>1. /\ At("Reset") /\ UNCHANGED <<inbox, taking, cells, dumps>>
        /\ job' = [job EXCEPT !.at = "Done", !.result = IF job.failed THEN "Err" ELSE "Ok"]
    BY <1>6 DEF ExecDone, Returns, stores
  <2>2. /\ job'.at = "Done" /\ (job'.result = "Ok" => ~job.failed) /\ job'.kind = job.kind
        /\ job'.plan = job.plan /\ job'.row = job.row
    BY <1>1, <2>1 DEF Job
  <2>3. (Still => Still') /\ (Earlier => Earlier')
    BY <2>1, <2>2, EarlierStays DEF Still
  <2> QED BY <2>1, <2>2, <2>3 DEF WorkInv, At
<1>7. CASE EntryFailed
  <2>1. job' = [job EXCEPT !.at = "Idle"] \/ job' = [job EXCEPT !.at = "Done", !.result = "Err"]
    BY <1>7 DEF EntryFailed
  <2>2. job'.at = "Idle" \/ (job'.at = "Done" /\ job'.result = "Err")
    BY <1>1, <2>1 DEF Job
  <2> QED BY <2>2 DEF WorkInv, At
<1> QED BY <1>2, <1>3, <1>4, <1>5, <1>6, <1>7

LEMMA WorkOfScan == ASSUME TransferTypes, Scanning PROVE WorkInv'
<1>1. job \in Job /\ job.at \in {"Scan", "Bounce"}
  BY DEF TransferTypes, Scanning, ReadGpt, GptRead, Bounce, ScanDone, At
<1>2. \/ UNCHANGED job \/ job' = [job EXCEPT !.next = Tail(@)]
      \/ \E at \in {"Bounce", "Idle", "Table"} : job' = [job EXCEPT !.at = at]
  BY DEF Scanning, ReadGpt, GptRead, Bounce, ScanDone, jobVars
<1>3. job'.at \notin {"Work", "Reset", "Done"}
  BY <1>1, <1>2 DEF Job
<1> QED BY <1>3 DEF WorkInv, At

LEMMA WorkIsElsewhere ==
  ASSUME WorkInv, UNCHANGED <<job, entry, phone, op, wire, inbox, taking, cells, dumps>>
  PROVE  WorkInv'
<1>1. Turn => Turn'
  <2>1. PICK r : r = Current
    OBVIOUS
  <2>2. TurnOf(r) => TurnOf(r)'
    BY TurnOfWorld DEF Alive
  <2> QED BY <2>1, <2>2 DEF Turn, Silence, Left, Current
<1>2. (Still => Still') /\ (Earlier => Earlier')
  BY EarlierStays DEF Still
<1> QED BY <1>1, <1>2 DEF WorkInv, At, Working, On, Off

LEMMA WorkOfUser == ASSUME TransferInv, TransferTypes, ScanInv, WorkInv, User PROVE WorkInv'
<1>1. job \in Job /\ Busy /\ rows \in Seq(Row)
  BY DEF TransferTypes, TransferInv
<1>2. CASE \E kind \in Wizards, conn \in Connections : ScanStart(kind, conn)
  <2>1. \E kind : Begins(kind, "Scan", <<>>)
    BY <1>2 DEF ScanStart
  <2>2. job'.at = "Scan"
    BY <1>1, <2>1 DEF Begins, Job
  <2> QED BY <2>2 DEF WorkInv, At
<1>3. ASSUME NEW kind \in Wizards, NEW conn \in Connections, NEW luns \in SUBSET LUNs, PhysStart(kind, conn, luns)
      PROVE  WorkInv'
  <2>1. PICK order \in Ascending(luns) :
          Begins(kind, "Work", [k \in DOMAIN order |-> LunRow(order[k], Image(kind, order[k]))])
    BY <1>3 DEF PhysStart
  <2>2. PICK table : table = [k \in DOMAIN order |-> LunRow(order[k], Image(kind, order[k]))]
    OBVIOUS
  <2>3. Distinct(table) /\ \A i \in DOMAIN table : table[i].state = "Flash"
    BY <2>2, LunRowsAre
  <2>4. Begins(kind, "Work", table)
    BY <2>1, <2>2
  <2>5. /\ job'.at = "Work" /\ job'.kind = kind /\ job'.plan = table /\ job'.row = 1 /\ ~job'.failed /\ ~job'.measured
    BY <1>1, <2>4 DEF Begins, Job
  <2>6. ~Working'
    <3>1. CASE EnsureEdl(conn)
      BY <3>1, EnsureShape DEF Working
    <3>2. CASE entry' = Failed
      BY <3>2, EntriesAre DEF Working, On
    <3> QED BY <1>3, <3>1, <3>2 DEF PhysStart, PreflightFails
  <2> QED BY <2>3, <2>5, <2>6 DEF WorkInv, At
<1>4. CASE ExecStart
  <2>1. PICK plan \in ActiveRows : job' = [job EXCEPT !.plan = plan, !.at = "Work"]
    BY <1>4 DEF ExecStart
  <2>2. /\ job'.at = "Work" /\ job'.plan = plan /\ job'.kind = job.kind /\ job'.row = job.row
        /\ job'.failed = job.failed /\ job'.measured = job.measured
    BY <1>1, <2>1 DEF Job
  <2>3. job.row = 1 /\ ~job.failed /\ ~job.measured /\ Distinct(rows) /\ job.kind # "FlashPhys"
    BY <1>1, <1>4 DEF ExecStart, At, ScanInv, Busy
  <2>4. Distinct(plan)
    BY <1>1, <2>3, ActiveRowsAre
  <2>5. ~Working'
    <3>1. entry' = [AtRest EXCEPT !.pc = "Pause"] \/ entry' = Failed
      BY <1>4 DEF ExecStart, PreflightFails
    <3>2. [AtRest EXCEPT !.pc = "Pause"].pc = "Pause" /\ Failed.pc = "Failed"
      BY EntriesAre
    <3> QED BY <3>1, <3>2 DEF Working, On
  <2> QED BY <2>2, <2>3, <2>4, <2>5 DEF WorkInv, At
<1>5. CASE CloseWizard \/ Leave
  <2>1. job'.at = "Idle"
    BY <1>1, <1>5 DEF CloseWizard, Leave, Job
  <2> QED BY <2>1 DEF WorkInv, At
<1>6. CASE \/ \E i \in Indices : ToggleRow(i) \/ PickRowFile(i)
           \/ \E p \in picker : RowFileChosen(p)
           \/ SortBy
  <2>1. UNCHANGED <<job, entry, phone, op, wire, inbox, taking, cells, dumps>>
    BY <1>6 DEF ToggleRow, PickRowFile, RowFileChosen, SortBy, Screen, entryVars, channel, stores
  <2> QED BY <2>1, WorkIsElsewhere
<1> QED BY <1>2, <1>3, <1>4, <1>5, <1>6 DEF User

LEMMA WorkStep == ASSUME TransferInv, TransferTypes, LinkInv, ScanInv, WorkInv, [TransferNext]_transferVars PROVE WorkInv'
<1>1. CASE UNCHANGED transferVars
  BY <1>1, WorkIsElsewhere DEF transferVars, entryVars, jobVars, channel, stores
<1>2. CASE Exchange
  BY <1>2, WorkOfServe, WorkOfHost DEF Exchange
<1>3. CASE Transfer
  BY <1>3, WorkOfTries, WorkOfDone, WorkOfEnds DEF Transfer
<1> QED BY <1>1, <1>2, <1>3, WorkOfEntering, WorkOfWorld, WorkOfEnds, WorkOfScan, WorkOfUser DEF TransferNext, Worker

\* flash_parts_execute, flash_physical_execute, and the dumps: for any number of
\* LUNs, any of the wizards, any loss and any number of jobs, a run that reports
\* success has done what its rows asked for.
THEOREM OkIsDone == TransferSpec => []OkMeansDone
<1> DEFINE Inv == TransferInv /\ TransferTypes /\ LinkInv /\ ScanInv /\ WorkInv
<1>1. TransferInit => Inv
  BY InitTransfers, InitTypes, InitLink, InitScan, InitWork
<1>2. Inv /\ [TransferNext]_transferVars => Inv'
  BY TransferStep, TypesStep, LinkStep, ScanStep, WorkStep
<1>3. Inv => OkMeansDone
  <2> SUFFICES ASSUME TransferTypes, WorkInv, At("Done"), job.result = "Ok", NEW i \in DOMAIN job.plan
               PROVE  Through(job.plan[i])
    BY DEF OkMeansDone, Through, Written
  <2>1. Len(job.plan) \in Nat /\ DOMAIN job.plan = 1..Len(job.plan) /\ job.row \in Nat
    BY DEF TransferTypes, Job
  <2>2. job.row > Len(job.plan) /\ Earlier
    BY DEF WorkInv
  <2>3. i < job.row
    BY <2>1, <2>2
  <2> QED BY <2>2, <2>3 DEF Earlier
<1> QED BY <1>1, <1>2, <1>3, PTL DEF TransferSpec

=============================================================================
