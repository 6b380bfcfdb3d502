------------------------------- MODULE EdlEntry -------------------------------
(***************************************************************************)
(* Taking the device into EDL and opening a session there: ensure_edl      *)
(* routes by the connection the last poll saw, wait_for_stable_port watches *)
(* the enumerated port until it may be trusted, EdlSession::open uploads    *)
(* the programmer over Sahara and configures Firehose.                     *)
(*                                                                         *)
(* Time passes in ticks of EDL_STABILITY_INTERVAL, the sleep between two   *)
(* enumerations.  After a reset the handle of the old port may stay listed *)
(* for MaxLag ticks: the "ghost".                                          *)
(***************************************************************************)
EXTENDS Naturals

CONSTANTS
  Drivers,   \* QcomDriverModes the host may run in: "Userspace", "Kernel"
  Ports,     \* names the host gives the EDL port of the device
  Observe,   \* EDL_DISCONNECT_OBSERVE, in ticks
  Deadline,  \* EDL_SESSION_OPEN_TIMEOUT, in ticks
  Patience,  \* WAIT_TIMEOUT of the ADB wait, in ticks
  MaxLag,    \* ticks for which a dead handle stays listed
  SpareModes, \* modes a second device may be plugged in: "Adb", "Edl"
  MaxEvents  \* times the device or a second device is plugged or moved by hand

ASSUME EntryAssumption ==
  /\ Observe \in Nat \ {0} /\ Deadline \in Nat /\ Patience \in Nat
  /\ MaxLag \in Nat /\ MaxEvents \in Nat /\ SpareModes \subseteq {"Adb", "Edl"}
  /\ Drivers \subseteq {"Userspace", "Kernel"} /\ MaxLag < Observe /\ Observe < Deadline

VARIABLES
  driver, \* the QcomDriverMode of this host
  phone,  \* the device, see Phone
  ghost,  \* the handle of a port that is gone, see Ghost
  spare,  \* a second Android device: "None", "Adb" or "Edl"
  entry,  \* the worker that enters EDL, see Entry
  events  \* plugs and moves so far

busVars == <<driver, phone, ghost, spare, events>>
entryVars == <<driver, phone, ghost, spare, entry, events>>

\* "Adb" stands for an authorised device in the system or in recovery, "Locked"
\* for one that ADB reaches but cannot command, "Dark" for one that is not
\* enumerated.  hello: the boot ROM's HELLO is still to be read.
PhoneModes == {"Adb", "Locked", "Fastboot", "Dark", "Sahara", "Firehose"}
Phone == [at : PhoneModes, port : Ports, hello : BOOLEAN]
InEdl == phone.at \in {"Sahara", "Firehose"}
Ghost == [listed : BOOLEAN, port : Ports, lag : 0..MaxLag]

\* ConnectionStatus, as far as edl_entry_action tells its values apart.
Connections == {"Edl", "Adb", "Fastboot", "Other"}

Marker  == "USB"   \* EDL_DEVICE_MARKER
Nothing == "None"
Steps == {"Idle", "AdbState", "FastbootReboot", "AdbWait", "Find", "Watch", "Settle",
          "Pause", "Open", "Setup", "Hello", "Nudge", "Configure", "Session", "Failed"}
Names   == Ports \cup {Marker}
Entry ==
  [pc : Steps, next : {"Pause", "Setup"}, first : Names \cup {Nothing},
   last : Names \cup {Nothing}, observed : 0..Observe, waited : 0..(Deadline + Patience),
   handle : {"None", "Live", "Ghost", "Spare"}]
AtRest == [pc |-> "Idle", next |-> "Pause", first |-> Nothing, last |-> Nothing,
           observed |-> 0, waited |-> 0, handle |-> "None"]

On(pc) == entry.pc = pc
Go(pc) == entry' = [entry EXCEPT !.pc = pc]

-----------------------------------------------------------------------------
(* Enumeration.                                                            *)

Named(port) == IF driver = "Kernel" THEN port ELSE Marker

\* The EDL endpoints the host lists, by device: the port names of two devices
\* differ, the names of a port and of its ghost may not.
Listed ==
  (IF InEdl THEN {<<"phone", Named(phone.port)>>} ELSE {})
    \cup (IF ghost.listed THEN {<<"ghost", Named(ghost.port)>>} ELSE {})
    \cup (IF spare = "Edl" THEN {<<"spare", Marker>>} ELSE {})

\* find_edl_port drops duplicate names, find_edl_device counts devices.
Candidates == IF driver = "Kernel" THEN {<<d[1] = "spare", d[2]>> : d \in Listed} ELSE Listed

Absent    == Candidates = {}
Ambiguous == \E c, d \in Candidates : c # d
Sees(name) == ~Ambiguous /\ \E c \in Candidates : c[2] = name

\* ensure_single_usb_target
SingleTarget == ~(phone.at # "Dark" /\ spare # "None")

\* check_device
CheckEdl == ~Absent /\ ~Ambiguous

-----------------------------------------------------------------------------
(* The device and the user's hands.                                        *)

Happens == events < MaxEvents /\ events' = events + 1

\* A device that was reset or plugged in comes up in some mode and port; its
\* HELLO may have been eaten by another program.
Boots ==
  /\ phone.at = "Dark"
  /\ \E at \in {"Adb", "Locked", "Fastboot", "Sahara"}, port \in Ports, hello \in BOOLEAN :
       /\ hello => at = "Sahara"
       /\ phone' = [at |-> at, port |-> port, hello |-> hello]
  /\ UNCHANGED <<driver, ghost, spare, entry, events>>

Unplugged ==
  /\ phone.at # "Dark" /\ Happens
  /\ phone' = [phone EXCEPT !.at = "Dark", !.hello = FALSE]
  /\ UNCHANGED <<driver, ghost, spare, entry>>

\* The operating system drops the handle of a port that is gone.
GhostGone ==
  /\ ghost.listed
  /\ ghost' = [ghost EXCEPT !.listed = FALSE]
  /\ UNCHANGED <<driver, phone, spare, entry, events>>

SpareMoves ==
  /\ Happens /\ spare' \in ({"None"} \cup SpareModes) \ {spare}
  /\ UNCHANGED <<driver, phone, ghost, entry>>

Surroundings == Boots \/ Unplugged \/ GhostGone \/ SpareMoves

\* One second of sleep; a dead handle is not listed for longer than MaxLag.
Sleep ==
  /\ ghost.listed => ghost.lag < MaxLag
  /\ ghost' = [ghost EXCEPT !.lag = IF ghost.listed THEN ghost.lag + 1 ELSE 0]

-----------------------------------------------------------------------------
(* ensure_edl                                                              *)

Waiting(next) == [AtRest EXCEPT !.pc = "Find", !.next = next]

Failed == [AtRest EXCEPT !.pc = "Failed"]

\* edl_entry_action, after the single-target check.
EnsureEdl(conn) ==
  /\ On("Idle") /\ UNCHANGED busVars
  /\ IF ~SingleTarget THEN entry' = Failed
     ELSE entry' = CASE conn = "Edl"      -> [AtRest EXCEPT !.pc = "Pause"]
                     [] conn = "Adb"      -> [AtRest EXCEPT !.pc = "AdbState"]
                     [] conn = "Fastboot" -> [AtRest EXCEPT !.pc = "FastbootReboot"]
                     [] OTHER             -> Waiting("Pause")

\* reboot_adb_to_edl: whatever goes wrong ends in waiting for a manual reboot.
AdbReboot ==
  /\ On("AdbState") /\ entry' = Waiting("Pause")
  /\ IF phone.at = "Adb" /\ SingleTarget
     THEN phone' \in {phone, [phone EXCEPT !.at = "Dark", !.hello = FALSE]}
     ELSE UNCHANGED phone
  /\ UNCHANGED <<driver, ghost, spare, events>>

\* fastboot_reboot_then_adb_edl
FastbootReboot ==
  /\ On("FastbootReboot")
  /\ IF ~SingleTarget THEN entry' = Failed /\ UNCHANGED phone
     ELSE IF phone.at = "Fastboot"
     THEN \/ Go("AdbWait") /\ phone' = [phone EXCEPT !.at = "Dark", !.hello = FALSE]
          \/ entry' = Waiting("Pause") /\ UNCHANGED phone
     ELSE entry' = Waiting("Pause") /\ UNCHANGED phone
  /\ UNCHANGED <<driver, ghost, spare, events>>

\* wait_for_device_or: the EDL port is looked for before ADB is probed; a probe
\* that errs, or the deadline, ends in waiting for a manual reboot.
AdbWait ==
  /\ On("AdbWait") /\ UNCHANGED <<driver, phone, spare, events>>
  /\ \/ entry' = Waiting("Pause") /\ UNCHANGED ghost
     \/ ~CheckEdl /\ phone.at = "Adb" /\ SingleTarget /\ Go("AdbState") /\ UNCHANGED ghost
     \/ /\ ~CheckEdl /\ entry.waited < Patience /\ Sleep
        /\ entry' = [entry EXCEPT !.waited = @ + 1]

-----------------------------------------------------------------------------
(* wait_for_stable_port_with                                               *)

TimedOut == entry.waited >= Deadline

\* Past the wait: a route sleeps before it opens, an open sets its transport up.
Trust(name) == entry' = [AtRest EXCEPT !.pc = entry.next, !.first = name]

Find ==
  /\ On("Find") /\ UNCHANGED busVars
  /\ \/ Absent /\ Go("Settle")
     \/ Ambiguous /\ entry' = Failed
     \/ \E name \in Names : Sees(name) /\ entry' = [entry EXCEPT !.pc = "Watch", !.first = name]

\* Fault: a port that is listed is taken at once.
ListedIsEnough == On("Watch") /\ Trust(entry.first) /\ UNCHANGED busVars
Watched ==
  /\ On("Watch") /\ (entry.observed >= Observe \/ TimedOut)
  /\ Trust(entry.first) /\ UNCHANGED busVars

\* Phase 1: a second later the port is the same, or it is stale.
Watch ==
  /\ On("Watch") /\ entry.observed < Observe /\ ~TimedOut
  /\ Sleep /\ UNCHANGED <<driver, phone, spare, events>>
  /\ entry' = IF Ambiguous THEN Failed
              ELSE IF Sees(entry.first)
              THEN [entry EXCEPT !.observed = @ + 1, !.waited = @ + 1]
              ELSE [entry EXCEPT !.pc = "Settle", !.waited = @ + 1]

\* Fault: the deadline is not looked at again in the second phase.
SettlesForever ==
  /\ On("Settle") /\ Sleep /\ UNCHANGED <<driver, phone, spare, events>>
  /\ \/ (Absent \/ Ambiguous) /\ entry' = [entry EXCEPT !.last = Nothing]
     \/ \E name \in Names :
          /\ Sees(name)
          /\ IF entry.last = name THEN Trust(name) ELSE entry' = [entry EXCEPT !.last = name]
\* Phase 2: the same port twice in a row.
Settle ==
  /\ On("Settle") /\ UNCHANGED <<driver, phone, spare, events>>
  /\ IF TimedOut THEN entry' = Failed /\ UNCHANGED ghost
     ELSE /\ Sleep
          /\ \/ Ambiguous /\ entry' = Failed
             \/ Absent /\ entry' = [entry EXCEPT !.last = Nothing, !.waited = @ + 1]
             \/ \E name \in Names :
                  /\ Sees(name)
                  /\ IF entry.last = name THEN Trust(name)
                     ELSE entry' = [entry EXCEPT !.last = name, !.waited = @ + 1]

-----------------------------------------------------------------------------
(* EdlSession::open                                                        *)

\* The two seconds every worker leaves between a route and an open.
Pause ==
  /\ On("Pause") /\ Sleep /\ UNCHANGED <<driver, phone, spare, events>>
  /\ IF entry.waited = 0 THEN entry' = [entry EXCEPT !.waited = 1]
     ELSE entry' = [AtRest EXCEPT !.pc = "Open"]

Open ==
  /\ On("Open") /\ UNCHANGED busVars
  /\ entry' = IF SingleTarget THEN Waiting("Setup") ELSE Failed

\* The loader or its manifest is unreadable, the port is busy or denied, the
\* link breaks.
GivesUp ==
  /\ entry.pc \in {"Setup", "Hello", "Nudge", "Configure"}
  /\ entry' = Failed
  /\ phone' = [phone EXCEPT !.hello = FALSE]
  /\ UNCHANGED <<driver, ghost, spare, events>>

\* Whoever answers to the one name the host lists now.
Handle == IF InEdl THEN "Live" ELSE IF ghost.listed THEN "Ghost" ELSE "Spare"

\* The last checks, and setup_target_device.
Setup ==
  /\ On("Setup") /\ UNCHANGED busVars
  /\ entry' = IF SingleTarget /\ Sees(entry.first)
              THEN [AtRest EXCEPT !.pc = "Hello", !.handle = Handle]
              ELSE Failed

Linked(at) == entry.handle = "Live" /\ phone.at = at
\* Nothing tells the device behind the handle from the one the flow began with.
SpareAnswers == entry.handle = "Spare" /\ spare = "Edl" /\ UNCHANGED phone
Uploaded ==
  /\ entry' = [entry EXCEPT !.pc = "Configure"]
  /\ phone' = [phone EXCEPT !.at = "Firehose", !.hello = FALSE]

\* The first sahara_run waits for the boot ROM's HELLO; when that times out, an
\* unsolicited HELLO_RESP and a second run.
Hello ==
  /\ On("Hello") /\ UNCHANGED <<driver, ghost, spare, events>>
  /\ \/ Linked("Sahara") /\ phone.hello /\ Uploaded
     \/ SpareAnswers /\ Go("Configure")
     \/ ~(Linked("Sahara") /\ phone.hello) /\ Go("Nudge") /\ UNCHANGED phone
Nudge ==
  /\ On("Nudge") /\ UNCHANGED <<driver, ghost, spare, events>>
  /\ \/ Linked("Sahara") /\ Uploaded
     \/ SpareAnswers /\ Go("Configure")
     \/ ~Linked("Sahara") /\ entry' = Failed /\ UNCHANGED phone

\* firehose_read_greeting, firehose_configure and its response.
Configure ==
  /\ On("Configure") /\ UNCHANGED busVars
  /\ \/ (Linked("Firehose") \/ SpareAnswers) /\ Go("Session")
     \/ ~Linked("Firehose") /\ entry' = Failed

\* A reset the device accepts: its old handle may stay listed for a while.
ResetDevice ==
  /\ phone' = [phone EXCEPT !.at = "Dark", !.hello = FALSE]
  /\ ghost' = [listed |-> TRUE, port |-> phone.port, lag |-> 0]

Finish == entry' = AtRest

\* What a session ends in: a reset, or a transport that is dropped.
Close ==
  /\ On("Session") /\ Finish /\ UNCHANGED <<driver, spare, events>>
  /\ \/ Linked("Firehose") /\ ResetDevice
     \/ UNCHANGED <<phone, ghost>>
ReportEntry == On("Failed") /\ Finish /\ UNCHANGED busVars

-----------------------------------------------------------------------------
EntryInit ==
  /\ driver \in Drivers
  /\ phone \in Phone /\ phone.at # "Firehose" /\ ~phone.hello
  /\ ghost \in Ghost /\ ~ghost.listed /\ ghost.lag = 0
  /\ spare = "None" /\ entry = AtRest /\ events = 0

Opening ==
  \/ AdbReboot \/ FastbootReboot \/ AdbWait \/ Find \/ Watch \/ Watched \/ Settle
  \/ Pause \/ Open \/ Setup \/ GivesUp \/ Hello \/ Nudge \/ Configure

EntryNext == Surroundings \/ (\E conn \in Connections : EnsureEdl(conn)) \/ Opening \/ Close \/ ReportEntry

\* The worker's thread runs, and the operating system lets go of a dead handle.
EntryFairness == WF_entryVars(Opening \/ Close \/ ReportEntry) /\ WF_entryVars(GhostGone)
EntrySpec == EntryInit /\ [][EntryNext]_entryVars /\ EntryFairness

-----------------------------------------------------------------------------
EntryTypeOK ==
  /\ driver \in Drivers /\ phone \in Phone /\ ghost \in Ghost
  /\ spare \in {"None"} \cup SpareModes /\ entry \in Entry /\ events \in 0..MaxEvents

\* wait_for_stable_port_with: however the reset, the old handle and the new
\* enumeration fall between its looks, a transport is never set up on the
\* handle of a port that a reset has taken away.
NeverOpensAGhost == entry.handle # "Ghost"

\* Whatever is plugged, moved or left dark, entering EDL comes to a session or an
\* error: none of its loops outlives its deadline.
EntryEnds == ~(On("Session") \/ On("Idle")) ~> (On("Session") \/ On("Idle"))

=============================================================================
