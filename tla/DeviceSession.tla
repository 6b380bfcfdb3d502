---------------------------- MODULE DeviceSession ----------------------------
(***************************************************************************)
(* What the GUI knows of the connected device and what it asks Lenovo's    *)
(* services about it: the polls that rebuild the snapshot, the lookups     *)
(* behind the popups of the dashboard, and the region probe of the flash   *)
(* wizard.  A lookup takes longer than it takes to swap the device, so     *)
(* every reply carries a token and is judged by it.                        *)
(***************************************************************************)
EXTENDS Naturals

CONSTANTS
  Serials,      \* the devices a user may plug in, by serial number
  DeviceModes,  \* the modes they come up in
  Kinds,        \* LookupKind: "Info", "Ota", "Qfil"
  MaxQueries,   \* lookups and probes started
  MaxCableMoves \* times a device is plugged, pulled or moved to another mode

NoSerial == "NoSerial"

ASSUME SessionAssumption ==
  /\ DeviceModes \subseteq {"Adb", "AdbUnauthorized", "Fastboot", "Edl"}
  /\ Kinds \subseteq {"Info", "Ota", "Qfil"}
  /\ MaxQueries \in Nat /\ MaxCableMoves \in Nat /\ NoSerial \notin Serials

VARIABLES
  plugged,        \* what hangs on the cable
  cable_moves,    \* how often that has changed
  device,         \* DeviceSnapshot
  reading,        \* what the poll in flight read, or NoPoll
  sequence,       \* DeviceQueries::sequence, as far as lookups use it
  pending,        \* the token each kind of lookup waits for, 0 for none
  region_pending, \* the id the region probe waits for, 0 for none
  workers,        \* lookups and probes under way
  popup,          \* the popup of each kind of lookup
  cache,          \* <<kind, serial>> answered before
  rollback_popup_open

cableVars  == <<plugged, cable_moves>>
queryVars  == <<sequence, pending, region_pending, workers, popup, cache>>
deviceVars == <<device, reading, rollback_popup_open>>
sessionVars == <<cableVars, queryVars, deviceVars>>

EmptyCable == [mode |-> "None", serial |-> NoSerial]
\* DevicePollResult and DeviceSnapshot.  The serial stands for every field that
\* names the device (model, firmware, market name...): a poll has all or none.
Snapshots == [connection : DeviceModes \cup {"None", "AdbUnauthorized"},
              serial : Serials \cup {NoSerial}, rollback_floors : BOOLEAN]
NoDevice == [connection |-> "None", serial |-> NoSerial, rollback_floors |-> FALSE]
NoPoll   == [connection |-> "NoPoll"]
Closed   == [serial |-> NoSerial, state |-> "Closed"]
Popups   == {Closed} \cup [serial : Serials, state : {"Loading", "Ready", "Error"}]
Workers  == [kind : Kinds \cup {"Region"}, id : 1..MaxQueries, serial : Serials]

-----------------------------------------------------------------------------
(* Polling.                                                                *)

\* The user's hands.
CableMoves ==
  /\ cable_moves < MaxCableMoves /\ cable_moves' = cable_moves + 1
  /\ plugged' \in ({EmptyCable} \cup [mode : DeviceModes, serial : Serials]) \ {plugged}
  /\ UNCHANGED <<queryVars, deviceVars>>

Read(connection, serial, floors) ==
  [connection |-> connection, serial |-> serial, rollback_floors |-> floors]

\* What a poll may find: an ADB daemon that refuses commands, a fastboot that
\* cannot be opened or gives no variable; EDL names no device.
Readings ==
  LET s == plugged.serial IN
  CASE plugged.mode = "None"            -> {NoDevice}
    [] plugged.mode = "Adb"             -> {Read("Adb", s, FALSE), Read("AdbUnauthorized", NoSerial, FALSE)}
    [] plugged.mode = "AdbUnauthorized" -> {Read("AdbUnauthorized", NoSerial, FALSE)}
    [] plugged.mode = "Fastboot"        -> {Read("Fastboot", s, TRUE), Read("Fastboot", s, FALSE),
                                            Read("Fastboot", NoSerial, FALSE), NoDevice}
    [] OTHER                            -> {Read("Edl", NoSerial, FALSE)}

PollDevice ==
  /\ reading = NoPoll
  /\ reading' \in Readings
  /\ UNCHANGED <<cableVars, queryVars, device, rollback_popup_open>>

serial_changed(r)  == r.serial # NoSerial /\ r.serial # device.serial
reset_identity(r)  == serial_changed(r) \/ r.connection = "None"
context_changed(r) ==
  \/ r.connection # device.connection
  \/ IF r.connection = "None" THEN device.serial # NoSerial ELSE serial_changed(r)

\* Fault: the views are bound to the transport alone.
TransportChanged(r) == r.connection # device.connection

\* What stays of the last snapshot where a poll of the same device is silent.
apply(r) ==
  LET before == IF reset_identity(r) THEN NoDevice ELSE device IN
  [connection |-> r.connection,
   serial |-> IF r.serial # NoSerial THEN r.serial ELSE before.serial,
   rollback_floors |-> \/ r.rollback_floors
                       \/ before.rollback_floors /\ r.connection = "Fastboot"]

\* Fault: an invalidation keeps the tokens.
ViewsOnly ==
  /\ popup' = [k \in Kinds |-> Closed]
  /\ UNCHANGED <<sequence, pending, region_pending, workers, cache>>

invalidate_context == pending' = [k \in Kinds |-> 0] /\ region_pending' = 0

invalidate_device_views ==
  /\ invalidate_context
  /\ popup' = [k \in Kinds |-> Closed]
  /\ UNCHANGED <<sequence, workers, cache>>

ViewsAreStale(r) == reset_identity(r) \/ context_changed(r)

DevicePolled(r) ==
  /\ device' = apply(r)
  /\ IF ViewsAreStale(r) THEN invalidate_device_views ELSE UNCHANGED queryVars
  /\ rollback_popup_open' = (/\ rollback_popup_open /\ ~ViewsAreStale(r)
                             /\ r.connection = "Fastboot")

\* finish_device_poll: a snapshot is discarded when input waits or the task died.
DevicePollFinished(quiet) ==
  /\ reading # NoPoll /\ reading' = NoPoll
  /\ \/ quiet /\ DevicePolled(reading)
     \/ UNCHANGED <<device, queryVars, rollback_popup_open>>
  /\ UNCHANGED cableVars

RollbackDetailOpen ==
  /\ device.rollback_floors /\ ~rollback_popup_open
  /\ rollback_popup_open' = TRUE
  /\ UNCHANGED <<cableVars, queryVars, device, reading>>

RollbackDetailClose ==
  /\ rollback_popup_open /\ rollback_popup_open' = FALSE
  /\ UNCHANGED <<cableVars, queryVars, device, reading>>

-----------------------------------------------------------------------------
(* Lookups.                                                                *)

\* track_lookup: a newer request replaces the token of an older one, whose
\* worker goes on.
start_lookup(k, serial) ==
  /\ sequence < MaxQueries /\ sequence' = sequence + 1
  /\ pending' = [pending EXCEPT ![k] = sequence']
  /\ workers' = workers \cup {[kind |-> k, id |-> sequence', serial |-> serial]}

Shows(k, serial, state) == popup' = [popup EXCEPT ![k] = [serial |-> serial, state |-> state]]

\* A known answer is shown at once.  With no serial an open drops what was asked
\* before, but no poll leaves a device without serial and a lookup still awaited.
\* OTA also keys on the firmware, which the snapshot holds as long as the serial.
LookupOpen(k) ==
  LET s == device.serial IN
  /\ s # NoSerial
  /\ IF <<k, s>> \in cache
     THEN /\ Shows(k, s, "Ready")
          /\ pending' = [pending EXCEPT ![k] = 0]
          /\ UNCHANGED <<sequence, workers>>
     ELSE Shows(k, s, "Loading") /\ start_lookup(k, s)
  /\ UNCHANGED <<cableVars, deviceVars, region_pending, cache>>

LookupRetry(k) ==
  /\ popup[k].state = "Error"
  /\ Shows(k, popup[k].serial, "Loading") /\ start_lookup(k, popup[k].serial)
  /\ UNCHANGED <<cableVars, deviceVars, region_pending, cache>>

LookupClose(k) ==
  /\ popup[k] # Closed
  /\ popup' = [popup EXCEPT ![k] = Closed]
  /\ pending' = [pending EXCEPT ![k] = 0]
  /\ UNCHANGED <<cableVars, deviceVars, sequence, region_pending, workers, cache>>

finish_lookup(w) == pending[w.kind] = w.id

Answered(w) ==
  /\ cache' = cache \cup {<<w.kind, w.serial>>}
  /\ IF popup[w.kind].serial = w.serial THEN Shows(w.kind, w.serial, "Ready")
     ELSE UNCHANGED popup

LookupFails(w) ==
  /\ UNCHANGED cache
  /\ IF popup[w.kind].serial = w.serial THEN Shows(w.kind, w.serial, "Error")
     ELSE UNCHANGED popup

\* Fault: a panic is dropped with its task.
PanicIsLost(w) == UNCHANGED <<cache, popup>>

\* A worker that panicked comes back without its serial: DeviceInfoFetched and
\* QfilFetched show that on whichever popup is open, OtaFetched keeps the key.
Panicked(w) ==
  /\ UNCHANGED cache
  /\ IF popup[w.kind] # Closed THEN Shows(w.kind, popup[w.kind].serial, "Error")
     ELSE UNCHANGED popup

LookupFetched(w) ==
  /\ w.kind # "Region"
  /\ workers' = workers \ {w}
  /\ IF finish_lookup(w)
     THEN /\ pending' = [pending EXCEPT ![w.kind] = 0]
          /\ Answered(w) \/ LookupFails(w) \/ (w.kind # "Ota" /\ Panicked(w))
     ELSE UNCHANGED <<pending, popup, cache>>
  /\ UNCHANGED <<cableVars, deviceVars, sequence, region_pending>>

-----------------------------------------------------------------------------
(* The region probe.                                                       *)

\* has_pollable_serial; the prefix every serial has is left out.
has_pollable_serial == device.connection \in {"Adb", "Fastboot"} /\ device.serial # NoSerial

start_region_probe(serial) ==
  /\ sequence < MaxQueries /\ sequence' = sequence + 1
  /\ region_pending' = sequence'
  /\ workers' = workers \cup {[kind |-> "Region", id |-> sequence', serial |-> serial]}
  /\ UNCHANGED <<pending, popup, cache>>

RegionProbe ==
  /\ has_pollable_serial
  /\ start_region_probe(device.serial)
  /\ UNCHANGED <<cableVars, deviceVars>>

\* FlashAutoRegionFetched: machine info that is still awaited also fills the
\* cache of the info popup.
RegionReply(w, fetched) ==
  /\ w.kind = "Region" /\ workers' = workers \ {w}
  /\ IF region_pending = w.id
     THEN /\ region_pending' = 0
          /\ cache' = IF fetched /\ "Info" \in Kinds THEN cache \cup {<<"Info", w.serial>>} ELSE cache
     ELSE UNCHANGED <<region_pending, cache>>
  /\ UNCHANGED <<sequence, pending, popup>>

AutoRegionFetched(w) ==
  /\ \E fetched \in BOOLEAN : RegionReply(w, fetched)
  /\ UNCHANGED <<cableVars, deviceVars>>

SessionInit ==
  /\ plugged = EmptyCable /\ cable_moves = 0
  /\ device = NoDevice /\ reading = NoPoll
  /\ sequence = 0 /\ pending = [k \in Kinds |-> 0] /\ region_pending = 0
  /\ workers = {} /\ popup = [k \in Kinds |-> Closed] /\ cache = {}
  /\ rollback_popup_open = FALSE

Replies == \E w \in workers : LookupFetched(w) \/ AutoRegionFetched(w)

SessionNext ==
  \/ CableMoves \/ PollDevice \/ DevicePollFinished(TRUE)
  \/ RollbackDetailOpen \/ RollbackDetailClose
  \/ \E k \in Kinds : LookupOpen(k) \/ LookupRetry(k) \/ LookupClose(k)
  \/ RegionProbe \/ Replies

ReplyTo(k, i) ==
  \E w \in workers : w.kind = k /\ w.id = i /\ (LookupFetched(w) \/ AutoRegionFetched(w))

\* task_heavy answers for a worker that fails or panics, too.
SessionSpec ==
  /\ SessionInit /\ [][SessionNext]_sessionVars
  /\ \A k \in Kinds \cup {"Region"}, i \in 1..MaxQueries : WF_sessionVars(ReplyTo(k, i))

-----------------------------------------------------------------------------
(* Properties.                                                             *)

\* The type of every variable.
SessionTypeOK ==
  /\ plugged \in {EmptyCable} \cup [mode : DeviceModes, serial : Serials] /\ cable_moves \in 0..MaxCableMoves
  /\ device \in Snapshots /\ reading \in Snapshots \cup {NoPoll}
  /\ sequence \in 0..MaxQueries /\ region_pending \in 0..MaxQueries
  /\ pending \in [Kinds -> 0..MaxQueries] /\ workers \subseteq Workers
  /\ popup \in [Kinds -> Popups] /\ cache \subseteq Kinds \X Serials
  /\ rollback_popup_open \in BOOLEAN

\* Whatever is open on the dashboard is about the device the dashboard names,
\* and the rollback popup has floors to show.
ViewsAreOfTheDevice ==
  /\ \A k \in Kinds : popup[k] # Closed => popup[k].serial = device.serial
  /\ rollback_popup_open => device.rollback_floors

\* A popup that waits, waits for a worker that is under way for its serial with
\* the token that is accepted; a probe that is awaited asks about the device.
WaitsHaveAWorker ==
  /\ \A k \in Kinds : popup[k].state = "Loading" =>
       [kind |-> k, id |-> pending[k], serial |-> popup[k].serial] \in workers
  /\ region_pending # 0 =>
       [kind |-> "Region", id |-> region_pending, serial |-> device.serial] \in workers

\* Nothing loads for ever.
LoadingEnds == \A k \in Kinds : popup[k].state = "Loading" ~> popup[k].state # "Loading"
=============================================================================
