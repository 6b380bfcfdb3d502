--------------------------- MODULE StorageWizards ---------------------------
(***************************************************************************)
(* The wizards of the Advanced view that read or write whole partitions,   *)
(* whole LUNs or a whole firmware folder: their pages, the GPT scan that   *)
(* takes the device into EDL, the native dialogs that answer late, and the *)
(* sidebar.  What a run then does to the storage is Transfers.             *)
(***************************************************************************)
EXTENDS Naturals, FiniteSets

CONSTANTS
  Wizards,   \* the wizards the user may open
  Rows,      \* the rows of a table: GPT entries, or LUNs, by place
  Images,    \* the files he may pick for a row
  Prefilled, \* whether the settings name a loader that fits the device
  MaxScreens, MaxRuns, MaxBoots \* bounds: clicks on the sidebar's Advanced, operations, reboots by hand

ASSUME StorageAssumption ==
  /\ Wizards \subseteq {"FlashParts", "DumpParts", "FlashPhys", "DumpPhys", "SimpleFlash"}
  /\ IsFiniteSet(Rows) /\ Rows = 1..Cardinality(Rows)
  /\ "None" \notin Images /\ Prefilled \in BOOLEAN
  /\ {MaxScreens, MaxRuns, MaxBoots} \subseteq Nat

VARIABLES
  screen,               \* current_view: "Advanced" or "Elsewhere"
  advanced_wizard_open,
  wizard,               \* the five wizard structs
  asking,               \* the native dialog that is open
  operation,            \* what is running
  connection,           \* device.connection
  booted,               \* the mode the device is in
  polled,               \* what the poll in flight read
  stayed,               \* the device has not left EDL since its table was read
  chosen,               \* <<row, image>> as the user picked them in this table
  screens, started, boots

appVars    == <<screen, advanced_wizard_open, wizard>>
cableVars  == <<connection, booted, polled, stayed, boots>>
storageVars == <<appVars, asking, operation, cableVars, chosen, screens, started>>

PartWizards == {"FlashParts", "DumpParts"}
PhysWizards == {"FlashPhys", "DumpPhys"}
Writers == {"FlashParts", "FlashPhys", "SimpleFlash"}

Unmarked == [r \in Rows |-> "Unchecked"]
NoFiles  == [r \in Rows |-> "None"]
\* `order` is the part that each row of the table shows; a LUN table is never
\* sorted.  A partition wizard has a table only once one was scanned.
Fresh == [step |-> 0, source |-> "None", entry |-> "None", table |-> FALSE,
          marks |-> Unmarked, files |-> NoFiles, desc |-> FALSE]
NoDialog == [for |-> "None", what |-> "None", row |-> 0, about |-> 0]
Idle == [by |-> "None", what |-> "None", job |-> {}]

w == wizard[advanced_wizard_open]
IsOpen(k) == advanced_wizard_open = k
Becomes(record) == wizard' = [wizard EXCEPT ![advanced_wizard_open] = record]
Default == [k \in Wizards |-> Fresh]

ExecStep(k) == CASE k \in {"FlashParts", "FlashPhys"} -> 3 [] OTHER -> 2
ConfirmStep(k) == CASE k \in {"FlashParts", "FlashPhys"} -> 2
                    [] k = "SimpleFlash" -> 1
                    [] OTHER -> 9 \* the dump wizards have no confirm page
\* A table of two orders is enough to move a row under the user's hand.
PartAt(record, row) == IF record.desc THEN Cardinality(Rows) + 1 - row ELSE row

-----------------------------------------------------------------------------
(* What the pages allow.                                                   *)

running == operation # Idle
Quiet == polled = "NoPoll" \* input waits for the poll, DispatchGate
Free == ~running /\ Quiet
device_reachable == connection \in {"Adb", "Edl"}
OnPage(k) == Free /\ screen = "Advanced" /\ IsOpen(k)

\* active_rows and active_pairs, as <<part, image>>.
active(k, record) ==
  LET flashed == {p \in Rows : /\ record.marks[p] = "Flash"
                               /\ k \in {"FlashParts", "FlashPhys"} => record.files[p] # "None"}
      erased  == {p \in Rows : record.marks[p] = "Erase"}
  IN {<<p, record.files[p]>> : p \in flashed} \cup {<<p, "Erase">> : p \in erased}

FlashParts_can_next(record) ==
  CASE record.step = 0 -> record.source # "None"
    [] record.step = 1 -> record.table /\ active("FlashParts", record) # {}
    [] OTHER           -> record.step = 2
DumpParts_can_next(record) ==
  IF record.step = 0 THEN record.source # "None"
  ELSE record.step = 1 /\ record.table /\ active("DumpParts", record) # {}
DumpPhys_can_next(record) ==
  IF record.step = 0 THEN record.source # "None" ELSE record.step = 1 /\ active("DumpPhys", record) # {}
FlashPhys_can_next(record) ==
  CASE record.step = 0 -> record.source # "None"
    [] record.step = 1 -> /\ active("FlashPhys", record) # {}
                          /\ \A r \in Rows : record.marks[r] = "Flash" => record.files[r] # "None"
    [] OTHER           -> record.step = 2
SimpleFlash_can_next(record) == IF record.step = 0 THEN record.source # "None" ELSE record.step = 1

can_next(k) == CASE k = "FlashParts" -> FlashParts_can_next(w)
                 [] k = "DumpParts"  -> DumpParts_can_next(w)
                 [] k = "DumpPhys"   -> DumpPhys_can_next(w)
                 [] k = "FlashPhys"  -> FlashPhys_can_next(w)
                 [] OTHER            -> SimpleFlash_can_next(w)

\* When a wizard's view lets Next be pressed: the pages that start device work
\* want a device, and the dump wizards want one throughout.
view_flash_parts_wizard  == can_next("FlashParts") /\ (w.step \in {0, 2} => device_reachable)
view_dump_parts_wizard   == can_next("DumpParts") /\ device_reachable
view_dump_phys_wizard    == can_next("DumpPhys") /\ device_reachable
view_flash_phys_wizard   == can_next("FlashPhys") /\ (w.step = 2 => device_reachable)
view_simple_flash_wizard == can_next("SimpleFlash") /\ (w.step = 1 => device_reachable)

NextOffered(k) == OnPage(k) /\ CASE k = "FlashParts" -> view_flash_parts_wizard
                                  [] k = "DumpParts"  -> view_dump_parts_wizard
                                  [] k = "DumpPhys"   -> view_dump_phys_wizard
                                  [] k = "FlashPhys"  -> view_flash_phys_wizard
                                  [] OTHER            -> view_simple_flash_wizard

\* The first page, and the tables: a mark to click, and in the flash wizards a
\* row to open the file dialog with.
loader_picker_card(k)     == OnPage(k) /\ w.step = 0 /\ k # "SimpleFlash"
simple_flash_intro_step   == OnPage("SimpleFlash") /\ w.step = 0
flash_parts_select_step   == OnPage("FlashParts") /\ w.step = 1
dump_parts_select_step    == OnPage("DumpParts") /\ w.step = 1
dump_phys_select_step     == OnPage("DumpPhys") /\ w.step = 1
flash_phys_select_step    == OnPage("FlashPhys") /\ w.step = 1

Begins(by, what, job) == /\ started < MaxRuns /\ started' = started + 1
                         /\ operation' = [by |-> by, what |-> what, job |-> job]

-----------------------------------------------------------------------------
(* The sidebar.                                                            *)

\* advanced_inline_exec_surface_active
ExecSurface == advanced_wizard_open # "None" /\ w.step >= ExecStep(advanced_wizard_open)

\* What a sidebar bounce may not lose.
advanced_in_progress ==
  \/ ExecSurface
  \/ advanced_wizard_open \in PartWizards /\ connection = "Edl" /\ w.table
  \/ advanced_wizard_open \in {"FlashPhys", "SimpleFlash"} /\ w.step = ConfirmStep(advanced_wizard_open)

ResetAdvanced == /\ advanced_wizard_open' = "None" /\ wizard' = Default /\ chosen' = {}

\* Navigate is taken while an operation runs, too.
Navigate(v) ==
  /\ Quiet /\ screen' = v
  /\ screens' = IF v = "Advanced" THEN screens + 1 ELSE screens
  /\ screens' <= MaxScreens
  /\ IF v = "Advanced" /\ ~running /\ ~advanced_in_progress
     THEN ResetAdvanced ELSE UNCHANGED <<advanced_wizard_open, wizard, chosen>>
  /\ UNCHANGED <<asking, operation, cableVars, started>>

StartOver ==
  /\ Free /\ screen = "Advanced" /\ ExecSurface
  /\ ResetAdvanced
  /\ UNCHANGED <<screen, asking, operation, cableVars, screens, started>>

-----------------------------------------------------------------------------
(* Opening, loader, scan.                                                  *)

ScanBegins(k, record) ==
  /\ wizard' = [wizard EXCEPT ![k] = [record EXCEPT !.entry = connection, !.table = FALSE,
                                                    !.marks = Unmarked, !.files = NoFiles]]
  /\ chosen' = {} /\ Begins(k, "Scan", {})

\* A loader of the settings takes the wizard past its first page.
apply_default_loader(k) ==
  LET filled == [Fresh EXCEPT !.source = "Loader"] IN
  CASE k \in PartWizards -> ScanBegins(k, filled)
    [] k \in PhysWizards -> /\ wizard' = [wizard EXCEPT ![k] = [filled EXCEPT !.step = 1]]
                            /\ chosen' = {} /\ UNCHANGED <<operation, started>>

AdvConfirm(k) ==
  /\ Free /\ screen = "Advanced" /\ IsOpen("None")
  /\ advanced_wizard_open' = k
  /\ IF Prefilled /\ k # "SimpleFlash" THEN apply_default_loader(k)
     ELSE /\ wizard' = [wizard EXCEPT ![k] = Fresh] /\ chosen' = {}
          /\ UNCHANGED <<operation, started>>
  /\ UNCHANGED <<screen, asking, cableVars, screens>>

Close(k) ==
  /\ OnPage(k) /\ w.step = 0
  /\ advanced_wizard_open' = "None" /\ Becomes(Fresh) /\ chosen' = {}
  /\ UNCHANGED <<screen, asking, operation, cableVars, screens, started>>

ScanStart(k) ==
  /\ k \in PartWizards /\ NextOffered(k) /\ w.step = 0
  /\ ScanBegins(k, w)
  /\ UNCHANGED <<screen, advanced_wizard_open, asking, cableVars, screens>>

\* Fault: the snapshot waits for the next poll.
ScanLeavesSnapshot(ok) == connection

\* A table that was read proves the device to be in EDL.
ConnectionAfterScan(ok) == IF ok THEN "Edl" ELSE connection

\* A scan that fails may have moved the device already.
ScanDone(ok) ==
  /\ operation.what = "Scan" /\ operation' = Idle
  /\ wizard' = [wizard EXCEPT ![operation.by] =
                  IF ok THEN [@ EXCEPT !.table = TRUE, !.step = 1] ELSE @]
  /\ connection' = ConnectionAfterScan(ok)
  /\ IF ok THEN booted' = "Edl" ELSE booted' \in {booted, "Edl"}
  /\ stayed' = ok
  /\ UNCHANGED <<screen, advanced_wizard_open, asking, polled, boots, chosen, screens, started>>

-----------------------------------------------------------------------------
(* The table.                                                              *)

Cycle(mark) == CASE mark = "Unchecked" -> "Flash" [] mark = "Flash" -> "Erase" [] OTHER -> "Unchecked"
Toggle(mark) == IF mark = "Unchecked" THEN "Flash" ELSE "Unchecked"

ToggleRow(row) ==
  /\ \/ flash_parts_select_step /\ Becomes([w EXCEPT !.marks[PartAt(w, row)] = Cycle(@)])
     \/ dump_parts_select_step /\ Becomes([w EXCEPT !.marks[PartAt(w, row)] = Toggle(@)])
     \/ (dump_phys_select_step \/ flash_phys_select_step) /\ Becomes([w EXCEPT !.marks[row] = Toggle(@)])
  /\ UNCHANGED <<screen, advanced_wizard_open, asking, operation, cableVars, chosen, screens, started>>

\* The box in the head of the table: all rows, unless all are selected.
DumpPartsToggleAll ==
  /\ dump_parts_select_step
  /\ LET all == \A r \in Rows : w.marks[r] = "Flash" IN
     Becomes([w EXCEPT !.marks = [r \in Rows |-> IF all THEN "Unchecked" ELSE "Flash"]])
  /\ UNCHANGED <<screen, advanced_wizard_open, asking, operation, cableVars, chosen, screens, started>>

\* toggle_sort and apply_sort, on the column that is active.
SortBy ==
  /\ flash_parts_select_step \/ dump_parts_select_step
  /\ Becomes([w EXCEPT !.desc = ~@])
  /\ UNCHANGED <<screen, advanced_wizard_open, asking, operation, cableVars, chosen, screens, started>>

-----------------------------------------------------------------------------
(* The native dialogs, which stay open whatever the wizard does.           *)

Asks(k, what, row, about) ==
  /\ asking = NoDialog
  /\ asking' = [for |-> k, what |-> what, row |-> row, about |-> about]
  /\ UNCHANGED <<appVars, operation, cableVars, chosen, screens, started>>

\* With a loader in the settings the button takes that one and asks nothing.
SelectSource(k) ==
  /\ loader_picker_card(k) \/ (k = "SimpleFlash" /\ simple_flash_intro_step)
  /\ IF Prefilled /\ k # "SimpleFlash"
     THEN /\ Becomes([w EXCEPT !.source = "Loader"])
          /\ UNCHANGED <<screen, advanced_wizard_open, asking, operation, cableVars, chosen, screens, started>>
     ELSE Asks(k, "Source", 0, 0)

PickRowFile(row) ==
  \/ flash_parts_select_step /\ Asks("FlashParts", "Row", row, PartAt(w, row))
  \/ flash_phys_select_step /\ Asks("FlashPhys", "Row", row, row)

\* The destination of a dump is its last question.
SelectFolder(k) ==
  k \in {"DumpParts", "DumpPhys"} /\ NextOffered(k) /\ w.step = 1 /\ Asks(k, "Folder", 0, 0)

Answered == ~running /\ Quiet /\ asking' = NoDialog

\* Cancelled, or dropped because an operation runs.
DialogIsIgnored ==
  /\ asking # NoDialog /\ Quiet /\ asking' = NoDialog
  /\ UNCHANGED <<appVars, operation, cableVars, chosen, screens, started>>

\* apply_loader_pick: a loader that is refused also drops the one before.
LoaderChosen(k, loader) ==
  /\ asking.for = k /\ asking.what = "Source" /\ Answered
  /\ wizard' = [wizard EXCEPT ![k].source = loader]
  /\ UNCHANGED <<screen, advanced_wizard_open, operation, cableVars, chosen, screens, started>>

\* The reply names the row by its place.
FlashPartsRowFileChosen(image) ==
  /\ asking.for = "FlashParts" /\ asking.what = "Row" /\ Answered
  /\ chosen' = chosen \cup {<<asking.about, image>>}
  /\ LET record == wizard["FlashParts"] part == PartAt(record, asking.row) IN
     wizard' = IF record.table
               THEN [wizard EXCEPT !["FlashParts"].files[part] = image, !["FlashParts"].marks[part] = "Flash"]
               ELSE wizard
  /\ UNCHANGED <<screen, advanced_wizard_open, operation, cableVars, screens, started>>

FlashPhysRowFileChosen(image) ==
  /\ asking.for = "FlashPhys" /\ asking.what = "Row" /\ Answered
  /\ chosen' = chosen \cup {<<asking.about, image>>}
  /\ wizard' = [wizard EXCEPT !["FlashPhys"].files[asking.row] = image,
                              !["FlashPhys"].marks[asking.row] = "Flash"]
  /\ UNCHANGED <<screen, advanced_wizard_open, operation, cableVars, screens, started>>

\* The folder of a dump starts it, whatever page is on show by then.
DumpPartsFolderChosen ==
  /\ asking.for = "DumpParts" /\ asking.what = "Folder" /\ Answered
  /\ wizard' = [wizard EXCEPT !["DumpParts"].step = 2]
  /\ Begins("DumpParts", "Run", active("DumpParts", wizard["DumpParts"]))
  /\ UNCHANGED <<screen, advanced_wizard_open, cableVars, chosen, screens>>

DumpPhysFolderChosen ==
  /\ asking.for = "DumpPhys" /\ asking.what = "Folder" /\ Answered
  /\ IF wizard["DumpPhys"].source = "None" THEN UNCHANGED <<wizard, operation, started>>
     ELSE /\ wizard' = [wizard EXCEPT !["DumpPhys"].step = 2]
          /\ Begins("DumpPhys", "Run", active("DumpPhys", wizard["DumpPhys"]))
  /\ UNCHANGED <<screen, advanced_wizard_open, cableVars, chosen, screens>>

-----------------------------------------------------------------------------
(* Next, Back, Start.                                                      *)

\* The page behind the first one, where no scan and no run begins.
Turns(k) ==
  /\ NextOffered(k) /\ w.step < ExecStep(k) - 1
  /\ ~(k \in PartWizards /\ w.step = 0)
  /\ Becomes([w EXCEPT !.step = @ + 1])
  /\ UNCHANGED <<screen, advanced_wizard_open, asking, operation, cableVars, chosen, screens, started>>

\* A partition wizard that took the device into EDL offers Cancel on its table,
\* which also takes it out again.
Cancels(k) == k \in PartWizards /\ w.step = 1 /\ w.entry # "Edl"

Back(k) ==
  /\ OnPage(k) /\ w.step \in 1..(ExecStep(k) - 1)
  /\ IF Cancels(k)
     THEN /\ w.source # "None" /\ advanced_wizard_open' = "None" /\ Becomes(Fresh)
          /\ chosen' = {} /\ Begins("Reboot", "Run", {})
     ELSE /\ Becomes([w EXCEPT !.step = @ - 1])
          /\ UNCHANGED <<advanced_wizard_open, operation, chosen, started>>
  /\ UNCHANGED <<screen, asking, cableVars, screens>>

ExecStart(k) ==
  /\ k \in Writers /\ NextOffered(k) /\ w.step = ConfirmStep(k)
  /\ IF k = "FlashPhys" /\ w.source = "None" THEN UNCHANGED <<wizard, operation, started>>
     ELSE Becomes([w EXCEPT !.step = @ + 1]) /\ Begins(k, "Run", active(k, w))
  /\ UNCHANGED <<screen, advanced_wizard_open, asking, cableVars, chosen, screens>>

\* A run ends in the mode its own steps lead to.
RunEnds(mode) ==
  /\ operation.what = "Run" /\ operation' = Idle
  /\ operation.by = "Reboot" => mode = "Adb"
  /\ booted' = mode /\ stayed' = (stayed /\ mode = "Edl")
  /\ UNCHANGED <<appVars, asking, connection, polled, boots, chosen, screens, started>>

-----------------------------------------------------------------------------
(* The device.                                                             *)

RebootedByHand(mode) ==
  /\ boots < MaxBoots /\ boots' = boots + 1 /\ ~running
  /\ mode # booted /\ booted' = mode /\ stayed' = (stayed /\ mode = "Edl")
  /\ UNCHANGED <<appVars, asking, operation, connection, polled, chosen, screens, started>>

can_poll_device == polled = "NoPoll" /\ ~running

PollDevice ==
  /\ can_poll_device /\ polled' = booted /\ connection # booted
  /\ UNCHANGED <<appVars, asking, operation, connection, booted, stayed, boots, chosen, screens, started>>

DevicePollFinished ==
  /\ polled # "NoPoll" /\ polled' = "NoPoll" /\ connection' = polled
  /\ UNCHANGED <<appVars, asking, operation, booted, stayed, boots, chosen, screens, started>>

-----------------------------------------------------------------------------
StorageInit ==
  /\ screen = "Advanced" /\ advanced_wizard_open = "None" /\ wizard = Default
  /\ asking = NoDialog /\ operation = Idle
  /\ booted \in {"Adb", "Edl"} /\ connection = booted /\ polled = "NoPoll"
  /\ stayed = FALSE /\ chosen = {} /\ screens = 0 /\ started = 0 /\ boots = 0

StorageNext ==
  \/ \E v \in {"Advanced", "Elsewhere"} : Navigate(v)
  \/ StartOver
  \/ \E k \in Wizards :
       \/ AdvConfirm(k) \/ Close(k) \/ ScanStart(k) \/ SelectSource(k) \/ SelectFolder(k)
       \/ Turns(k) \/ Back(k) \/ ExecStart(k)
       \/ \E loader \in {"Loader", "None"} : LoaderChosen(k, loader)
  \/ DumpPartsToggleAll \/ SortBy
  \/ \E row \in Rows : ToggleRow(row) \/ PickRowFile(row)
  \/ \E image \in Images : FlashPartsRowFileChosen(image) \/ FlashPhysRowFileChosen(image)
  \/ DumpPartsFolderChosen \/ DumpPhysFolderChosen \/ DialogIsIgnored
  \/ \E ok \in BOOLEAN : ScanDone(ok)
  \/ \E mode \in {"Adb", "Edl"} : RunEnds(mode) \/ RebootedByHand(mode)
  \/ PollDevice \/ DevicePollFinished

StorageSpec == StorageInit /\ [][StorageNext]_storageVars

-----------------------------------------------------------------------------
(* Properties.                                                             *)

Place == <<advanced_wizard_open, wizard>>

\* A look at another view and back costs the user nothing he cannot get again:
\* a table read over EDL is kept as long as the device has not left EDL, even
\* when the last poll was taken before the scan, and a confirm page is kept
\* whatever the device does (Navigate, advanced_in_progress, the snapshot that
\* the scan's handler applies).
BounceKeepsPlace ==
  [][/\ screens' # screens \* a click on the sidebar's Advanced
     /\ \/ advanced_wizard_open \in PartWizards /\ w.table /\ stayed
        \/ advanced_wizard_open \in {"FlashPhys", "SimpleFlash"}
           /\ w.step >= ConfirmStep(advanced_wizard_open)
     => Place' = Place]_storageVars

\* An image is flashed only to a partition the user opened the file dialog for
\* (FlashPartRow::file_path: "populated when the user double-clicks the row and
\* picks an image file").
ImageGoesToItsRow ==
  operation.by = "FlashParts" /\ operation.what = "Run" =>
    \A pair \in operation.job : pair[2] # "Erase" => pair \in chosen
=============================================================================
