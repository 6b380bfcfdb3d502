------------------------------- MODULE AppFiles -------------------------------
(***************************************************************************)
(* LTBox's own files: what a start moves from beside an old executable     *)
(* into the data directory, the ADB key several threads may ask for at     *)
(* once, and the settings.  Every file operation may fail, and the program *)
(* may be killed between any two.  KonaBess has the sweep of the scratch   *)
(* directories, CountryChange and RootUnroot the backups of their runs.    *)
(***************************************************************************)
EXTENDS Naturals, Sequences
SX == INSTANCE SequencesExt

CONSTANTS
  Legacy,     \* what lies beside the old executable: "adbkey", backup folders
  Threads,    \* threads that ask for the ADB key, of one or several instances
  OldFiles,   \* the recent files of a settings file from before the categories
  Paths,      \* paths the user picks
  RECENT_MAX,
  MaxPicks,   \* picks that change the settings
  MaxAsks,    \* times the key is asked for
  MaxFaults,  \* file operations that fail
  MaxKills    \* kills

ASSUME FilesAssumption ==
  /\ "adbkey" \in Legacy /\ RECENT_MAX \in Nat \ {0}
  /\ MaxPicks \in Nat /\ MaxAsks \in Nat /\ MaxFaults \in Nat /\ MaxKills \in Nat

VARIABLES
  had,         \* of Legacy, what lay there before the first start
  old, moved,  \* each of Legacy at its old and at its new place: "None", "Part", "Whole"
  app,         \* "Off", "Migrate", "Up"
  waiting,     \* of Legacy, what this start has not yet looked at
  moving,      \* the one being copied, and where: "Copy", "Clean", "Drop"; or Nothing
  asks,        \* each thread's ensure_key_at_path: "Idle", "Look", "Remove", "Write",
               \* "Check", "Replace", "Rename"
  mem, stored, \* the settings in memory and in the file
  saving,      \* atomic_write_with: "Off", "Write", "Persist"
  recent,      \* the list as the user's picks make it, without those a kill took
  recorded,    \* that list at the last save that succeeded
  defaults,    \* a start could not read its settings: "No", "InMemory" since this one,
               \* "InFile" once such a start has saved its defaults over them
  asked,       \* times the key was asked for
  served, unkeyed, \* in this start one who asked was served; none was since one failed
  picks, faults, kills

filesAt  == <<had, old, moved>>
starting == <<app, waiting, moving>>
keys     == <<asks, asked, served, unkeyed>>
settings == <<mem, stored, saving, recent, recorded, defaults, picks>>
fileVars == <<filesAt, starting, keys, settings, faults, kills>>

Nothing == <<"None", "Off">>
Fine    == UNCHANGED <<faults, kills>>
Fails   == faults < MaxFaults /\ faults' = faults + 1 /\ UNCHANGED kills

-----------------------------------------------------------------------------
(* migrate_legacy_windows_data, before anything else of a start.           *)

Settle(i) == waiting' = waiting \ {i} /\ moving' = Nothing /\ UNCHANGED app

\* A start elsewhere than on Windows looks at nothing.
Launch ==
  /\ app = "Off" /\ app' = "Migrate" /\ waiting' \in {Legacy, {}} /\ moving' = Nothing
  /\ Fine /\ UNCHANGED <<filesAt, keys, settings>>

\* migration_decision: what is there already, whole or not, is left as it is.
LeaveExisting(i) ==
  /\ moved[i] # "None" \/ old[i] = "None"
  /\ Settle(i) /\ Fine /\ UNCHANGED <<filesAt, keys, settings>>

RenameLegacy(i) ==
  /\ moved[i] = "None" /\ old[i] # "None"
  /\ moved' = [moved EXCEPT ![i] = old[i]] /\ old' = [old EXCEPT ![i] = "None"]
  /\ Settle(i) /\ Fine /\ UNCHANGED <<had, keys, settings>>

\* The rename fails, across volumes say, and copy_entry begins; or there is no
\* directory for it.
CopyBegins(i) ==
  /\ moved[i] = "None" /\ old[i] # "None" /\ Fails /\ UNCHANGED <<had, old, keys, settings>>
  /\ \/ moved' = [moved EXCEPT ![i] = "Part"] /\ moving' = <<i, "Copy">> /\ UNCHANGED <<app, waiting>>
     \/ Settle(i) /\ UNCHANGED moved

Migrates ==
  /\ app = "Migrate" /\ moving = Nothing
  /\ \E i \in waiting : LeaveExisting(i) \/ RenameLegacy(i) \/ CopyBegins(i)

\* Fault: the source of a copy that failed is removed, too.
DropsAnyway ==
  LET i == moving[1] IN
  /\ moving[2] = "Copy" /\ UNCHANGED <<had, app, waiting, old, keys, settings>>
  /\ \/ moved' = [moved EXCEPT ![i] = old[i]] /\ moving' = <<i, "Drop">> /\ Fine
     \/ moving' = <<i, "Drop">> /\ UNCHANGED moved /\ Fails
\* copy_fallback_with
copy_fallback_with ==
  LET i == moving[1] IN
  /\ moving[2] = "Copy" /\ UNCHANGED <<had, app, waiting, old, keys, settings>>
  /\ \/ moved' = [moved EXCEPT ![i] = old[i]] /\ moving' = <<i, "Drop">> /\ Fine
     \/ moving' = <<i, "Clean">> /\ UNCHANGED moved /\ Fails

CleanPartial ==
  LET i == moving[1] IN
  /\ moving[2] = "Clean" /\ Settle(i) /\ UNCHANGED <<had, old, keys, settings>>
  /\ \/ moved' = [moved EXCEPT ![i] = "None"] /\ Fine
     \/ UNCHANGED moved /\ Fails

DropSource ==
  LET i == moving[1] IN
  /\ moving[2] = "Drop" /\ Settle(i) /\ UNCHANGED <<had, moved, keys, settings>>
  /\ \/ old' = [old EXCEPT ![i] = "None"] /\ Fine
     \/ old' = [old EXCEPT ![i] = "Part"] /\ Fails

-----------------------------------------------------------------------------
(* ensure_key_at_path, at the new place of adbkey.                         *)

key == moved["adbkey"]
Step(t, step) == asks' = [asks EXCEPT ![t] = step]
KeyIs(k)      == moved' = [moved EXCEPT !["adbkey"] = k] /\ UNCHANGED <<had, old>>
Finds(t)      == Step(t, "Idle") /\ served' = TRUE /\ unkeyed' = FALSE /\ Fine
GivesUp(t)    == Step(t, "Idle") /\ unkeyed' = TRUE /\ UNCHANGED served /\ Fails
GoesOn(t, step) == Step(t, step) /\ UNCHANGED <<served, unkeyed>>
OnlyKeys      == app = "Up" /\ UNCHANGED <<starting, settings, asked>>

AskForKey(t) ==
  /\ app = "Up" /\ asks[t] = "Idle" /\ asked < MaxAsks /\ asked' = asked + 1 /\ GoesOn(t, "Look")
  /\ Fine /\ UNCHANGED <<filesAt, starting, settings>>

\* validate_key_file: a key that cannot be read is as good as a corrupt one; and
\* harden_key_permissions may fail over a good one.
LookForKey(t) ==
  /\ asks[t] = "Look" /\ OnlyKeys /\ UNCHANGED filesAt
  /\ \/ key = "Whole" /\ (Finds(t) \/ GivesUp(t))
     \/ key = "Whole" /\ GoesOn(t, "Remove") /\ Fails
     \/ key = "Part" /\ GoesOn(t, "Remove") /\ Fine
     \/ key = "None" /\ GoesOn(t, "Write") /\ Fine

\* remove_corrupt_key removes what is there by now.
RemoveKey(t, from, to) ==
  /\ asks[t] = from /\ OnlyKeys
  /\ \/ KeyIs("None") /\ GoesOn(t, to) /\ Fine
     \/ GivesUp(t) /\ UNCHANGED filesAt

\* Fault: the key is written at its own place.
WritesKeyInPlace(t) ==
  /\ asks[t] = "Write" /\ OnlyKeys
  /\ KeyIs("Part") /\ ((GoesOn(t, "Rename") /\ Fine) \/ GivesUp(t))
\* write_key_atomic: a temporary file of its own, a last look, the rename.
WriteKey(t) ==
  /\ asks[t] = "Write" /\ OnlyKeys /\ UNCHANGED filesAt
  /\ \/ GoesOn(t, "Check") /\ Fine
     \/ GivesUp(t)

CheckKey(t) ==
  /\ asks[t] = "Check" /\ OnlyKeys /\ UNCHANGED filesAt
  /\ \/ key = "Whole" /\ (Finds(t) \/ GivesUp(t))
     \/ key = "Whole" /\ GoesOn(t, "Replace") /\ Fails
     \/ key = "Part" /\ GoesOn(t, "Replace") /\ Fine
     \/ key = "None" /\ GoesOn(t, "Rename") /\ Fine

RenameKey(t) ==
  /\ asks[t] = "Rename" /\ OnlyKeys
  /\ \/ KeyIs("Whole") /\ (Finds(t) \/ GivesUp(t))
     \/ GivesUp(t) /\ UNCHANGED filesAt

KeyStep ==
  \E t \in Threads :
    \/ AskForKey(t) \/ LookForKey(t) \/ RemoveKey(t, "Remove", "Write") \/ WriteKey(t)
    \/ CheckKey(t) \/ RemoveKey(t, "Replace", "Rename") \/ RenameKey(t)

-----------------------------------------------------------------------------
(* Settings: the recent files, as one category and as the flat list of old.*)

Fresh  == <<>>
File(form, list) == [form |-> form, list |-> list]
NoFile   == File("None", Fresh)
TornFile == File("Torn", Fresh)

\* push_front_dedup
push_front_dedup(list, path) ==
  LET front == <<path>> \o SelectSeq(list, LAMBDA p : p # path) IN
  IF Len(front) > RECENT_MAX THEN SubSeq(front, 1, RECENT_MAX) ELSE front

\* migrate_legacy: the flat list is pushed from its front on.
migrate_legacy(files) == SX!FoldLeft(push_front_dedup, Fresh, files)

Loaded(file) ==
  IF file.form = "Old" THEN migrate_legacy(file.list) ELSE file.list

\* load, once the migration is over; a file that cannot be read is no file.
Load ==
  /\ app = "Migrate" /\ waiting = {} /\ moving = Nothing
  /\ app' = "Up" /\ UNCHANGED <<waiting, moving, filesAt, keys, stored, saving, recent, recorded, picks>>
  /\ \/ mem' = Loaded(stored) /\ Fine /\ UNCHANGED defaults
     \/ /\ mem' = Fresh /\ stored # NoFile /\ Fails
        /\ defaults' = IF defaults = "InFile" THEN "InFile" ELSE "InMemory"

\* remember_recent: saved at once, if the list moved.
remember_recent ==
  /\ app = "Up" /\ saving = "Off" /\ picks < MaxPicks /\ picks' = picks + 1
  /\ \E path \in Paths :
       /\ mem' = push_front_dedup(mem, path) /\ recent' = push_front_dedup(recent, path)
       /\ saving' = IF mem' # mem THEN "Write" ELSE "Off"
  /\ Fine /\ UNCHANGED <<filesAt, starting, keys, stored, recorded, defaults>>

\* Fault: the file itself is written.
WritesInPlace ==
  /\ app = "Up" /\ saving = "Write"
  /\ UNCHANGED <<filesAt, starting, keys, mem, recent, recorded, defaults, picks>>
  /\ \/ saving' = "Persist" /\ stored' = TornFile /\ Fine
     \/ saving' = "Off" /\ Fails /\ UNCHANGED stored
\* atomic_write_with: a temporary file is written and synced first.
WriteTemporary ==
  /\ app = "Up" /\ saving = "Write"
  /\ UNCHANGED <<filesAt, starting, keys, mem, stored, recent, recorded, defaults, picks>>
  /\ \/ saving' = "Persist" /\ Fine
     \/ saving' = "Off" /\ Fails

Persist ==
  /\ app = "Up" /\ saving = "Persist" /\ saving' = "Off"
  /\ UNCHANGED <<filesAt, starting, keys, mem, recent, picks>>
  /\ \/ /\ stored' = File("New", mem) /\ recorded' = recent /\ Fine
        /\ defaults' = IF defaults = "No" THEN "No" ELSE "InFile"
     \/ Fails /\ UNCHANGED <<stored, recorded, defaults>>

-----------------------------------------------------------------------------
Kill ==
  /\ app # "Off" /\ kills < MaxKills /\ kills' = kills + 1
  /\ app' = "Off" /\ waiting' = {} /\ moving' = Nothing
  /\ asks' = [t \in Threads |-> "Idle"] /\ served' = FALSE /\ unkeyed' = FALSE
  /\ mem' = Fresh /\ saving' = "Off" /\ recent' = recorded
  /\ defaults' = IF defaults = "InFile" THEN "InFile" ELSE "No"
  /\ UNCHANGED <<filesAt, asked, stored, recorded, picks, faults>>

FilesInit ==
  /\ had \in SUBSET Legacy
  /\ old = [i \in Legacy |-> IF i \in had THEN "Whole" ELSE "None"]
  /\ moved = [i \in Legacy |-> "None"]
  /\ app = "Off" /\ waiting = {} /\ moving = Nothing
  /\ asks = [t \in Threads |-> "Idle"] /\ asked = 0 /\ served = FALSE /\ unkeyed = FALSE
  /\ stored \in {NoFile, File("Old", OldFiles)} /\ recorded = Loaded(stored) /\ recent = recorded
  /\ mem = Fresh /\ saving = "Off" /\ defaults = "No"
  /\ picks = 0 /\ faults = 0 /\ kills = 0

FilesNext ==
  \/ Launch \/ Migrates \/ copy_fallback_with \/ CleanPartial \/ DropSource \/ KeyStep
  \/ Load \/ remember_recent \/ WriteTemporary \/ Persist \/ Kill

FilesSpec == FilesInit /\ [][FilesNext]_fileVars

-----------------------------------------------------------------------------
(* Properties.                                                             *)

\* copy_fallback_with: a backup that lay beside the old executable is whole at its
\* old or at its new place, wherever the migration was stopped.
BackupsAreKept == \A i \in had \ {"adbkey"} : old[i] = "Whole" \/ moved[i] = "Whole"

\* ensure_key_at_path, "concurrent writers cannot leave a half-written key": once one
\* who asked was served, the key is whole, or it is away and one who asked is about
\* to publish another, or has failed to since the last one was served.  A served key
\* may go: one who could not read it, or who found a corrupt one before it was there,
\* removes it.
KeyIsServed ==
  served =>
    \/ key = "Whole"
    \/ key = "None" /\ (unkeyed \/ \E t \in Threads : asks[t] \in {"Write", "Check", "Rename"})

\* load, remember_recent, atomic_write_with: the list of recent files that a save has
\* recorded is what later starts find, whatever saves failed and whoever was killed,
\* and what is shown is that list with the picks since; except that a start that
\* could not read the file goes on with defaults, and its next save, if it succeeds,
\* writes them over the file.
RecentsAreKept ==
  /\ defaults # "InFile" => Loaded(stored) = recorded
  /\ app = "Up" /\ defaults = "No" => mem = recent

\* What LTBox keeps for its user survives failures and kills, but for a key that is
\* replaced and for settings that could not be read.
KeptUnlessUnreadable == BackupsAreKept /\ KeyIsServed /\ RecentsAreKept
=============================================================================
