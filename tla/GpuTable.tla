------------------------------ MODULE GpuTable ------------------------------
(***************************************************************************)
(* The GPU table editor: an inspection reads the tables of the device's    *)
(* vendor_boot, the user picks one and edits it, by typing, by adding and  *)
(* removing rows or by importing a profile, and what was shown is spliced  *)
(* into the image and written back.  Pages, workers and the pair of images *)
(* are KonaBess's business; here a flash that builds is a flash that       *)
(* succeeds, and the next inspection reads the edited image.               *)
(***************************************************************************)
EXTENDS VendorBoot

CONSTANTS
  Images,     \* vendor_boot partitions a device may come with
  Exports,    \* KonaBess profiles on the user's disk
  Typed,      \* numbers the user types into a cell
  GpuRoutes,  \* what verifies the image: the "Avb" chain, or the "Gbl" on efisp
  MaxEdits,   \* changes made in the editor
  MaxGpuFlashes \* flashes

ASSUME TableAssumption == /\ GpuRoutes \subseteq {"Avb", "Gbl"} /\ Typed \subseteq Nat
                          /\ MaxEdits \in Nat /\ MaxGpuFlashes \in Nat

VARIABLES
  gpu_route,     \* how the device's model verifies vendor_boot
  partition,     \* the partition
  candidates,    \* the tables of the last inspection; {} without one
  table_target,  \* selected_target_index, optional
  stock_table,   \* the table as the selected tree has it
  edited_table,
  cell_edits,    \* what was typed, by cell: its value, none where it does not parse
  edits, gpu_flashes

editor == <<table_target, stock_table, edited_table, cell_edits>>
tableVars == <<gpu_route, partition, candidates, editor, edits, gpu_flashes>>

Key(group, level, property) == [group |-> group, level |-> level, property |-> property]
selected == table_target # <<>>
selected_chip == CHOOSE chip \in {c.chip : c \in {x \in candidates : <<x.index>> = table_target}} : TRUE

\* editor_validation: errors of the table, and texts that are no numbers.
NoHardErrors ==
  validate_gpu_table(edited_table) /\ \A key \in DOMAIN cell_edits : cell_edits[key] # <<>>

\* Every change is normalised against the stock table before it is kept.
Normalized(table) == normalize_edited_gpu_table(stock_table, table)

\* The editor takes a changed table; typed texts belong to the old rows.
Keep(table) == edited_table' = table /\ cell_edits' = <<>>

Edit == edits < MaxEdits /\ edits' = edits + 1 /\ selected
        /\ UNCHANGED <<gpu_route, partition, candidates, table_target, stock_table, gpu_flashes>>

-----------------------------------------------------------------------------
\* The inspection worker's result: the popup asks for one of the candidates.
Inspect ==
  /\ candidates = {} /\ candidates' = gpu_candidates(partition) /\ candidates' # {}
  /\ UNCHANGED <<gpu_route, partition, editor, edits, gpu_flashes>>

\* select_target, also over a table that is being edited.
select_target ==
  /\ \E c \in candidates :
       /\ <<c.index>> # table_target \/ edited_table # c.table \/ cell_edits # <<>>
       /\ table_target' = <<c.index>> /\ stock_table' = c.table
       /\ Keep(c.table)
  /\ UNCHANGED <<gpu_route, partition, candidates, edits, gpu_flashes>>

\* Back and Start over: the inspection is dropped.
leave_table ==
  /\ candidates # {} /\ candidates' = {}
  /\ table_target' = <<>> /\ stock_table' = <<>> /\ Keep(<<>>)
  /\ UNCHANGED <<gpu_route, partition, edits, gpu_flashes>>

\* edit_cell: the text stays as typed; a number is committed unless the table
\* has errors of its own.  reg is read-only.
edit_cell ==
  /\ Edit
  /\ \E g \in DOMAIN edited_table : \E l \in DOMAIN edited_table[g].levels :
       \E p \in DOMAIN edited_table[g].levels[l].properties, value \in {<<v>> : v \in Typed} \cup {<<>>} :
         LET committed == edited_table[g].levels[l].properties[p]
             edited == [edited_table EXCEPT ![g].levels[l].properties[p].cells[1] = value[1]]
         IN /\ committed.name # "reg"
            /\ cell_edits' = [k \in DOMAIN cell_edits \cup {Key(g, l, p)} |->
                                IF k = Key(g, l, p) THEN value ELSE cell_edits[k]]
            /\ edited_table' = IF value # <<>> /\ validate_gpu_table(edited)
                               THEN Normalized(edited) ELSE edited_table

\* add_level: a copy of the last row.
add_level ==
  /\ Edit /\ NoHardErrors
  /\ \E g \in DOMAIN edited_table :
       LET levels == edited_table[g].levels
           row    == [Last(levels) EXCEPT !.id = Len(levels)]
       IN Keep(Normalized([edited_table EXCEPT ![g].levels = Append(levels, row)]))

\* Fault: removing a row leaves the typed texts at their positions.
TextsStay ==
  /\ Edit /\ NoHardErrors
  /\ \E g \in DOMAIN edited_table : \E l \in DOMAIN edited_table[g].levels :
       /\ Len(edited_table[g].levels) > 1
       /\ edited_table' = Normalized([edited_table EXCEPT ![g].levels = RemoveAt(@, l)])
       /\ UNCHANGED cell_edits

\* remove_level: never the last row of a group.
remove_level ==
  /\ Edit /\ NoHardErrors
  /\ \E g \in DOMAIN edited_table : \E l \in DOMAIN edited_table[g].levels :
       /\ Len(edited_table[g].levels) > 1
       /\ Keep(Normalized([edited_table EXCEPT ![g].levels = RemoveAt(@, l)]))

revert_edits ==
  /\ edited_table # stock_table \/ cell_edits # <<>>
  /\ Edit /\ Keep(stock_table)

\* parse_export: what a profile has to be to be read at all.
ReadsAsExport(table) ==
  /\ table # <<>> /\ Distinct(table, "id")
  /\ \A group \in ToSet(table) :
       /\ group.levels # <<>> /\ Distinct(group.levels, "id")
       /\ Distinct(group.header, "name")
       /\ {"qcom,speed-bin", "qcom,sku-codes"} \cap {x.name : x \in ToSet(group.header)} # {}
       /\ \A x \in ToSet(group.header) : Len(x.cells) = 1 \/ x.name = "qcom,sku-codes"
       /\ \A level \in ToSet(group.levels) :
            /\ Distinct(level.properties, "name")
            /\ \A x \in ToSet(level.properties) : Len(x.cells) = 1
            /\ scalar_property(level.properties, "reg") = <<level.id>>

\* overwrite_edited_from_import: the levels of the profile under the headers
\* of the device, group by group; kept as it is when it has errors.
overwrite_edited_from_import ==
  /\ Edit
  /\ \E export \in Exports :
       LET imported(id) == SelectSeq(export.table, LAMBDA g : g.id = id)
           table == [g \in DOMAIN stock_table |->
             LET own == stock_table[g]
             IN IF imported(own.id) = <<>> THEN own
                ELSE [own EXCEPT !.levels = imported(own.id)[1].levels]]
       IN /\ ReadsAsExport(export.table) /\ export.chip = selected_chip
          /\ Keep(IF validate_gpu_table(table) THEN Normalized(table) ELSE table)

\* Next on the confirmation: the image is rebuilt from the edited table and
\* written; the wizard starts over.  A build that fails writes nothing.
Flash ==
  /\ selected /\ NoHardErrors /\ gpu_flashes < MaxGpuFlashes
  /\ LET built == build(partition, table_target[1], selected_chip, edited_table, gpu_route = "Gbl")
     IN /\ built # <<>> /\ partition' = built[1]
  /\ gpu_flashes' = gpu_flashes + 1
  /\ candidates' = {} /\ table_target' = <<>> /\ stock_table' = <<>> /\ Keep(<<>>)
  /\ UNCHANGED <<gpu_route, edits>>

TableInit ==
  /\ gpu_route \in GpuRoutes /\ partition \in Images
  /\ candidates = {} /\ table_target = <<>> /\ stock_table = <<>> /\ edited_table = <<>>
  /\ cell_edits = <<>> /\ edits = 0 /\ gpu_flashes = 0

TableNext == \/ Inspect \/ select_target \/ leave_table \/ edit_cell \/ add_level
             \/ remove_level \/ revert_edits \/ overwrite_edited_from_import \/ Flash

TableSpec == TableInit /\ [][TableNext]_tableVars

-----------------------------------------------------------------------------
(* Properties.                                                             *)

\* The rows of the editor as the user sees them: what was typed where
\* something was typed, else what is committed.
Shown == [g \in DOMAIN edited_table |->
  LET levels == edited_table[g].levels
  IN [l \in DOMAIN levels |-> [p \in DOMAIN levels[l].properties |->
       LET property == levels[l].properties[p]
       IN IF Key(g, l, p) \in DOMAIN cell_edits THEN [property EXCEPT !.cells = cell_edits[Key(g, l, p)]]
          ELSE property]]]

Rows(table) == [g \in DOMAIN table |->
  [l \in DOMAIN table[g].levels |-> table[g].levels[l].properties]]

Reads(parsed, rows) == ~parsed.error /\ Rows(parsed.table) = rows

\* After a flash the selected tree parses again, and its rows are those the
\* editor showed, whatever was typed, added, removed and imported before
\* (KonaBessWizard keeps texts by position, apart from the table).
WrittenIsShown ==
  [][gpu_flashes' # gpu_flashes => Reads(parse_fdt(blobs(partition')[table_target[1]]), Shown)]_tableVars

\* The cells of a tree outside its table, with properties by name.
Outside(s, names, ranges) ==
  LET kept == Replaced(s, ranges, <<>>)
  IN [i \in DOMAIN kept |-> IF kept[i].t = "Prop" THEN [kept[i] EXCEPT !.at = names[@].s] ELSE kept[i]]
AroundTable(tree) == Outside(structure(tree), strings(tree), parse_fdt(tree).ranges)

OthersStay(old, new, k) ==
  /\ DOMAIN new = DOMAIN old
  /\ \A x \in DOMAIN old \ {k} : new[x] = old[x]
  /\ AroundTable(new[k]) = AroundTable(old[k])

\* The frequency a group starts at, and the one its floor is at.
StartsAt(group, name) ==
  LET index == scalar_property(group.header, name)
  IN IF index = <<>> \/ index[1] >= Len(group.levels) THEN <<>>
     ELSE level_frequency(group.levels[index[1] + 1])

SameStart(source, written) ==
  \A g \in DOMAIN written, name \in Initials :
    scalar_property(written[g].header, name) # <<>> =>
      LET before == StartsAt(source[g], name)
          now    == StartsAt(written[g], name)
      IN /\ now # <<>>
         /\ before \in {level_frequency(l) : l \in ToSet(written[g].levels)} => now = before

\* A flash changes nothing but the table it edits: the other trees, the rest
\* of the selected tree, ramdisk table, bootconfig, and what lies in the
\* authenticated payload behind them are what they were.  And however the rows
\* were moved, a group still starts at the frequency it started at before the
\* flash, as long as a row has that frequency; and the index it starts with is
\* one of its rows.
OnlyTheTableChanges ==
  [][gpu_flashes' # gpu_flashes =>
      /\ OthersStay(blobs(partition), blobs(partition'), table_target[1])
      /\ ramdisk_table(partition') = ramdisk_table(partition)
      /\ bootconfig(partition') = bootconfig(partition)
      /\ \A i \in used_end(partition) + 1..Last(partition.cells).original_size :
           partition.cells[i] = Zero \/ partition'.cells[i] = partition.cells[i]
      /\ SameStart(stock_table,
                   parse_fdt(blobs(partition')[table_target[1]]).table)]_tableVars
=============================================================================
