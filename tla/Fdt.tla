-------------------------------- MODULE Fdt --------------------------------
(***************************************************************************)
(* Flattened device trees and their GPU power-level table, as LTBox reads  *)
(* and splices them.  A tree is a sequence of cells: a header cell, the    *)
(* structure tokens, then the strings block, one cell per string.  A token *)
(* is one cell whatever its bytes; a property names its string by position *)
(* and holds u32 cells, or text that is no list of cells.                  *)
(*                                                                         *)
(* A table is a sequence of groups, a group its header properties and its  *)
(* levels, both in the order of the tree.  An optional value is a sequence *)
(* of at most one element.                                                 *)
(***************************************************************************)
EXTENDS Integers, Sequences, SequencesExt

Zero == [t |-> "Zero"]
End  == [t |-> "End"]
Nop  == [t |-> "Nop"]
TreeEnd == [t |-> "Finish"]
Begin(name) == [t |-> "Begin", name |-> name]
Prop(at, cells) == [t |-> "Prop", at |-> at, cells |-> cells]
Text(at, texts) == [t |-> "Prop", at |-> at, texts |-> texts]
Str(s) == [t |-> "Str", s |-> s]

\* A node name: what kind of node, and the number behind it; -1 where the name
\* of a group or a level has no valid number.
Node(kind, id) == [kind |-> kind, id |-> id]

Initials == {"qcom,initial-pwrlevel", "qcom,initial-min-pwrlevel"}

\* The chips by the compatible strings of the root.
Families == << [chip |-> "pineapple", values |-> {"qcom,pineapple", "qcom,volcano"}],
               [chip |-> "sun", values |-> {"qcom,sun", "qcom,tuna"}],
               [chip |-> "diwali", values |-> {"qcom,diwali"}],
               [chip |-> "canoe", values |-> {"qcom,canoe"}] >>
infer_chip(texts) ==
  LET i == SelectInSeq(Families, LAMBDA f : f.values \cap ToSet(texts) # {})
  IN IF i = 0 THEN <<>> ELSE <<Families[i].chip>>

-----------------------------------------------------------------------------
(* Parsing: the tokens one by one.                                         *)

Empty == [error |-> FALSE, done |-> FALSE, path |-> <<>>, chip |-> <<>>, parent |-> <<>>,
          open |-> <<>>, level |-> <<>>, table |-> <<>>, ranges |-> <<>>]
Refuse(p) == [p EXCEPT !.error = TRUE]

\* Groups share one parent and do not nest; inside one there are only levels,
\* directly below it.
BeginNode(p, i, name) ==
  LET path  == Append(p.path, name)
      group == name.kind = "group"
      level == name.kind = "level"
      within == p.open # <<>>
  IN IF \/ (group \/ level) /\ name.id < 0
        \/ group /\ (within \/ (p.parent # <<>> /\ p.parent # <<p.path>>))
        \/ level /\ within /\ (Len(path) # p.open[1].depth + 1 \/ p.level # <<>>)
        \/ ~group /\ ~level /\ within
     THEN Refuse(p)
     ELSE [p EXCEPT !.path = path,
             !.parent = IF group THEN <<p.path>> ELSE @,
             !.open = IF group THEN <<[id |-> name.id, depth |-> Len(path), start |-> i,
                                       header |-> <<>>, levels |-> <<>>]>> ELSE @,
             !.level = IF level /\ within THEN <<[id |-> name.id, properties |-> <<>>]>> ELSE @]

EndNode(p, i) ==
  LET depth == Len(p.path)
      closing == p.open # <<>> /\ depth = p.open[1].depth
  IN IF depth = 0 \/ (closing /\ p.open[1].levels = <<>>) THEN Refuse(p)
     ELSE IF closing
     THEN LET g == p.open[1]
          IN [p EXCEPT !.path = Front(@), !.open = <<>>,
                !.table = Append(@, [id |-> g.id, header |-> g.header, levels |-> g.levels]),
                !.ranges = Append(@, [first |-> g.start, last |-> i])]
     ELSE [p EXCEPT !.path = Front(@), !.level = <<>>,
             !.open = IF @ = <<>> THEN @
                      ELSE <<[@[1] EXCEPT !.levels = Append(@, p.level[1])]>>]

\* A property of a group or a level is a nonempty list of cells.
AddProperty(p, token, strings) ==
  LET depth == Len(p.path)
      name  == strings[token.at].s
      cells == "cells" \in DOMAIN token /\ token.cells # <<>>
      property == [name |-> name, cells |-> token.cells]
  IN IF depth = 0 \/ token.at \notin DOMAIN strings \/ (p.open # <<>> /\ ~cells) THEN Refuse(p)
     ELSE IF p.open = <<>>
     THEN [p EXCEPT !.chip = IF depth = 1 /\ name = "compatible" THEN infer_chip(token.texts) ELSE @]
     ELSE IF p.level = <<>>
     THEN [p EXCEPT !.open[1].header = Append(@, property)]
     ELSE [p EXCEPT !.level[1].properties = Append(@, property)]

Token(p, i, token, strings) ==
  IF p.error THEN p
  ELSE IF p.done THEN IF token = Zero THEN p ELSE Refuse(p)
  ELSE CASE token.t = "Begin"  -> BeginNode(p, i, token.name)
         [] token.t = "End"    -> EndNode(p, i)
         [] token.t = "Prop"   -> AddProperty(p, token, strings)
         [] token.t = "Nop"    -> p
         [] token.t = "Finish" -> IF p.path # <<>> THEN Refuse(p) ELSE [p EXCEPT !.done = TRUE]
         [] OTHER              -> Refuse(p)

\* The header: where structure and strings lie in the tree, counted in cells.
structure_start == 1
LayoutOk(fdt) ==
  /\ fdt # <<>> /\ fdt[1].t = "Fdt"
  /\ fdt[1].total_size <= Len(fdt)
  /\ fdt[1].strings_start >= structure_start + fdt[1].structure_size
  /\ fdt[1].strings_start + fdt[1].strings_size <= fdt[1].total_size
structure(fdt) == SubSeq(fdt, 2, 1 + fdt[1].structure_size)
strings(fdt) == SubSeq(fdt, fdt[1].strings_start + 1, fdt[1].strings_start + fdt[1].strings_size)

ParseTokens(s, names) ==
  LET parse[i \in 0..Len(s)] == IF i = 0 THEN Empty ELSE Token(parse[i - 1], i, s[i], names)
  IN parse[Len(s)]

\* Between the groups there may be NOPs, nothing else.
Contiguous(s, p) ==
  IF /\ p.done
     /\ \A k \in 1..Len(p.ranges) - 1 :
          \A i \in p.ranges[k].last + 1..p.ranges[k + 1].first - 1 : s[i] = Nop
  THEN p ELSE Refuse(p)

parse_fdt(fdt) ==
  IF LayoutOk(fdt)
  THEN Contiguous(structure(fdt), ParseTokens(structure(fdt), strings(fdt)))
  ELSE Refuse(Empty)

-----------------------------------------------------------------------------
(* Tables.                                                                 *)

WithName(properties, name) == SelectInSeq(properties, LAMBDA x : x.name = name)
scalar_property(properties, name) ==
  LET i == WithName(properties, name)
  IN IF i # 0 /\ Len(properties[i].cells) = 1 THEN properties[i].cells ELSE <<>>
level_frequency(level) == scalar_property(level.properties, "qcom,gpu-freq")

Distinct(s, field) == \A i, j \in DOMAIN s : s[i][field] = s[j][field] => i = j

\* validate_properties, of a header and of a level.
HeaderIsSound(properties) ==
  /\ Distinct(properties, "name")
  /\ \A i \in DOMAIN properties :
       Len(properties[i].cells) = 1 \/ (properties[i].cells # <<>> /\ properties[i].name \notin Initials)
LevelIsSound(level) ==
  /\ Distinct(level.properties, "name")
  /\ \A i \in DOMAIN level.properties : Len(level.properties[i].cells) = 1
  /\ {"reg", "qcom,gpu-freq", "qcom,level"} \subseteq {x.name : x \in ToSet(level.properties)}

\* No hard error; the tuning warnings block nothing.
validate_gpu_table(table) ==
  /\ table # <<>>
  /\ Distinct(table, "id")
  /\ \A group \in ToSet(table) :
       /\ HeaderIsSound(group.header)
       /\ group.levels # <<>>
       /\ Distinct(group.levels, "id")
       /\ \A level \in ToSet(group.levels) : LevelIsSound(level)

Original(source, group) == SelectSeq(source, LAMBDA g : g.id = group.id)

\* Fault: the index the edited group has now, not the one of the source.
IndexOfEdited(source, group, property) == property.cells[1]

\* The initial index as the source has it.
OldIndex(source, group, property) ==
  LET original == Original(source, group)
      known == IF original = <<>> THEN <<>> ELSE scalar_property(original[1].header, property.name)
  IN IF known = <<>> THEN property.cells[1] ELSE known[1]

FrequencyAt(original, index) ==
  IF original = <<>> \/ index >= Len(original[1].levels) THEN <<>>
  ELSE level_frequency(original[1].levels[index + 1])

\* The first row at a frequency; without one, the same index or the last row.
Nearest(levels, frequency, old_index) ==
  LET first == IF frequency = <<>> THEN 0
               ELSE SelectInSeq(levels, LAMBDA level : level_frequency(level) = frequency)
      last  == Len(levels) - 1
  IN IF first # 0 THEN first - 1 ELSE IF old_index < last THEN old_index ELSE last

\* Where an initial level moves to: it follows the frequency of the source.
Retarget(source, group, property) ==
  LET old_index == OldIndex(source, group, property)
  IN Nearest(group.levels, FrequencyAt(Original(source, group), old_index), old_index)

\* Rows are numbered by their position, initial levels retargeted.
normalize_edited_gpu_table(source, edited) ==
  LET Header(group) == [i \in DOMAIN group.header |->
        IF group.header[i].name \in Initials
        THEN [group.header[i] EXCEPT !.cells = <<Retarget(source, group, group.header[i])>>]
        ELSE group.header[i]]
      LevelRow(level, i) == [id |-> i - 1,
        properties |-> [level.properties EXCEPT ![WithName(level.properties, "reg")].cells = <<i - 1>>]]
  IN [g \in DOMAIN edited |-> [id |-> edited[g].id, header |-> Header(edited[g]),
        levels |-> [i \in DOMAIN edited[g].levels |-> LevelRow(edited[g].levels[i], i)]]]

-----------------------------------------------------------------------------
(* Splicing.                                                               *)

\* StringTable: names absent from the strings block are appended to it, each
\* where it is first used.
Missing(names, known) ==
  LET fresh == {i \in DOMAIN names : /\ Str(names[i].name) \notin known
                                     /\ \A j \in 1..i - 1 : names[j].name # names[i].name}
      In(order) == [k \in DOMAIN order |-> Str(names[order[k]].name)]
  IN In(SetToSortSeq(fresh, <))
Extended(block, table) ==
  block \o Missing(FlattenSeq([g \in DOMAIN table |-> table[g].header
                     \o FlattenSeq([i \in DOMAIN table[g].levels |-> table[g].levels[i].properties])]),
                   ToSet(block))

encode_table(table, block) ==
  LET Encode(properties) == [i \in DOMAIN properties |->
        Prop(SelectInSeq(block, LAMBDA x : x = Str(properties[i].name)), properties[i].cells)]
      Level(l) == <<Begin(Node("level", l.id))>> \o Encode(l.properties) \o <<End>>
      Group(g) == <<Begin(Node("group", g.id))>> \o Encode(g.header)
                  \o FlattenSeq([i \in DOMAIN g.levels |-> Level(g.levels[i])]) \o <<End>>
  IN FlattenSeq([g \in DOMAIN table |-> Group(table[g])])

\* What lies before the structure, between it and the strings, and behind
\* them is kept; the header's sizes follow.
Respliced(fdt, body, block) ==
  LET h == fdt[1]
      gap  == SubSeq(fdt, 2 + h.structure_size, h.strings_start)
      rest == SubSeq(fdt, h.strings_start + h.strings_size + 1, h.total_size)
      grown == Len(body) - h.structure_size
  IN <<[t |-> "Fdt", total_size |-> h.total_size + grown + Len(block) - h.strings_size,
        structure_size |-> Len(body), strings_start |-> h.strings_start + grown,
        strings_size |-> Len(block)]>> \o body \o gap \o block \o rest

Replaced(s, ranges, cells) ==
  SubSeq(s, 1, ranges[1].first - 1) \o cells \o SubSeq(s, Last(ranges).last + 1, Len(s))

rebuild_fdt(fdt, ranges, table) ==
  LET block == Extended(strings(fdt), table)
  IN Respliced(fdt, Replaced(structure(fdt), ranges, encode_table(table, block)), block)

\* The tree with its whole table replaced; nothing unless the chips agree and
\* the table is valid.
ReplaceIn(fdt, p, chip, table) ==
  IF ~p.error /\ p.chip = <<chip>> /\ p.table # <<>> /\ validate_gpu_table(table)
  THEN <<rebuild_fdt(fdt, p.ranges, normalize_edited_gpu_table(p.table, table))>>
  ELSE <<>>
replace_fdt_gpu_table(fdt, chip, table) == ReplaceIn(fdt, parse_fdt(fdt), chip, table)
=============================================================================
