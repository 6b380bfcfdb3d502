----------------------------- MODULE MCGpuTable -----------------------------
(* Small instance of GpuTable: the images and the profiles it goes through. *)
EXTENDS GpuTable

PropertyNames == <<Str("compatible"), Str("reg"), Str("qcom,gpu-freq"), Str("qcom,level"),
           Str("qcom,initial-pwrlevel"), Str("qcom,speed-bin"), Str("qcom,initial-min-pwrlevel")>>

OpenNode(kind, id) == <<Begin(Node(kind, id))>>
Level(i, frequency) == OpenNode("level", i) \o <<Prop(2, <<i>>), Prop(3, <<frequency>>), Prop(4, <<1>>), End>>
Levels(frequencies) == FlattenSeq([i \in DOMAIN frequencies |-> Level(i - 1, frequencies[i])])
Group(id, initial, frequencies) ==
  OpenNode("group", id) \o <<Prop(5, <<initial>>), Prop(6, <<id, 7>>)>> \o Levels(frequencies) \o <<End>>

Assembled(body, names) ==
  <<[t |-> "Fdt", total_size |-> 1 + Len(body) + Len(names), structure_size |-> Len(body),
     strings_start |-> 1 + Len(body), strings_size |-> Len(names)]>> \o body \o names
Root(chip, inner) ==
  Assembled(OpenNode("/", 0) \o <<Text(1, <<chip>>)>> \o inner \o <<End, TreeEnd>>, PropertyNames)

\* A tree without a table, with a string that is not among the others'.
Plain == Assembled(OpenNode("/", 0) \o <<Prop(1, <<9>>), End, TreeEnd>>, <<Str("model")>>)

\* The groups lie between other nodes, a NOP between them; the second starts
\* at its last row.
Table == OpenNode("other", 1) \o <<Prop(4, <<3>>), End>> \o Group(0, 0, <<3, 2>>) \o <<Nop>>
         \o Group(1, 1, <<2, 1>>) \o OpenNode("other", 2) \o <<End>>

ImageOf(trees, tail, spare) ==
  LET section == FlattenSeq(trees)
      sections == section \o Zeros(Up(Len(section)) - Len(section)) \o <<Str("ramdisk"), Zero>>
                  \o <<Str("console"), Str("bootconfig")>>
      payload == sections \o tail
  IN [dtb_size |-> Len(section), table_size |-> 1, config_size |-> 2,
      cells |-> payload \o <<Vbmeta>> \o Zeros(spare)
                \o <<Footer(Len(payload), Len(payload) + 1)>>]

MCImages ==
  { \* room to grow behind the metadata, a tree before and one after the table's
    ImageOf(<<Plain, Root("qcom,sun", Table), Plain>>, <<>>, 14),
    \* two tables, room inside the payload
    ImageOf(<<Root("qcom,tuna", Group(0, 1, <<2, 1>>)), Root("qcom,diwali", Group(0, 0, <<1, 1>>))>>,
          Zeros(8), 2),
    \* vendor data behind the sections
    ImageOf(<<Root("qcom,sun", Group(0, 1, <<3, 2, 1>>))>>, <<Zero, Zero, Str("data"), Zero>>, 8),
    \* no room at all, and a tree whose chip is unknown
    ImageOf(<<Root("qcom,other", Group(0, 0, <<1>>)), Root("qcom,sun", Group(1, 0, <<2, 1>>))>>, <<>>, 0),
    \* a group away from its siblings: the inspection fails
    ImageOf(<<Root("qcom,sun", Group(0, 0, <<1>>) \o OpenNode("other", 1) \o <<End>> \o Group(1, 0, <<1>>))>>,
          <<>>, 4) }

LevelRow(i, frequency, more) == [id |-> i, properties |->
  <<[name |-> "reg", cells |-> <<i>>]>> \o frequency
  \o <<[name |-> "qcom,level", cells |-> <<1>>]>> \o more]
Frequency(f) == <<[name |-> "qcom,gpu-freq", cells |-> <<f>>]>>
Bin == <<[name |-> "qcom,speed-bin", cells |-> <<4>>]>>

MCExports ==
  { \* fewer groups and other rows, with a property the device's strings lack
    [chip |-> "sun", table |-> <<[id |-> 1, header |-> Bin, levels |->
       <<LevelRow(0, Frequency(3), <<[name |-> "qcom,bus-max", cells |-> <<5>>]>>),
         LevelRow(1, Frequency(2), <<>>)>>]>>],
    \* a row without a frequency: read, but not valid
    [chip |-> "sun", table |-> <<[id |-> 0, header |-> Bin, levels |-> <<LevelRow(0, <<>>, <<>>)>>]>>],
    \* for another chip
    [chip |-> "canoe", table |-> <<[id |-> 0, header |-> Bin, levels |-> <<LevelRow(0, Frequency(1), <<>>)>>]>>],
    \* no selector: not read
    [chip |-> "sun", table |-> <<[id |-> 0, header |-> <<>>, levels |-> <<LevelRow(0, Frequency(1), <<>>)>>]>>] }
=============================================================================
