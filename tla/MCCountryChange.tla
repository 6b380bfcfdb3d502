---------------------------- MODULE MCCountryChange ----------------------------
(* Small instance of CountryChange: the firmware folders it goes through.  *)
EXTENDS CountryChange

MCImages == {"super_1", "boot", "userdata", "persist", "devinfo"}
MCFolders == {"Lenovo", "Ported", "Lacking", "DpOnly", "Odd", "Bare"}

Prog(label) == [tag |-> "program", label |-> label, coords |-> TRUE]
Erase(label) == [tag |-> "erase", label |-> label, coords |-> TRUE]
Unplaced(label) == [tag |-> "program", label |-> label, coords |-> FALSE]

NoNodes == [x \in XmlNames |-> <<>>]

\* As shipped: sealed, with every variant.
Lenovo == [sealed |-> {"Rawprogram0", "SavePersist", "WritePersist", "Rawprogram4",
                       "WriteDevinfo", "WipePartitions"},
  xmls |-> {}, images |-> {"super_1", "boot", "userdata", "persist", "devinfo"},
  packed |-> {}, loader |-> TRUE,
  nodes |-> [NoNodes EXCEPT
    !["Rawprogram0"]    = <<Prog("super_1")>>,
    !["SavePersist"]    = <<Prog("super_1"), Prog("userdata")>>,
    !["WritePersist"]   = <<Prog("super_1"), Prog("userdata"), Prog("persist")>>,
    !["Rawprogram4"]    = <<Prog("boot")>>,
    !["WriteDevinfo"]   = <<Prog("boot"), Prog("devinfo")>>,
    !["WipePartitions"] = <<Erase("userdata")>>]]

\* A ported ROM: rawprogram0.xml only, the OS image compressed, an erase node.
Ported == [sealed |-> {}, xmls |-> {"Rawprogram0", "Other"}, images |-> {"boot"},
  packed |-> {"super_1"}, loader |-> TRUE,
  nodes |-> [NoNodes EXCEPT
    !["Rawprogram0"] = <<Prog("super_1"), Erase("userdata")>>,
    !["Other"]       = <<Prog("boot")>>]]

\* A piece of super is missing.
Lacking == [Lenovo EXCEPT !.images = {"boot", "userdata"}]

\* Only the variants that write persist.
DpOnly == [Lenovo EXCEPT !.sealed = {"WritePersist"}]

\* An image is missing, and a node that only keep passes over has no coordinates.
Odd == [sealed |-> {}, xmls |-> {"Unsparse0"}, images |-> {}, packed |-> {}, loader |-> TRUE,
  nodes |-> [NoNodes EXCEPT !["Unsparse0"] = <<Prog("boot"), Unplaced("userdata")>>]]

MCShipped == [f \in MCFolders |->
  CASE f = "Lenovo" -> Lenovo [] f = "Ported" -> Ported
    [] f = "Lacking" -> Lacking [] f = "DpOnly" -> DpOnly [] f = "Odd" -> Odd
    [] f = "Bare" -> [Lenovo EXCEPT !.loader = FALSE]]

\* "TW" stands for the countries of the picker that no scan looks for.
MCKnownCodes == <<"CN", "US">>
MCFieldsOf == [p \in Parts |->
  CASE p = "persist" -> {<<>>, <<"CN">>} [] p = "devinfo" -> {<<"CN", "CN">>, <<"US", "CN">>}
    [] OTHER -> {<<"CN">>, <<>>}]

\* These folders meet what the theorem about a whole flash asks of them.
ASSUME MCSelectionIsWhole == SelectionIsWhole
=============================================================================
