------------------------------ MODULE MCTables ------------------------------
(***************************************************************************)
(* One run over the two tables that are read from a device and written     *)
(* back to it: the levels of the GPU view with the image they are built    *)
(* into, or the partitions and disks of the Advanced view.                 *)
(***************************************************************************)
EXTENDS MCGpuTable, Transfers

VARIABLE table \* "Levels" or "Partitions"

tablesVars == <<table, tableVars, transferVars>>

\* The table at rest has one state, without an image.
LevelsRest ==
  /\ gpu_route = "Avb" /\ partition = <<>>
  /\ candidates = {} /\ table_target = <<>> /\ stock_table = <<>> /\ edited_table = <<>>
  /\ cell_edits = <<>> /\ edits = 0 /\ gpu_flashes = 0

TablesInit ==
  \/ table = "Levels" /\ TableInit /\ TransferInit /\ phone.at = "Adb"
  \/ table = "Partitions" /\ LevelsRest /\ TransferInit

TablesNext ==
  \/ table = "Levels" /\ TableNext /\ UNCHANGED <<table, transferVars>>
  \/ table = "Partitions" /\ TransferNext /\ UNCHANGED <<table, tableVars>>

TablesSpec == TablesInit /\ [][TablesNext]_tablesVars
=============================================================================
