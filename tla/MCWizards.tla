------------------------------ MODULE MCWizards ------------------------------
(***************************************************************************)
(* One run over the wizards: the application has one of them open at a     *)
(* time, so a behaviour stays within one group.                            *)
(***************************************************************************)
EXTENDS StorageWizards, AdvancedTools, SetupWizards

VARIABLE group \* "Storage", "Tools" or "Setup"

wizardsVars == <<group, storageVars, toolVars, setupVars>>

WizardsInit ==
  /\ group \in {"Storage", "Tools", "Setup"}
  /\ StorageInit /\ ToolsInit /\ SetupInit
  \* A group at rest has one state.
  /\ group # "Storage" => booted = "Adb"
  /\ group # "Tools" => tablet.at = "Fastboot" /\ tablet.stored /\ tablet.model = "TB322FC"
                        /\ \A p \in Sources : disk[p] = Empty
  /\ group # "Setup" => setup = "Root" /\ ~default_fits /\ device_model = "Plain"

WizardsNext ==
  \/ group = "Storage" /\ StorageNext /\ UNCHANGED <<group, toolVars, setupVars>>
  \/ group = "Tools" /\ ToolsNext /\ UNCHANGED <<group, storageVars, setupVars>>
  \/ group = "Setup" /\ SetupNext /\ UNCHANGED <<group, storageVars, toolVars>>

WizardsSpec == WizardsInit /\ [][WizardsNext]_wizardsVars
=============================================================================
