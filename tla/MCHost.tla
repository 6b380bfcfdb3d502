-------------------------------- MODULE MCHost --------------------------------
(***************************************************************************)
(* One run over what LTBox does beside its wizards: it installs a driver,  *)
(* fetches what a root run needs, takes that run through the device        *)
(* (RootUnroot), or keeps its own files.  The four share nothing but the   *)
(* program, and no property is about two of them.                          *)
(***************************************************************************)
EXTENDS MCDrivers, RootPayload, RootUnroot, AppFiles

\* Two releases and the workflow runs that built them: the older release lists a module
\* for each kernel, one of them for x86, and its run an x86 ksuinit first; the newer has
\* its modules in the run.
Named(role, kver, branch, arch, digest) ==
  [role |-> role, kver |-> kver, branch |-> branch, arch |-> arch, digest |-> digest]
Apk == Named("Manager", "None", NoBranch, "Unmarked", FALSE)
Kos(kver, branch) == Named("Ko", kver, branch, "Unmarked", FALSE)
MCAssets ==
  << <<Kos("5.10", "android13"), Kos("5.10", "android12"),
       Named("Ko", "6.1", "android14", "X86", FALSE), Kos("6.1", "android14"), Apk>>, <<Apk>> >>
MCArtifacts ==
  << <<Named("Init", "None", NoBranch, "X86", TRUE), Named("Init", "None", NoBranch, "Unmarked", TRUE),
       Named("Ko", "5.10", "android12", "Unmarked", FALSE), Apk>>,
     <<Named("Ko", "6.1", "android14", "X86", TRUE), Named("Ko", "6.1", "android14", "Aarch64", TRUE),
       Named("Init", "None", NoBranch, "X86", FALSE), Named("Init", "None", NoBranch, "Aarch64", FALSE),
       Named("Ko", "5.10", "android12", "X86", TRUE), Apk>> >>
MCKernels == {[kver |-> "5.10", branch |-> "android12"], [kver |-> "6.1", branch |-> "android14"]}
MCOldFiles == <<"a", "b", "c">>

VARIABLE side \* "Drivers", "Payload", "Device", "Files"

hostVars == <<side, driverVars, payloadVars, vars, fileVars>>

InDrivers(A) == side = "Drivers" /\ A /\ UNCHANGED <<side, payloadVars, vars, fileVars>>
InPayload(A) == side = "Payload" /\ A /\ UNCHANGED <<side, driverVars, vars, fileVars>>
OnDevice(A)  == side = "Device" /\ A /\ UNCHANGED <<side, driverVars, payloadVars, fileVars>>
InFiles(A)   == side = "Files" /\ A /\ UNCHANGED <<side, driverVars, payloadVars, vars>>

\* A side at rest has one state.
HostInit ==
  /\ side \in {"Drivers", "Payload", "Device", "Files"}
  /\ DriversInit /\ PayloadInit /\ Init /\ FilesInit
  /\ side # "Drivers" => /\ host = "Linux" /\ disk = Has("None", "None", <<>>)
                         /\ qcom_driver_update_dismissed
  /\ side # "Payload" => tablet.kernel.kver = "6.1"
  /\ side # "Device"  => model = "Generic" /\ committed = 1
  /\ side # "Files"   => had = {} /\ stored = NoFile

HostNext == InDrivers(DriversNext) \/ InPayload(PayloadNext) \/ OnDevice(Next) \/ InFiles(FilesNext)
HostSpec == HostInit /\ [][HostNext]_hostVars
=============================================================================
