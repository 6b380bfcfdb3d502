------------------------------ MODULE MCDrivers ------------------------------
(***************************************************************************)
(* Releases and installations for Drivers: per system one release of each  *)
(* package, and a later prerelease; hosts with nothing installed, with an  *)
(* older package, and with rules of two origins.                           *)
(***************************************************************************)
EXTENDS Drivers

Listed(package, system, version, stable, published) ==
  [package |-> package, system |-> system, version |-> version, stable |-> stable,
   asset |-> TRUE, published |-> published]
MCReleases ==
  {Listed(p, s, <<1, 0, 2>>, TRUE, 2) : p \in DriverModesOf, s \in {"win", "lnx"}}
    \cup {Listed("Kernel", s, <<2>>, FALSE, 3) : s \in {"win", "lnx"}}

Has(admin, package, installed) ==
  [admin |-> admin, package |-> package,
   installed |-> [m \in DriverModesOf |-> IF m \in DOMAIN installed THEN installed[m] ELSE NotThere]]
Old(inf) == [Kernel |-> [inf |-> inf, version |-> <<1>>]]
MCDisks ==
  {Has("None", "None", <<>>), Has("None", "None", Old(TRUE)), Has("Stale", "Good", Old(FALSE)),
   Has("None", "Good", <<>>)}
=============================================================================
