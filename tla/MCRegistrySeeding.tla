-------------------------- MODULE MCRegistrySeeding --------------------------
(***************************************************************************)
(* Values for RegistrySeeding: two datasets, builds that carry the columns *)
(* in their second version.                                                *)
(***************************************************************************)
EXTENDS RegistrySeeding

MCCatalog == <<"pos", "fx">>
OneDataset == <<"pos">>
MCFields == {"v1", "v2"}
NewBuild == [p \in Processes |-> "v2"]
Upgrade == [p \in Processes |-> IF p = "server" THEN "v2" ELSE "v1"]
=============================================================================
