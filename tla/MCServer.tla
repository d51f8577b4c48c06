------------------------------ MODULE MCServer ------------------------------
(***************************************************************************)
(* Values for the constants of Server that a cfg cannot write down.        *)
(* pos and city share a locator, repo is declared ad_hoc.                  *)
(***************************************************************************)
EXTENDS ServerProperties

MCLocatorOf == [d \in Datasets |-> IF d = "repo" THEN "repoPage" ELSE "posPage"]
OneLocator == [d \in Datasets |-> "posPage"]
MCWindow == [d \in Datasets |-> 1]
MCUnwindowed == Datasets \cap {"repo"}
MCCoroutines == Requests \cup {Loop} \cup Tools

\* From version 1 on the publication no longer normalizes as city.
MCUnparseable == [v \in 0..MaxVersion |-> IF v = 0 THEN {} ELSE Datasets \cap {"city"}]

PosOnly == <<"pos">>
PosRepo == <<"pos", "repo">>
City == <<"city">>
CityGhost == <<"city", "ghost">>
NoDatasets == <<>>
=============================================================================
