----------------------------- MODULE LocalData -----------------------------
(***************************************************************************)
(* What the local data of a deployment promises to its readers (query,     *)
(* download, health, preview), whatever tools write it and however they    *)
(* interleave, fail or restart:                                            *)
(*   - an artifact is only ever replaced as a whole, by something its      *)
(*     source has published, and is never removed or made unreadable;      *)
(*   - only the server's own success on a readable artifact, or the        *)
(*     canary, makes a dataset healthy;                                    *)
(*   - apart from that artifacts just age.                                 *)
(***************************************************************************)
EXTENDS Integers

CONSTANTS Datasets, Locators, LocatorOf, MaxVersion, AgeCap

VARIABLES artifact, health, upstream
dataVars == <<artifact, health, upstream>>

NoArtifact == [present |-> FALSE, usable |-> FALSE, age |-> AgeCap, payload |-> 0]

LocalInit ==
  /\ \A l \in Locators :
       \/ artifact[l] = NoArtifact
       \/ artifact[l].present /\ artifact[l].payload = 0
  /\ \A d \in Datasets : health[d].status = "unknown"
  /\ upstream = [l \in Locators |-> 0]

\* A complete payload replaces the artifact.
Replace(l) ==
  /\ \E v \in 0..upstream[l] :
       artifact' = [artifact EXCEPT ![l] =
         [present |-> TRUE, usable |-> TRUE, age |-> 0, payload |-> v]]
  /\ UNCHANGED <<health, upstream>>

\* Only the ages move.
Age ==
  /\ artifact' = [l \in Locators |-> [artifact[l] EXCEPT !.age = artifact'[l].age]]
  /\ UNCHANGED <<health, upstream>>

\* One dataset's health row is replaced.
Judge(d) ==
  /\ \E status \in {"healthy", "degraded"},
        by \in {"preview", "materialize", "canary"} :
       /\ (status = "healthy" /\ by # "canary") => artifact[LocatorOf[d]].usable
       /\ health' = [health EXCEPT ![d] = [status |-> status, by |-> by]]
  /\ UNCHANGED <<artifact, upstream>>

Publish(l) ==
  /\ upstream' = [upstream EXCEPT ![l] = @ + 1]
  /\ UNCHANGED <<artifact, health>>

LocalNext ==
  \/ \E l \in Locators : Replace(l) \/ Publish(l)
  \/ Age
  \/ \E d \in Datasets : Judge(d)

LocalSpec == LocalInit /\ [][LocalNext]_dataVars
=============================================================================
