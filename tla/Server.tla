------------------------------- MODULE Server -------------------------------
(***************************************************************************)
(* One server process: concurrent previews, concurrent materialize_hot_set *)
(* calls and the Tier A background loop over the same snapshots and        *)
(* registry, with the world around them: the sources publish, time passes, *)
(* the operator's canary command writes health rows from its own process,  *)
(* and the process is stopped or killed and started again.                 *)
(***************************************************************************)
EXTENDS PreviewTool, Materializer

ASSUME ServerAssumption ==
  /\ Coroutines = Requests \cup Runners
  /\ Requests \cap Runners = {}

\* Ticks since each source last received a fetch of a run of this process: an
\* observer at the source, which no action of the program reads.
VARIABLE sourceQuiet

vars == <<sharedVars, request, runVars, sourceQuiet>>

Init ==
  /\ SharedInit
  /\ PreviewInit
  /\ MaterializerInit
  /\ sourceQuiet = [l \in Locators |-> AgeCap]

Preview(r) ==
  /\ PreviewNext(r)
  /\ UNCHANGED <<runVars, sourceQuiet>>

SendsFetch(x, l) ==
  run[x].pc = "select" /\ run'[x].pc = "fetching" /\ VisitedLocator(x) = l

Materialize(x) ==
  /\ RunNext(x)
  /\ sourceQuiet' = [l \in Locators |->
                       IF SendsFetch(x, l) THEN 0 ELSE sourceQuiet[l]]
  /\ UNCHANGED request

\* A source replaces what it publishes.
Publish(l) ==
  /\ upstream[l] < MaxVersion
  /\ upstream' = [upstream EXCEPT ![l] = @ + 1]
  /\ UNCHANGED <<artifact, health, onLoop, disruptions, request, runVars, sourceQuiet>>

Tick ==
  /\ artifact' = [l \in Locators |-> [artifact[l] EXCEPT !.age = Older(@)]]
  /\ attemptAge' = [l \in Locators |-> Older(attemptAge[l])]
  /\ sourceQuiet' = [l \in Locators |-> Older(sourceQuiet[l])]
  /\ UNCHANGED <<health, upstream, onLoop, disruptions, request, lock, waiters, run>>

\* The upstream-canary command, in a process of its own: one check's outcome.
CanaryVerdict(d) ==
  /\ d \in CanaryDatasets
  /\ \E verdict \in {"healthy", "degraded"} : UpsertHealth(d, verdict, "canary")
  /\ UNCHANGED <<artifact, upstream, onLoop, disruptions, request, runVars, sourceQuiet>>

\* The process ends, between any two steps, and starts again: coroutines, the
\* lock and the remembered attempts are gone, files and rows are not.  Startup
\* seeds the registry, which keeps the stored health.
Restart ==
  /\ disruptions < MaxDisruptions
  /\ disruptions' = disruptions + 1
  /\ onLoop' = NoCoroutine
  /\ request' = [r \in Requests |-> IdleRequest(Target(r))]
  /\ lock' = NoCoroutine
  /\ waiters' = <<>>
  /\ run' = [x \in Runners |-> IdleRun]
  /\ attemptAge' = [l \in Locators |-> AgeCap]
  /\ sourceQuiet' = [l \in Locators |-> AgeCap]
  /\ UNCHANGED <<artifact, health, upstream>>

Next ==
  \/ \E r \in Requests : Preview(r)
  \/ \E x \in Runners : Materialize(x)
  \/ \E l \in Locators : Publish(l)
  \/ Tick
  \/ \E d \in Datasets : CanaryVerdict(d)
  \/ Restart

Spec == Init /\ [][Next]_vars
=============================================================================
