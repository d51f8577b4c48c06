---------------------------- MODULE ServingState ----------------------------
(***************************************************************************)
(* The state that the tools of one server process share: the snapshot      *)
(* files, the health rows of the registry, the sources behind the          *)
(* connectors, and the asyncio event loop on which every coroutine runs.   *)
(*                                                                         *)
(* A payload is the version of the source's publication it carries.  Time  *)
(* is kept as ages in ticks that saturate at AgeCap: past the longest      *)
(* freshness window and the longest cooldown every age behaves alike.      *)
(***************************************************************************)
EXTENDS Integers, Sequences, FiniteSets

CONSTANTS Datasets,        \* canonical dataset ids
          Locators,        \* (source, source_locator) pairs, one artifact each
          LocatorOf,       \* [Datasets -> Locators]
          Window,          \* [Datasets -> Nat], freshness window in ticks
          Unwindowed,      \* datasets declared ad_hoc or unspecified
          Registered,      \* datasets the registry has a descriptor for
          CanaryDatasets,  \* datasets the operator's canary command checks
          Unparseable,     \* [Versions -> SUBSET Datasets], normalization fails
          MaxVersion,      \* bound on what a source publishes
          AgeCap,          \* bound on an age
          Coroutines,      \* every task that can own the event loop
          NoCoroutine,
          MaxDisruptions   \* bound on crashes, cancellations and cycle errors

Versions == 0..MaxVersion
Ages == 0..AgeCap

ASSUME ServingAssumption ==
  /\ LocatorOf \in [Datasets -> Locators]
  /\ MaxVersion \in Nat
  /\ AgeCap \in Nat \ {0}
  /\ Window \in [Datasets -> 0..(AgeCap - 1)]
  /\ Unparseable \in [Versions -> SUBSET Datasets]
  /\ Unwindowed \subseteq Datasets
  /\ Registered \subseteq Datasets
  /\ CanaryDatasets \subseteq Datasets
  /\ NoCoroutine \notin Coroutines
  /\ MaxDisruptions \in Nat

VARIABLES artifact,     \* [Locators -> Artifact], survives a restart
          health,       \* [Datasets -> HealthRow], survives a restart
          upstream,     \* the version each source serves now
          onLoop,       \* the coroutine between two of its awaits, if any
          disruptions   \* disruptions so far

sharedVars == <<artifact, health, upstream, onLoop, disruptions>>

HealthStatus == {"unknown", "healthy", "degraded"}
HealthWriter == {"seed", "preview", "materialize", "canary"}
HealthRow == [status : HealthStatus, by : HealthWriter]
SeededHealth == [status |-> "unknown", by |-> "seed"]

Artifact == [present : BOOLEAN, usable : BOOLEAN, age : Ages, payload : Versions]
NoArtifact == [present |-> FALSE, usable |-> FALSE, age |-> AgeCap, payload |-> 0]

\* What an awaited fetch returned: nothing yet, an error, or a payload.
Reply == [kind : {"none", "error", "payload"}, payload : Versions]
NoReply == [kind |-> "none", payload |-> 0]
FetchError == [kind |-> "error", payload |-> 0]
Fetched(v) == [kind |-> "payload", payload |-> v]

Freshness == {"missing", "fresh", "stale", "unknown"}

FreshnessOf(d) ==
  LET a == artifact[LocatorOf[d]]
  IN  CASE ~a.present            -> "missing"
        [] a.present /\ d \in Unwindowed -> "unknown"
        [] a.present /\ d \notin Unwindowed /\ a.age <= Window[d] -> "fresh"
        [] OTHER                 -> "stale"

\* The artifact can be read back as a payload (a missing one cannot).
Readable(d) == artifact[LocatorOf[d]].usable
OnDisk(d) == artifact[LocatorOf[d]].payload
Normalizes(v, d) == d \notin Unparseable[v]

\* Faulty variants: an existing artifact is kept; the file is written in place,
\* where a failure can leave half of it.
StoreIfMissing(l, v) ==
  IF artifact[l].present THEN UNCHANGED artifact
  ELSE artifact' = [artifact EXCEPT ![l] =
         [present |-> TRUE, usable |-> TRUE, age |-> 0, payload |-> v]]
StoreInPlace(l, v) ==
  \E whole \in BOOLEAN :
    artifact' = [artifact EXCEPT ![l] =
      [present |-> TRUE, usable |-> whole, age |-> 0, payload |-> v]]

\* write_snapshot: the final file becomes a complete new payload, age zero.
StoreSnapshot(l, v) ==
  artifact' = [artifact EXCEPT ![l] =
                 [present |-> TRUE, usable |-> TRUE, age |-> 0, payload |-> v]]

\* Faulty variant: insert or ignore, only a seeded row is replaced.
InsertHealth(d, s, writer) ==
  health' = [health EXCEPT ![d] = IF @.by = "seed"
                                  THEN [status |-> s, by |-> writer] ELSE @]

\* upsert_health: one transaction over the health row and the descriptor.
UpsertHealth(d, s, writer) ==
  health' = [health EXCEPT ![d] = [status |-> s, by |-> writer]]

\* What the source answers to a fetch of l at this moment.
Replies(l) == {FetchError, Fetched(upstream[l])}

\* Faulty variant: an age that outgrows its bound.
OlderForever(age) == age + 1
Older(age) == IF age < AgeCap THEN age + 1 ELSE age

\* A deployment starts on an empty volume or on one restored with artifacts,
\* some of which may not parse.
SharedInit ==
  /\ artifact \in [Locators -> {NoArtifact} \cup
        [present : {TRUE}, usable : BOOLEAN, age : {AgeCap}, payload : {0}]]
  /\ health = [d \in Datasets |-> SeededHealth]
  /\ upstream = [l \in Locators |-> 0]
  /\ onLoop = NoCoroutine
  /\ disruptions = 0

SharedTypeOK ==
  /\ artifact \in [Locators -> Artifact]
  /\ health \in [Datasets -> HealthRow]
  /\ upstream \in [Locators -> Versions]
  /\ onLoop \in Coroutines \cup {NoCoroutine}
  /\ disruptions \in 0..MaxDisruptions
=============================================================================
