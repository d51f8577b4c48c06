--------------------------- MODULE RegistrySeeding ---------------------------
(***************************************************************************)
(* Registry start-up below the level of Server.  Each process of the       *)
(* deployment (the server, the canary, any other command) seeds the        *)
(* registry it shares with the others, dataset by dataset, before it       *)
(* records health.  seed_dataset reads the descriptor and the health row   *)
(* outside of a transaction; only its writes form one, and SQLite makes    *)
(* transactions atomic and one at a time.  So each read, and each          *)
(* transaction, is a step.                                                 *)
(***************************************************************************)
EXTENDS Integers, Sequences

CONSTANTS Processes,
          Catalog,          \* INITIAL_DATASET_DESCRIPTORS, as dataset ids
          Fields,           \* versions of the descriptive columns
          Seed,             \* [Processes -> Fields], what each build carries
          MaxDisruptions    \* bound on stops and kills

Datasets == {Catalog[i] : i \in 1..Len(Catalog)}

ASSUME SeedingAssumption ==
  /\ Catalog \in Seq(Datasets)
  /\ \A i, j \in 1..Len(Catalog) : Catalog[i] = Catalog[j] => i = j
  /\ Seed \in [Processes -> Fields]
  /\ MaxDisruptions \in Nat

VARIABLES descriptors,      \* [Datasets -> DescriptorRow or NoRow]
          healthRows,       \* [Datasets -> HealthStatus or "none"]
          process,          \* [Processes -> ProcessState]
          disruptions,
          overlapped        \* observer: some start-up was not alone

vars == <<descriptors, healthRows, process, disruptions, overlapped>>

HealthStatus == {"unknown", "healthy", "degraded"}
DescriptorRow == [fields : Fields, status : HealthStatus]
NoRow == [fields |-> "none", status |-> "none"]

\* at: the catalog entry being seeded; seen: its descriptor as read; preserved:
\* the health status to keep.
ProcessState ==
  [pc        : {"down", "lookup", "health", "reconcile", "insert", "up", "failed"},
   at        : 1..(Len(Catalog) + 1),
   seen      : DescriptorRow \cup {NoRow},
   preserved : HealthStatus \cup {"none"}]

Down == [pc |-> "down", at |-> 1, seen |-> NoRow, preserved |-> "none"]

Seeding(p) == Catalog[process[p].at]
Starting(p) == process[p].pc \in {"lookup", "health", "reconcile", "insert"}

\* Some process starts while another one starts or is up.
StartsOverlap ==
  \E p, q \in Processes :
    p # q /\ Starting(p) /\ process[q].pc \notin {"down", "failed"}

Found(p) == descriptors[Seeding(p)] # NoRow

\* Go on to the next descriptor.
SeededNext(p) == [Down EXCEPT !.pc = "lookup", !.at = process[p].at + 1]

\* Faulty variant: the health row is replaced by the one read before.
ReplaceHealth(d, status) == [healthRows EXCEPT ![d] = status]
\* INSERT OR IGNORE INTO dataset_health
InsertHealth(d, status) ==
  [healthRows EXCEPT ![d] = IF @ = "none" THEN status ELSE @]

\* Faulty variants: a changed column goes unnoticed; an update resets the
\* status to the seed's.
NothingChanged(p) == FALSE
SeedStatus(p) == "unknown"

\* _seed_changed_fields
Changed(p) == process[p].seen.fields # Seed[p]
HealthToKeep(p) == process[p].preserved
StatusToKeep(p) == process[p].preserved
-----------------------------------------------------------------------------
\* A new volume, or the registry of an older build, where a health row may be
\* missing.
Init ==
  /\ descriptors \in [Datasets -> [fields : Fields, status : {"unknown", "degraded"}]
                                    \cup {NoRow}]
  /\ healthRows \in [Datasets -> {"none", "unknown", "degraded"}]
  /\ \A d \in Datasets : healthRows[d] # "none" => healthRows[d] = descriptors[d].status
  /\ process = [p \in Processes |-> Down]
  /\ disruptions = 0
  /\ overlapped = FALSE

Boot(p) ==
  /\ process[p].pc = "down"
  /\ process' = [process EXCEPT ![p] = [@ EXCEPT !.pc = "lookup"]]
  /\ UNCHANGED <<descriptors, healthRows, disruptions>>

SelectDescriptor(p) ==
  /\ process[p].pc = "lookup"
  /\ process[p].at <= Len(Catalog)
  /\ process' = [process EXCEPT ![p] =
       [@ EXCEPT !.pc = IF Found(p) THEN "health" ELSE "insert",
                 !.seen = descriptors[Seeding(p)]]]
  /\ UNCHANGED <<descriptors, healthRows, disruptions>>

SelectHealth(p) ==
  /\ process[p].pc = "health"
  /\ process' = [process EXCEPT ![p] =
       [@ EXCEPT !.pc = "reconcile",
                 !.preserved = IF healthRows[Seeding(p)] = "none"
                               THEN process[p].seen.status
                               ELSE healthRows[Seeding(p)]]]
  /\ UNCHANGED <<descriptors, healthRows, disruptions>>

\* The transaction for a descriptor that was found: a missing health row is
\* put back, and changed columns are updated together with the status read.
Reconcile(p) ==
  /\ process[p].pc = "reconcile"
  /\ healthRows' = InsertHealth(Seeding(p), HealthToKeep(p))
  /\ descriptors' =
       IF Changed(p)
       THEN [descriptors EXCEPT ![Seeding(p)] =
               [fields |-> Seed[p], status |-> StatusToKeep(p)]]
       ELSE descriptors
  /\ process' = [process EXCEPT ![p] = SeededNext(p)]
  /\ UNCHANGED disruptions

\* The transaction for a descriptor that was not found.  Its plain INSERT
\* raises IntegrityError when the row has come into being in the meantime,
\* which ends the start-up.
InsertDescriptor(p) ==
  /\ process[p].pc = "insert"
  /\ IF Found(p)
     THEN /\ process' = [process EXCEPT ![p] = [Down EXCEPT !.pc = "failed"]]
          /\ UNCHANGED <<descriptors, healthRows>>
     ELSE /\ descriptors' = [descriptors EXCEPT ![Seeding(p)] =
                               [fields |-> Seed[p], status |-> "unknown"]]
          /\ healthRows' = InsertHealth(Seeding(p), "unknown")
          /\ process' = [process EXCEPT ![p] = SeededNext(p)]
  /\ UNCHANGED disruptions

FinishBoot(p) ==
  /\ process[p].pc = "lookup"
  /\ process[p].at > Len(Catalog)
  /\ process' = [process EXCEPT ![p] = [Down EXCEPT !.pc = "up"]]
  /\ UNCHANGED <<descriptors, healthRows, disruptions>>

\* upsert_health, by a tool of the server or by the canary.
UpsertHealth(p, d) ==
  /\ process[p].pc = "up"
  /\ \E status \in {"healthy", "degraded"} :
       /\ healthRows' = [healthRows EXCEPT ![d] = status]
       /\ descriptors' = [descriptors EXCEPT ![d] =
                            IF @ = NoRow THEN NoRow ELSE [@ EXCEPT !.status = status]]
  /\ UNCHANGED <<process, disruptions>>

\* The process ends; an open transaction is rolled back.
Stop(p) ==
  /\ process[p].pc # "down"
  /\ disruptions < MaxDisruptions
  /\ disruptions' = disruptions + 1
  /\ process' = [process EXCEPT ![p] = Down]
  /\ UNCHANGED <<descriptors, healthRows>>

Step(p) ==
  \/ Boot(p)
  \/ SelectDescriptor(p)
  \/ SelectHealth(p)
  \/ Reconcile(p)
  \/ InsertDescriptor(p)
  \/ FinishBoot(p)
  \/ \E d \in Datasets : UpsertHealth(p, d)
  \/ Stop(p)

Next ==
  /\ \E p \in Processes : Step(p)
  /\ overlapped' = (overlapped \/ StartsOverlap')

Spec == Init /\ [][Next]_vars
-----------------------------------------------------------------------------
\* Once a process has started, every dataset of the catalog has a descriptor
\* with the columns of one of the builds in use, whatever the volume held
\* before, and a health row ("startup inserts any missing seeded dataset
\* descriptors", "recreates a missing dataset_health row").
StartedMeansReconciled ==
  \A p \in Processes : process[p].pc = "up" =>
    \A d \in Datasets :
      /\ descriptors[d] # NoRow
      /\ \E q \in Processes : descriptors[d].fields = Seed[q]
      /\ healthRows[d] # "none"

\* Seeding never changes a health row: only a process that has started does.
HealthRowsKept ==
  [][\A d \in Datasets :
       (healthRows[d] # "none" /\ healthRows'[d] # healthRows[d])
         => UNCHANGED process]_vars

\* The two copies of a dataset's status agree whenever nothing is starting, if
\* no start-up has overlapped with another process; stops in the middle of a
\* start-up do not part them.
StatusesAgree ==
  (~overlapped /\ \A p \in Processes : ~Starting(p)) =>
    \A d \in Datasets :
      healthRows[d] # "none" => healthRows[d] = descriptors[d].status

KeepsStatus(d) ==
  (descriptors[d] # NoRow /\ descriptors'[d].status # descriptors[d].status)
    => UNCHANGED process

\* Start-ups that do not overlap with another process leave a stored status as
\* it is, whatever mixture of rows an older build has left.
LoneSeedingPreservesStatus ==
  [][~overlapped' => \A d \in Datasets : KeepsStatus(d)]_vars

\* seed_dataset reconciles a descriptor "while preserving health state": it
\* leaves a stored status as it is.
SeedingPreservesStatus == [][\A d \in Datasets : KeepsStatus(d)]_vars

\* "startup inserts any missing seeded dataset descriptors": it does not fail.
NoStartFails == \A p \in Processes : process[p].pc # "failed"
=============================================================================
