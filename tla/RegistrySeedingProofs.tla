------------------------- MODULE RegistrySeedingProofs -------------------------
(***************************************************************************)
(* Start-up for every deployment: any number of processes and builds, any  *)
(* catalog, any mixture of rows on the volume.  SeedingInv says what a     *)
(* process in the middle of its loop may rely on while the others go on:   *)
(* rows are never taken away, so what it has passed stays reconciled.      *)
(* LoneInv says more of start-ups that are alone: what they have read is   *)
(* still so when they write.                                               *)
(***************************************************************************)
EXTENDS RegistrySeeding, TLAPS

SeedingTypeOK ==
  /\ descriptors \in [Datasets -> DescriptorRow \cup {NoRow}]
  /\ healthRows \in [Datasets -> HealthStatus \cup {"none"}]
  /\ process \in [Processes -> ProcessState]
  /\ overlapped \in BOOLEAN

OfABuild(fields) == \E q \in Processes : fields = Seed[q]

Reconciled(d) ==
  /\ descriptors[d] # NoRow
  /\ OfABuild(descriptors[d].fields)
  /\ healthRows[d] # "none"

\* A process that writes next works on an entry of the catalog.  The
\* descriptor it found is still there, with the columns it read or those of a
\* build that has overtaken it.
ReadStands(p) ==
  /\ process[p].pc \in {"health", "reconcile", "insert"} => process[p].at <= Len(Catalog)
  /\ process[p].pc \in {"health", "reconcile"} =>
       /\ process[p].seen # NoRow
       /\ Found(p)
       /\ \/ descriptors[Seeding(p)].fields = process[p].seen.fields
          \/ OfABuild(descriptors[Seeding(p)].fields)
  /\ process[p].pc = "reconcile" => process[p].preserved # "none"

\* What a start-up has passed is reconciled.
PassedReconciled(p) ==
  /\ process[p].pc = "down" => process[p].at = 1
  /\ Starting(p) =>
       \A i \in 1..Len(Catalog) : i < process[p].at => Reconciled(Catalog[i])
  /\ process[p].pc = "up" => \A d \in Datasets : Reconciled(d)

SeedingInv ==
  /\ SeedingTypeOK
  /\ \A p \in Processes : ReadStands(p) /\ PassedReconciled(p)

\* While no start-up has overlapped, the copies of a status agree all the time
\* and a process writes what it has read.
CopiesAgree ==
  \A d \in Datasets : healthRows[d] # "none" => healthRows[d] = descriptors[d].status
ReadIsCurrent(p) ==
  /\ process[p].pc \in {"health", "reconcile"} => process[p].seen = descriptors[Seeding(p)]
  /\ process[p].pc = "reconcile" => process[p].preserved = process[p].seen.status

LoneInv ==
  ~overlapped =>
    /\ ~StartsOverlap
    /\ CopiesAgree
    /\ \A p \in Processes : ReadIsCurrent(p)
-----------------------------------------------------------------------------
\* A step of the rows: none is taken away, and a descriptor keeps its columns or
\* gets those of a build.
RowAdvances(d) ==
  /\ descriptors[d] # NoRow =>
       /\ descriptors'[d] # NoRow
       /\ descriptors'[d].fields = descriptors[d].fields \/ OfABuild(descriptors'[d].fields)
  /\ healthRows[d] # "none" => healthRows'[d] # "none"

\* Every entry of the catalog is one of its datasets, and a row is none or has
\* a status.
LEMMA Entries ==
  /\ Len(Catalog) \in Nat
  /\ \A i \in 1..Len(Catalog) : Catalog[i] \in Datasets
  /\ \A d \in Datasets : \E i \in 1..Len(Catalog) : d = Catalog[i]
  BY SeedingAssumption DEF Datasets

\* No row and no status is like one that is there.
LEMMA RowsAreDistinct ==
  /\ NoRow \notin DescriptorRow
  /\ "none" \notin HealthStatus
  BY DEF NoRow, DescriptorRow, HealthStatus

\* A process that starts works within the catalog when it writes.
LEMMA WorksInCatalog ==
  ASSUME SeedingTypeOK, NEW p \in Processes, ReadStands(p),
         process[p].pc \in {"health", "reconcile", "insert"}
  PROVE  /\ process[p].at \in 1..Len(Catalog)
         /\ Seeding(p) \in Datasets
  BY Entries DEF SeedingTypeOK, ReadStands, ProcessState, Seeding

\* Every process keeps its place in ProcessState (seed_dataset, initialize).
LEMMA StepProcess ==
  ASSUME SeedingInv, NEW p \in Processes, Step(p)
  PROVE  /\ process' \in [Processes -> ProcessState]
         /\ \A q \in Processes \ {p} : process'[q] = process[q]
<1> USE DEF SeedingInv, SeedingTypeOK
<1>s. process[p] \in ProcessState /\ Len(Catalog) \in Nat
  BY Entries
<1>d. /\ Down \in ProcessState
      /\ [Down EXCEPT !.pc = "failed"] \in ProcessState
      /\ [Down EXCEPT !.pc = "up"] \in ProcessState
  BY <1>s DEF Down, ProcessState
<1>1. CASE UNCHANGED process
  BY <1>1
<1>2. ASSUME NEW s \in ProcessState, process' = [process EXCEPT ![p] = s]
      PROVE  /\ process' \in [Processes -> ProcessState]
             /\ \A q \in Processes \ {p} : process'[q] = process[q]
  BY <1>2
<1>3. CASE Boot(p)
  BY <1>2, <1>3, <1>s DEF Boot, ProcessState
<1>4. CASE SelectDescriptor(p)
  <2>1. Seeding(p) \in Datasets
    BY <1>4, <1>s, Entries DEF SelectDescriptor, ProcessState, Seeding
  <2>2. descriptors[Seeding(p)] \in DescriptorRow \cup {NoRow}
    BY <2>1
  <2>3. [process[p] EXCEPT !.pc = IF Found(p) THEN "health" ELSE "insert",
                           !.seen = descriptors[Seeding(p)]] \in ProcessState
    BY <1>s, <2>2 DEF ProcessState
  <2> QED
    BY <1>2, <1>4, <2>3 DEF SelectDescriptor
<1>5. CASE SelectHealth(p)
  <2>1. Seeding(p) \in Datasets /\ process[p].seen \in DescriptorRow
    BY <1>5, <1>s, WorksInCatalog DEF SelectHealth, ReadStands, ProcessState
  <2>2. /\ healthRows[Seeding(p)] \in HealthStatus \cup {"none"}
        /\ process[p].seen.status \in HealthStatus
    BY <2>1 DEF DescriptorRow
  <2>3. [process[p] EXCEPT !.pc = "reconcile",
                           !.preserved = IF healthRows[Seeding(p)] = "none"
                                         THEN process[p].seen.status
                                         ELSE healthRows[Seeding(p)]] \in ProcessState
    BY <1>s, <2>2 DEF ProcessState
  <2> QED
    BY <1>2, <1>5, <2>3 DEF SelectHealth
<1>n. process[p].pc \in {"reconcile", "insert"} => SeededNext(p) \in ProcessState
  <2> SUFFICES ASSUME process[p].pc \in {"reconcile", "insert"}
               PROVE  SeededNext(p) \in ProcessState
    OBVIOUS
  <2>1. process[p].at + 1 \in 1..(Len(Catalog) + 1)
    BY <1>s, WorksInCatalog
  <2> QED
    BY <2>1, <1>d DEF SeededNext, Down, ProcessState
<1>6. CASE Reconcile(p)
  BY <1>2, <1>6, <1>n DEF Reconcile
<1>7. CASE InsertDescriptor(p)
  BY <1>2, <1>7, <1>n, <1>d DEF InsertDescriptor
<1>8. CASE FinishBoot(p) \/ Stop(p)
  BY <1>2, <1>8, <1>d DEF FinishBoot, Stop
<1>9. CASE \E d \in Datasets : UpsertHealth(p, d)
  BY <1>1, <1>9 DEF UpsertHealth
<1> QED
  BY <1>3, <1>4, <1>5, <1>6, <1>7, <1>8, <1>9 DEF Step

\* The rows keep their types and only advance (_insert_descriptor,
\* _reconcile, upsert_health).
LEMMA StepRows ==
  ASSUME SeedingInv, NEW p \in Processes, Step(p)
  PROVE  /\ descriptors' \in [Datasets -> DescriptorRow \cup {NoRow}]
         /\ healthRows' \in [Datasets -> HealthStatus \cup {"none"}]
         /\ \A d \in Datasets : RowAdvances(d)
<1> USE DEF SeedingInv, SeedingTypeOK
<1>s. process[p] \in ProcessState /\ Seed[p] \in Fields /\ OfABuild(Seed[p])
  BY SeedingAssumption DEF OfABuild
<1>1. CASE UNCHANGED <<descriptors, healthRows>>
  BY <1>1 DEF RowAdvances
<1>2. CASE Reconcile(p)
  <2> DEFINE e == Seeding(p)
  <2>1. /\ e \in Datasets
        /\ process[p].preserved \in HealthStatus
    BY <1>2, <1>s, WorksInCatalog DEF Reconcile, ReadStands, ProcessState
  <2>2. /\ healthRows' \in [Datasets -> HealthStatus \cup {"none"}]
        /\ \A d \in Datasets : healthRows[d] # "none" => healthRows'[d] # "none"
    BY <1>2, <2>1, RowsAreDistinct DEF Reconcile, InsertHealth, HealthToKeep
  <2> DEFINE row == [fields |-> Seed[p], status |-> process[p].preserved]
  <2>3. row \in DescriptorRow /\ row # NoRow /\ row.fields = Seed[p]
    BY <2>1, <1>s, RowsAreDistinct DEF DescriptorRow
  <2>4. descriptors' \in {descriptors, [descriptors EXCEPT ![e] = row]}
    BY <1>2 DEF Reconcile, StatusToKeep
  <2> HIDE DEF row
  <2>5. /\ descriptors' \in [Datasets -> DescriptorRow \cup {NoRow}]
        /\ \A d \in Datasets : descriptors'[d] \in {descriptors[d], row}
    BY <2>1, <2>3, <2>4
  <2> QED
    BY <2>2, <2>3, <2>5, <1>s DEF RowAdvances
<1>3. CASE InsertDescriptor(p) /\ ~Found(p)
  <2> DEFINE e == Seeding(p)
             row == [fields |-> Seed[p], status |-> "unknown"]
  <2>1. e \in Datasets
    BY <1>3, WorksInCatalog DEF InsertDescriptor
  <2>2. /\ healthRows' \in [Datasets -> HealthStatus \cup {"none"}]
        /\ \A d \in Datasets : healthRows[d] # "none" => healthRows'[d] # "none"
    BY <1>3, <2>1 DEF InsertDescriptor, InsertHealth, HealthStatus
  <2>3. row \in DescriptorRow /\ row # NoRow /\ row.fields = Seed[p]
    BY <1>s, RowsAreDistinct DEF DescriptorRow, HealthStatus
  <2>4. descriptors' = [descriptors EXCEPT ![e] = row]
    BY <1>3 DEF InsertDescriptor
  <2> HIDE DEF row
  <2>5. /\ descriptors' \in [Datasets -> DescriptorRow \cup {NoRow}]
        /\ \A d \in Datasets : descriptors'[d] \in {descriptors[d], row}
    BY <2>1, <2>3, <2>4
  <2> QED
    BY <2>2, <2>3, <2>5, <1>s DEF RowAdvances
<1>4. ASSUME NEW e \in Datasets, UpsertHealth(p, e)
      PROVE  /\ descriptors' \in [Datasets -> DescriptorRow \cup {NoRow}]
             /\ healthRows' \in [Datasets -> HealthStatus \cup {"none"}]
             /\ \A d \in Datasets : RowAdvances(d)
  <2>1. PICK status \in {"healthy", "degraded"} :
          /\ healthRows' = [healthRows EXCEPT ![e] = status]
          /\ descriptors' = [descriptors EXCEPT ![e] =
                               IF @ = NoRow THEN NoRow ELSE [@ EXCEPT !.status = status]]
    BY <1>4 DEF UpsertHealth
  <2>2. /\ healthRows' \in [Datasets -> HealthStatus \cup {"none"}]
        /\ \A d \in Datasets : healthRows[d] # "none" => healthRows'[d] # "none"
    BY <2>1 DEF HealthStatus
  <2>3. CASE descriptors[e] = NoRow
    <3>1. UNCHANGED descriptors
      BY <2>1, <2>3
    <3> QED
      BY <2>2, <3>1 DEF RowAdvances
  <2>4. CASE descriptors[e] # NoRow
    <3> DEFINE row == [descriptors[e] EXCEPT !.status = status]
    <3>1. row \in DescriptorRow /\ row # NoRow /\ row.fields = descriptors[e].fields
      BY <2>4, RowsAreDistinct DEF DescriptorRow, HealthStatus
    <3>2. descriptors' = [descriptors EXCEPT ![e] = row]
      BY <2>1, <2>4
    <3> HIDE DEF row
    <3>3. /\ descriptors' \in [Datasets -> DescriptorRow \cup {NoRow}]
          /\ \A d \in Datasets : d # e => descriptors'[d] = descriptors[d]
          /\ descriptors'[e] = row
      BY <3>1, <3>2
    <3>4. ASSUME NEW d \in Datasets PROVE RowAdvances(d)
      <4>1. CASE d = e
        BY <2>2, <3>1, <3>3, <4>1 DEF RowAdvances
      <4>2. CASE d # e
        BY <2>2, <3>3, <4>2 DEF RowAdvances
      <4> QED BY <4>1, <4>2
    <3> QED
      BY <2>2, <3>3, <3>4
  <2> QED
    BY <2>3, <2>4
<1>5. CASE InsertDescriptor(p) /\ Found(p)
  BY <1>1, <1>5 DEF InsertDescriptor
<1> QED
  BY <1>1, <1>2, <1>3, <1>4, <1>5
     DEF Step, Boot, SelectDescriptor, SelectHealth, FinishBoot, Stop
-----------------------------------------------------------------------------
\* Rows that only advance leave another process where it was, and what it has
\* passed reconciled.
LEMMA OthersStand ==
  ASSUME SeedingInv, NEW q \in Processes, process'[q] = process[q],
         \A d \in Datasets : RowAdvances(d)
  PROVE  (ReadStands(q) /\ PassedReconciled(q))'
<1> USE DEF SeedingInv
<1>1. ASSUME NEW d \in Datasets, Reconciled(d) PROVE Reconciled(d)'
  BY <1>1 DEF RowAdvances, Reconciled, OfABuild
<1>2. PassedReconciled(q)'
  BY <1>1, Entries DEF PassedReconciled, Starting
<1>3. CASE process[q].pc \in {"health", "reconcile"}
  <2>1. Seeding(q) \in Datasets /\ Seeding(q)' = Seeding(q)
    BY <1>3, WorksInCatalog DEF Seeding
  <2>2. RowAdvances(Seeding(q)) /\ Found(q)
    BY <1>3, <2>1 DEF ReadStands
  <2>3. ReadStands(q)'
    BY <1>3, <2>1, <2>2 DEF ReadStands, RowAdvances, Found, OfABuild
  <2> QED
    BY <1>2, <2>3
<1>4. CASE process[q].pc \notin {"health", "reconcile"}
  BY <1>2, <1>4 DEF ReadStands
<1> QED
  BY <1>3, <1>4

\* The process that takes the step may rely on what it has read, too.
LEMMA StepperStands ==
  ASSUME SeedingInv, NEW p \in Processes, Step(p),
         process' \in [Processes -> ProcessState],
         \A d \in Datasets : RowAdvances(d)
  PROVE  (ReadStands(p) /\ PassedReconciled(p))'
<1> USE DEF SeedingInv, SeedingTypeOK
<1>s. process[p] \in ProcessState /\ Len(Catalog) \in Nat
  BY Entries
<1>r. ASSUME NEW d \in Datasets, Reconciled(d) PROVE Reconciled(d)'
  BY <1>r DEF RowAdvances, Reconciled, OfABuild
<1>1. CASE Boot(p)
  <2>1. process'[p].pc = "lookup" /\ process'[p].at = 1
    BY <1>1, <1>s DEF Boot, PassedReconciled, ProcessState
  <2> QED
    BY <2>1 DEF ReadStands, PassedReconciled
<1>2. CASE Stop(p) \/ (InsertDescriptor(p) /\ Found(p))
  <2>1. process'[p].pc \in {"down", "failed"} /\ process'[p].at = 1
    BY <1>2, <1>s DEF Stop, InsertDescriptor, Down, ProcessState
  <2> QED
    BY <2>1 DEF ReadStands, PassedReconciled, Starting
<1>3. CASE SelectDescriptor(p)
  <2>1. /\ process'[p].pc = IF Found(p) THEN "health" ELSE "insert"
        /\ process'[p].seen = descriptors[Seeding(p)]
        /\ process'[p].at = process[p].at
        /\ Seeding(p)' = Seeding(p)
        /\ UNCHANGED <<descriptors, healthRows>>
    BY <1>3, <1>s DEF SelectDescriptor, Seeding, ProcessState
  <2>2. ReadStands(p)'
    BY <1>3, <2>1 DEF SelectDescriptor, ReadStands, Found
  <2>3. PassedReconciled(p)'
    BY <1>3, <2>1 DEF SelectDescriptor, PassedReconciled, Starting, Reconciled
  <2> QED
    BY <2>2, <2>3
<1>4. CASE SelectHealth(p)
  <2>1. /\ Seeding(p) \in Datasets
        /\ process[p].seen \in DescriptorRow
    BY <1>4, <1>s, WorksInCatalog DEF SelectHealth, ReadStands, ProcessState
  <2>2. /\ process'[p].pc = "reconcile"
        /\ process'[p].seen = process[p].seen
        /\ process'[p].at = process[p].at
        /\ Seeding(p)' = Seeding(p)
        /\ process'[p].preserved # "none"
        /\ UNCHANGED <<descriptors, healthRows>>
    BY <1>4, <2>1, <1>s, RowsAreDistinct
       DEF SelectHealth, Seeding, ProcessState, DescriptorRow
  <2>3. ReadStands(p)'
    BY <1>4, <2>2 DEF SelectHealth, ReadStands, Found
  <2>4. PassedReconciled(p)'
    BY <1>4, <2>2 DEF SelectHealth, PassedReconciled, Starting, Reconciled
  <2> QED
    BY <2>3, <2>4
<1>5. CASE Reconcile(p) \/ (InsertDescriptor(p) /\ ~Found(p))
  <2>1. Seeding(p) \in Datasets /\ process[p].at \in 1..Len(Catalog)
    BY <1>5, WorksInCatalog DEF Reconcile, InsertDescriptor
  <2>2. process'[p].pc = "lookup" /\ process'[p].at = process[p].at + 1
    BY <1>5, <2>1 DEF Reconcile, InsertDescriptor, SeededNext, Down
  <2>3. OfABuild(Seed[p])
    BY DEF OfABuild
  <2>e. PICK e \in Datasets : e = Seeding(p)
    BY <2>1
  <2>4. ASSUME Reconcile(p) PROVE Reconciled(e)'
    <3>1. healthRows'[e] # "none"
      BY <2>e, <2>4 DEF Reconcile, InsertHealth, HealthToKeep, ReadStands
    <3>f. descriptors[e] # NoRow
      BY <2>e, <2>4 DEF Reconcile, ReadStands, Found
    <3>2. CASE Changed(p)
      <4>1. descriptors'[e] = [fields |-> Seed[p], status |-> process[p].preserved]
        BY <2>e, <2>4, <3>2 DEF Reconcile, StatusToKeep
      <4>2. descriptors'[e].fields = Seed[p] /\ descriptors'[e] # NoRow
        BY <3>f, <4>1 DEF RowAdvances
      <4> QED
        BY <3>1, <4>2 DEF Reconciled, OfABuild
    <3>3. CASE ~Changed(p)
      <4>1. UNCHANGED descriptors /\ process[p].seen.fields = Seed[p]
        BY <2>4, <3>3 DEF Reconcile, Changed
      <4>2. OfABuild(descriptors[e].fields)
        BY <2>e, <2>3, <2>4, <4>1 DEF Reconcile, ReadStands
      <4> QED
        BY <3>1, <3>f, <4>1, <4>2 DEF Reconciled, OfABuild
    <3> QED
      BY <3>2, <3>3
  <2>5. ASSUME InsertDescriptor(p), ~Found(p) PROVE Reconciled(e)'
    <3>1. descriptors'[e] = [fields |-> Seed[p], status |-> "unknown"]
      BY <2>e, <2>5 DEF InsertDescriptor
    <3>2. healthRows'[e] # "none"
      BY <2>e, <2>5 DEF InsertDescriptor, InsertHealth
    <3> QED
      BY <3>1, <3>2 DEF Reconciled, OfABuild, NoRow
  <2>6. Reconciled(e)'
    BY <1>5, <2>4, <2>5
  <2>7. ASSUME NEW i \in 1..Len(Catalog), i < process'[p].at PROVE Reconciled(Catalog[i])'
    <3>1. CASE i < process[p].at
      <4>1. Catalog[i] \in Datasets /\ Reconciled(Catalog[i])
        BY <1>5, <3>1, Entries DEF Reconcile, InsertDescriptor, PassedReconciled, Starting
      <4> QED
        BY <1>r, <4>1
    <3>2. CASE i = process[p].at
      BY <2>6, <2>e, <3>2 DEF Seeding
    <3> QED
      BY <2>1, <2>2, <2>7, <3>1, <3>2
  <2> QED
    BY <2>2, <2>7 DEF ReadStands, PassedReconciled, Starting
<1>6. CASE FinishBoot(p)
  <2>1. process'[p].pc = "up" /\ UNCHANGED <<descriptors, healthRows>>
    BY <1>6 DEF FinishBoot
  <2>2. ASSUME NEW d \in Datasets PROVE Reconciled(d)'
    <3>1. PICK i \in 1..Len(Catalog) : d = Catalog[i]
      BY Entries
    <3>2. i < process[p].at
      BY <1>6, <1>s DEF FinishBoot, ProcessState
    <3>3. Reconciled(d)
      BY <1>6, <3>1, <3>2 DEF FinishBoot, PassedReconciled, Starting
    <3> QED
      BY <1>r, <3>3
  <2> QED
    BY <2>1, <2>2 DEF ReadStands, PassedReconciled, Starting
<1>7. CASE \E d \in Datasets : UpsertHealth(p, d)
  <2>1. UNCHANGED process
    BY <1>7 DEF UpsertHealth
  <2> QED
    BY <2>1, OthersStand
<1>8. CASE InsertDescriptor(p)
  BY <1>5, <1>8, <1>2
<1> QED
  BY <1>1, <1>3, <1>4, <1>5, <1>6, <1>7, <1>8, <1>2 DEF Step

\* Start-up keeps the invariant at every interleaving.
LEMMA NextSeedingInv == SeedingInv /\ [Next]_vars => SeedingInv'
<1> SUFFICES ASSUME SeedingInv, [Next]_vars PROVE SeedingInv'
  OBVIOUS
<1>1. CASE UNCHANGED vars
  BY <1>1 DEF vars, SeedingInv, SeedingTypeOK, ReadStands, PassedReconciled, Reconciled,
              Found, Seeding, Starting
<1>2. ASSUME NEW p \in Processes, Step(p), overlapped' = (overlapped \/ StartsOverlap')
      PROVE  SeedingInv'
  <2>1. SeedingTypeOK'
    BY <1>2, StepProcess, StepRows DEF SeedingInv, SeedingTypeOK, StartsOverlap
  <2>2. ASSUME NEW q \in Processes PROVE (ReadStands(q) /\ PassedReconciled(q))'
    BY <1>2, StepProcess, StepRows, StepperStands, OthersStand
  <2> QED
    BY <2>1, <2>2 DEF SeedingInv
<1> QED
  BY <1>1, <1>2 DEF Next

\* A process that has not booted has passed nothing.
LEMMA InitSeedingInv == Init => SeedingInv
<1> SUFFICES ASSUME Init PROVE SeedingInv
  OBVIOUS
<1>1. Down \in ProcessState
  BY Entries DEF Down, ProcessState
<1>2. SeedingTypeOK
  BY <1>1 DEF Init, SeedingTypeOK, DescriptorRow, HealthStatus
<1>3. \A p \in Processes : process[p].pc = "down" /\ process[p].at = 1
  BY DEF Init, Down
<1>4. \A p \in Processes : ReadStands(p) /\ PassedReconciled(p)
  BY <1>3 DEF ReadStands, PassedReconciled, Starting
<1> QED
  BY <1>2, <1>4 DEF SeedingInv

\* The invariant of start-ups holds in every state.
LEMMA SeedingInvariant == Spec => []SeedingInv
  BY InitSeedingInv, NextSeedingInv, PTL DEF Spec

\* Whatever the volume held and however start-ups interleave and stop, a
\* process that is up finds every dataset of the catalog reconciled
\* (initialize_sqlite_registry).
THEOREM StartReconciles == Spec => []StartedMeansReconciled
<1>1. SeedingInv => StartedMeansReconciled
  BY DEF SeedingInv, PassedReconciled, Reconciled, OfABuild, StartedMeansReconciled
<1> QED
  BY <1>1, SeedingInvariant, PTL

\* Seeding never replaces a health row (INSERT OR IGNORE): only upsert_health,
\* called by a process that is up, does.
THEOREM SeedingKeepsHealthRows == Spec => HealthRowsKept
<1> DEFINE Kept == \A d \in Datasets :
              (healthRows[d] # "none" /\ healthRows'[d] # healthRows[d]) => UNCHANGED process
<1>1. SeedingInv /\ [Next]_vars => Kept
  <2> SUFFICES ASSUME SeedingInv, [Next]_vars, NEW d \in Datasets,
                      healthRows[d] # "none", healthRows'[d] # healthRows[d]
               PROVE  UNCHANGED process
    OBVIOUS
  <2>t. healthRows \in [Datasets -> HealthStatus \cup {"none"}]
    BY DEF SeedingInv, SeedingTypeOK
  <2>1. PICK p \in Processes : Step(p)
    BY DEF Next, vars
  <2>2. ASSUME NEW e, NEW status, healthRows' = InsertHealth(e, status) PROVE FALSE
    <3>1. healthRows'[d] = IF d = e /\ healthRows[d] = "none" THEN status ELSE healthRows[d]
      BY <2>2, <2>t DEF InsertHealth
    <3> QED
      BY <3>1
  <2>3. ~UNCHANGED healthRows
    OBVIOUS
  <2>4. \E e \in Datasets : UpsertHealth(p, e)
    BY <2>1, <2>2, <2>3
       DEF Step, Boot, SelectDescriptor, SelectHealth, Reconcile, InsertDescriptor,
           FinishBoot, Stop
  <2> QED
    BY <2>4 DEF UpsertHealth
<1>2. (SeedingInv /\ [Next]_vars => Kept) => (SeedingInv /\ [Next]_vars => [Kept]_vars)
  OBVIOUS
<1> QED
  BY <1>1, <1>2, SeedingInvariant, PTL DEF Spec, HealthRowsKept
-----------------------------------------------------------------------------
\* When a process alone is starting, no other one changes a row.
LEMMA LoneReads ==
  ASSUME SeedingInv, ~overlapped, LoneInv, NEW p \in Processes, Step(p),
         NEW q \in Processes, q # p, process'[q] = process[q], Starting(q)
  PROVE  UNCHANGED <<descriptors, healthRows>>
<1>1. process[p].pc \in {"down", "failed"}
  BY DEF LoneInv, StartsOverlap
<1> QED
  BY <1>1 DEF Step, Boot, SelectDescriptor, SelectHealth, Reconcile, InsertDescriptor,
              FinishBoot, UpsertHealth, Stop

\* The step of a lone start-up changes no stored status and keeps the two
\* copies alike: what it writes back is what is there.
LEMMA LoneWrites ==
  ASSUME SeedingInv, ~overlapped, LoneInv, NEW p \in Processes, Step(p),
         process' \in [Processes -> ProcessState]
  PROVE  /\ CopiesAgree'
         /\ \A d \in Datasets : KeepsStatus(d)
<1> USE DEF SeedingInv, SeedingTypeOK
<1>a. CopiesAgree /\ ReadIsCurrent(p)
  BY DEF LoneInv
<1>1. CASE UNCHANGED <<descriptors, healthRows>>
  BY <1>1, <1>a DEF CopiesAgree, KeepsStatus
<1>2. ASSUME NEW e \in Datasets, NEW row,
             row.status = descriptors[e].status,
             healthRows' = InsertHealth(e, row.status),
             descriptors' \in {descriptors, [descriptors EXCEPT ![e] = row]}
      PROVE  CopiesAgree' /\ \A d \in Datasets : KeepsStatus(d)
  <2>1. \A d \in Datasets : descriptors'[d].status = descriptors[d].status
    BY <1>2
  <2>2. \A d \in Datasets : healthRows'[d] = healthRows[d]
                              \/ (d = e /\ healthRows'[d] = row.status)
    BY <1>2 DEF InsertHealth
  <2> QED
    BY <1>a, <1>2, <2>1, <2>2 DEF CopiesAgree, KeepsStatus
<1>3. CASE Reconcile(p)
  <2> DEFINE row == [fields |-> Seed[p], status |-> process[p].preserved]
  <2>1. Seeding(p) \in Datasets
    BY <1>3, WorksInCatalog DEF Reconcile
  <2>2. row.status = descriptors[Seeding(p)].status
    BY <1>3, <1>a DEF Reconcile, ReadIsCurrent
  <2>3. /\ healthRows' = InsertHealth(Seeding(p), row.status)
        /\ descriptors' \in {descriptors, [descriptors EXCEPT ![Seeding(p)] = row]}
    BY <1>3 DEF Reconcile, HealthToKeep, StatusToKeep
  <2> HIDE DEF row
  <2> QED
    BY <1>2, <2>1, <2>2, <2>3
<1>4. CASE InsertDescriptor(p) /\ ~Found(p)
  <2> PICK e \in Datasets : e = Seeding(p)
    BY <1>4, WorksInCatalog DEF InsertDescriptor
  <2>1. descriptors[e] = NoRow /\ healthRows[e] = "none"
    BY <1>4, <1>a DEF Found, CopiesAgree, NoRow
  <2>2. /\ descriptors' = [descriptors EXCEPT ![e] =
                             [fields |-> Seed[p], status |-> "unknown"]]
        /\ healthRows' = InsertHealth(e, "unknown")
    BY <1>4 DEF InsertDescriptor
  <2>3. /\ \A d \in Datasets : d # e => /\ descriptors'[d] = descriptors[d]
                                        /\ healthRows'[d] = healthRows[d]
        /\ descriptors'[e].status = "unknown" /\ healthRows'[e] = "unknown"
    BY <2>1, <2>2 DEF InsertHealth
  <2> QED
    BY <1>a, <2>1, <2>3 DEF CopiesAgree, KeepsStatus
<1>5. ASSUME NEW e \in Datasets, UpsertHealth(p, e)
      PROVE  CopiesAgree' /\ \A d \in Datasets : KeepsStatus(d)
  <2>1. Reconciled(e) /\ descriptors[e] \in DescriptorRow
    BY <1>5 DEF UpsertHealth, PassedReconciled, Reconciled
  <2>2. PICK status \in {"healthy", "degraded"} :
          /\ healthRows' = [healthRows EXCEPT ![e] = status]
          /\ descriptors' = [descriptors EXCEPT ![e] =
                               IF @ = NoRow THEN NoRow ELSE [@ EXCEPT !.status = status]]
    BY <1>5 DEF UpsertHealth
  <2>3. /\ \A d \in Datasets : d # e => /\ descriptors'[d] = descriptors[d]
                                        /\ healthRows'[d] = healthRows[d]
        /\ descriptors'[e].status = status /\ healthRows'[e] = status
    BY <2>1, <2>2 DEF Reconciled, DescriptorRow
  <2>4. CopiesAgree'
    BY <1>a, <2>3 DEF CopiesAgree
  <2> QED
    BY <1>5, <2>4 DEF UpsertHealth, KeepsStatus
<1>6. CASE InsertDescriptor(p)
  BY <1>1, <1>4, <1>6 DEF InsertDescriptor
<1>7. CASE Boot(p) \/ SelectDescriptor(p) \/ SelectHealth(p) \/ FinishBoot(p) \/ Stop(p)
  BY <1>1, <1>7 DEF Boot, SelectDescriptor, SelectHealth, FinishBoot, Stop
<1> QED
  BY <1>3, <1>5, <1>6, <1>7 DEF Step

\* What a lone start-up has read is still so.
LEMMA LoneReadStands ==
  ASSUME SeedingInv, ~overlapped, LoneInv, NEW p \in Processes, Step(p),
         process' \in [Processes -> ProcessState],
         \A q \in Processes \ {p} : process'[q] = process[q],
         NEW q \in Processes
  PROVE  ReadIsCurrent(q)'
<1> USE DEF SeedingInv, SeedingTypeOK
<1>c. CopiesAgree /\ ReadIsCurrent(q)
  BY DEF LoneInv
<1>1. CASE q # p
  <2>1. CASE Starting(q)
    BY <1>c, <1>1, <2>1, LoneReads DEF ReadIsCurrent, Seeding
  <2>2. CASE ~Starting(q)
    BY <1>1, <2>2 DEF ReadIsCurrent, Starting
  <2> QED
    BY <2>1, <2>2
<1>2. CASE q = p /\ process'[p].pc \in {"health", "reconcile"}
  <2>s. process[p] \in ProcessState
    OBVIOUS
  <2>1. CASE UNCHANGED process
    <3>1. process[p].pc # "up"
      BY <1>2, <2>1
    <3>2. UNCHANGED <<descriptors, healthRows>>
      BY <1>2, <2>1, <2>s, <3>1
         DEF Step, Boot, SelectDescriptor, SelectHealth, Reconcile, InsertDescriptor,
             FinishBoot, UpsertHealth, Stop, SeededNext, Down
    <3> QED
      BY <1>c, <1>2, <2>1, <3>2 DEF ReadIsCurrent, Seeding
  <2>2. CASE SelectDescriptor(p)
    BY <1>2, <2>2, <2>s DEF SelectDescriptor, ReadIsCurrent, Seeding, ProcessState
  <2>3. CASE SelectHealth(p)
    <3>1. Seeding(p) \in Datasets
      BY <2>3, WorksInCatalog DEF SelectHealth
    <3>2. process[p].seen = descriptors[Seeding(p)]
      BY <1>c, <1>2, <2>3 DEF SelectHealth, ReadIsCurrent
    <3>3. /\ process'[p].seen = process[p].seen /\ process'[p].at = process[p].at
          /\ process'[p].preserved = process[p].seen.status
          /\ UNCHANGED descriptors
      BY <1>c, <2>3, <2>s, <3>1, <3>2 DEF SelectHealth, CopiesAgree, ProcessState
    <3> QED
      BY <1>2, <3>2, <3>3 DEF ReadIsCurrent, Seeding
  <2>4. ~(Boot(p) \/ Reconcile(p) \/ InsertDescriptor(p) \/ FinishBoot(p) \/ Stop(p))
    <3>1. Boot(p) => process'[p].pc = "lookup"
      BY <2>s DEF Boot, ProcessState
    <3>r. Reconcile(p) => process'[p].pc = "lookup"
      BY <2>s DEF Reconcile, SeededNext, Down
    <3>2. InsertDescriptor(p) => process'[p].pc \in {"failed", "lookup"}
      BY <2>s DEF InsertDescriptor, SeededNext, Down
    <3>3. FinishBoot(p) \/ Stop(p) => process'[p].pc \in {"up", "down"}
      BY <2>s DEF FinishBoot, Stop, Down
    <3> QED
      BY <1>2, <3>1, <3>r, <3>2, <3>3
  <2>5. (\E d \in Datasets : UpsertHealth(p, d)) => UNCHANGED process
    BY DEF UpsertHealth
  <2> QED
    BY <2>1, <2>2, <2>3, <2>4, <2>5 DEF Step
<1>3. CASE q = p /\ process'[p].pc \notin {"health", "reconcile"}
  BY <1>3 DEF ReadIsCurrent
<1> QED
  BY <1>1, <1>2, <1>3

\* Lone start-ups keep the copies alike, whatever mixture of rows the volume
\* held and wherever a process stops.
LEMMA LoneInvariant == Spec => [](SeedingInv /\ LoneInv)
<1>1. Init => LoneInv
  <2> SUFFICES ASSUME Init PROVE LoneInv
    OBVIOUS
  <2>1. \A p \in Processes : process[p].pc = "down"
    BY DEF Init, Down
  <2> QED
    BY <2>1 DEF Init, LoneInv, StartsOverlap, Starting, CopiesAgree, ReadIsCurrent
<1>2. SeedingInv /\ LoneInv /\ [Next]_vars => LoneInv'
  <2> SUFFICES ASSUME SeedingInv, LoneInv, [Next]_vars PROVE LoneInv'
    OBVIOUS
  <2>1. CASE UNCHANGED vars
    BY <2>1 DEF vars, LoneInv, StartsOverlap, Starting, CopiesAgree, ReadIsCurrent, Seeding
  <2>2. ASSUME Next, ~overlapped' PROVE LoneInv'
    <3>1. PICK p \in Processes : Step(p)
      BY <2>2 DEF Next
    <3>2. ~overlapped /\ ~StartsOverlap'
      BY <2>2 DEF Next
    <3>3. CopiesAgree' /\ \A q \in Processes : ReadIsCurrent(q)'
      BY <3>1, <3>2, StepProcess, LoneWrites, LoneReadStands
    <3> QED
      BY <3>2, <3>3 DEF LoneInv
  <2>3. CASE overlapped'
    BY <2>3 DEF LoneInv
  <2> QED
    BY <2>1, <2>2, <2>3
<1> QED
  BY <1>1, <1>2, InitSeedingInv, NextSeedingInv, PTL DEF Spec

\* Without an overlap the descriptor's status and the health row's agree
\* whenever no process is starting.
THEOREM StatusCopiesAgree == Spec => []StatusesAgree
<1>1. LoneInv => StatusesAgree
  BY DEF LoneInv, CopiesAgree, StatusesAgree
<1> QED
  BY <1>1, LoneInvariant, PTL

\* Without an overlap a start-up leaves every stored status as it is
\* ("reconciles descriptors while preserving health state").
THEOREM LoneSeedingKeepsStatus == Spec => LoneSeedingPreservesStatus
<1> DEFINE Kept == ~overlapped' => \A d \in Datasets : KeepsStatus(d)
<1>1. SeedingInv /\ LoneInv /\ [Next]_vars => Kept
  <2> SUFFICES ASSUME SeedingInv, LoneInv, [Next]_vars, ~overlapped',
                      NEW d \in Datasets
               PROVE  KeepsStatus(d)
    OBVIOUS
  <2>1. CASE UNCHANGED vars
    BY <2>1 DEF vars, KeepsStatus
  <2>2. CASE Next
    <3>1. PICK p \in Processes : Step(p)
      BY <2>2 DEF Next
    <3>2. ~overlapped
      BY <2>2 DEF Next
    <3> QED
      BY <3>1, <3>2, StepProcess, LoneWrites
  <2> QED
    BY <2>1, <2>2
<1>2. (SeedingInv /\ LoneInv /\ [Next]_vars => Kept)
        => (SeedingInv /\ LoneInv /\ [Next]_vars => [Kept]_vars)
  OBVIOUS
<1> QED
  BY <1>1, <1>2, LoneInvariant, PTL DEF Spec, LoneSeedingPreservesStatus
=============================================================================
