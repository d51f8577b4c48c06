----------------------------- MODULE LocalReaders -----------------------------
(***************************************************************************)
(* The tools that only read what is stored locally, and the canary.        *)
(*                                                                         *)
(* query, download, health, metadata and search read the registry row, the *)
(* health row, the age of the snapshot and the snapshot itself one after   *)
(* the other, while other processes on the same volume store a newer       *)
(* snapshot, record a health status or seed the registry of another        *)
(* release.  The canary fetches on its own, judges what it got with the    *)
(* same normalization, and records the verdict; it stores nothing.         *)
(*                                                                         *)
(* A behaviour is about one dataset.                                       *)
(***************************************************************************)
EXTENDS Normalization, Freshness, ObservationRecency

CONSTANTS Datasets,
          PayloadsOf(_),     \* what the source of a dataset may answer
          StoredOf(_),       \* what an older deployment may have left on disk
          DescriptorsOf(_),  \* [coverage, frequency] in the releases
          Instants,          \* the times at which anything happens
          Start,             \* the first of them
          MaxChanges         \* changes by other processes

ASSUME ReadersAssumption ==
  /\ Start \in Instants
  /\ Instants \subseteq Nat
  /\ MaxChanges \in Nat

VARIABLES dataset,   \* the one this behaviour is about
          clock,
          file,      \* the snapshot
          row,       \* the dataset's row of the registry
          health,    \* its health row: a status, or "none"
          changes,
          reader,    \* a call of one of the tools
          canary     \* a run of the canary

vars == <<dataset, clock, file, row, health, changes, reader, canary>>

\* The export command asks query, then health for the label of its document.
Tools == {"query", "download", "health", "metadata", "search", "export"}
CanaryDatasets == {"exchange rates", "cpi", "budget"}

NoPayload == [Payload("none", Body("none", "none", Unsupported), NoMetadata)
                EXCEPT !.readable = FALSE, !.intact = FALSE]

Coverages == {"queryable", "limited", "catalog_only"}

\* What a file or a source can hold: rows with readable dates or Unreadable ones.
WellFormedBody(body) ==
  LET rows == body.extracted.rows
  IN  /\ body \in [json : {"dict", "list", "str"}, shape : {"none", "rows", "top level"},
                   extracted : [status : {"rows", "none", "invalid", "raised"}, rows : {rows}],
                   bundle : BOOLEAN]
      /\ body.shape = "top level" => body.json = "list"
      /\ rows \in Seq({rows[i] : i \in DOMAIN rows})
      /\ \A i \in DOMAIN rows : \A field \in DOMAIN rows[i] : rows[i][field] \in Int
WellFormed(p) ==
  /\ p \in [type : {"json", "html", "text"}, body : {p.body},
            metadata : [version : Int, format : {"bundle", "legacy html", "none"}],
            intact : BOOLEAN, readable : BOOLEAN]
  /\ WellFormedBody(p.body)

\* What is fetched can be stored and read back.  The sources that the canary
\* watches answer no list without entries where there are rows to find.
ASSUME SourcesAssumption ==
  \A d \in Datasets :
    /\ \A p \in PayloadsOf(d) \cup StoredOf(d) : WellFormed(p)
    /\ \A p \in PayloadsOf(d) : p.readable
    /\ d \in CanaryDatasets =>
         \A p \in PayloadsOf(d) :
           (p.body.shape # "none" \/ p.body.extracted.status = "rows") =>
             p.body.extracted.rows # <<>>
    /\ DescriptorsOf(d) \subseteq [coverage : Coverages, frequency : Frequencies]

\* fetched: what the connector returned, of what the store then wrote.
NoFile == [there |-> FALSE, payload |-> NoPayload, fetched |-> NoPayload, written |-> 0]
File(payload, fetched, written) ==
  [there |-> TRUE, payload |-> payload, fetched |-> fetched, written |-> written]
Stored(fetched) == WithMetadata(dataset, fetched, FALSE)

\* A row that is not there has coverage "unavailable".
NoRow == [there |-> FALSE, coverage |-> "unavailable", frequency |-> "unspecified",
          status |-> "unknown"]
RegistryRow(descriptor, status) ==
  [there |-> TRUE, coverage |-> descriptor.coverage, frequency |-> descriptor.frequency,
   status |-> status]
-----------------------------------------------------------------------------
(***************************************************************************)
(* The answers of the tools.                                               *)
(***************************************************************************)
Answer(status, coverage, freshness, recency, total, why, healthStatus) ==
  [status |-> status, coverage |-> coverage, freshness |-> freshness, recency |-> recency,
   total |-> total, why |-> why, health |-> healthStatus]
NoTotal == -1

\* The dataset is not in the registry.
UnknownDataset == Answer("missing", "unavailable", "none", "none", NoTotal, {}, "none")

\* What DatasetQueryResult lets through.  Any other combination raises.
QueryResultConsistent(a) ==
  CASE a.status \in {"missing", "snapshot_missing"} ->
         /\ a.coverage = "unavailable"
         /\ a.freshness = (IF a.status = "missing" THEN "none" ELSE "missing")
         /\ a.recency = "none" /\ a.total = NoTotal /\ a.why = {}
    [] a.status = "failed" ->
         /\ a.coverage = "unavailable" /\ a.freshness # "none"
         /\ a.recency = "none" /\ a.total = NoTotal /\ a.why = {}
    [] a.status = "limited" ->
         /\ a.coverage \in {"limited", "catalog_only"} /\ a.freshness # "none"
         /\ a.total = NoTotal /\ a.why # {}
    [] a.status = "success" ->
         /\ a.coverage = "queryable" /\ a.freshness # "none"
         /\ a.total # NoTotal /\ a.why = {}

DownloadResultConsistent(a) ==
  CASE a.status = "missing" -> a.coverage = "unavailable" /\ a.freshness = "none"
    [] a.status = "artifact_missing" ->
         a.coverage = "unavailable" /\ a.freshness = "missing" /\ a.recency = "none"
    [] a.status = "available" ->
         a.coverage # "unavailable" /\ a.freshness \notin {"none", "missing"}

RegistryResultConsistent(a) ==
  (a.status = "found") <=> (a.health # "none" /\ a.coverage # "none")

Consistent(tool, a) ==
  CASE tool = "query" -> QueryResultConsistent(a)
    [] tool = "download" -> DownloadResultConsistent(a)
    [] OTHER -> a.status = "missing" \/ RegistryResultConsistent(a)
Raised == Answer("raised", "none", "none", "none", NoTotal, {}, "none")
Given(tool, a) == IF Consistent(tool, a) THEN a ELSE Raised

FromRow(r) == Answer("found", r.coverage, "none", "none", NoTotal, {}, r.status)

\* Faulty variant: a limited answer shows the coverage of the registry.
DeclaredCoverage(declared) == declared
LimitedCoverage(declared) ==
  IF declared = "catalog_only" THEN "catalog_only" ELSE "limited"

\* The snapshot as it was read, normalized and held against today.
QueryOutcome(r, payload, freshness, today) ==
  LET result  == Normalize(dataset, payload)
      recency == RecencyOf({result.records[i] : i \in DOMAIN result.records},
                           r.frequency, today \div 24)
  IN  CASE ~payload.readable \/ result.status = "failed" ->
             Answer("failed", "unavailable", freshness, "none", NoTotal, {}, "none")
        [] payload.readable /\ result.status = "limited" ->
             Answer("limited", LimitedCoverage(r.coverage), freshness, "none", NoTotal,
                    result.limitations, "none")
        [] payload.readable /\ result.status = "record_derivable" ->
             IF r.coverage # "queryable"
             THEN Answer("limited", LimitedCoverage(r.coverage), freshness, recency, NoTotal,
                         {"registry"}, "none")
             ELSE Answer("success", "queryable", freshness, recency,
                         Len(result.records), {}, "none")
-----------------------------------------------------------------------------
(***************************************************************************)
(* The world of a call: the clock, and the other processes on the volume.  *)
(***************************************************************************)
\* held: all that could be read since the call began, for the properties.
ReaderState(tool, pc) ==
  [tool |-> tool, pc |-> pc, row |-> NoRow, status |-> "none", now |-> Start,
   label |-> "none", copy |-> NoFile, answer |-> Raised,
   held |-> [rows |-> {}, files |-> {}, since |-> Start]]
CanaryState(pc) == [pc |-> pc, payload |-> NoPayload, verdict |-> "none"]

\* The health tool falls back on the status in the descriptor.
StatusShown(h, r) == IF h = "none" THEN r.status ELSE h

Calling == reader.pc \notin {"idle", "done"}
Witnessed(held) ==
  [held EXCEPT !.rows = @ \cup {row'}, !.files = @ \cup {file'}]
\* What others do once a call has answered they may as well do in the next.
CallGoesOn ==
  /\ reader.pc # "done"
  /\ reader' = IF Calling THEN [reader EXCEPT !.held = Witnessed(@)] ELSE reader

Init ==
  /\ dataset \in Datasets
  /\ clock = Start
  /\ file \in {NoFile} \cup {File(p, NoPayload, Start) : p \in StoredOf(dataset)}
  /\ \/ row = NoRow /\ health = "none"
     \/ \E d \in DescriptorsOf(dataset) : \E status \in {"unknown", "degraded"} :
          row = RegistryRow(d, status) /\ health = status
  /\ changes = 0
  /\ reader = ReaderState("query", "idle")
  /\ canary = CanaryState("idle")

\* A bound: the clock turns once in a call, and not in a run of the canary.
Tick ==
  /\ reader.pc # "done"
  /\ canary.pc \in {"idle", "done"}
  /\ Calling => reader.held.since = clock
  /\ \E t \in Instants :
       /\ t > clock /\ \A u \in Instants : u > clock => t <= u
       /\ clock' = t
  /\ UNCHANGED <<dataset, file, row, health, changes, reader, canary>>

ChangeByAnother ==
  /\ changes < MaxChanges
  /\ changes' = changes + 1
  /\ UNCHANGED <<dataset, clock, canary>>

\* A materialize or preview of another process: the file is replaced.
StoreNewer ==
  /\ ChangeByAnother
  /\ \E fetched \in PayloadsOf(dataset) : file' = File(Stored(fetched), fetched, clock)
  /\ UNCHANGED <<row, health>>
  /\ CallGoesOn

\* upsert_health writes the health row and the descriptor in one transaction.
Upsert(status) ==
  /\ health' = status
  /\ row' = [row EXCEPT !.status = status]

RecordHealth ==
  /\ row.there
  /\ ChangeByAnother
  /\ \E status \in {"healthy", "degraded"} : Upsert(status)
  /\ UNCHANGED file
  /\ CallGoesOn

\* Seeding keeps the status; RegistrySeeding has its steps one by one.
Seed ==
  /\ \E d \in DescriptorsOf(dataset) :
       row' = RegistryRow(d, IF health = "none" THEN row.status ELSE health)
  /\ health' = IF health = "none" THEN row.status ELSE health
  /\ UNCHANGED file

SeedByAnother == ChangeByAnother /\ Seed /\ CallGoesOn
-----------------------------------------------------------------------------
(***************************************************************************)
(* A call, read by read.                                                   *)
(***************************************************************************)
ReaderStep(updated) ==
  /\ reader' = updated
  /\ UNCHANGED <<dataset, clock, file, row, health, changes, canary>>

\* The document of an export: the answer of the query, the label of health.
Exported(label) == [reader.answer EXCEPT !.freshness = label]

Answers(updated, a) ==
  ReaderStep(
    CASE reader.tool = "export" ->
           [ReaderState("export health", "lookup") EXCEPT
              !.answer = Given("query", a), !.held = reader.held]
      [] reader.tool = "export health" ->
           [updated EXCEPT !.pc = "done", !.answer = Exported(a.freshness)]
      [] OTHER -> [updated EXCEPT !.pc = "done", !.answer = Given(reader.tool, a)])

Ask ==
  /\ reader.pc = "idle"
  /\ \E tool \in Tools :
       ReaderStep([ReaderState(tool, "lookup") EXCEPT
         !.held = [rows |-> {row}, files |-> {file}, since |-> clock]])

\* metadata and search show the row; download and query go on to the snapshot.
LookUp ==
  /\ reader.pc = "lookup"
  /\ LET found == [reader EXCEPT !.row = row]
     IN  CASE ~row.there -> Answers(found, UnknownDataset)
           [] row.there /\ reader.tool \in {"metadata", "search"} ->
                Answers(found, FromRow(row))
           [] row.there /\ reader.tool \in {"health", "export health"} ->
                ReaderStep([found EXCEPT !.pc = "health"])
           [] row.there /\ reader.tool \in {"query", "download", "export"} ->
                ReaderStep([found EXCEPT !.pc = "time"])

GetHealth ==
  /\ reader.pc = "health"
  /\ ReaderStep([reader EXCEPT !.pc = "time", !.status = StatusShown(health, reader.row)])

\* Faulty variant: the default of the argument is taken once, at import.
EvaluatedAtImport(now) == Start
ReferenceTime(now) == now

TakeTime ==
  /\ reader.pc = "time"
  /\ ReaderStep([reader EXCEPT !.pc = "check", !.now = ReferenceTime(clock)])

\* is_file, and the time of the last write.
CheckFile ==
  /\ reader.pc = "check"
  /\ LET label   == IF file.there THEN LabelOf(reader.row.frequency, file.written, reader.now)
                    ELSE "missing"
         checked == [reader EXCEPT !.label = label]
         found   == FromRow([reader.row EXCEPT !.status = reader.status])
         coverage == reader.row.coverage
     IN  CASE reader.tool \in {"health", "export health"} ->
                Answers(checked, [found EXCEPT !.freshness = label])
           [] reader.tool = "download" ->
                Answers(checked,
                  IF label = "missing"
                  THEN Answer("artifact_missing", "unavailable", label, "none", NoTotal, {}, "none")
                  ELSE Answer("available", coverage, label, "none", NoTotal, {}, "none"))
           [] reader.tool \in {"query", "export"} ->
                ReaderStep([checked EXCEPT !.pc = "read"])

ReadSnapshot ==
  /\ reader.pc = "read"
  /\ IF file.there THEN ReaderStep([reader EXCEPT !.pc = "assess", !.copy = file])
     ELSE Answers(reader, Answer("snapshot_missing", "unavailable", "missing", "none",
                                 NoTotal, {}, "none"))

\* Normalization, and the observations held against the day it is by now.  A
\* label of a moment ago may say "missing" of the copy that was read since.
Assess ==
  /\ reader.pc = "assess"
  /\ LET copy == WithMetadata(dataset, reader.copy.payload, TRUE)
     IN  Answers(reader, QueryOutcome(reader.row, copy, reader.label, clock))

\* The answer is delivered, and the next call starts from nothing.
Return ==
  /\ reader.pc = "done"
  /\ ReaderStep(ReaderState("query", "idle"))

Read == LookUp \/ GetHealth \/ TakeTime \/ CheckFile \/ ReadSnapshot \/ Assess \/ Return
-----------------------------------------------------------------------------
(***************************************************************************)
(* The canary.                                                             *)
(***************************************************************************)
StartCanary ==
  /\ canary.pc = "idle"
  /\ dataset \in CanaryDatasets
  /\ canary' = CanaryState("seed")
  /\ UNCHANGED <<dataset, clock, file, row, health, changes>>
  /\ CallGoesOn

CanarySeeds ==
  /\ canary.pc = "seed"
  /\ Seed
  /\ CallGoesOn
  /\ canary' = [canary EXCEPT !.pc = "check"]
  /\ UNCHANGED <<dataset, clock, changes>>

MinimumRecords == 1
Passes(payload) ==
  LET result == Normalize(dataset, payload)
  IN  result.status = "record_derivable" /\ Len(result.records) >= MinimumRecords

\* The fetch fails, or what it brought is judged.
CheckUpstream ==
  /\ canary.pc = "check"
  /\ \/ canary' = [canary EXCEPT !.pc = "persist", !.verdict = "degraded"]
     \/ \E payload \in PayloadsOf(dataset) :
          canary' = [canary EXCEPT !.pc = "persist", !.payload = payload,
                       !.verdict = IF Passes(payload) THEN "healthy" ELSE "degraded"]
  /\ UNCHANGED <<dataset, clock, file, row, health, changes>>
  /\ CallGoesOn

\* The status before is read as well, for the event that reports a change.
Persist ==
  /\ canary.pc = "persist"
  /\ Upsert(canary.verdict)
  /\ canary' = [canary EXCEPT !.pc = "done"]
  /\ UNCHANGED <<dataset, clock, file, changes>>
  /\ CallGoesOn

Canary == StartCanary \/ CanarySeeds \/ CheckUpstream \/ Persist

Next == Tick \/ StoreNewer \/ RecordHealth \/ SeedByAnother \/ Ask \/ Read \/ Canary
Spec == Init /\ [][Next]_vars
-----------------------------------------------------------------------------
\* The labels of a copy that could be read, at a time since the call began.
LabelsHeld ==
  {IF f.there THEN LabelOf(r.frequency, f.written, t) ELSE "missing" :
     f \in reader.held.files, r \in reader.held.rows,
     t \in {u \in Instants : reader.held.since <= u /\ u <= clock}}

\* Every part of an answer held at some moment of the call, though its parts
\* are read one after the other (query, download, health, export): the coverage
\* and the status, the label for some copy at some time since the call began,
\* and a dataset or a snapshot that is called missing was not there.
PartsHeldDuringCall ==
  reader.pc = "done" =>
    LET a == reader.answer
        held == reader.held
    IN  /\ a.status = "missing" => NoRow \in held.rows
        /\ a.status \in {"snapshot_missing", "artifact_missing"} => NoFile \in held.files
        /\ a.status = "found" => a.health \in {r.status : r \in held.rows}
        /\ a.status \in {"found", "available"} => \E r \in held.rows : r.coverage = a.coverage
        /\ a.freshness # "none" => a.freshness \in LabelsHeld

\* A daily copy of the last 24 hours is never called stale, and one of four
\* days ago never fresh, whatever weekend lies between (the business days of
\* Riyadh).
FreshLabelsAreBounded ==
  file.there =>
    LET age   == clock - file.written
        label == LabelOf("daily", file.written, clock)
    IN  /\ age <= 24 => label = "fresh"
        /\ age >= 96 => label = "stale"

\* As time passes a copy that was stale does not become fresh again, nor its
\* latest observation current, across weekends and the turn of the year.
StaleStaysStale ==
  [][(file.there /\ clock' # clock) =>
       \A frequency \in Frequencies :
         /\ LabelOf(frequency, file.written, clock) = "stale" =>
              LabelOf(frequency, file.written, clock') = "stale"
         /\ LET rows    == file.payload.body.extracted.rows
                records == {rows[i] : i \in DOMAIN rows}
            IN  RecencyOf(records, frequency, clock \div 24) = "stale" =>
                  RecencyOf(records, frequency, clock' \div 24) = "stale"]_vars

\* No mapping is rejected by its validation, and no tool fails to build its
\* answer: a limited one says why and hides the coverage the registry declares.
AnswersExplainThemselves ==
  /\ reader.pc = "assess" =>
       Normalize(dataset, WithMetadata(dataset, reader.copy.payload, TRUE)).stage # "validation"
  /\ canary.pc = "persist" => Normalize(dataset, canary.payload).stage # "validation"
  /\ reader.pc = "done" => reader.answer # Raised

\* The canary's verdict on what it fetched is the verdict of a query on the
\* stored copy of the same payload: what is stored with metadata and read back
\* normalizes as it was fetched.
CanaryAgreesWithQuery ==
  (/\ canary.payload # NoPayload
   /\ reader.pc = "done" /\ reader.tool = "query"
   /\ reader.copy.fetched = canary.payload
   /\ reader.row.coverage = "queryable") =>
    (reader.answer.status = "success" <=> canary.verdict = "healthy")
=============================================================================
