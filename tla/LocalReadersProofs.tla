--------------------------- MODULE LocalReadersProofs ---------------------------
(***************************************************************************)
(* What the tools that read promise, for every dataset, source, release    *)
(* and any times.  First the labels by themselves: windows only close, as  *)
(* days, months and years are counted.  Then the invariants of a call that *)
(* reads piece by piece, and of the canary beside it.                      *)
(***************************************************************************)
EXTENDS LocalReaders, FiniteSetTheorems, SequenceTheorems, TLAPS

(***************************************************************************)
(* Freshness (registry/freshness.py).                                      *)
(***************************************************************************)
\* Days are counted in the time of Riyadh (_business_days_between).
LEMMA RiyadhDays ==
  ASSUME NEW a \in Nat, NEW b \in Nat, a <= b
  PROVE  RiyadhDay(a) \in Nat /\ RiyadhDay(b) \in Nat /\ RiyadhDay(a) <= RiyadhDay(b)
  BY DEF RiyadhDay

\* A later hour is on the same day or on a later one.
LEMMA DaysGrow ==
  ASSUME NEW a \in Nat, NEW b \in Nat, a <= b
  PROVE  a \div 24 \in Nat /\ b \div 24 \in Nat /\ a \div 24 <= b \div 24
  OBVIOUS

\* The business days after a copy was written only become more.
LEMMA BusinessDaysGrow ==
  ASSUME NEW w \in Nat, NEW a \in Nat, NEW b \in Nat, a <= b
  PROVE  /\ BusinessDays(w, a) \in Nat /\ BusinessDays(w, b) \in Nat
         /\ BusinessDays(w, a) <= BusinessDays(w, b)
<1> DEFINE days(t) == {day \in RiyadhDay(w) + 1 .. RiyadhDay(t) : IsBusinessDay(day)}
<1>1. RiyadhDay(w) \in Nat /\ RiyadhDay(a) \in Nat /\ RiyadhDay(b) \in Nat
      /\ RiyadhDay(a) <= RiyadhDay(b)
  BY RiyadhDays
<1>2. IsFiniteSet(RiyadhDay(w) + 1 .. RiyadhDay(b))
  BY <1>1, FS_Interval
<1>3. IsFiniteSet(days(b))
  BY <1>2, FS_Subset
<1>4. days(a) \subseteq days(b)
  BY <1>1
<1>5. /\ IsFiniteSet(days(a)) /\ Cardinality(days(a)) <= Cardinality(days(b))
      /\ Cardinality(days(a)) \in Nat /\ Cardinality(days(b)) \in Nat
  BY <1>3, <1>4, FS_Subset, FS_CardinalityType
<1> QED
  BY <1>5 DEF BusinessDays

\* A window that has closed stays closed.
LEMMA WindowsClose ==
  ASSUME NEW w \in Nat, NEW a \in Nat, NEW b \in Nat, a <= b,
         NEW frequency \in Frequencies, HasWindow(frequency),
         ~WithinWindow(frequency, w, a)
  PROVE  ~WithinWindow(frequency, w, b)
<1>1. CASE frequency = "daily"
  BY <1>1, BusinessDaysGrow DEF WithinWindow
<1>2. CASE frequency # "daily"
  <2>1. WindowDays(frequency) \in Nat
    BY <1>2 DEF Frequencies, HasWindow, WindowDays
  <2>2. Age(w, a) \in Nat /\ Age(w, b) \in Nat /\ Age(w, a) <= Age(w, b)
    BY DEF Age
  <2> QED
    BY <1>2, <2>1, <2>2 DEF WithinWindow
<1> QED
  BY <1>1, <1>2

\* So a stale label stays (evaluate_freshness).
LEMMA LabelStaysStale ==
  ASSUME NEW w \in Nat, NEW a \in Nat, NEW b \in Nat, a <= b,
         NEW frequency \in Frequencies, LabelOf(frequency, w, a) = "stale"
  PROVE  LabelOf(frequency, w, b) = "stale"
<1>1. HasWindow(frequency) /\ ~WithinWindow(frequency, w, a)
  BY Zenon DEF LabelOf
<1>2. ~WithinWindow(frequency, w, b)
  BY <1>1, WindowsClose
<1> QED
  BY <1>1, <1>2 DEF LabelOf

\* One midnight in Riyadh passes within 24 hours.
LEMMA DayOldIsFresh ==
  ASSUME NEW w \in Nat, NEW t \in Nat, t - w <= 24
  PROVE  LabelOf("daily", w, t) = "fresh"
<1> DEFINE days == {day \in RiyadhDay(w) + 1 .. RiyadhDay(t) : IsBusinessDay(day)}
<1>1. RiyadhDay(w) \in Nat /\ RiyadhDay(t) \in Int /\ RiyadhDay(t) <= RiyadhDay(w) + 1
  BY DEF RiyadhDay
<1>2. days \subseteq {RiyadhDay(w) + 1}
  BY <1>1
<1>3. Cardinality(days) <= 1
  <2>1. IsFiniteSet({RiyadhDay(w) + 1}) /\ Cardinality({RiyadhDay(w) + 1}) = 1
    BY FS_Singleton
  <2>2. days \in SUBSET {RiyadhDay(w) + 1}
    BY <1>2
  <2> HIDE DEF days
  <2> QED
    BY <2>1, <2>2, FS_Subset
<1>4. WithinWindow("daily", w, t)
  BY <1>3 DEF WithinWindow, BusinessDays
<1> QED
  BY <1>4 DEF LabelOf, HasWindow

\* Of four days in a row two are business days.
LEMMA FourDaysOldIsStale ==
  ASSUME NEW w \in Nat, NEW t \in Nat, t - w >= 96
  PROVE  LabelOf("daily", w, t) = "stale"
<1> DEFINE first == RiyadhDay(w)
           days == {day \in first + 1 .. RiyadhDay(t) : IsBusinessDay(day)}
<1>1. first \in Nat /\ RiyadhDay(t) \in Nat /\ RiyadhDay(t) >= first + 4
  BY DEF RiyadhDay
<1>2. PICK a \in days, b \in days : a # b
  <2> SUFFICES \E a, b \in first + 1 .. first + 4 : a # b /\ IsBusinessDay(a) /\ IsBusinessDay(b)
    BY <1>1
  <2> HIDE DEF first
  <2>1. CASE first % 7 \in {0, 1, 5, 6}
    <3>1. (first + 1) % 7 \notin {4, 5} /\ (first + 2) % 7 \notin {4, 5}
      BY <1>1, <2>1
    <3> QED
      BY <1>1, <3>1 DEF IsBusinessDay
  <2>2. CASE first % 7 = 2
    <3>1. (first + 1) % 7 \notin {4, 5} /\ (first + 4) % 7 \notin {4, 5}
      BY <1>1, <2>2
    <3> QED
      BY <1>1, <3>1 DEF IsBusinessDay
  <2>3. CASE first % 7 = 3
    <3>1. (first + 3) % 7 \notin {4, 5} /\ (first + 4) % 7 \notin {4, 5}
      BY <1>1, <2>3
    <3> QED
      BY <1>1, <3>1 DEF IsBusinessDay
  <2>4. CASE first % 7 = 4
    <3>1. (first + 2) % 7 \notin {4, 5} /\ (first + 3) % 7 \notin {4, 5}
      BY <1>1, <2>4
    <3> QED
      BY <1>1, <3>1 DEF IsBusinessDay
  <2> QED
    BY <1>1, <2>1, <2>2, <2>3, <2>4
<1> HIDE DEF days
<1>3. IsFiniteSet(days)
  <2>1. IsFiniteSet(first + 1 .. RiyadhDay(t))
    BY <1>1, FS_Interval
  <2>2. days \in SUBSET (first + 1 .. RiyadhDay(t))
    BY DEF days
  <2> QED
    BY <2>1, <2>2, FS_Subset
<1>4. Cardinality({a, b}) = 2
  <2>1. IsFiniteSet({a}) /\ Cardinality({a}) = 1 /\ b \notin {a}
    BY <1>2, FS_Singleton
  <2>2. Cardinality({a} \cup {b}) = 2
    BY <2>1, FS_AddElement
  <2>3. {a} \cup {b} = {a, b}
    OBVIOUS
  <2> QED
    BY <2>2, <2>3
<1>5. Cardinality(days) \in Nat /\ 2 <= Cardinality(days)
  <2>1. {a, b} \in SUBSET days
    BY <1>2
  <2> QED
    BY <2>1, <1>3, <1>4, FS_Subset, FS_CardinalityType
<1>6. ~WithinWindow("daily", w, t)
  BY <1>5 DEF WithinWindow, BusinessDays, days
<1> QED
  BY <1>6 DEF LabelOf, HasWindow
-----------------------------------------------------------------------------
(***************************************************************************)
(* The recency of the observations (normalization/recency.py).             *)
(***************************************************************************)
\* A finite set of numbers that is not empty has a greatest one: of the sets of
\* numbers above an element one is minimal, and it is empty.
LEMMA GreatestExists ==
  ASSUME NEW K, K \subseteq Int, IsFiniteSet(K), K # {}
  PROVE  Max(K) \in K
<1> DEFINE above == [x \in K |-> {y \in K : y > x}]
           T == {above[x] : x \in K}
<1>1. IsWellFoundedOn(StrictSubsetOrdering(K), SUBSET K)
  BY FS_StrictSubsetOrderingWellFounded, FS_FiniteSubsetsOfFinite
<1>2. T \subseteq SUBSET K /\ T # {}
  OBVIOUS
<1>3. PICK A \in T : \A B \in T : ~ (<<B, A>> \in StrictSubsetOrdering(K))
  <2> HIDE DEF T
  <2> QED
    BY <1>1, <1>2, WFMin
<1>4. PICK x \in K : A = above[x]
  BY <1>3
<1>5. ASSUME NEW y \in K, y > x PROVE FALSE
  <2>1. above[y] \in T /\ y \in above[x] /\ y \notin above[y]
    BY <1>5
  <2>2. ASSUME NEW z \in above[y] PROVE z \in above[x]
    <3>1. z \in K /\ z > y
      BY <2>2
    <3>2. z > x
      BY <1>5, <3>1
    <3> QED
      BY <3>1, <3>2
  <2>3. above[x] \in SUBSET K /\ above[y] \in SUBSET K
    OBVIOUS
  <2>4. <<above[y], above[x]>> \in StrictSubsetOrdering(K)
    <3> HIDE DEF above
    <3> QED
      BY <2>1, <2>2, <2>3 DEF StrictSubsetOrdering
  <2> QED
    BY <2>1, <2>4, <1>3, <1>4
<1>6. \A y \in K : x >= y
  BY <1>5
<1> QED
  BY <1>6 DEF Max

\* What a function makes of a finite set is finite: the elements counted, and the
\* function applied to each.
LEMMA ImageIsFinite ==
  ASSUME NEW S, IsFiniteSet(S), NEW f, DOMAIN f = S
  PROVE  IsFiniteSet({f[x] : x \in S})
<1> DEFINE T == {f[x] : x \in S}
<1>1. PICK n \in Nat : ExistsSurjection(1..n, S)
  BY FS_NatSurjection
<1>2. PICK s \in [1..n -> S] : \A x \in S : \E i \in 1..n : s[i] = x
  BY <1>1 DEF ExistsSurjection, Surjection
<1> DEFINE t == [i \in 1..n |-> f[s[i]]]
<1>3. t \in [1..n -> T] /\ \A y \in T : \E i \in 1..n : t[i] = y
  BY <1>2
<1>4. ExistsSurjection(1..n, T)
  <2> HIDE DEF t, T
  <2> QED
    BY <1>3 DEF ExistsSurjection, Surjection
<1> QED
  BY <1>4, FS_NatSurjection

\* The candidate field is one with readable values, the latest of which is a
\* number.
LEMMA LatestIsANumber ==
  ASSUME NEW records, IsFiniteSet(records),
         \A r \in records : \A f \in DOMAIN r : r[f] \in Int,
         Dated(records) # {}
  PROVE  Latest(records) \in Int
<1> DEFINE D == Dated(records)
<1>1. D \in SUBSET Int
  BY DEF Dated, FieldPriority
<1>2. \E i \in D : \A j \in D : i <= j
  <2>1. \A i \in D : i \in Int /\ 1 <= i /\ i <= 7
    BY DEF Dated, FieldPriority
  <2>2. D # {}
    OBVIOUS
  <2> HIDE DEF D
  <2>3. CASE 1 \in D \/ 2 \in D \/ 3 \in D
    BY <2>1, <2>3
  <2>4. CASE D \cap {1, 2, 3} = {}
    BY <2>1, <2>2, <2>4
  <2> QED
    BY <2>3, <2>4
<1>3. Min(D) \in D
  BY <1>2 DEF Min
<1> DEFINE field == CandidateField(records)
           K == KeysOf(records, field)
           S == {r \in records : field \in DOMAIN r}
           g == [r \in S |-> r[field]]
<1>4. K # {}
  BY <1>3 DEF CandidateField, Dated
<1>5. K \in SUBSET Int
  BY DEF KeysOf
<1>6. IsFiniteSet(S)
  BY FS_Subset
<1>7. IsFiniteSet({g[r] : r \in S})
  BY <1>6, ImageIsFinite
<1>8. K \in SUBSET {g[r] : r \in S}
  BY DEF KeysOf
<1>9. IsFiniteSet(K)
  BY <1>7, <1>8, FS_Subset
<1> HIDE DEF K
<1>10. Max(K) \in Int
  BY <1>4, <1>5, <1>9, GreatestExists
<1> QED
  BY <1>10 DEF Latest, K

\* Months, quarters and years are counted forwards across the turn of a year.
LEMMA CalendarGrows ==
  ASSUME NEW a \in Nat, NEW b \in Nat, a <= b
  PROVE  /\ MonthKey(a) \in Nat /\ MonthKey(b) \in Nat /\ MonthKey(a) <= MonthKey(b)
         /\ YearOf(a) \in Int /\ YearOf(b) \in Int /\ YearOf(a) <= YearOf(b)
         /\ QuarterKey(a) \in Int /\ QuarterKey(b) \in Int
         /\ QuarterKey(a) <= QuarterKey(b)
<1> DEFINE begun(t) == {i \in DOMAIN MonthStarts : MonthStarts[i] <= t}
<1>1. /\ DOMAIN MonthStarts = 1..Len(MonthStarts) /\ Len(MonthStarts) \in Nat
      /\ \A i \in DOMAIN MonthStarts : MonthStarts[i] \in Nat
  BY CalendarAssumption
<1>2. IsFiniteSet(DOMAIN MonthStarts)
  BY <1>1, FS_Interval
<1>3. begun(a) \subseteq begun(b)
  BY <1>1
<1>4. IsFiniteSet(begun(b)) /\ IsFiniteSet(begun(a))
  BY <1>2, FS_Subset
<1>5. /\ Cardinality(begun(a)) \in Nat /\ Cardinality(begun(b)) \in Nat
      /\ Cardinality(begun(a)) <= Cardinality(begun(b))
  BY <1>3, <1>4, FS_Subset, FS_CardinalityType
<1>6. MonthKey(a) \in Nat /\ MonthKey(b) \in Nat /\ MonthKey(a) <= MonthKey(b)
      /\ MonthKey(a) >= 1 /\ MonthKey(b) >= 1
  BY <1>5 DEF MonthKey
<1>7. YearOf(a) \in Int /\ YearOf(b) \in Int /\ YearOf(a) <= YearOf(b)
  BY <1>6 DEF YearOf
<1>8. ASSUME NEW t \in {a, b} PROVE QuarterKey(t) = (MonthKey(t) - 1) \div 3 + 1
  <2> DEFINE j == MonthKey(t) - 1  y == j \div 12
  <2>1. j \in Nat
    BY <1>6, <1>8
  <2> HIDE DEF j
  <2>2. 4 * y + (j - 12 * y) \div 3 = j \div 3
    BY <2>1
  <2>3. MonthKey(t) - 12 * YearOf(t) - 1 = j - 12 * y
    BY <2>1, <1>6, <1>8 DEF j, YearOf
  <2> QED
    BY <2>2, <2>3 DEF QuarterKey, MonthOf, YearOf, j
<1>9. QuarterKey(a) \in Int /\ QuarterKey(b) \in Int /\ QuarterKey(a) <= QuarterKey(b)
  BY <1>6, <1>8
<1> QED
  BY <1>6, <1>7, <1>9

\* An observation that was too old stays too old.
LEMMA RecencyStaysStale ==
  ASSUME NEW a \in Nat, NEW b \in Nat, a <= b, NEW frequency \in Frequencies,
         NEW records, IsFiniteSet(records),
         \A r \in records : \A f \in DOMAIN r : r[f] \in Int,
         RecencyOf(records, frequency, a) = "stale"
  PROVE  RecencyOf(records, frequency, b) = "stale"
<1> DEFINE kind == KindOf(CandidateField(records))
<1>1. Dated(records) # {}
  BY DEF RecencyOf
<1>2. Supported(kind, frequency) /\ frequency \notin {"ad_hoc", "unspecified"}
  BY <1>1 DEF RecencyOf
<1>3. Latest(records) < OldestAllowed(frequency, a)
  BY <1>1, <1>2 DEF RecencyOf
<1>4. Latest(records) \in Int
  BY <1>1, LatestIsANumber
<1>5. frequency \in {"daily", "weekly", "monthly", "quarterly", "annual"}
  BY <1>2 DEF Frequencies
<1>6. /\ OldestAllowed(frequency, a) \in Int /\ OldestAllowed(frequency, b) \in Int
      /\ OldestAllowed(frequency, a) <= OldestAllowed(frequency, b)
  BY <1>5, CalendarGrows DEF OldestAllowed
<1>7. Latest(records) < OldestAllowed(frequency, b)
  BY <1>3, <1>4, <1>6
<1> QED
  BY <1>1, <1>2, <1>7 DEF RecencyOf
-----------------------------------------------------------------------------
(***************************************************************************)
(* The invariants of a behaviour.  WorldInv is about what the tools read,  *)
(* and what the canary has fetched.  CallInv says that what a call keeps   *)
(* between two reads was read since it began, and ReadersInv that it       *)
(* witnesses every change.  All are stated of values, of a call c or of a  *)
(* copy f at a time, so that the lemmas about them speak of no step.       *)
(***************************************************************************)
HealthStatuses == {"unknown", "degraded", "healthy"}

\* A row is as seeding and the upserts leave it.
IsRow(r) ==
  /\ r \in [there : BOOLEAN, coverage : Coverages \cup {"unavailable"},
            frequency : Frequencies, status : HealthStatuses]
  /\ r.there => r.coverage \in Coverages
  /\ ~r.there => r = NoRow

\* A copy is what a store made of a payload of the source, or older than that.
IsCopy(f, d, time) ==
  f # NoFile =>
    /\ f.there
    /\ f.written \in Nat /\ f.written <= time
    /\ WellFormed(f.payload)
    /\ f.fetched # NoPayload =>
         f.fetched \in PayloadsOf(d) /\ f.payload = WithMetadata(d, f.fetched, FALSE)

Judged(d, payload) ==
  LET result == Normalize(d, payload)
  IN  IF result.status = "record_derivable" /\ Len(result.records) >= MinimumRecords
      THEN "healthy" ELSE "degraded"

CanaryInv ==
  /\ canary = [pc |-> canary.pc, payload |-> canary.payload, verdict |-> canary.verdict]
  /\ canary.pc \in {"idle", "seed", "check", "persist", "done"}
  /\ canary.pc # "idle" => dataset \in CanaryDatasets
  /\ canary.pc \in {"check", "persist", "done"} => row.there
  /\ canary.pc = "persist" => canary.verdict \in {"healthy", "degraded"}
  /\ canary.payload # NoPayload =>
       /\ canary.pc \in {"persist", "done"}
       /\ canary.payload \in PayloadsOf(dataset)
       /\ canary.verdict = Judged(dataset, canary.payload)

WorldInv ==
  /\ dataset \in Datasets
  /\ clock \in Instants
  /\ IsCopy(file, dataset, clock)
  /\ IsRow(row)
  /\ health # "none" => health = row.status
  /\ CanaryInv

\* What could be read since the call began.
CallWitnesses(c, d, time) ==
  c.pc # "idle" =>
    /\ c.held = [rows |-> c.held.rows, files |-> c.held.files, since |-> c.held.since]
    /\ c.held.since \in Instants /\ c.held.since <= time
    /\ \A r \in c.held.rows : IsRow(r)
    /\ \A f \in c.held.files : IsCopy(f, d, time)

LabelsOf(held, time) ==
  {IF f.there THEN LabelOf(r.frequency, f.written, t) ELSE "missing" :
     f \in held.files, r \in held.rows, t \in {u \in Instants : held.since <= u /\ u <= time}}
StatusesOf(held) == {r.status : r \in held.rows}

\* The parts of an answer (what PartsHeldDuringCall says of the one delivered).
AnswerHeld(a, held, time) ==
  /\ a.status = "missing" => NoRow \in held.rows
  /\ a.status \in {"snapshot_missing", "artifact_missing"} => NoFile \in held.files
  /\ a.status = "found" => a.health \in StatusesOf(held)
  /\ a.status \in {"found", "available"} => \E r \in held.rows : r.coverage = a.coverage
  /\ a.freshness # "none" => a.freshness \in LabelsOf(held, time)

IsAnswer(a) ==
  a = Answer(a.status, a.coverage, a.freshness, a.recency, a.total, a.why, a.health)

CallFields(c) ==
  /\ c = [tool |-> c.tool, pc |-> c.pc, row |-> c.row, status |-> c.status, now |-> c.now,
          label |-> c.label, copy |-> c.copy, answer |-> c.answer, held |-> c.held]
  /\ IsAnswer(c.answer)

\* The steps of each tool.
CallPlace(c) ==
  /\ c.tool \in Tools \cup {"export health"}
  /\ c.pc \in {"idle", "lookup", "health", "time", "check", "read", "assess", "done"}
  /\ c.tool = "export" => c.pc # "done"
  /\ c.pc = "health" => c.tool \in {"health", "export health"}
  /\ c.pc \in {"time", "check"} => c.tool \notin {"metadata", "search"}
  /\ c.pc \in {"read", "assess"} => c.tool \in {"query", "export"}

\* What it has read at each of them, and the answer of a query, its own or the
\* one an export goes on from to health.
CallReads(c, time) ==
  /\ c.pc \in {"health", "time", "check", "read", "assess"} =>
       c.row \in c.held.rows /\ c.row.there
  /\ (c.pc \in {"time", "check"} /\ c.tool \in {"health", "export health"}) =>
       c.status \in StatusesOf(c.held)
  /\ c.pc = "check" =>
       c.now \in Instants /\ c.held.since <= c.now /\ c.now <= time
  /\ c.pc \in {"read", "assess"} => c.label \in LabelsOf(c.held, time)
  /\ c.pc = "assess" => c.copy.there
  /\ (c.pc = "done" \/ (c.pc # "idle" /\ c.tool = "export health")) =>
       AnswerHeld(c.answer, c.held, time) /\ c.answer.status # "raised"

\* The answer of a query follows from the copy it read.
Answerable(d, payload) ==
  LET read == WithMetadata(d, payload, TRUE)
  IN  read.readable /\ Normalize(d, read).status = "record_derivable"
CallCopy(c, d) ==
  /\ c.copy # NoFile => c.pc \in {"assess", "done"} /\ c.copy \in c.held.files
  /\ (c.pc = "done" /\ c.tool = "query" /\ c.copy # NoFile /\ c.row.coverage = "queryable") =>
       (c.answer.status = "success" <=> Answerable(d, c.copy.payload))

CallInv(c, d, time) ==
  /\ CallFields(c) /\ CallPlace(c)
  /\ CallWitnesses(c, d, time) /\ CallReads(c, time) /\ CallCopy(c, d)

\* A call in progress is a witness of every change.
ReadersInv ==
  /\ WorldInv
  /\ CallInv(reader, dataset, clock)
  /\ reader.pc # "idle" => row \in reader.held.rows /\ file \in reader.held.files
-----------------------------------------------------------------------------
(***************************************************************************)
(* What normalization makes of a payload (normalization/pipeline.py).      *)
(***************************************************************************)
LEMMA Kinds ==
  ASSUME NEW p, WellFormed(p)
  PROVE  /\ KindOfBody(p) \in {"none", "json", "html", "text"}
         /\ KindOfBody(p) = "json" => p.body.json \in {"dict", "list"}
  BY DEF WellFormed, KindOfBody

\* A mapping is never rejected: it has rows of a shape that fits, or says what
\* limits it.
LEMMA MappingsAreAccepted ==
  ASSUME NEW p, WellFormed(p), NEW d
  PROVE  LET mapping == FieldMapping(d, p)
             verdict == Validation(mapping, p.body)
         IN  \/ mapping = FailedMapping
             \/ /\ ~mapping.failed
                /\ verdict = "limited" /\ mapping.limitations # {}
             \/ /\ ~mapping.failed
                /\ verdict = "record_derivable" /\ mapping.rows = p.body.extracted.rows
                /\ p.body.shape # "none" \/ p.body.extracted.status = "rows"
<1> DEFINE kind == KindOfBody(p)
<1>k. kind \in {"none", "json", "html", "text"}
  BY Kinds
<1>w. /\ p.body.extracted.status \in {"rows", "none", "invalid", "raised"}
      /\ p.body.shape \in {"none", "rows", "top level"}
      /\ p.body.shape = "top level" => p.body.json = "list"
  BY DEF WellFormed, WellFormedBody
<1> HIDE DEF kind
<1>1. ASSUME NEW limitations
      PROVE  LET mapping == LimitedMapping(kind, limitations)
             IN  /\ ~mapping.failed /\ mapping.limitations # {}
                 /\ Validation(mapping, p.body) = "limited"
  BY <1>k DEF LimitedMapping, Mapping, GenericLimitation, Validation, IsLimitedMapping
<1> DEFINE rows == p.body.extracted.rows
           extracted == Mapping(kind, "rows", "rows", {}, rows)
           generic == Mapping(kind, "raw", p.body.shape, {}, rows)
<1>2. /\ ~extracted.failed /\ extracted.rows = rows
      /\ Validation(extracted, p.body) = "record_derivable"
  <2>1. DerivableMapping(extracted, p.body)
    <3>1. extracted.derivable
      BY DEF Mapping
    <3>2. /\ extracted.limitations = {} /\ extracted.structured = "rows"
          /\ extracted.shape = "rows"
      BY DEF Mapping
    <3> HIDE DEF extracted
    <3> QED
      BY <3>1, <3>2 DEF DerivableMapping, ShapeFits
  <2>2. extracted.shape # "none"
    BY DEF Mapping
  <2> HIDE DEF extracted
  <2>3. Validation(extracted, p.body) = "record_derivable"
    BY <2>1, <2>2 DEF Validation, IsLimitedMapping
  <2> QED
    BY <2>3 DEF extracted, Mapping
<1>6. ASSUME kind = "json", p.body.shape # "none"
      PROVE  /\ ~generic.failed /\ generic.rows = rows
             /\ Validation(generic, p.body) = "record_derivable"
  <2>1. DerivableMapping(generic, p.body)
    <3>1. generic.derivable
      BY <1>6 DEF Mapping
    <3>2. /\ generic.limitations = {} /\ generic.structured = "raw"
          /\ generic.shape = p.body.shape
      BY DEF Mapping
    <3> HIDE DEF generic
    <3> QED
      BY <1>w, <1>6, <3>1, <3>2 DEF DerivableMapping, ShapeFits
  <2>2. generic.shape # "none"
    BY <1>6 DEF Mapping
  <2> HIDE DEF generic
  <2>3. Validation(generic, p.body) = "record_derivable"
    BY <2>1, <2>2 DEF Validation, IsLimitedMapping
  <2> QED
    BY <2>3 DEF generic, Mapping
<1>3. ASSUME kind # "none"
      PROVE  \/ FieldMapping(d, p) = FailedMapping
             \/ \E limitations : FieldMapping(d, p) = LimitedMapping(kind, limitations)
             \/ /\ p.body.extracted.status = "rows"
                /\ FieldMapping(d, p) = Mapping(kind, "rows", "rows", {}, p.body.extracted.rows)
             \/ /\ kind = "json" /\ p.body.shape # "none"
                /\ FieldMapping(d, p)
                     = Mapping(kind, "raw", p.body.shape, {}, p.body.extracted.rows)
  <2>1. CASE Compatibility(d, p) # {}
    BY <1>3, <2>1 DEF FieldMapping, kind
  <2>2. CASE Compatibility(d, p) = {} /\ HasExtractor(d, kind, p.body.json)
    <3>1. FieldMapping(d, p) = ExtractedMapping(kind, p.body.extracted)
      BY <1>3, <2>2 DEF FieldMapping, kind
    <3> QED
      BY <1>w, <3>1 DEF ExtractedMapping
  <2>3. CASE Compatibility(d, p) = {} /\ ~HasExtractor(d, kind, p.body.json)
    <3>1. FieldMapping(d, p) = GenericMapping(kind, p.body)
      BY <1>3, <2>3 DEF FieldMapping, kind
    <3> QED
      BY <3>1 DEF GenericMapping
  <2> QED
    BY <2>1, <2>2, <2>3
<1>4. CASE kind = "none"
  BY <1>4 DEF FieldMapping, kind
<1>5. CASE kind # "none"
  <2>1. CASE \E limitations : FieldMapping(d, p) = LimitedMapping(kind, limitations)
    BY <1>1, <2>1
  <2>2. CASE /\ p.body.extracted.status = "rows"
             /\ FieldMapping(d, p) = Mapping(kind, "rows", "rows", {}, p.body.extracted.rows)
    BY <1>2, <2>2
  <2>3. CASE /\ kind = "json" /\ p.body.shape # "none"
             /\ FieldMapping(d, p)
                  = Mapping(kind, "raw", p.body.shape, {}, p.body.extracted.rows)
    BY <1>6, <2>3
  <2> QED
    BY <1>3, <1>5, <2>1, <2>2, <2>3
<1> QED
  BY <1>4, <1>5

\* What the pipeline says of a payload: its validation rejects nothing that the
\* mapping let through, a limited payload says why, and records are its rows.
LEMMA NormalizeOutcome ==
  ASSUME NEW p, WellFormed(p), NEW d
  PROVE  LET result == Normalize(d, p)
         IN  /\ result.status \in {"failed", "limited", "record_derivable"}
             /\ result.stage # "validation"
             /\ result.status = "limited" => result.limitations # {}
             /\ result.status = "record_derivable" =>
                  /\ result.records = p.body.extracted.rows
                  /\ p.body.shape # "none" \/ p.body.extracted.status = "rows"
             /\ Len(result.records) \in Nat
<1>1. Len(p.body.extracted.rows) \in Nat /\ Len(<<>>) \in Nat
  <2> DEFINE rows == p.body.extracted.rows
  <2>1. rows \in Seq({rows[i] : i \in DOMAIN rows})
    BY DEF WellFormed, WellFormedBody
  <2> HIDE DEF rows
  <2>2. Len(rows) \in Nat
    BY <2>1, LenProperties
  <2> QED
    BY <2>2 DEF rows
<1> DEFINE mapping == FieldMapping(d, p)
           verdict == Validation(mapping, p.body)
<1>2. CASE mapping = FailedMapping
  <2>1. mapping.failed
    BY <1>2 DEF FailedMapping
  <2> QED
    BY <1>1, <2>1 DEF Normalize, Normalized
<1>3. CASE /\ ~mapping.failed
           /\ verdict = "limited" /\ mapping.limitations # {}
  BY <1>1, <1>3 DEF Normalize, Normalized
<1>4. CASE /\ ~mapping.failed
           /\ verdict = "record_derivable" /\ mapping.rows = p.body.extracted.rows
           /\ p.body.shape # "none" \/ p.body.extracted.status = "rows"
  BY <1>1, <1>4 DEF Normalize, Normalized
<1> QED
  BY <1>2, <1>3, <1>4, MappingsAreAccepted

\* Metadata is inferred from the body and read back as it was written, so a
\* payload normalizes as it did before it had any.
LEMMA MetadataKeepsTheRest ==
  ASSUME NEW p, WellFormed(p), NEW d, NEW legacy \in BOOLEAN
  PROVE  LET q == WithMetadata(d, p, legacy)
         IN  /\ WellFormed(q)
             /\ q.body = p.body /\ q.type = p.type /\ q.intact = p.intact
             /\ q.readable = p.readable
<1> DEFINE q == WithMetadata(d, p, legacy)
<1>p. /\ p = [type |-> p.type, body |-> p.body, metadata |-> p.metadata,
              intact |-> p.intact, readable |-> p.readable]
      /\ p.type \in {"json", "html", "text"} /\ p.intact \in BOOLEAN /\ p.readable \in BOOLEAN
      /\ p.metadata \in [version : Int, format : {"bundle", "legacy html", "none"}]
  BY DEF WellFormed, WellFormedBody
<1> DEFINE m == IF p.metadata = NoMetadata
                THEN Metadata(IF legacy THEN LegacyVersion ELSE CurrentVersion,
                              InferredFormat(d, p))
                ELSE Metadata(p.metadata.version,
                              IF p.metadata.format = "none" THEN InferredFormat(d, p)
                              ELSE p.metadata.format)
<1>m. m \in [version : Int, format : {"bundle", "legacy html", "none"}]
  <2>1. InferredFormat(d, p) \in {"bundle", "legacy html", "none"}
    BY DEF InferredFormat
  <2>2. CASE p.metadata = NoMetadata
    <3>1. (IF legacy THEN LegacyVersion ELSE CurrentVersion) \in Int
      BY DEF LegacyVersion, CurrentVersion
    <3> QED
      BY <2>1, <2>2, <3>1 DEF Metadata
  <2>3. CASE p.metadata # NoMetadata
    BY <1>p, <2>1, <2>3 DEF Metadata
  <2> QED
    BY <2>2, <2>3
<1>e. q = [p EXCEPT !.metadata = m]
  BY Zenon DEF WithMetadata
<1> HIDE DEF q, m
<1>q. q = [type |-> p.type, body |-> p.body, metadata |-> m,
           intact |-> p.intact, readable |-> p.readable]
  BY <1>p, <1>e
<1>2. /\ q.body = p.body /\ q.type = p.type /\ q.intact = p.intact
      /\ q.readable = p.readable /\ q.metadata = m
  BY <1>q
<1>1. q \in [type : {"json", "html", "text"}, body : {q.body},
             metadata : [version : Int, format : {"bundle", "legacy html", "none"}],
             intact : BOOLEAN, readable : BOOLEAN]
  BY <1>p, <1>m, <1>q
<1>3. WellFormed(q)
  BY <1>1, <1>2 DEF WellFormed
<1> QED
  BY <1>2, <1>3 DEF q

\* A payload normalizes the same with metadata and without (write_snapshot,
\* read_snapshot, _snapshot_compatibility_limitations).
LEMMA MetadataIsReadBack ==
  ASSUME NEW p, WellFormed(p), NEW d, NEW legacy \in BOOLEAN
  PROVE  Normalize(d, WithMetadata(d, p, legacy)) = Normalize(d, p)
<1> DEFINE q == WithMetadata(d, p, legacy)
           inferred == InferredFormat(d, p)
           completed(m, version) ==
             IF m = NoMetadata THEN Metadata(version, inferred)
             ELSE Metadata(m.version, IF m.format = "none" THEN inferred ELSE m.format)
           version == IF legacy THEN LegacyVersion ELSE CurrentVersion
           mq == WithMetadata(d, q, TRUE).metadata
           mp == WithMetadata(d, p, TRUE).metadata
<1>1. /\ WellFormed(q) /\ q.body = p.body /\ q.type = p.type /\ q.intact = p.intact
  BY MetadataKeepsTheRest
<1>2. (TooNew(mq) <=> TooNew(mp)) /\ mq.format = mp.format
  <2>1. ASSUME NEW x, WellFormed(x), NEW b \in BOOLEAN
        PROVE  WithMetadata(d, x, b).metadata =
                 IF x.metadata = NoMetadata
                 THEN Metadata(IF b THEN LegacyVersion ELSE CurrentVersion, InferredFormat(d, x))
                 ELSE Metadata(x.metadata.version,
                               IF x.metadata.format = "none" THEN InferredFormat(d, x)
                               ELSE x.metadata.format)
    BY <2>1 DEF WithMetadata, WellFormed
  <2>2. InferredFormat(d, q) = inferred
    BY <1>1 DEF InferredFormat
  <2>3. q.metadata = completed(p.metadata, version)
    BY <2>1, Zenon
  <2>4. mp = completed(p.metadata, LegacyVersion)
    BY <2>1, Zenon
  <2>5. mq = completed(q.metadata, LegacyVersion)
    BY <1>1, <2>1, <2>2, Zenon
  <2>6. p.metadata = Metadata(p.metadata.version, p.metadata.format)
    BY DEF WellFormed, Metadata
  <2>7. version \in {0, 1}
    BY DEF LegacyVersion, CurrentVersion
  <2> HIDE DEF q, mq, mp, inferred, version
  <2>8. CASE p.metadata = NoMetadata
    <3>1. q.metadata = Metadata(version, inferred)
      BY <2>3, <2>8
    <3>2. q.metadata # NoMetadata
      BY <2>7, <3>1 DEF Metadata, NoMetadata, LegacyVersion
    <3>3. mq = Metadata(version, inferred)
      BY <2>5, <3>1, <3>2 DEF Metadata
    <3>4. mp = Metadata(LegacyVersion, inferred)
      BY <2>4, <2>8
    <3> QED
      BY <2>7, <3>3, <3>4 DEF Metadata, TooNew, LegacyVersion, CurrentVersion
  <2>9. CASE p.metadata # NoMetadata
    <3>1. mp = q.metadata
      BY <2>3, <2>4, <2>9
    <3>2. q.metadata.version = p.metadata.version
          /\ q.metadata.format = (IF p.metadata.format = "none" THEN inferred
                                  ELSE p.metadata.format)
      BY <2>3, <2>9 DEF Metadata
    <3>3. q.metadata # NoMetadata
      BY <2>6, <2>9, <3>2 DEF Metadata, NoMetadata
    <3>4. mq.version = q.metadata.version
          /\ mq.format = (IF q.metadata.format = "none" THEN inferred ELSE q.metadata.format)
      BY <2>5, <3>3 DEF Metadata
    <3> QED
      BY <3>1, <3>2, <3>4 DEF TooNew
  <2> QED
    BY <2>8, <2>9
<1>3. Compatibility(d, q) = Compatibility(d, p)
  <2>1. (TooNew(mq) <=> TooNew(mp)) /\ mq.format = mp.format
    BY <1>2
  <2>2. Compatibility(d, q) =
          (CASE TooNew(mq) -> {"incompatible", "unsupported version"}
             [] ~TooNew(mq) /\ d = "exchange rates" /\ mq.format = "legacy html" ->
                  {"incompatible", "refresh required"}
             [] OTHER -> {})
    BY Zenon DEF Compatibility
  <2>3. Compatibility(d, p) =
          (CASE TooNew(mp) -> {"incompatible", "unsupported version"}
             [] ~TooNew(mp) /\ d = "exchange rates" /\ mp.format = "legacy html" ->
                  {"incompatible", "refresh required"}
             [] OTHER -> {})
    BY Zenon DEF Compatibility
  <2> HIDE DEF mq, mp
  <2> QED
    BY <2>1, <2>2, <2>3
<1>4. KindOfBody(q) = KindOfBody(p)
  BY <1>1 DEF KindOfBody
<1> HIDE DEF q
<1>5. FieldMapping(d, q) = FieldMapping(d, p)
  BY <1>1, <1>3, <1>4 DEF FieldMapping
<1>6. Normalize(d, q) = Normalize(d, p)
  BY <1>1, <1>5 DEF Normalize
<1> QED
  BY <1>6 DEF q

\* The canary's record of no payload is none that a source gives.
LEMMA NothingIsNoPayload ==
  ASSUME NEW p, WellFormed(p)
  PROVE  p # NoPayload
  BY DEF WellFormed, NoPayload, Payload
-----------------------------------------------------------------------------
(***************************************************************************)
(* The world: every step keeps rows, copies and the canary's fetch.        *)
(***************************************************************************)
LEMMA Payloads ==
  ASSUME NEW d \in Datasets
  PROVE  /\ \A p \in PayloadsOf(d) :
              WellFormed(p) /\ p.readable /\ p # NoPayload /\ WellFormed(WithMetadata(d, p, FALSE))
         /\ \A p \in StoredOf(d) : WellFormed(p)
         /\ \A descriptor \in DescriptorsOf(d) :
              descriptor \in [coverage : Coverages, frequency : Frequencies]
<1>1. ASSUME NEW p \in PayloadsOf(d)
      PROVE  WellFormed(p) /\ p.readable /\ p # NoPayload /\ WellFormed(WithMetadata(d, p, FALSE))
  <2>1. WellFormed(p) /\ p.readable
    BY SourcesAssumption
  <2> QED
    BY <2>1, NothingIsNoPayload, MetadataKeepsTheRest
<1> QED
  BY <1>1, SourcesAssumption

\* A stored payload is a copy (write_snapshot), also of one that was there before.
LEMMA StoredIsACopy ==
  ASSUME NEW d \in Datasets, NEW time \in Nat
  PROVE  /\ \A p \in PayloadsOf(d) : IsCopy(File(WithMetadata(d, p, FALSE), p, time), d, time)
         /\ \A p \in StoredOf(d) : IsCopy(File(p, NoPayload, time), d, time)
         /\ IsCopy(NoFile, d, time)
<1>0. \A payload, fetched :
        LET f == File(payload, fetched, time)
        IN  /\ f.there /\ f.payload = payload /\ f.fetched = fetched
            /\ f.written = time /\ f.written \in Nat /\ f.written <= time
  BY DEF File
<1>1. ASSUME NEW p \in PayloadsOf(d)
      PROVE  IsCopy(File(WithMetadata(d, p, FALSE), p, time), d, time)
  <2> DEFINE f == File(WithMetadata(d, p, FALSE), p, time)
  <2>1. /\ f.there /\ f.payload = WithMetadata(d, p, FALSE) /\ f.fetched = p
        /\ f.written = time /\ f.written \in Nat /\ f.written <= time
    BY <1>0
  <2>2. WellFormed(WithMetadata(d, p, FALSE))
    BY Payloads
  <2> HIDE DEF f
  <2>3. IsCopy(f, d, time)
    BY <2>1, <2>2 DEF IsCopy
  <2> QED
    BY <2>3 DEF f
<1>2. ASSUME NEW p \in StoredOf(d) PROVE IsCopy(File(p, NoPayload, time), d, time)
  <2>1. WellFormed(p)
    BY Payloads
  <2> QED
    BY <1>0, <2>1, Zenon DEF IsCopy
<1>3. IsCopy(NoFile, d, time)
  BY DEF IsCopy
<1> QED
  BY <1>1, <1>2, <1>3

\* A copy is still one when time has passed.
LEMMA CopiesStand ==
  ASSUME NEW f, NEW d, NEW time \in Nat, IsCopy(f, d, time),
         NEW later \in Nat, time <= later
  PROVE  IsCopy(f, d, later)
<1>1. ASSUME f # NoFile PROVE f.written \in Nat /\ f.written <= later
  <2>1. f.written \in Nat /\ f.written <= time
    BY <1>1 DEF IsCopy
  <2> QED
    BY <2>1
<1> QED
  BY <1>1, Zenon DEF IsCopy

\* Seeding a row and recording a status keep what a row is (seed_dataset,
\* upsert_health).
RowStands ==
  /\ IsRow(row')
  /\ health' # "none" => health' = row'.status

\* Seeding leaves a row with a status of its own or of its health row.
LEMMA SeedKeepsRows ==
  ASSUME WorldInv, Seed
  PROVE  RowStands /\ row'.there
<1>1. PICK d \in DescriptorsOf(dataset) :
        row' = RegistryRow(d, IF health = "none" THEN row.status ELSE health)
  BY DEF Seed
<1>2. d \in [coverage : Coverages, frequency : Frequencies]
  BY Payloads DEF WorldInv
<1>3. (IF health = "none" THEN row.status ELSE health) = row.status
      /\ row.status \in HealthStatuses
  BY DEF WorldInv, IsRow
<1>4. row' = RegistryRow(d, row.status)
  BY <1>1, <1>3
<1>5. IsRow(row') /\ row'.there
  BY <1>2, <1>3, <1>4 DEF RegistryRow, IsRow
<1>6. health' = row.status
  BY <1>3 DEF Seed
<1> QED
  BY <1>4, <1>5, <1>6 DEF RegistryRow, RowStands

\* Recording a status leaves the rest of the row (upsert_health).
LEMMA UpsertKeepsRows ==
  ASSUME IsRow(row), row.there, NEW status \in HealthStatuses, Upsert(status)
  PROVE  RowStands /\ row'.there
  BY DEF IsRow, Upsert, RowStands

\* A read changes nothing but the reader.
LEMMA ReadsOnlyRead ==
  ASSUME CallPlace(reader), Ask \/ Read
  PROVE  UNCHANGED <<dataset, clock, file, row, health, changes, canary>>
<1> DEFINE world == <<dataset, clock, file, row, health, changes, canary>>
<1> USE DEF ReaderStep, Answers
<1>1. CASE Ask
  BY <1>1 DEF Ask
<1>2. CASE LookUp
  <2>1. reader.tool \in {"metadata", "search"} \cup {"health", "export health"}
                        \cup {"query", "download", "export"}
    BY DEF CallPlace, Tools
  <2>2. CASE ~row.there
    BY <1>2, <2>2 DEF LookUp
  <2>3. CASE row.there /\ reader.tool \in {"metadata", "search"}
    BY <1>2, <2>3 DEF LookUp
  <2>4. CASE row.there /\ reader.tool \in {"health", "export health"}
    BY <1>2, <2>4 DEF LookUp
  <2>5. CASE row.there /\ reader.tool \in {"query", "download", "export"}
    BY <1>2, <2>5 DEF LookUp
  <2> QED
    BY <2>1, <2>2, <2>3, <2>4, <2>5
<1>3. CASE GetHealth \/ TakeTime \/ Return
  BY <1>3 DEF GetHealth, TakeTime, Return
<1>4. CASE CheckFile
  <2>1. reader.tool \in {"health", "export health"} \cup {"query", "download", "export"}
    BY <1>4 DEF CallPlace, CheckFile, Tools
  <2>2. CASE reader.tool \in {"health", "export health"}
    BY <1>4, <2>2 DEF CheckFile
  <2>3. CASE reader.tool = "download"
    BY <1>4, <2>3 DEF CheckFile
  <2>4. CASE reader.tool \in {"query", "export"}
    BY <1>4, <2>4 DEF CheckFile
  <2> QED
    BY <2>1, <2>2, <2>3, <2>4
<1>5. CASE ReadSnapshot
  BY <1>5 DEF ReadSnapshot
<1>6. CASE Assess
  BY <1>6 DEF Assess
<1>7. UNCHANGED world
  BY <1>1, <1>2, <1>3, <1>4, <1>5, <1>6 DEF Read
<1> QED
  BY <1>7 DEF world

\* What a step of the world keeps of time.
WorldAdvances ==
  /\ dataset' = dataset
  /\ clock \in Nat /\ clock' \in Nat /\ clock <= clock'
  /\ clock' \in Instants

\* The invariant of the world, and that rows are not taken away and time does not
\* run back, whatever step is taken.
LEMMA WorldStep ==
  ASSUME WorldInv, CallPlace(reader), [Next]_vars
  PROVE  WorldInv' /\ WorldAdvances
<1> USE DEF WorldInv
<1>t. clock \in Nat /\ \A t \in Instants : t \in Nat
  BY ReadersAssumption
<1>1. CASE UNCHANGED <<dataset, clock, file, row, health, canary>>
  BY <1>1, <1>t DEF WorldAdvances, CanaryInv
<1>2. CASE Tick
  <2>0. PICK t \in Instants : t > clock /\ clock' = t
    BY <1>2, Zenon DEF Tick
  <2>1. clock' \in Instants /\ clock <= clock' /\ clock' \in Nat
    BY <1>t, <2>0
  <2>2. IsCopy(file, dataset, clock')
    BY <1>t, <2>1, CopiesStand
  <2> QED
    BY <1>2, <1>t, <2>1, <2>2 DEF Tick, WorldAdvances, CanaryInv
<1>3. CASE StoreNewer
  <2>1. IsCopy(file', dataset, clock)
    BY <1>3, <1>t, StoredIsACopy DEF StoreNewer, Stored
  <2> QED
    BY <1>3, <1>t, <2>1 DEF StoreNewer, ChangeByAnother, WorldAdvances, CanaryInv
<1>4. CASE RecordHealth
  <2>1. RowStands /\ row'.there
    BY <1>4, UpsertKeepsRows DEF RecordHealth, HealthStatuses
  <2> QED
    BY <1>4, <1>t, <2>1
    DEF RecordHealth, ChangeByAnother, WorldAdvances, RowStands, CanaryInv
<1>5. CASE SeedByAnother
  <2>1. RowStands /\ row'.there
    BY <1>5, SeedKeepsRows DEF SeedByAnother
  <2> QED
    BY <1>5, <1>t, <2>1
    DEF SeedByAnother, Seed, ChangeByAnother, WorldAdvances, RowStands, CanaryInv
<1>6. CASE StartCanary
  <2>1. CanaryInv'
    BY <1>6 DEF StartCanary, CanaryState, CanaryInv
  <2> QED
    BY <1>6, <1>t, <2>1 DEF StartCanary, WorldAdvances
<1>7. CASE CanarySeeds
  <2>1. RowStands /\ row'.there
    BY <1>7, SeedKeepsRows DEF CanarySeeds
  <2>2. CanaryInv'
    BY <1>7, <2>1 DEF CanarySeeds, CanaryInv
  <2> QED
    BY <1>7, <1>t, <2>1, <2>2 DEF CanarySeeds, Seed, WorldAdvances, RowStands
<1>8. CASE CheckUpstream
  <2>0. /\ canary = [pc |-> canary.pc, payload |-> canary.payload, verdict |-> canary.verdict]
        /\ canary.payload = NoPayload /\ row.there /\ dataset \in CanaryDatasets
    BY <1>8 DEF CheckUpstream, CanaryInv
  <2>1. CanaryInv'
    <3>1. CASE canary' = [canary EXCEPT !.pc = "persist", !.verdict = "degraded"]
      <4>1. canary' = [pc |-> "persist", payload |-> NoPayload, verdict |-> "degraded"]
        BY <2>0, <3>1
      <4> QED
        BY <1>8, <2>0, <4>1 DEF CheckUpstream, CanaryInv
    <3>2. CASE \E payload \in PayloadsOf(dataset) :
                 canary' = [canary EXCEPT !.pc = "persist", !.payload = payload,
                              !.verdict = IF Passes(payload) THEN "healthy" ELSE "degraded"]
      <4>1. PICK payload \in PayloadsOf(dataset) :
              canary' = [pc |-> "persist", payload |-> payload,
                         verdict |-> Judged(dataset, payload)]
        BY <2>0, <3>2 DEF Judged, Passes
      <4>2. UNCHANGED <<dataset, row>>
        BY <1>8 DEF CheckUpstream
      <4>3. Judged(dataset, payload) \in {"healthy", "degraded"}
        BY DEF Judged
      <4> QED
        BY <2>0, <4>1, <4>2, <4>3 DEF CanaryInv
    <3> QED
      BY <1>8, <3>1, <3>2 DEF CheckUpstream
  <2>2. UNCHANGED <<dataset, clock, file, row, health>>
    BY <1>8, Zenon DEF CheckUpstream
  <2> QED
    BY <1>t, <2>1, <2>2 DEF WorldAdvances
<1>9. CASE Persist
  <2>1. RowStands /\ row'.there
    BY <1>9, UpsertKeepsRows DEF Persist, CanaryInv, HealthStatuses
  <2>2. CanaryInv'
    <3>1. canary' = [pc |-> "done", payload |-> canary.payload, verdict |-> canary.verdict]
      BY <1>9 DEF Persist, CanaryInv
    <3> QED
      BY <1>9, <2>1, <3>1 DEF Persist, CanaryInv
  <2> QED
    BY <1>9, <1>t, <2>1, <2>2 DEF Persist, WorldAdvances, RowStands
<1>10. CASE Ask \/ Read
  <2>1. UNCHANGED <<dataset, clock, file, row, health, canary>>
    BY <1>10, ReadsOnlyRead
  <2> QED
    BY <1>1, <2>1
<1>11. CASE UNCHANGED vars
  BY <1>1, <1>11 DEF vars
<1> QED
  BY <1>2, <1>3, <1>4, <1>5, <1>6, <1>7, <1>8, <1>9, <1>10, <1>11 DEF Next, Canary

\* Every deployment starts so.
LEMMA WorldInit ==
  ASSUME Init
  PROVE  WorldInv
<1>1. dataset \in Datasets /\ clock \in Instants /\ clock \in Nat
  BY ReadersAssumption DEF Init
<1>2. IsCopy(file, dataset, clock)
  BY <1>1, StoredIsACopy DEF Init
<1>3. IsRow(row) /\ (health # "none" => health = row.status)
  <2>1. CASE row = NoRow /\ health = "none"
    <3>1. NoRow \in [there : BOOLEAN, coverage : Coverages \cup {"unavailable"},
                     frequency : Frequencies, status : HealthStatuses]
      BY DEF NoRow, Frequencies, HealthStatuses
    <3>2. ~NoRow.there
      BY DEF NoRow
    <3> QED
      BY <2>1, <3>1, <3>2 DEF IsRow
  <2>2. CASE \E d \in DescriptorsOf(dataset) : \E status \in {"unknown", "degraded"} :
               row = RegistryRow(d, status) /\ health = status
    <3>1. PICK d \in DescriptorsOf(dataset), status \in {"unknown", "degraded"} :
            row = RegistryRow(d, status) /\ health = status
      BY <2>2
    <3>2. d \in [coverage : Coverages, frequency : Frequencies]
      BY <1>1, Payloads
    <3> QED
      BY <3>1, <3>2 DEF RegistryRow, IsRow, HealthStatuses
  <2> QED
    BY <2>1, <2>2 DEF Init
<1>4. CanaryInv
  BY DEF Init, CanaryState, CanaryInv
<1> QED
  BY <1>1, <1>2, <1>3, <1>4 DEF WorldInv

-----------------------------------------------------------------------------
(***************************************************************************)
(* A call: time goes on and changes are witnessed.                         *)
(***************************************************************************)
LEMMA LabelsGrow ==
  ASSUME NEW h, NEW h2, NEW time \in Nat, NEW later \in Nat, time <= later,
         h2.since = h.since, h.rows \subseteq h2.rows, h.files \subseteq h2.files
  PROVE  LabelsOf(h, time) \subseteq LabelsOf(h2, later)
<1>1. {u \in Instants : h.since <= u /\ u <= time}
        \subseteq {u \in Instants : h2.since <= u /\ u <= later}
  <2>1. \A u \in Instants : u \in Nat
    BY ReadersAssumption
  <2> QED
    BY <2>1
<1> DEFINE times(x, t) == {u \in Instants : x.since <= u /\ u <= t}
           label(f, r, t) == IF f.there THEN LabelOf(r.frequency, f.written, t) ELSE "missing"
<1>2. times(h, time) \subseteq times(h2, later)
  BY <1>1
<1>3. LabelsOf(h, time) = {label(f, r, t) : f \in h.files, r \in h.rows, t \in times(h, time)}
  BY DEF LabelsOf
<1>4. LabelsOf(h2, later)
        = {label(f, r, t) : f \in h2.files, r \in h2.rows, t \in times(h2, later)}
  BY DEF LabelsOf
<1> HIDE DEF times, label
<1> QED
  BY <1>2, <1>3, <1>4

\* What held during a call so far still does when the call has seen more.
LEMMA AnswersStand ==
  ASSUME NEW h, NEW h2, NEW time \in Nat, NEW later \in Nat, time <= later,
         h2.since = h.since, h.rows \subseteq h2.rows, h.files \subseteq h2.files,
         NEW a, AnswerHeld(a, h, time)
  PROVE  AnswerHeld(a, h2, later)
<1>1. LabelsOf(h, time) \subseteq LabelsOf(h2, later)
  BY LabelsGrow
<1>2. StatusesOf(h) \subseteq StatusesOf(h2)
  BY DEF StatusesOf
<1> QED
  BY <1>1, <1>2 DEF AnswerHeld

\* A call goes on when the world around it has moved.
LEMMA CallGoesOnInv ==
  ASSUME NEW c, NEW d, NEW time \in Nat, NEW later \in Nat, time <= later,
         CallInv(c, d, time), c.pc # "idle",
         NEW h, h = [rows |-> h.rows, files |-> h.files, since |-> c.held.since],
         c.held.rows \subseteq h.rows, c.held.files \subseteq h.files,
         \A r \in h.rows : IsRow(r), \A f \in h.files : IsCopy(f, d, later)
  PROVE  CallInv([c EXCEPT !.held = h], d, later)
<1> DEFINE e == [c EXCEPT !.held = h]
<1>1. e = [tool |-> c.tool, pc |-> c.pc, row |-> c.row, status |-> c.status, now |-> c.now,
           label |-> c.label, copy |-> c.copy, answer |-> c.answer, held |-> h]
  BY DEF CallInv, CallFields
<1>2. /\ e.tool = c.tool /\ e.pc = c.pc /\ e.row = c.row /\ e.status = c.status
      /\ e.now = c.now /\ e.label = c.label /\ e.copy = c.copy /\ e.answer = c.answer
      /\ e.held = h
  BY <1>1
<1>3. h.since = c.held.since
  OBVIOUS
<1>4. LabelsOf(c.held, time) \subseteq LabelsOf(h, later)
  BY <1>3, LabelsGrow
<1>5. StatusesOf(c.held) \subseteq StatusesOf(h)
  BY DEF StatusesOf
<1>6. \A a : AnswerHeld(a, c.held, time) => AnswerHeld(a, h, later)
  BY <1>3, AnswersStand
<1>7. \A u \in Instants : u \in Nat
  BY ReadersAssumption
<1> HIDE DEF e
<1>8. CallFields(e)
  BY <1>1, <1>2 DEF CallInv, CallFields
<1>9. CallPlace(e)
  BY <1>2 DEF CallInv, CallPlace
<1>10. CallWitnesses(e, d, later)
  <2>1. c.held.since \in Instants /\ c.held.since <= time
    BY DEF CallInv, CallWitnesses
  <2>2. h.since \in Instants /\ h.since <= later
    BY <1>3, <1>7, <2>1
  <2> QED
    BY <1>2, <1>3, <2>2 DEF CallWitnesses
<1>11. CallReads(e, later)
  <2>1. ASSUME c.pc = "check"
        PROVE  c.now \in Instants /\ h.since <= c.now /\ c.now <= later
    <3>1. c.now \in Instants /\ c.held.since <= c.now /\ c.now <= time
      BY <2>1 DEF CallInv, CallReads
    <3> QED
      BY <1>3, <1>7, <3>1
  <2>2. CallReads(c, time)
    BY DEF CallInv
  <2>3. e.pc \in {"health", "time", "check", "read", "assess"} => e.row \in h.rows /\ e.row.there
    BY <1>2, <2>2 DEF CallReads
  <2>4. (e.pc \in {"time", "check"} /\ e.tool \in {"health", "export health"}) =>
          e.status \in StatusesOf(h)
    BY <1>2, <1>5, <2>2 DEF CallReads
  <2>5. e.pc \in {"read", "assess"} => e.label \in LabelsOf(h, later)
    BY <1>2, <1>4, <2>2 DEF CallReads
  <2>6. (e.pc = "done" \/ (e.pc # "idle" /\ e.tool = "export health")) =>
          AnswerHeld(e.answer, h, later) /\ e.answer.status # "raised"
    BY <1>2, <1>6, <2>2 DEF CallReads
  <2>7. (e.pc = "assess" => e.copy.there)
    BY <1>2, <2>2 DEF CallReads
  <2> QED
    BY <1>2, <2>1, <2>3, <2>4, <2>5, <2>6, <2>7, Zenon DEF CallReads
<1>12. CallCopy(e, d)
  BY <1>2 DEF CallInv, CallCopy
<1>13. CallInv(e, d, later)
  BY <1>8, <1>9, <1>10, <1>11, <1>12 DEF CallInv
<1> QED
  BY <1>13 DEF e

-----------------------------------------------------------------------------
(***************************************************************************)
(* An answer that a read leads to.                                         *)
(***************************************************************************)
Outcome(c, u, a) ==
  CASE c.tool = "export" ->
         [ReaderState("export health", "lookup") EXCEPT
            !.answer = Given("query", a), !.held = c.held]
    [] c.tool = "export health" ->
         [u EXCEPT !.pc = "done", !.answer = [c.answer EXCEPT !.freshness = a.freshness]]
    [] OTHER -> [u EXCEPT !.pc = "done", !.answer = Given(c.tool, a)]

\* What is answered was held, and the tool can build its result.
IsResult(c, u, a, d, time) ==
  /\ u = [c EXCEPT !.row = u.row, !.label = u.label]
  /\ IsAnswer(a)
  /\ AnswerHeld(a, c.held, time)
  /\ a.status # "raised"
  /\ c.tool # "export health" => Consistent(IF c.tool = "export" THEN "query" ELSE c.tool, a)
  /\ (c.tool = "query" /\ u.copy # NoFile /\ u.row.coverage = "queryable") =>
       (a.status = "success" <=> Answerable(d, u.copy.payload))

\* A tool that answers what it has read builds its answer (_build_result and the
\* validators of the result models).
LEMMA ResultsAreGiven ==
  ASSUME NEW c, NEW d, NEW time \in Nat, CallInv(c, d, time),
         c.pc \notin {"idle", "done"},
         NEW u, NEW a, IsResult(c, u, a, d, time)
  PROVE  CallInv(Outcome(c, u, a), d, time) /\ Outcome(c, u, a).held = c.held
<1> DEFINE o == Outcome(c, u, a)
<1> DEFINE row1 == u.row  label1 == u.label
<1>0. u = [c EXCEPT !.row = row1, !.label = label1]
  BY DEF IsResult
<1> HIDE DEF row1, label1
<1>u. u = [tool |-> c.tool, pc |-> c.pc, row |-> row1, status |-> c.status, now |-> c.now,
           label |-> label1, copy |-> c.copy, answer |-> c.answer, held |-> c.held]
  BY <1>0 DEF CallInv, CallFields
<1>1. CASE c.tool = "export"
  <2>1. Given("query", a) = a
    BY <1>1 DEF IsResult, Given
  <2>2. o = [ReaderState("export health", "lookup") EXCEPT !.answer = a, !.held = c.held]
    BY <1>1, <2>1 DEF Outcome
  <2>3. o = [tool |-> "export health", pc |-> "lookup", row |-> NoRow, status |-> "none",
             now |-> Start, label |-> "none", copy |-> NoFile, answer |-> a, held |-> c.held]
    BY <2>2 DEF ReaderState
  <2> HIDE DEF o
  <2>4. /\ o.tool = "export health" /\ o.pc = "lookup" /\ o.copy = NoFile /\ o.answer = a
        /\ o.held = c.held
    BY <2>3
  <2>5. CallFields(o)
    BY <2>3, <2>4 DEF CallFields, IsResult
  <2>6. CallPlace(o)
    BY <2>4 DEF CallPlace
  <2>7. CallWitnesses(o, d, time)
    BY <2>4 DEF CallInv, CallWitnesses
  <2>8. CallReads(o, time)
    BY <2>4 DEF CallReads, IsResult
  <2>9. CallCopy(o, d)
    BY <2>4 DEF CallCopy
  <2> QED
    BY <2>4, <2>5, <2>6, <2>7, <2>8, <2>9 DEF CallInv, o
<1>2. CASE c.tool # "export"
  <2> DEFINE given == IF c.tool = "export health"
                      THEN [c.answer EXCEPT !.freshness = a.freshness] ELSE a
  <2>1. o = [u EXCEPT !.pc = "done", !.answer = given]
    BY <1>2 DEF Outcome, IsResult, Given
  <2>2. IsAnswer(given) /\ AnswerHeld(given, c.held, time) /\ given.status # "raised"
    <3>1. CASE c.tool = "export health"
      <4> DEFINE q == c.answer
      <4>1. IsAnswer(q) /\ AnswerHeld(q, c.held, time) /\ q.status # "raised"
        BY <3>1 DEF CallInv, CallFields, CallReads
      <4>2. given = Answer(q.status, q.coverage, a.freshness, q.recency, q.total, q.why,
                           q.health)
        BY <3>1, <4>1 DEF IsAnswer, Answer
      <4>3. /\ given.status = q.status /\ given.coverage = q.coverage
            /\ given.freshness = a.freshness /\ given.health = q.health
            /\ IsAnswer(given)
        <5> HIDE DEF given
        <5> QED
          BY <4>2 DEF Answer, IsAnswer
      <4> HIDE DEF given, q
      <4> QED
        BY <4>1, <4>3 DEF AnswerHeld, IsResult
    <3>2. CASE c.tool # "export health"
      BY <3>2 DEF IsResult
    <3> QED
      BY <3>1, <3>2
  <2>3. c.tool = "query" => given = a
    OBVIOUS
  <2> HIDE DEF o, given
  <2>4. o = [tool |-> c.tool, pc |-> "done", row |-> row1, status |-> c.status,
             now |-> c.now, label |-> label1, copy |-> c.copy, answer |-> given,
             held |-> c.held]
    BY <1>u, <2>1
  <2>5. /\ o.tool = c.tool /\ o.pc = "done" /\ o.row = u.row /\ o.copy = c.copy
        /\ o.answer = given /\ o.held = c.held /\ u.copy = c.copy
    BY <1>u, <2>4
  <2>6. CallFields(o)
    BY <2>2, <2>4, <2>5 DEF CallFields
  <2>7. CallPlace(o)
    BY <1>2, <2>5 DEF CallInv, CallPlace
  <2>8. CallWitnesses(o, d, time)
    BY <2>5 DEF CallInv, CallWitnesses
  <2>9. CallReads(o, time)
    BY <2>2, <2>5 DEF CallReads
  <2>10. CallCopy(o, d)
    BY <2>3, <2>5 DEF CallInv, CallCopy, IsResult
  <2> QED
    BY <2>5, <2>6, <2>7, <2>8, <2>9, <2>10 DEF CallInv, o
<1> QED
  BY <1>1, <1>2

\* A read that leads to the next one: what it read was read during the call.
ReadsOn(c, e, time) ==
  /\ e = [tool |-> c.tool, pc |-> e.pc, row |-> e.row, status |-> e.status, now |-> e.now,
          label |-> e.label, copy |-> e.copy, answer |-> c.answer, held |-> c.held]
  /\ e.pc \in {"health", "time", "check", "read", "assess"}
  /\ e.row \in c.held.rows /\ e.row.there
  /\ e.pc = "health" => c.tool \in {"health", "export health"}
  /\ e.pc \in {"time", "check"} => c.tool \notin {"metadata", "search"}
  /\ e.pc \in {"read", "assess"} => c.tool \in {"query", "export"}
  /\ (e.pc \in {"time", "check"} /\ c.tool \in {"health", "export health"}) =>
       e.status \in StatusesOf(c.held)
  /\ e.pc = "check" => e.now \in Instants /\ c.held.since <= e.now /\ e.now <= time
  /\ e.pc \in {"read", "assess"} => e.label \in LabelsOf(c.held, time)
  /\ e.pc = "assess" => e.copy \in c.held.files /\ e.copy.there
  /\ e.pc # "assess" => e.copy = NoFile

\* A read that answers nothing yet keeps what the call has read before.
LEMMA ReadsGoOn ==
  ASSUME NEW c, NEW d, NEW time \in Nat, CallInv(c, d, time), c.pc \notin {"idle", "done"},
         NEW e, ReadsOn(c, e, time)
  PROVE  CallInv(e, d, time) /\ e.held = c.held
<1> DEFINE pc1 == e.pc  row1 == e.row  status1 == e.status  now1 == e.now
           label1 == e.label  copy1 == e.copy
<1>0. e = [tool |-> c.tool, pc |-> pc1, row |-> row1, status |-> status1, now |-> now1,
           label |-> label1, copy |-> copy1, answer |-> c.answer, held |-> c.held]
  BY Zenon DEF ReadsOn
<1> HIDE DEF pc1, row1, status1, now1, label1, copy1
<1>1. /\ e.tool = c.tool /\ e.answer = c.answer /\ e.held = c.held
      /\ e = [tool |-> e.tool, pc |-> e.pc, row |-> e.row, status |-> e.status, now |-> e.now,
              label |-> e.label, copy |-> e.copy, answer |-> e.answer, held |-> e.held]
  BY <1>0
<1>2. CallFields(e)
  BY <1>1 DEF CallInv, CallFields
<1>3. CallPlace(e)
  BY <1>1 DEF CallInv, CallPlace, ReadsOn
<1>4. CallWitnesses(e, d, time)
  BY <1>1 DEF CallInv, CallWitnesses, ReadsOn
<1>5. CallReads(e, time)
  <2>1. (c.pc # "idle" /\ c.tool = "export health") =>
          AnswerHeld(c.answer, c.held, time) /\ c.answer.status # "raised"
    BY DEF CallInv, CallReads
  <2> QED
    BY <1>1, <2>1 DEF CallReads, ReadsOn
<1>6. CallCopy(e, d)
  BY <1>1 DEF CallCopy, ReadsOn
<1> QED
  BY <1>1, <1>2, <1>3, <1>4, <1>5, <1>6 DEF CallInv

\* A label is of a copy, or says that there was none.
LEMMA LabelKinds ==
  /\ \A frequency, w, t : LabelOf(frequency, w, t) \in {"unknown", "fresh", "stale"}
  /\ \A h, time : LabelsOf(h, time) \subseteq {"unknown", "fresh", "stale", "missing"}
<1>1. \A frequency, w, t : LabelOf(frequency, w, t) \in {"unknown", "fresh", "stale"}
  BY Zenon DEF LabelOf
<1> QED
  BY <1>1 DEF LabelsOf

\* The label of a file that was seen, at a time of the call, is one that held.
LEMMA LabelIsHeld ==
  ASSUME NEW h, NEW time, NEW f \in h.files, NEW r \in h.rows,
         NEW t \in Instants, h.since <= t, t <= time
  PROVE  (IF f.there THEN LabelOf(r.frequency, f.written, t) ELSE "missing") \in LabelsOf(h, time)
<1> DEFINE times == {u \in Instants : h.since <= u /\ u <= time}
           label(g, q, u) == IF g.there THEN LabelOf(q.frequency, g.written, u) ELSE "missing"
<1>1. t \in times
  OBVIOUS
<1>2. LabelsOf(h, time) = {label(g, q, u) : g \in h.files, q \in h.rows, u \in times}
  BY DEF LabelsOf
<1>3. label(f, r, t) \in LabelsOf(h, time)
  <2> HIDE DEF label, times
  <2> QED
    BY <1>1, <1>2
<1> QED
  BY <1>3

\* What a query answers when it has read a snapshot (tools/query.py).
LEMMA QueryResults ==
  ASSUME NEW r, IsRow(r), r.there, NEW payload, WellFormed(payload),
         NEW freshness \in {"unknown", "fresh", "stale", "missing"}, NEW today
  PROVE  LET a == QueryOutcome(r, payload, freshness, today)
         IN  /\ IsAnswer(a) /\ QueryResultConsistent(a) /\ a.freshness = freshness
             /\ a.status \in {"failed", "limited", "success"}
             /\ r.coverage = "queryable" =>
                  (a.status = "success" <=>
                    payload.readable /\ Normalize(dataset, payload).status = "record_derivable")
<1> DEFINE a == QueryOutcome(r, payload, freshness, today)
           result == Normalize(dataset, payload)
           recency == RecencyOf({result.records[i] : i \in DOMAIN result.records},
                                r.frequency, today \div 24)
<1>n. /\ result.status \in {"failed", "limited", "record_derivable"}
      /\ result.status = "limited" => result.limitations # {}
      /\ Len(result.records) \in Nat
  BY NormalizeOutcome
<1>c. r.coverage \in {"queryable", "limited", "catalog_only"}
  BY DEF IsRow, Coverages
<1>l. LimitedCoverage(r.coverage) \in {"limited", "catalog_only"}
  BY DEF LimitedCoverage
<1>d. a = CASE ~payload.readable \/ result.status = "failed" ->
                 Answer("failed", "unavailable", freshness, "none", NoTotal, {}, "none")
            [] payload.readable /\ result.status = "limited" ->
                 Answer("limited", LimitedCoverage(r.coverage), freshness, "none", NoTotal,
                        result.limitations, "none")
            [] payload.readable /\ result.status = "record_derivable" ->
                 IF r.coverage # "queryable"
                 THEN Answer("limited", LimitedCoverage(r.coverage), freshness, recency, NoTotal,
                             {"registry"}, "none")
                 ELSE Answer("success", "queryable", freshness, recency,
                             Len(result.records), {}, "none")
  BY Zenon DEF QueryOutcome
<1> HIDE DEF a, result, recency
<1>1. CASE ~payload.readable \/ result.status = "failed"
  <2>1. a = Answer("failed", "unavailable", freshness, "none", NoTotal, {}, "none")
    BY <1>1, <1>d
  <2> QED
    BY <1>1, <2>1 DEF Answer, IsAnswer, QueryResultConsistent, a, result
<1>2. CASE payload.readable /\ result.status = "limited"
  <2>1. a = Answer("limited", LimitedCoverage(r.coverage), freshness, "none", NoTotal,
                   result.limitations, "none")
    BY <1>2, <1>d
  <2> QED
    BY <1>2, <1>n, <1>l, <2>1 DEF Answer, IsAnswer, QueryResultConsistent, a, result
<1>3. CASE payload.readable /\ result.status = "record_derivable" /\ r.coverage # "queryable"
  <2>1. a = Answer("limited", LimitedCoverage(r.coverage), freshness, recency, NoTotal,
                   {"registry"}, "none")
    BY <1>3, <1>d
  <2> QED
    BY <1>3, <1>l, <2>1 DEF Answer, IsAnswer, QueryResultConsistent, a, result
<1>4. CASE payload.readable /\ result.status = "record_derivable" /\ r.coverage = "queryable"
  <2>1. a = Answer("success", "queryable", freshness, recency, Len(result.records), {}, "none")
    BY <1>4, <1>d
  <2> QED
    BY <1>4, <1>n, <2>1 DEF Answer, IsAnswer, QueryResultConsistent, NoTotal, a, result
<1> QED
  BY <1>1, <1>2, <1>3, <1>4, <1>n DEF result, a
-----------------------------------------------------------------------------
(***************************************************************************)
(* The steps of a call.                                                    *)
(***************************************************************************)
CallMoves ==
  /\ CallInv(reader', dataset, clock)
  /\ reader'.pc # "idle" => row \in reader'.held.rows /\ file \in reader'.held.files

\* The reader of a new call, and of none.
LEMMA NewCalls ==
  ASSUME NEW tool \in Tools, NEW h, NEW d, NEW time
  PROVE  LET c == [ReaderState(tool, "lookup") EXCEPT !.held = h]
             none == ReaderState("query", "idle")
         IN  /\ CallFields(c) /\ CallPlace(c) /\ CallReads(c, time) /\ CallCopy(c, d)
             /\ c.held = h /\ c.pc = "lookup"
             /\ CallInv(none, d, time) /\ none.pc = "idle"
<1> DEFINE c == [ReaderState(tool, "lookup") EXCEPT !.held = h]
           none == ReaderState("query", "idle")
<1>0. IsAnswer(Raised)
  BY DEF IsAnswer, Raised, Answer
<1>1. c = [tool |-> tool, pc |-> "lookup", row |-> NoRow, status |-> "none", now |-> Start,
           label |-> "none", copy |-> NoFile, answer |-> Raised, held |-> h]
  BY DEF ReaderState
<1>2. none = [tool |-> "query", pc |-> "idle", row |-> NoRow, status |-> "none", now |-> Start,
              label |-> "none", copy |-> NoFile, answer |-> Raised, held |-> none.held]
  BY DEF ReaderState
<1> HIDE DEF c, none
<1>3. /\ c.tool = tool /\ c.pc = "lookup" /\ c.copy = NoFile /\ c.answer = Raised /\ c.held = h
      /\ c.tool # "export health"
  BY <1>1 DEF Tools
<1>4. /\ none.tool = "query" /\ none.pc = "idle" /\ none.copy = NoFile /\ none.answer = Raised
  BY <1>2
<1>5. CallFields(c) /\ CallPlace(c) /\ CallReads(c, time) /\ CallCopy(c, d)
  <2>1. CallFields(c)
    BY <1>0, <1>1, <1>3 DEF CallFields
  <2>2. CallPlace(c) /\ CallCopy(c, d)
    BY <1>3 DEF CallPlace, CallCopy
  <2>3. CallReads(c, time)
    BY <1>3 DEF CallReads
  <2> QED
    BY <2>1, <2>2, <2>3
<1>6. CallInv(none, d, time)
  <2>1. CallFields(none)
    BY <1>0, <1>2, <1>4 DEF CallFields
  <2>2. CallPlace(none) /\ CallCopy(none, d) /\ CallWitnesses(none, d, time)
    BY <1>4 DEF CallPlace, CallCopy, CallWitnesses, Tools
  <2>3. CallReads(none, time)
    BY <1>4 DEF CallReads
  <2> QED
    BY <2>1, <2>2, <2>3 DEF CallInv
<1> QED
  BY <1>3, <1>4, <1>5, <1>6 DEF c, none

\* A call begins with what it finds.
LEMMA AskStep ==
  ASSUME ReadersInv, Ask
  PROVE  CallMoves
<1> DEFINE h == [rows |-> {row}, files |-> {file}, since |-> clock]
<1>1. PICK tool \in Tools : reader' = [ReaderState(tool, "lookup") EXCEPT !.held = h]
  BY DEF Ask, ReaderStep
<1>2. /\ CallFields(reader') /\ CallPlace(reader') /\ CallReads(reader', clock)
      /\ CallCopy(reader', dataset) /\ reader'.held = h
  BY <1>1, NewCalls
<1>3. clock \in Instants /\ clock \in Nat /\ IsRow(row) /\ IsCopy(file, dataset, clock)
  BY ReadersAssumption DEF ReadersInv, WorldInv
<1>4. CallWitnesses(reader', dataset, clock)
  BY <1>2, <1>3 DEF CallWitnesses
<1> QED
  BY <1>2, <1>4 DEF CallMoves, CallInv

\* An answer that was delivered leaves nothing behind.
LEMMA ReturnStep ==
  ASSUME ReadersInv, Return
  PROVE  CallMoves
<1>1. reader' = ReaderState("query", "idle")
  BY DEF Return, ReaderStep
<1>2. CallInv(reader', dataset, clock) /\ reader'.pc = "idle"
  BY <1>1, NewCalls DEF Tools
<1> QED
  BY <1>2 DEF CallMoves

\* A step that answers.
LEMMA AnswerMoves ==
  ASSUME ReadersInv, reader.pc \notin {"idle", "done"},
         NEW u, NEW a, IsResult(reader, u, a, dataset, clock),
         reader' = Outcome(reader, u, a)
  PROVE  CallMoves
<1>1. clock \in Nat /\ CallInv(reader, dataset, clock)
  BY ReadersAssumption DEF ReadersInv, WorldInv
<1> DEFINE o == Outcome(reader, u, a)
<1>2. CallInv(o, dataset, clock) /\ o.held = reader.held
  BY <1>1, ResultsAreGiven
<1> HIDE DEF o
<1>3. reader' = o
  BY DEF o
<1> QED
  BY <1>2, <1>3 DEF CallMoves, ReadersInv

\* What a call in progress holds.
LEMMA InCall ==
  ASSUME ReadersInv, reader.pc \notin {"idle", "done"}
  PROVE  /\ clock \in Nat /\ clock \in Instants /\ CallInv(reader, dataset, clock)
         /\ row \in reader.held.rows /\ file \in reader.held.files
         /\ IsRow(row) /\ IsCopy(file, dataset, clock)
         /\ \A r \in reader.held.rows : IsRow(r)
         /\ \A f \in reader.held.files : IsCopy(f, dataset, clock)
         /\ reader.held.since \in Instants /\ reader.held.since <= clock
         /\ reader.tool \in Tools \cup {"export health"}
         /\ reader = [tool |-> reader.tool, pc |-> reader.pc, row |-> reader.row,
                      status |-> reader.status, now |-> reader.now, label |-> reader.label,
                      copy |-> reader.copy, answer |-> reader.answer, held |-> reader.held]
         /\ reader.pc # "assess" => reader.copy = NoFile
  BY ReadersAssumption
  DEF ReadersInv, WorldInv, CallInv, CallWitnesses, CallPlace, CallFields, CallCopy

\* The registry row is read (get_dataset).
LEMMA LookUpStep ==
  ASSUME ReadersInv, LookUp
  PROVE  CallMoves
<1>0. reader.pc = "lookup"
  BY DEF LookUp
<1> DEFINE found == [reader EXCEPT !.row = row]
<1>f. found = [reader EXCEPT !.row = row, !.label = reader.label] /\ found.copy = NoFile
  BY <1>0, InCall
<1>1. CASE ~row.there
  <2>1. reader' = Outcome(reader, found, UnknownDataset)
    BY <1>1 DEF LookUp, Answers, ReaderStep, Outcome, Exported
  <2>2. NoRow \in reader.held.rows
    BY <1>0, <1>1, InCall DEF IsRow
  <2>3. IsAnswer(UnknownDataset) /\ UnknownDataset.status = "missing"
        /\ AnswerHeld(UnknownDataset, reader.held, clock)
    BY <2>2 DEF UnknownDataset, IsAnswer, Answer, AnswerHeld
  <2>4. \A tool : Consistent(tool, UnknownDataset)
    BY DEF Consistent, QueryResultConsistent, DownloadResultConsistent, UnknownDataset, Answer,
           NoTotal
  <2>5. IsResult(reader, found, UnknownDataset, dataset, clock)
    BY <1>f, <2>3, <2>4 DEF IsResult
  <2> QED
    BY <1>0, <1>f, <2>1, <2>5, AnswerMoves
<1>2. CASE row.there /\ reader.tool \in {"metadata", "search"}
  <2> DEFINE a == FromRow(row)
  <2>1. reader' = Outcome(reader, found, a)
    BY <1>2 DEF LookUp, Answers, ReaderStep, Outcome, Exported
  <2>2. /\ IsAnswer(a) /\ a.status = "found" /\ a.coverage = row.coverage
        /\ a.health = row.status /\ a.freshness = "none"
    BY DEF FromRow, IsAnswer, Answer
  <2> HIDE DEF a
  <2>3. AnswerHeld(a, reader.held, clock)
    BY <1>0, <2>2, InCall DEF AnswerHeld, StatusesOf
  <2>4. a.health # "none" /\ a.coverage # "none"
    BY <1>0, <2>2, InCall DEF IsRow, HealthStatuses, Coverages
  <2>5. Consistent(reader.tool, a)
    BY <1>2, <2>2, <2>4 DEF Consistent, RegistryResultConsistent
  <2>6. IsResult(reader, found, a, dataset, clock)
    BY <1>2, <2>2, <2>3, <2>5 DEF IsResult
  <2> QED
    BY <1>0, <1>f, <2>1, <2>6, AnswerMoves
<1>3. CASE row.there /\ reader.tool \in {"health", "export health"}
  <2>1. reader' = [found EXCEPT !.pc = "health"]
    BY <1>3 DEF LookUp, ReaderStep
  <2>2. reader' = [tool |-> reader.tool, pc |-> "health", row |-> row,
                   status |-> reader.status, now |-> reader.now, label |-> reader.label,
                   copy |-> NoFile, answer |-> reader.answer, held |-> reader.held]
    BY <1>0, <2>1, InCall
  <2>3. CallInv(reader', dataset, clock) /\ reader'.held = reader.held
    <3> DEFINE e == reader'
    <3>1. ReadsOn(reader, e, clock)
      <4>1. /\ e.pc = "health" /\ e.row = row /\ e.copy = NoFile
        BY <2>2
      <4> QED
        BY <1>0, <1>3, <2>2, <4>1, InCall DEF ReadsOn
    <3> QED
      BY <1>0, <3>1, InCall, ReadsGoOn
  <2> QED
    BY <1>0, <2>3, InCall DEF CallMoves
<1>4. CASE row.there /\ reader.tool \in {"query", "download", "export"}
  <2>1. reader' = [found EXCEPT !.pc = "time"]
    BY <1>4 DEF LookUp, ReaderStep
  <2>2. reader' = [tool |-> reader.tool, pc |-> "time", row |-> row,
                   status |-> reader.status, now |-> reader.now, label |-> reader.label,
                   copy |-> NoFile, answer |-> reader.answer, held |-> reader.held]
    BY <1>0, <2>1, InCall
  <2>3. CallInv(reader', dataset, clock) /\ reader'.held = reader.held
    <3> DEFINE e == reader'
    <3>1. ReadsOn(reader, e, clock)
      <4>1. /\ e.pc = "time" /\ e.row = row /\ e.copy = NoFile
        BY <2>2
      <4> QED
        BY <1>0, <1>4, <2>2, <4>1, InCall DEF ReadsOn
    <3> QED
      BY <1>0, <3>1, InCall, ReadsGoOn
  <2> QED
    BY <1>0, <2>3, InCall DEF CallMoves
<1> QED
  BY <1>0, <1>1, <1>2, <1>3, <1>4, InCall DEF Tools

\* A read after the look-up.
LEMMA ReadMoves ==
  ASSUME ReadersInv, reader.pc \notin {"idle", "done"}, ReadsOn(reader, reader', clock)
  PROVE  CallMoves
<1>1. CallInv(reader', dataset, clock) /\ reader'.held = reader.held
  BY InCall, ReadsGoOn
<1> QED
  BY <1>1, InCall DEF CallMoves

\* The health row is read, or the status of the row stands for it (health).
LEMMA GetHealthStep ==
  ASSUME ReadersInv, GetHealth
  PROVE  CallMoves
<1>0. reader.pc = "health"
  BY DEF GetHealth
<1>1. /\ reader.tool \in {"health", "export health"}
      /\ reader.row \in reader.held.rows /\ reader.row.there
  BY <1>0, InCall DEF CallInv, CallPlace, CallReads
<1> DEFINE status == StatusShown(health, reader.row)
<1>2. status \in StatusesOf(reader.held)
  BY <1>0, <1>1, InCall DEF ReadersInv, WorldInv, StatusShown, StatusesOf
<1>3. reader' = [reader EXCEPT !.pc = "time", !.status = status]
  BY DEF GetHealth, ReaderStep
<1> HIDE DEF status
<1>4. reader' = [tool |-> reader.tool, pc |-> "time", row |-> reader.row, status |-> status,
                 now |-> reader.now, label |-> reader.label, copy |-> NoFile,
                 answer |-> reader.answer, held |-> reader.held]
  BY <1>0, <1>3, InCall
<1>5. ReadsOn(reader, reader', clock)
  BY <1>1, <1>2, <1>4 DEF ReadsOn
<1> QED
  BY <1>0, <1>5, ReadMoves

\* The time of reference is the present (evaluate_snapshot_freshness).
LEMMA TakeTimeStep ==
  ASSUME ReadersInv, TakeTime
  PROVE  CallMoves
<1>0. reader.pc = "time"
  BY DEF TakeTime
<1>1. /\ reader.tool \notin {"metadata", "search"}
      /\ reader.row \in reader.held.rows /\ reader.row.there
      /\ reader.tool \in {"health", "export health"} => reader.status \in StatusesOf(reader.held)
  BY <1>0, InCall DEF CallInv, CallPlace, CallReads
<1>2. reader' = [reader EXCEPT !.pc = "check", !.now = clock]
  BY DEF TakeTime, ReaderStep, ReferenceTime
<1>3. reader' = [tool |-> reader.tool, pc |-> "check", row |-> reader.row,
                 status |-> reader.status, now |-> clock, label |-> reader.label,
                 copy |-> NoFile, answer |-> reader.answer, held |-> reader.held]
  BY <1>0, <1>2, InCall
<1>4. /\ reader'.pc = "check" /\ reader'.row = reader.row /\ reader'.status = reader.status
      /\ reader'.now = clock /\ reader'.copy = NoFile /\ reader'.label = reader.label
  BY <1>3
<1>5. clock \in Instants /\ reader.held.since <= clock /\ clock <= clock
  <2>1. clock \in Nat /\ clock \in Instants /\ reader.held.since <= clock
    BY <1>0, InCall, Zenon
  <2> QED
    BY <2>1
<1>6. ReadsOn(reader, reader', clock)
  <2> DEFINE e == reader'
  <2>1. (e.pc \in {"time", "check"} /\ reader.tool \in {"health", "export health"}) =>
          e.status \in StatusesOf(reader.held)
    BY <1>1, <1>4
  <2>2. e.now \in Instants /\ reader.held.since <= e.now /\ e.now <= clock
    BY <1>4, <1>5
  <2>3. e = [tool |-> reader.tool, pc |-> e.pc, row |-> e.row, status |-> e.status, now |-> e.now,
             label |-> e.label, copy |-> e.copy, answer |-> reader.answer, held |-> reader.held]
    BY <1>3, <1>4
  <2> HIDE DEF e
  <2>4. e.pc = "check" /\ e.row = reader.row /\ e.copy = NoFile
    BY <1>4 DEF e
  <2>5. ReadsOn(reader, e, clock)
    BY <1>1, <2>1, <2>2, <2>3, <2>4, Zenon DEF ReadsOn
  <2> QED
    BY <2>5 DEF e
<1> QED
  BY <1>0, <1>6, ReadMoves

\* The age of the file is read and labelled.
LEMMA CheckFileStep ==
  ASSUME ReadersInv, CheckFile
  PROVE  CallMoves
<1>0. reader.pc = "check"
  BY DEF CheckFile
<1>1. /\ reader.tool \in {"health", "export health"} \cup {"query", "download", "export"}
      /\ reader.row \in reader.held.rows /\ reader.row.there
      /\ reader.tool \in {"health", "export health"} => reader.status \in StatusesOf(reader.held)
      /\ reader.now \in Instants /\ reader.held.since <= reader.now /\ reader.now <= clock
  BY <1>0, InCall DEF CallInv, CallPlace, CallReads, Tools
<1> DEFINE label == IF file.there THEN LabelOf(reader.row.frequency, file.written, reader.now)
                    ELSE "missing"
           checked == [reader EXCEPT !.label = label]
<1>2. label \in LabelsOf(reader.held, clock)
  <2>1. file \in reader.held.files
    BY <1>0, InCall
  <2> QED
    BY <1>1, <2>1, LabelIsHeld
<1>3. label \in {"unknown", "fresh", "stale", "missing"}
      /\ (file.there => label \in {"unknown", "fresh", "stale"})
      /\ (~file.there => label = "missing")
  BY LabelKinds
<1> DEFINE status == reader.status
           coverage == reader.row.coverage
<1>4. coverage \in Coverages /\ reader.row = [there |-> reader.row.there, coverage |-> coverage,
        frequency |-> reader.row.frequency, status |-> reader.row.status]
  BY <1>0, <1>1, InCall DEF IsRow
<1>5. CASE reader.tool \in {"health", "export health"}
  <2> DEFINE a == [FromRow([reader.row EXCEPT !.status = reader.status]) EXCEPT !.freshness = label]
  <2>1. reader' = Outcome(reader, checked, a)
    BY <1>5 DEF CheckFile, Answers, ReaderStep, Outcome, Exported
  <2>2. a = Answer("found", coverage, label, "none", NoTotal, {}, status)
    BY <1>4 DEF FromRow, Answer
  <2>3. status \in HealthStatuses
    BY <1>0, <1>1, <1>5, InCall DEF StatusesOf, IsRow
  <2> HIDE DEF a, status, coverage, label
  <2>4. /\ a.status = "found" /\ a.coverage = coverage /\ a.freshness = label
        /\ a.health = status /\ IsAnswer(a)
    BY <2>2 DEF Answer, IsAnswer
  <2>5. AnswerHeld(a, reader.held, clock)
    BY <1>1, <1>2, <1>5, <2>4 DEF AnswerHeld, status, coverage
  <2>6. Consistent("health", a)
    BY <1>4, <2>3, <2>4 DEF Consistent, RegistryResultConsistent, HealthStatuses, Coverages
  <2>7. checked.label = label /\ checked.row = reader.row /\ reader.tool # "query"
    BY <1>0, <1>5, InCall
  <2>8. checked = [reader EXCEPT !.row = checked.row, !.label = checked.label]
    BY <1>0, <2>7, InCall
  <2>9. IsResult(reader, checked, a, dataset, clock)
    BY <1>5, <2>4, <2>5, <2>6, <2>7, <2>8 DEF IsResult
  <2> QED
    BY <1>0, <2>1, <2>9, AnswerMoves
<1>6. CASE reader.tool = "download"
  <2> DEFINE a == IF label = "missing"
                  THEN Answer("artifact_missing", "unavailable", label, "none", NoTotal, {}, "none")
                  ELSE Answer("available", coverage, label, "none", NoTotal, {}, "none")
  <2>1. reader' = Outcome(reader, checked, a)
    BY <1>6 DEF CheckFile, Answers, ReaderStep, Outcome, Exported
  <2>2. label = "missing" => NoFile \in reader.held.files
    BY <1>0, <1>3, InCall DEF IsCopy
  <2> HIDE DEF coverage, label
  <2>3. /\ IsAnswer(a) /\ a.freshness = label
        /\ IF label = "missing" THEN a.status = "artifact_missing" /\ a.coverage = "unavailable"
                                      /\ a.recency = "none"
           ELSE a.status = "available" /\ a.coverage = coverage
    BY DEF Answer, IsAnswer
  <2> HIDE DEF a
  <2>4. AnswerHeld(a, reader.held, clock)
    BY <1>1, <1>2, <2>2, <2>3 DEF AnswerHeld, coverage
  <2>5. Consistent("download", a)
    BY <1>3, <1>4, <2>3 DEF Consistent, DownloadResultConsistent, Coverages
  <2>6. checked.label = label /\ checked.row = reader.row
    BY <1>0, InCall
  <2>7. checked = [reader EXCEPT !.row = checked.row, !.label = checked.label]
    BY <1>0, <2>6, InCall
  <2>8. IsResult(reader, checked, a, dataset, clock)
    BY <1>6, <2>3, <2>4, <2>5, <2>6, <2>7 DEF IsResult
  <2> QED
    BY <1>0, <2>1, <2>8, AnswerMoves
<1>7. CASE reader.tool \in {"query", "export"}
  <2>1. reader' = [checked EXCEPT !.pc = "read"]
    BY <1>7 DEF CheckFile, ReaderStep
  <2> HIDE DEF label
  <2>2. reader' = [tool |-> reader.tool, pc |-> "read", row |-> reader.row,
                   status |-> reader.status, now |-> reader.now, label |-> label,
                   copy |-> NoFile, answer |-> reader.answer, held |-> reader.held]
    BY <1>0, <2>1, InCall
  <2>3. ReadsOn(reader, reader', clock)
    BY <1>1, <1>2, <1>7, <2>2 DEF ReadsOn
  <2> QED
    BY <1>0, <2>3, ReadMoves
<1> QED
  BY <1>1, <1>5, <1>6, <1>7

\* The file is read, or is not there (read_snapshot).
LEMMA ReadSnapshotStep ==
  ASSUME ReadersInv, ReadSnapshot
  PROVE  CallMoves
<1>0. reader.pc = "read"
  BY DEF ReadSnapshot
<1>1. /\ reader.tool \in {"query", "export"}
      /\ reader.row \in reader.held.rows /\ reader.row.there
      /\ reader.label \in LabelsOf(reader.held, clock)
  BY <1>0, InCall DEF CallInv, CallPlace, CallReads
<1>2. file \in reader.held.files /\ reader.copy = NoFile
  BY <1>0, InCall
<1>3. CASE file.there
  <2>1. reader' = [reader EXCEPT !.pc = "assess", !.copy = file]
    BY <1>3 DEF ReadSnapshot, ReaderStep
  <2>2. reader' = [tool |-> reader.tool, pc |-> "assess", row |-> reader.row,
                   status |-> reader.status, now |-> reader.now, label |-> reader.label,
                   copy |-> file, answer |-> reader.answer, held |-> reader.held]
    BY <1>0, <2>1, InCall
  <2>3. ReadsOn(reader, reader', clock)
    BY <1>1, <1>2, <1>3, <2>2 DEF ReadsOn
  <2> QED
    BY <1>0, <2>3, ReadMoves
<1>4. CASE ~file.there
  <2> DEFINE a == Answer("snapshot_missing", "unavailable", "missing", "none", NoTotal, {}, "none")
  <2>1. reader' = Outcome(reader, reader, a)
    BY <1>4 DEF ReadSnapshot, Answers, ReaderStep, Outcome, Exported
  <2>2. NoFile \in reader.held.files
    BY <1>0, <1>4, InCall DEF IsCopy
  <2>3. "missing" \in LabelsOf(reader.held, clock)
    <3>0. clock \in Nat /\ clock \in Instants /\ reader.held.since <= clock
      BY <1>0, InCall, Zenon
    <3>1. clock \in Instants /\ reader.held.since <= clock /\ clock <= clock
      BY <3>0
    <3> QED
      BY <1>1, <1>2, <1>4, <3>1, LabelIsHeld, Zenon
  <2>4. /\ IsAnswer(a) /\ a.status = "snapshot_missing" /\ a.freshness = "missing"
        /\ Consistent("query", a)
    BY DEF Answer, IsAnswer, Consistent, QueryResultConsistent
  <2> HIDE DEF a
  <2>5. AnswerHeld(a, reader.held, clock)
    BY <2>2, <2>3, <2>4 DEF AnswerHeld
  <2>6. reader = [reader EXCEPT !.row = reader.row, !.label = reader.label]
    BY <1>0, InCall
  <2>7. IsResult(reader, reader, a, dataset, clock)
    BY <1>1, <1>2, <2>4, <2>5, <2>6 DEF IsResult
  <2> QED
    BY <1>0, <2>1, <2>7, AnswerMoves
<1> QED
  BY <1>3, <1>4

\* The payload is normalized and answered (query_dataset).
LEMMA AssessStep ==
  ASSUME ReadersInv, Assess
  PROVE  CallMoves
<1>0. reader.pc = "assess"
  BY DEF Assess
<1> DEFINE copy == WithMetadata(dataset, reader.copy.payload, TRUE)
           a == QueryOutcome(reader.row, copy, reader.label, clock)
<1>1. /\ reader.tool \in {"query", "export"}
      /\ reader.row \in reader.held.rows /\ reader.row.there
      /\ reader.label \in LabelsOf(reader.held, clock)
      /\ reader.copy.there
  BY <1>0, InCall DEF CallInv, CallPlace, CallReads
<1>2. reader.copy # NoFile
  BY <1>1 DEF NoFile
<1>3. reader.copy \in reader.held.files
  BY <1>0, <1>2, InCall DEF CallInv, CallCopy
<1>4. WellFormed(reader.copy.payload)
  BY <1>0, <1>2, <1>3, InCall DEF IsCopy
<1>5. WellFormed(copy)
  BY <1>4, MetadataKeepsTheRest
<1>6. reader.label \in {"unknown", "fresh", "stale", "missing"}
  BY <1>1, LabelKinds
<1>7. IsRow(reader.row)
  BY <1>0, <1>1, InCall
<1> HIDE DEF copy
<1>8. /\ IsAnswer(a) /\ QueryResultConsistent(a) /\ a.freshness = reader.label
      /\ a.status \in {"failed", "limited", "success"}
      /\ reader.row.coverage = "queryable" =>
           (a.status = "success" <=>
             copy.readable /\ Normalize(dataset, copy).status = "record_derivable")
  BY <1>1, <1>5, <1>6, <1>7, QueryResults
<1>9. reader' = Outcome(reader, reader, a)
  BY DEF Assess, Answers, ReaderStep, Outcome, Exported, copy
<1> HIDE DEF a
<1>10. AnswerHeld(a, reader.held, clock)
  BY <1>1, <1>8 DEF AnswerHeld
<1>11. reader = [reader EXCEPT !.row = reader.row, !.label = reader.label]
  BY <1>0, InCall
<1>12. reader.row.coverage = "queryable" =>
         (a.status = "success" <=> Answerable(dataset, reader.copy.payload))
  BY <1>8 DEF Answerable, copy
<1>13. IsResult(reader, reader, a, dataset, clock)
  BY <1>1, <1>8, <1>10, <1>11, <1>12 DEF IsResult, Consistent
<1> QED
  BY <1>0, <1>9, <1>13, AnswerMoves
-----------------------------------------------------------------------------
(***************************************************************************)
(* The steps of the others, and the invariant.                             *)
(***************************************************************************)
LEMMA IdleGoesOn ==
  ASSUME NEW c, NEW d, NEW time, NEW later, CallInv(c, d, time), c.pc = "idle"
  PROVE  CallInv(c, d, later)
  BY DEF CallInv, CallWitnesses, CallReads

\* Time goes on in a call, and what another process changes is witnessed.
LEMMA TickMoves ==
  ASSUME ReadersInv, WorldInv', WorldAdvances, Tick
  PROVE  CallInv(reader', dataset', clock')
<1>1. /\ reader' = reader /\ dataset' = dataset /\ file' = file /\ row' = row
      /\ reader.pc # "done"
  BY DEF Tick
<1>2. CallInv(reader, dataset, clock) /\ clock \in Nat /\ clock' \in Nat /\ clock <= clock'
  BY DEF ReadersInv, WorldAdvances
<1>3. CASE reader.pc = "idle"
  BY <1>1, <1>2, <1>3, IdleGoesOn
<1>4. CASE reader.pc # "idle"
  <2> DEFINE h == reader.held
  <2>1. /\ h = [rows |-> h.rows, files |-> h.files, since |-> reader.held.since]
        /\ \A r \in h.rows : IsRow(r)
        /\ \A f \in h.files : IsCopy(f, dataset, clock)
    BY <1>2, <1>4 DEF CallInv, CallWitnesses
  <2>2. \A f \in h.files : IsCopy(f, dataset, clock')
    BY <1>2, <2>1, CopiesStand
  <2>3. CallInv([reader EXCEPT !.held = h], dataset, clock')
    BY <1>2, <1>4, <2>1, <2>2, CallGoesOnInv
  <2>4. [reader EXCEPT !.held = h] = reader
    BY <1>2 DEF CallInv, CallFields
  <2> QED
    BY <1>1, <2>3, <2>4
<1> QED
  BY <1>3, <1>4

\* A change by another adds to what the call could have read.
LEMMA WitnessMoves ==
  ASSUME ReadersInv, WorldInv', WorldAdvances, CallGoesOn, UNCHANGED clock
  PROVE  /\ CallInv(reader', dataset', clock')
         /\ reader'.pc # "idle" => row' \in reader'.held.rows /\ file' \in reader'.held.files
<1>2. /\ CallInv(reader, dataset, clock) /\ clock \in Nat /\ clock' = clock
      /\ dataset' = dataset
  BY DEF ReadersInv, WorldAdvances
<1>3. CASE reader.pc = "idle"
  <2>1. reader' = reader
    BY <1>3 DEF CallGoesOn, Calling
  <2> QED
    BY <1>2, <1>3, <2>1
<1>4. CASE reader.pc # "idle"
  <2>1. reader.pc # "done" /\ reader' = [reader EXCEPT !.held = Witnessed(reader.held)]
    BY <1>4 DEF CallGoesOn, Calling
  <2> DEFINE g == reader.held
             h == Witnessed(g)
  <2>2. /\ g = [rows |-> g.rows, files |-> g.files, since |-> g.since]
        /\ \A r \in g.rows : IsRow(r)
        /\ \A f \in g.files : IsCopy(f, dataset, clock)
    BY <1>2, <1>4 DEF CallInv, CallWitnesses
  <2>3. h = [rows |-> g.rows \cup {row'}, files |-> g.files \cup {file'}, since |-> g.since]
    <3> DEFINE rows == g.rows
               files == g.files
               since == g.since
    <3>1. g = [rows |-> rows, files |-> files, since |-> since]
      BY <2>2
    <3>2. h = [g EXCEPT !.rows = rows \cup {row'}, !.files = files \cup {file'}]
      BY DEF Witnessed
    <3> HIDE DEF g, h, rows, files, since
    <3>3. h = [rows |-> rows \cup {row'}, files |-> files \cup {file'}, since |-> since]
      BY <3>1, <3>2
    <3> QED
      BY <3>3 DEF rows, files, since
  <2>4. IsRow(row') /\ IsCopy(file', dataset, clock)
    BY <1>2 DEF WorldInv
  <2> HIDE DEF h
  <2>5. /\ h.rows = g.rows \cup {row'} /\ h.files = g.files \cup {file'} /\ h.since = g.since
        /\ h = [rows |-> h.rows, files |-> h.files, since |-> g.since]
    BY <2>3
  <2>6. clock <= clock
    BY <1>2
  <2>7. /\ \A r \in h.rows : IsRow(r)
        /\ \A f \in h.files : IsCopy(f, dataset, clock)
    BY <2>2, <2>4, <2>5
  <2>8. CallInv([reader EXCEPT !.held = h], dataset, clock)
    BY <1>2, <1>4, <2>5, <2>6, <2>7, CallGoesOnInv
  <2>9. reader'.held = h
    BY <1>2, <2>1 DEF CallInv, CallFields, h
  <2> QED
    BY <1>2, <2>1, <2>5, <2>8, <2>9 DEF h
<1> QED
  BY <1>3, <1>4

\* No call and no canary runs at first.
LEMMA ReadersInit ==
  ASSUME Init
  PROVE  ReadersInv
<1>1. reader = ReaderState("query", "idle")
  BY DEF Init
<1>2. CallInv(reader, dataset, clock) /\ reader.pc = "idle"
  BY <1>1, NewCalls DEF Tools
<1> QED
  BY <1>2, WorldInit DEF ReadersInv

\* Every step keeps the invariant: the world's half first, then the call's.
LEMMA ReadersStep ==
  ASSUME ReadersInv, [Next]_vars
  PROVE  ReadersInv'
<1>1. WorldInv' /\ WorldAdvances
  BY WorldStep DEF ReadersInv, CallInv
<1>2. CASE Ask \/ Read
  <2>1. CallMoves
    BY <1>2, AskStep, LookUpStep, GetHealthStep, TakeTimeStep, CheckFileStep,
       ReadSnapshotStep, AssessStep, ReturnStep DEF Read
  <2>2. UNCHANGED <<dataset, clock, file, row, health, changes, canary>>
    BY <1>2, ReadsOnlyRead DEF ReadersInv, CallInv
  <2> QED
    BY <1>1, <2>1, <2>2 DEF ReadersInv, CallMoves
<1>3. CASE Tick
  <2>1. CallInv(reader', dataset', clock')
    BY <1>1, <1>3, TickMoves
  <2>2. UNCHANGED <<reader, row, file>>
    BY <1>3 DEF Tick
  <2> QED
    BY <1>1, <2>1, <2>2 DEF ReadersInv
<1>4. CASE StoreNewer \/ RecordHealth \/ SeedByAnother \/ Canary
  <2>1. CallGoesOn /\ UNCHANGED clock
    BY <1>4
    DEF StoreNewer, RecordHealth, SeedByAnother, ChangeByAnother, Canary, StartCanary,
        CanarySeeds, CheckUpstream, Persist
  <2> QED
    BY <1>1, <2>1, WitnessMoves DEF ReadersInv
<1>5. CASE UNCHANGED vars
  BY <1>1, <1>5 DEF vars, ReadersInv
<1> QED
  BY <1>2, <1>3, <1>4, <1>5 DEF Next

\* The invariant of the readers holds in every state.
LEMMA ReadersInvariant == Spec => []ReadersInv
<1>1. Init => ReadersInv
  BY ReadersInit
<1>2. ReadersInv /\ [Next]_vars => ReadersInv'
  BY ReadersStep
<1> QED
  BY <1>1, <1>2, PTL DEF Spec
-----------------------------------------------------------------------------
(***************************************************************************)
(* The theorems.                                                           *)
(***************************************************************************)
\* The parts of an answer held during the call, though they are read one after
\* the other while others change the row, the status and the file (query,
\* download, health, export).
THEOREM AnswersAreHeld == Spec => []PartsHeldDuringCall
<1>1. ReadersInv => PartsHeldDuringCall
  <2> SUFFICES ASSUME ReadersInv, reader.pc = "done" PROVE PartsHeldDuringCall
    BY DEF PartsHeldDuringCall
  <2>1. AnswerHeld(reader.answer, reader.held, clock)
    BY DEF ReadersInv, CallInv, CallReads
  <2>2. LabelsHeld = LabelsOf(reader.held, clock)
    BY DEF LabelsHeld, LabelsOf
  <2> QED
    BY <2>1, <2>2 DEF PartsHeldDuringCall, AnswerHeld, StatusesOf
<1> QED
  BY <1>1, ReadersInvariant, PTL

\* Daily labels count the business days of Riyadh: a copy of the last 24 hours is
\* fresh and one of four days ago is stale, at every time (evaluate_freshness).
THEOREM DailyLabelsAreBounded == Spec => []FreshLabelsAreBounded
<1>1. ReadersInv => FreshLabelsAreBounded
  <2> SUFFICES ASSUME ReadersInv, file.there PROVE FreshLabelsAreBounded
    BY DEF FreshLabelsAreBounded
  <2>1. file # NoFile
    BY DEF NoFile
  <2>2. clock \in Nat /\ file.written \in Nat
    BY <2>1, ReadersAssumption DEF ReadersInv, WorldInv, IsCopy
  <2> QED
    BY <2>2, DayOldIsFresh, FourDaysOldIsStale DEF FreshLabelsAreBounded
<1> QED
  BY <1>1, ReadersInvariant, PTL

\* A stale copy does not become fresh as time passes, nor its latest observation
\* current, for any frequency and any rows (evaluate_freshness, recency).
THEOREM StalenessIsLasting == Spec => StaleStaysStale
<1> DEFINE rows == file.payload.body.extracted.rows
           records == {rows[i] : i \in DOMAIN rows}
           Stays ==
             (file.there /\ clock' # clock) =>
               \A frequency \in Frequencies :
                 /\ LabelOf(frequency, file.written, clock) = "stale" =>
                      LabelOf(frequency, file.written, clock') = "stale"
                 /\ RecencyOf(records, frequency, clock \div 24) = "stale" =>
                      RecencyOf(records, frequency, clock' \div 24) = "stale"
<1>1. ReadersInv /\ [Next]_vars => [Stays]_vars
  <2> SUFFICES ASSUME ReadersInv, [Next]_vars, file.there, clock' # clock,
                      NEW frequency \in Frequencies
               PROVE  /\ LabelOf(frequency, file.written, clock) = "stale" =>
                           LabelOf(frequency, file.written, clock') = "stale"
                      /\ RecencyOf(records, frequency, clock \div 24) = "stale" =>
                           RecencyOf(records, frequency, clock' \div 24) = "stale"
    OBVIOUS
  <2>1. clock \in Nat /\ clock' \in Nat /\ clock <= clock'
    BY WorldStep DEF ReadersInv, CallInv, WorldAdvances
  <2>2. file.written \in Nat /\ WellFormed(file.payload)
    <3>1. file # NoFile
      BY DEF NoFile
    <3> QED
      BY <3>1 DEF ReadersInv, WorldInv, IsCopy
  <2>3. /\ rows \in Seq({rows[i] : i \in DOMAIN rows})
        /\ \A r \in records : \A field \in DOMAIN r : r[field] \in Int
    BY <2>2 DEF WellFormed, WellFormedBody
  <2>4. IsFiniteSet(records)
    <3> HIDE DEF rows
    <3>1. DOMAIN rows = 1..Len(rows) /\ Len(rows) \in Nat
      BY <2>3, LenProperties
    <3>2. IsFiniteSet(DOMAIN rows)
      BY <3>1, FS_Interval
    <3> QED
      BY <3>2, ImageIsFinite
  <2>5. clock \div 24 \in Nat /\ clock' \div 24 \in Nat /\ clock \div 24 <= clock' \div 24
    BY <2>1, DaysGrow
  <2> HIDE DEF records
  <2> QED
    BY <2>1, <2>2, <2>3, <2>4, <2>5, LabelStaysStale, RecencyStaysStale
<1>2. [Stays]_vars
        => [(file.there /\ clock' # clock) =>
              \A frequency \in Frequencies :
                /\ LabelOf(frequency, file.written, clock) = "stale" =>
                     LabelOf(frequency, file.written, clock') = "stale"
                /\ LET rs == file.payload.body.extracted.rows
                       seen == {rs[i] : i \in DOMAIN rs}
                   IN  RecencyOf(seen, frequency, clock \div 24) = "stale" =>
                         RecencyOf(seen, frequency, clock' \div 24) = "stale"]_vars
  OBVIOUS
<1> QED
  BY <1>1, <1>2, ReadersInvariant, PTL DEF Spec, StaleStaysStale

\* No mapping is rejected by its validation and no tool fails to build its answer,
\* whatever was stored or fetched (normalize_payload, DatasetQueryResult).
THEOREM AnswersAreExplained == Spec => []AnswersExplainThemselves
<1>1. ReadersInv => AnswersExplainThemselves
  <2> SUFFICES ASSUME ReadersInv PROVE AnswersExplainThemselves
    OBVIOUS
  <2>1. ASSUME reader.pc = "assess"
        PROVE  Normalize(dataset, WithMetadata(dataset, reader.copy.payload, TRUE)).stage
                 # "validation"
    <3>1. reader.copy.there
      BY <2>1 DEF ReadersInv, CallInv, CallReads
    <3>2. reader.copy # NoFile
      BY <3>1 DEF NoFile
    <3>3. IsCopy(reader.copy, dataset, clock)
      BY <2>1, <3>2 DEF ReadersInv, CallInv, CallCopy, CallWitnesses
    <3>4. WellFormed(reader.copy.payload)
      BY <3>2, <3>3 DEF IsCopy
    <3> QED
      BY <3>4, MetadataKeepsTheRest, NormalizeOutcome
  <2>2. Normalize(dataset, canary.payload).stage # "validation"
    <3>1. CASE canary.payload = NoPayload
      <4>1. KindOfBody(NoPayload) = "none"
        BY DEF KindOfBody, NoPayload, Payload
      <4>2. FieldMapping(dataset, NoPayload) = FailedMapping
        BY <4>1 DEF FieldMapping
      <4>3. FailedMapping.failed
        BY DEF FailedMapping, Mapping
      <4> QED
        BY <3>1, <4>2, <4>3 DEF Normalize, Normalized
    <3>2. CASE canary.payload # NoPayload
      BY <3>2, Payloads, NormalizeOutcome DEF ReadersInv, WorldInv, CanaryInv
    <3> QED
      BY <3>1, <3>2
  <2>3. reader.pc = "done" => reader.answer # Raised
    BY DEF ReadersInv, CallInv, CallReads, Raised, Answer
  <2> QED
    BY <2>1, <2>2, <2>3 DEF AnswersExplainThemselves
<1> QED
  BY <1>1, ReadersInvariant, PTL

\* The canary's verdict on a payload and the answer of a query on its stored copy
\* agree (upstream_canary, write_snapshot, query).
THEOREM CanaryIsRight == Spec => []CanaryAgreesWithQuery
<1>1. ReadersInv => CanaryAgreesWithQuery
  <2> DEFINE fetched == canary.payload
             stored == reader.copy.payload
  <2> SUFFICES ASSUME ReadersInv, fetched # NoPayload, reader.pc = "done",
                      reader.tool = "query", reader.copy.fetched = fetched,
                      reader.row.coverage = "queryable"
               PROVE  reader.answer.status = "success" <=> canary.verdict = "healthy"
    BY DEF CanaryAgreesWithQuery
  <2>1. /\ fetched \in PayloadsOf(dataset) /\ dataset \in CanaryDatasets
        /\ dataset \in Datasets /\ canary.verdict = Judged(dataset, fetched)
    BY DEF ReadersInv, WorldInv, CanaryInv
  <2>2. reader.copy # NoFile
    BY DEF NoFile
  <2>3. reader.answer.status = "success" <=> Answerable(dataset, stored)
    BY <2>2 DEF ReadersInv, CallInv, CallCopy
  <2>4. IsCopy(reader.copy, dataset, clock)
    BY <2>2 DEF ReadersInv, CallInv, CallCopy, CallWitnesses
  <2>5. stored = WithMetadata(dataset, fetched, FALSE)
    BY <2>2, <2>4 DEF IsCopy
  <2>6. WellFormed(fetched) /\ fetched.readable /\ WellFormed(stored)
    BY <2>1, <2>5, Payloads
  <2> DEFINE read == WithMetadata(dataset, stored, TRUE)
             result == Normalize(dataset, fetched)
  <2>7. read.readable
    <3>1. WithMetadata(dataset, fetched, FALSE).readable = fetched.readable
      <4> HIDE DEF fetched
      <4> QED
        BY <2>6, MetadataKeepsTheRest
    <3>2. WellFormed(stored)
      BY <2>6
    <3> HIDE DEF stored, fetched
    <3>3. stored.readable
      BY <2>5, <2>6, <3>1, Zenon
    <3>4. WithMetadata(dataset, stored, TRUE).readable = stored.readable
      BY <3>2, MetadataKeepsTheRest
    <3> QED
      BY <3>3, <3>4
  <2>8. Normalize(dataset, read) = result
    BY <2>5, <2>6, MetadataIsReadBack
  <2>9. Answerable(dataset, stored) <=> result.status = "record_derivable"
    BY <2>7, <2>8 DEF Answerable
  <2>10. ASSUME result.status = "record_derivable"
         PROVE  Len(result.records) >= MinimumRecords
    <3>1. /\ result.records = fetched.body.extracted.rows
          /\ fetched.body.shape # "none" \/ fetched.body.extracted.status = "rows"
      BY <2>6, <2>10, NormalizeOutcome
    <3>2. fetched.body.extracted.rows # <<>>
      BY <2>1, <3>1, SourcesAssumption
    <3> DEFINE rows == fetched.body.extracted.rows
    <3>3. rows \in Seq({rows[i] : i \in DOMAIN rows})
      BY <2>6 DEF WellFormed, WellFormedBody
    <3> HIDE DEF rows
    <3>4. Len(rows) \in Nat /\ (Len(rows) = 0 => rows = <<>>)
      BY <3>3, EmptySeq, LenProperties
    <3> QED
      BY <3>1, <3>2, <3>4 DEF rows, MinimumRecords
  <2>11. Judged(dataset, fetched) = "healthy" <=> result.status = "record_derivable"
    BY <2>10 DEF Judged
  <2> QED
    BY <2>1, <2>3, <2>9, <2>11
<1> QED
  BY <1>1, ReadersInvariant, PTL
=============================================================================
