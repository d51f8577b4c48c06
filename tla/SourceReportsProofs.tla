------------------------- MODULE SourceReportsProofs -------------------------
(***************************************************************************)
(* What the bundles of reports come to, for any page of links, any number  *)
(* of reports, any corrections of the source and any redirects.            *)
(***************************************************************************)
EXTENDS SourceReports, ConnectorRequestProofs, FiniteSetTheorems, SequenceTheorems,
        WellFoundedInduction

(***************************************************************************)
(* Sets in an order.                                                       *)
(***************************************************************************)
StrictlyOrders(R, S) ==
  /\ \A x \in S : <<x, x>> \notin R
  /\ \A x, y \in S : x # y => <<x, y>> \in R \/ <<y, x>> \in R
  /\ \A x, y, z \in S : <<x, y>> \in R /\ <<y, z>> \in R => <<x, z>> \in R

\* A finite set in a strict order is listed whole, each member once, in order.
LEMMA InOrderLists ==
  ASSUME NEW S, IsFiniteSet(S), NEW R, StrictlyOrders(R, S)
  PROVE  /\ Cardinality(S) \in Nat
         /\ InOrder(S, R) \in [1..Cardinality(S) -> S]
         /\ \A i, j \in 1..Cardinality(S) :
              i < j => <<InOrder(S, R)[i], InOrder(S, R)[j]>> \in R
         /\ \A x \in S : \E i \in 1..Cardinality(S) : InOrder(S, R)[i] = x
<1> DEFINE n == Cardinality(S)
           Before(x) == {y \in S : <<y, x>> \in R}
           Place(x) == Cardinality(Before(x)) + 1
           f == [x \in S |-> Place(x)]
           at(k) == CHOOSE x \in S : Cardinality(Before(x)) = k - 1
<1>0. n \in Nat
  BY FS_CardinalityType
<1>1. ASSUME NEW x \in S
      PROVE  /\ IsFiniteSet(Before(x)) /\ Cardinality(Before(x)) \in Nat
             /\ Place(x) \in 1..n
  <2>1. Before(x) \in SUBSET S /\ x \notin Before(x)
    BY DEF StrictlyOrders
  <2> DEFINE b == Before(x)
  <2> HIDE DEF b
  <2>2. IsFiniteSet(b) /\ Cardinality(b) <= n /\ Cardinality(b) # n /\ Cardinality(b) \in Nat
    BY <2>1, FS_Subset, FS_CardinalityType DEF b
  <2> QED
    BY <2>2, <1>0 DEF b
<1>2. ASSUME NEW x \in S, NEW y \in S, <<x, y>> \in R PROVE Place(x) < Place(y)
  <2> DEFINE a == Before(x)
             b == Before(y)
  <2>1. a \subseteq b /\ x \in b /\ x \notin a
    BY <1>2 DEF StrictlyOrders
  <2>2. IsFiniteSet(b) /\ Cardinality(a) \in Nat /\ Cardinality(b) \in Nat
    BY <1>1
  <2>3. Place(x) = Cardinality(a) + 1 /\ Place(y) = Cardinality(b) + 1
    OBVIOUS
  <2> HIDE DEF a, b, Place
  <2>4. Cardinality(a) <= Cardinality(b) /\ Cardinality(a) # Cardinality(b)
    BY <2>1, <2>2, FS_Subset
  <2> QED
    BY <2>2, <2>3, <2>4
<1>3. f \in [S -> 1..n] /\ \A x \in S : f[x] = Place(x)
  BY <1>1
<1>4. \A x, y \in S : f[x] = f[y] => x = y
  <2> SUFFICES ASSUME NEW x \in S, NEW y \in S, f[x] = f[y], x # y PROVE FALSE
    OBVIOUS
  <2>1. <<x, y>> \in R \/ <<y, x>> \in R
    BY DEF StrictlyOrders
  <2>2. Place(x) \in Int /\ Place(y) \in Int /\ Place(x) = Place(y)
    BY <1>1, <1>3
  <2> HIDE DEF Place
  <2> QED
    BY <2>1, <2>2, <1>2
<1>5. f \in Surjection(S, 1..n)
  <2>1. f \in Injection(S, 1..n)
    BY <1>3, <1>4 DEF Injection, IsInjective
  <2>2. IsFiniteSet(1..n) /\ Cardinality(1..n) = n
    BY <1>0, FS_Interval
  <2> HIDE DEF f
  <2> QED
    BY <2>1, <2>2, FS_Injection
<1>6. ASSUME NEW k \in 1..n PROVE at(k) \in S /\ Place(at(k)) = k
  <2>1. PICK x \in S : f[x] = k
    BY <1>5 DEF Surjection
  <2>2. Cardinality(Before(x)) = k - 1
    <3>1. Place(x) = k /\ Cardinality(Before(x)) \in Nat
      BY <2>1, <1>1, <1>3
    <3> QED
      BY <3>1, <1>0
  <2>3. at(k) \in S /\ Cardinality(Before(at(k))) = k - 1
    BY <2>2
  <2> QED
    BY <2>3, <1>0
<1>7. InOrder(S, R) \in [1..n -> S] /\ \A k \in 1..n : InOrder(S, R)[k] = at(k)
  BY <1>6 DEF InOrder
<1> HIDE DEF at, f
<1>8. ASSUME NEW i \in 1..n, NEW j \in 1..n, i < j PROVE <<at(i), at(j)>> \in R
  <2> DEFINE x == at(i)
             y == at(j)
  <2>1. x \in S /\ y \in S /\ Place(x) = i /\ Place(y) = j
    BY <1>6
  <2> HIDE DEF x, y, Place
  <2>2. x # y /\ ~(Place(y) < Place(x))
    BY <2>1, <1>8, <1>0
  <2>3. <<x, y>> \in R
    BY <2>1, <2>2, <1>2 DEF StrictlyOrders
  <2> QED
    BY <2>3 DEF x, y
<1>9. ASSUME NEW x \in S PROVE at(Place(x)) = x
  <2> DEFINE k == Place(x)
             y == at(k)
  <2>1. k \in 1..n /\ y \in S /\ Place(y) = k
    BY <1>1, <1>6
  <2>2. f[y] = f[x]
    BY <2>1, <1>3
  <2> QED
    BY <2>1, <2>2, <1>4
<1> QED
  BY <1>0, <1>1, <1>7, <1>8, <1>9

\* Positions have a strict order.
LEMMA AscendingOrders ==
  ASSUME NEW S \in SUBSET Nat
  PROVE  StrictlyOrders(Ascending(S), S)
<1>1. \A x, y \in S : <<x, y>> \in Ascending(S) <=> x < y
  BY DEF Ascending
<1>2. \A x \in S : x \in Nat
  OBVIOUS
<1> QED
  BY <1>1, <1>2 DEF StrictlyOrders
-----------------------------------------------------------------------------
(***************************************************************************)
(* Merged reports.                                                         *)
(***************************************************************************)
Rows == [period : Nat, place : Nat, table : Nat, figure : Nat]
Parts == [status : {"rows", "none", "invalid", "raised"}, rows : SUBSET Rows]
AllRows(parts) == UNION {parts[i].rows : i \in 1..Len(parts)}

\* The values of a function on a finite set are finite in number.
LEMMA FiniteImage ==
  ASSUME NEW S, IsFiniteSet(S), NEW f
  PROVE  IsFiniteSet({f[x] : x \in S})
<1> DEFINE g == [x \in S |-> f[x]]
           T == {f[x] : x \in S}
<1>1. g \in Surjection(S, T)
  BY DEF Surjection
<1> QED
  BY <1>1, FS_Surjection

\* Rows without a conflict have a strict order by their keys.
LEMMA KeysOrder ==
  ASSUME NEW S \in SUBSET Rows, \A a, b \in S : ~Conflicting(a, b)
  PROVE  StrictlyOrders(ByKey(S), S)
<1>1. \A x, y \in S : <<x, y>> \in ByKey(S) <=>
        x.period < y.period \/ (x.period = y.period /\ x.place < y.place)
  BY DEF ByKey
<1>2. \A x \in S : x.period \in Nat /\ x.place \in Nat
  BY DEF Rows
<1>3. \A x, y \in S : x # y => x.period # y.period \/ x.place # y.place
  BY DEF Conflicting, KeyOf
<1> QED
  BY <1>1, <1>2, <1>3 DEF StrictlyOrders

\* What is merged comes from parts that can be used and that do not conflict.
LEMMA MergedParts ==
  ASSUME NEW parts \in Seq(Parts), Merged(parts).status = "rows"
  PROVE  /\ \A i \in 1..Len(parts) : parts[i].status = "rows"
         /\ \A a, b \in AllRows(parts) : ~Conflicting(a, b)
         /\ Merged(parts).rows = InOrder(AllRows(parts), ByKey(AllRows(parts)))
<1> DEFINE conflicts(i) == \E a \in parts[i].rows : \E j \in 1..i : \E b \in parts[j].rows :
                             Conflicting(a, b)
           bad == {i \in 1..Len(parts) : parts[i].status # "rows" \/ conflicts(i)}
           first == CHOOSE i \in bad : \A j \in bad : i <= j
           rows == AllRows(parts)
<1>1. Merged(parts) =
        IF bad # {}
        THEN Extracted(IF parts[first].status = "rows" THEN "invalid" ELSE parts[first].status, <<>>)
        ELSE Extracted(IF rows = {} THEN "none" ELSE "rows", InOrder(rows, ByKey(rows)))
  BY Zenon DEF Merged, AllRows
<1> HIDE DEF first, rows
<1>2. bad = {} /\ Merged(parts).rows = InOrder(rows, ByKey(rows))
  <2> HIDE DEF bad
  <2> QED
    BY <1>1 DEF Extracted
<1>3. \A i \in 1..Len(parts) : parts[i].status = "rows" /\ ~conflicts(i)
  BY <1>2
<1>4. \A i, j \in 1..Len(parts) : \A a \in parts[i].rows, b \in parts[j].rows :
        ~Conflicting(a, b)
  <2> SUFFICES ASSUME NEW i \in 1..Len(parts), NEW j \in 1..Len(parts),
                      NEW a \in parts[i].rows, NEW b \in parts[j].rows, Conflicting(a, b)
               PROVE  FALSE
    OBVIOUS
  <2>1. Conflicting(b, a)
    BY DEF Conflicting
  <2>2. j \in 1..i \/ i \in 1..j
    OBVIOUS
  <2> QED
    BY <1>3, <2>1, <2>2
<1> QED
  BY <1>2, <1>3, <1>4 DEF rows, AllRows

\* Parts that can be used and do not conflict are merged.
LEMMA PartsMerge ==
  ASSUME NEW parts \in Seq(Parts), AllRows(parts) # {},
         \A i \in 1..Len(parts) : parts[i].status = "rows",
         \A a, b \in AllRows(parts) : ~Conflicting(a, b)
  PROVE  Merged(parts).status = "rows"
<1> DEFINE conflicts(i) == \E a \in parts[i].rows : \E j \in 1..i : \E b \in parts[j].rows :
                             Conflicting(a, b)
           bad == {i \in 1..Len(parts) : parts[i].status # "rows" \/ conflicts(i)}
           first == CHOOSE i \in bad : \A j \in bad : i <= j
           rows == AllRows(parts)
<1>1. Merged(parts) =
        IF bad # {}
        THEN Extracted(IF parts[first].status = "rows" THEN "invalid" ELSE parts[first].status, <<>>)
        ELSE Extracted(IF rows = {} THEN "none" ELSE "rows", InOrder(rows, ByKey(rows)))
  BY Zenon DEF Merged, AllRows
<1>2. ASSUME NEW i \in 1..Len(parts) PROVE ~conflicts(i)
  <2>1. \A j \in 1..i : j \in 1..Len(parts)
    OBVIOUS
  <2> QED
    BY <2>1 DEF AllRows
<1>3. bad = {}
  BY <1>2
<1> HIDE DEF first, bad
<1> QED
  BY <1>1, <1>3 DEF Extracted, rows

\* Merged rows are those of the parts, each key once, in the order of periods.
LEMMA MergedRows ==
  ASSUME NEW parts \in Seq(Parts), Merged(parts).status = "rows",
         \A i \in 1..Len(parts) : IsFiniteSet(parts[i].rows),
         NEW rows, rows = Merged(parts).rows
  PROVE  /\ Len(rows) \in Nat
         /\ \A i \in 1..Len(rows) : rows[i] \in AllRows(parts)
         /\ \A a \in AllRows(parts) : \E i \in 1..Len(rows) : rows[i] = a
         /\ \A i, j \in 1..Len(rows) :
              i < j => /\ KeyOf(rows[i]) # KeyOf(rows[j])
                       /\ rows[i].period <= rows[j].period
<1> DEFINE all == AllRows(parts)
<1>1. IsFiniteSet(all)
  <2>1. IsFiniteSet(1..Len(parts))
    BY FS_Interval
  <2> DEFINE of == [i \in 1..Len(parts) |-> parts[i].rows]
             each == {of[i] : i \in 1..Len(parts)}
  <2>2. IsFiniteSet(each)
    <3> HIDE DEF of
    <3> QED
      BY <2>1, FiniteImage
  <2>3. all = UNION each /\ \A T \in each : IsFiniteSet(T)
    BY DEF AllRows
  <2> HIDE DEF each, all
  <2> QED
    BY <2>2, <2>3, FS_UNION
<1>2. all \in SUBSET Rows
  <2>1. \A i \in 1..Len(parts) : parts[i] \in Parts
    OBVIOUS
  <2> QED
    BY <2>1 DEF AllRows, Parts
<1> HIDE DEF all
<1>3. StrictlyOrders(ByKey(all), all) /\ rows = InOrder(all, ByKey(all))
  BY <1>2, MergedParts, KeysOrder DEF all
<1>4. /\ Cardinality(all) \in Nat
      /\ rows \in [1..Cardinality(all) -> all]
      /\ \A i, j \in 1..Cardinality(all) : i < j => <<rows[i], rows[j]>> \in ByKey(all)
      /\ \A x \in all : \E i \in 1..Cardinality(all) : rows[i] = x
  BY <1>1, <1>3, InOrderLists
<1>5. Len(rows) = Cardinality(all)
  BY <1>4
<1>6. ASSUME NEW x \in all, NEW y \in all, <<x, y>> \in ByKey(all)
      PROVE  KeyOf(x) # KeyOf(y) /\ x.period <= y.period
  <2>1. x.period \in Nat /\ x.place \in Nat /\ y.period \in Nat /\ y.place \in Nat
    BY <1>2 DEF Rows
  <2>2. x.period < y.period \/ (x.period = y.period /\ x.place < y.place)
    BY <1>6 DEF ByKey
  <2> QED
    BY <2>1, <2>2 DEF KeyOf
<1> QED
  BY <1>4, <1>5, <1>6 DEF all
-----------------------------------------------------------------------------
(***************************************************************************)
(* What a report gives.                                                    *)
(***************************************************************************)
TwoTables == <<{Riyadh}, {Abha}>>
CityTables == {TwoTables, <<{Riyadh}, {}>>, <<{Abha}, {Abha}>>}

IsReport(r) ==
  /\ DOMAIN r.figures \subseteq Nat /\ IsFiniteSet(DOMAIN r.figures)
  /\ \A p \in DOMAIN r.figures : r.figures[p] \in Nat
  /\ r.cities \in CityTables
  /\ r.flaw \in Flaws

WeeklyRows(r) == {Row(p, Everywhere, 1, r.figures[p]) : p \in DOMAIN r.figures}
CityRows(r) ==
  UNION {{Row(p, city, t, r.figures[p]) : p \in DOMAIN r.figures, city \in r.cities[t]} : t \in 1..2}

\* The weekly rows of a report, or none.
LEMMA WeeklyParts ==
  ASSUME NEW r, IsReport(r)
  PROVE  /\ WeeklyPart(r) \in Parts /\ IsFiniteSet(WeeklyPart(r).rows)
         /\ WeeklyPart(r).status = "rows" <=> r.flaw = "none"
         /\ r.flaw = "none" => WeeklyPart(r).rows = WeeklyRows(r)
<1>1. r.flaw \in {"none", "layout", "figures", "order", "month"}
  BY DEF IsReport, Flaws
<1>2. WeeklyPart(r) = IF r.flaw = "none" THEN Extracted("rows", WeeklyRows(r))
                      ELSE IF r.flaw = "order" THEN Extracted("invalid", {})
                      ELSE IF r.flaw = "month" THEN Extracted("raised", {})
                      ELSE Extracted("none", {})
  BY <1>1 DEF WeeklyPart, WeeklyRows, PeriodsShown
<1>3. WeeklyRows(r) \in SUBSET Rows
  BY DEF WeeklyRows, IsReport, Rows, Row, Everywhere
<1>4. IsFiniteSet(WeeklyRows(r))
  <2> DEFINE f == [p \in DOMAIN r.figures |-> Row(p, Everywhere, 1, r.figures[p])]
             image == {f[p] : p \in DOMAIN r.figures}
  <2>1. WeeklyRows(r) = image
    BY DEF WeeklyRows
  <2>2. IsFiniteSet(image)
    <3> HIDE DEF f
    <3> QED
      BY FiniteImage DEF IsReport
  <2> QED
    BY <2>1, <2>2
<1>5. IsFiniteSet({})
  BY FS_EmptySet
<1> QED
  BY <1>1, <1>2, <1>3, <1>4, <1>5 DEF Extracted, Parts

\* The rows of the cities of a report, or none.
LEMMA CityParts ==
  ASSUME NEW r, IsReport(r)
  PROVE  /\ CityPart(r) \in Parts /\ IsFiniteSet(CityPart(r).rows)
         /\ CityPart(r).status = "rows" => r.flaw = "none" /\ r.cities # <<{Riyadh}, {}>>
         /\ r.flaw = "none" /\ r.cities = TwoTables => CityPart(r).status = "rows"
         /\ CityPart(r).status = "rows" => CityPart(r).rows = CityRows(r)
<1>1. r.flaw \in {"none", "layout", "figures", "order", "month"}
  BY DEF IsReport, Flaws
<1>2. /\ r.cities[1] \in {{1}, {2}} /\ r.cities[2] \in {{}, {1}}
      /\ r.cities[2] = {} <=> r.cities = <<{Riyadh}, {}>>
  BY DEF IsReport, CityTables, TwoTables, Riyadh, Abha
<1>3. r.cities[1] # {} /\ r.cities[1] \subseteq Nat /\ r.cities[2] \subseteq Nat
  BY <1>2
<1>4. CityPart(r) = IF r.flaw = "layout" THEN Extracted("none", {})
                    ELSE IF r.flaw \in {"figures", "order"} THEN Extracted("invalid", {})
                    ELSE IF r.flaw = "month" THEN Extracted("raised", {})
                    ELSE IF r.cities[2] = {} THEN Extracted("none", {})
                    ELSE Extracted("rows", CityRows(r))
  BY <1>1, <1>3 DEF CityPart, CityRows, PeriodsShown
<1>5. CityRows(r) \in SUBSET Rows
  <2>1. \A t \in 1..2 : r.cities[t] \subseteq Nat /\ t \in Nat
    BY <1>3
  <2> QED
    BY <2>1 DEF CityRows, IsReport, Rows, Row
<1>6. IsFiniteSet(CityRows(r))
  <2> DEFINE P == DOMAIN r.figures
             cells == (P \X (0..2)) \X (1..2)
             f == [x \in cells |-> Row(x[1][1], x[1][2], x[2], r.figures[x[1][1]])]
             image == {f[x] : x \in cells}
  <2>1. IsFiniteSet(cells)
    <3>1. IsFiniteSet(0..2)
      <4>1. 0 \in Int /\ 2 \in Int
        OBVIOUS
      <4> QED
        BY <4>1, FS_Interval
    <3>4. IsFiniteSet(1..2)
      <4>1. 1 \in Int /\ 2 \in Int
        OBVIOUS
      <4> QED
        BY <4>1, FS_Interval
    <3>3. IsFiniteSet(P)
      BY DEF IsReport
    <3> HIDE DEF P
    <3>2. IsFiniteSet(P \X (0..2))
      BY <3>1, <3>3, FS_Product
    <3> QED
      BY <3>4, <3>2, FS_Product
  <2>2. IsFiniteSet(image)
    <3> HIDE DEF f, cells
    <3> QED
      BY <2>1, FiniteImage
  <2>3. ASSUME NEW t \in 1..2, NEW p \in P, NEW city \in r.cities[t]
        PROVE  Row(p, city, t, r.figures[p]) \in image
    <3>1. city \in 0..2
      BY <1>2
    <3> DEFINE x == <<<<p, city>>, t>>
    <3>2. x \in cells
      BY <3>1, Zenon
    <3>3. f[x] = Row(p, city, t, r.figures[p])
      BY <3>2
    <3> HIDE DEF x, f, cells
    <3> QED
      BY <3>2, <3>3
  <2> HIDE DEF image
  <2>4. CityRows(r) \subseteq image
    BY <2>3 DEF CityRows
  <2> QED
    BY <2>2, <2>4, FS_Subset
<1>7. IsFiniteSet({})
  BY FS_EmptySet
<1>8. TwoTables[2] # {}
  BY DEF TwoTables
<1> QED
  BY <1>1, <1>2, <1>4, <1>5, <1>6, <1>7, <1>8 DEF Extracted, Parts
-----------------------------------------------------------------------------
(***************************************************************************)
(* What a bundle gives.                                                    *)
(***************************************************************************)
\* The parts of the two datasets of a bundle.
WeeklyOf(held) == [i \in 1..Len(held) |-> WeeklyPart(held[i])]
CityOf(held) == [i \in 1..Len(held) |-> CityPart(held[i])]

KeysOnce(rows) ==
  \A i, j \in 1..Len(rows) : i < j => KeyOf(rows[i]) # KeyOf(rows[j])
PeriodsInOrder(rows) ==
  \A i, j \in 1..Len(rows) : i < j => rows[i].period <= rows[j].period
Uncontradicted(rows, held) ==
  \A i \in 1..Len(rows), n \in 1..Len(held) :
    rows[i].period \in DOMAIN held[n].figures =>
      held[n].figures[rows[i].period] = rows[i].figure

\* Rows of merged parts are contradicted by no report, when each report that
\* has a row's period shows a row of the same key with its own figure.
LEMMA MergedAgree ==
  ASSUME NEW held, NEW parts \in Seq(Parts), Len(parts) = Len(held),
         \A i \in 1..Len(parts) : IsFiniteSet(parts[i].rows),
         Merged(parts).status = "rows",
         \A row \in AllRows(parts), n \in 1..Len(held) :
           row.period \in DOMAIN held[n].figures =>
             \E b \in parts[n].rows :
               KeyOf(b) = KeyOf(row) /\ b.figure = held[n].figures[row.period]
  PROVE  LET rows == Merged(parts).rows
         IN  KeysOnce(rows) /\ PeriodsInOrder(rows) /\ Uncontradicted(rows, held)
<1> DEFINE rows == Merged(parts).rows
<1> HIDE DEF rows
<1>1. /\ \A i \in 1..Len(rows) : rows[i] \in AllRows(parts)
      /\ KeysOnce(rows) /\ PeriodsInOrder(rows)
  BY MergedRows DEF rows, KeysOnce, PeriodsInOrder
<1>2. \A a, b \in AllRows(parts) : ~Conflicting(a, b)
  BY MergedParts
<1>3. ASSUME NEW i \in 1..Len(rows), NEW n \in 1..Len(held),
             rows[i].period \in DOMAIN held[n].figures
      PROVE  held[n].figures[rows[i].period] = rows[i].figure
  <2>1. PICK b \in parts[n].rows :
          KeyOf(b) = KeyOf(rows[i]) /\ b.figure = held[n].figures[rows[i].period]
    BY <1>1, <1>3
  <2>2. b \in AllRows(parts) /\ rows[i] \in AllRows(parts)
    BY <1>1 DEF AllRows
  <2>3. b = rows[i]
    BY <2>1, <2>2, <1>2 DEF Conflicting
  <2> QED
    BY <2>1, <2>3
<1> QED
  BY <1>1, <1>3 DEF rows, Uncontradicted

\* The weekly totals of a bundle agree with its reports.
LEMMA WeeklyAgrees ==
  ASSUME NEW held, Len(held) \in Nat, \A n \in 1..Len(held) : IsReport(held[n]),
         PosWeekly(held).status = "rows"
  PROVE  LET rows == PosWeekly(held).rows
         IN  KeysOnce(rows) /\ PeriodsInOrder(rows) /\ Uncontradicted(rows, held)
<1> DEFINE parts == WeeklyOf(held)
<1>1. parts \in Seq(Parts) /\ Len(parts) = Len(held) /\ \A i \in 1..Len(held) : parts[i] = WeeklyPart(held[i])
  BY WeeklyParts DEF WeeklyOf
<1>2. PosWeekly(held) = Merged(parts)
  BY DEF PosWeekly, WeeklyOf
<1> HIDE DEF parts
<1>3. \A i \in 1..Len(parts) : parts[i].status = "rows"
  BY <1>1, <1>2, MergedParts
<1>4. \A i \in 1..Len(parts) : IsFiniteSet(parts[i].rows) /\ parts[i].rows = WeeklyRows(held[i])
  BY <1>1, <1>3, WeeklyParts
<1>5. ASSUME NEW row \in AllRows(parts), NEW n \in 1..Len(held),
             row.period \in DOMAIN held[n].figures
      PROVE  \E b \in parts[n].rows :
               KeyOf(b) = KeyOf(row) /\ b.figure = held[n].figures[row.period]
  <2>1. row.place = Everywhere
    BY <1>1, <1>4 DEF AllRows, WeeklyRows, Row
  <2> DEFINE b == Row(row.period, Everywhere, 1, held[n].figures[row.period])
  <2>2. b \in parts[n].rows
    BY <1>1, <1>4, <1>5 DEF WeeklyRows
  <2>3. KeyOf(b) = KeyOf(row) /\ b.figure = held[n].figures[row.period]
    BY <2>1 DEF KeyOf, Row
  <2> QED
    BY <2>2, <2>3
<1> QED
  BY <1>1, <1>2, <1>4, <1>5, MergedAgree

\* A part that is used has each city in one table.
LEMMA CityOneTable ==
  ASSUME NEW held, Len(held) \in Nat, \A n \in 1..Len(held) : IsReport(held[n]),
         NEW parts, parts = CityOf(held), parts \in Seq(Parts),
         Merged(parts).status = "rows", NEW n \in 1..Len(held),
         DOMAIN held[n].figures # {}
  PROVE  held[n].cities = TwoTables
<1>1. Len(parts) = Len(held) /\ parts[n] = CityPart(held[n])
  BY DEF CityOf
<1>2. parts[n].status = "rows" /\ \A a, b \in AllRows(parts) : ~Conflicting(a, b)
  BY <1>1, MergedParts
<1>3. parts[n].rows = CityRows(held[n]) /\ held[n].cities # <<{Riyadh}, {}>>
  BY <1>1, <1>2, CityParts
<1>4. ASSUME held[n].cities = <<{Abha}, {Abha}>> PROVE FALSE
  <2>1. PICK p \in DOMAIN held[n].figures : TRUE
    OBVIOUS
  <2> DEFINE x(t) == Row(p, Abha, t, held[n].figures[p])
  <2>2. ASSUME NEW t \in 1..2 PROVE x(t) \in CityRows(held[n])
    <3>1. Abha \in held[n].cities[t]
      BY <1>4
    <3> QED
      BY <3>1 DEF CityRows
  <2>3. x(1) \in AllRows(parts) /\ x(2) \in AllRows(parts)
    BY <2>2, <1>1, <1>3 DEF AllRows
  <2>4. Conflicting(x(1), x(2))
    BY DEF Conflicting, KeyOf, Row
  <2> QED
    BY <2>3, <2>4, <1>2
<1> QED
  BY <1>3, <1>4 DEF IsReport, CityTables

\* The figures by city of a bundle agree with its reports.
LEMMA CityAgrees ==
  ASSUME NEW held, Len(held) \in Nat, \A n \in 1..Len(held) : IsReport(held[n]),
         PosByCity(held).status = "rows"
  PROVE  LET rows == PosByCity(held).rows
         IN  KeysOnce(rows) /\ PeriodsInOrder(rows) /\ Uncontradicted(rows, held)
<1> DEFINE parts == CityOf(held)
<1>1. parts \in Seq(Parts) /\ Len(parts) = Len(held) /\ \A i \in 1..Len(held) : parts[i] = CityPart(held[i])
  BY CityParts DEF CityOf
<1>2. PosByCity(held) = Merged(parts)
  BY DEF PosByCity, CityOf
<1>3. \A n \in 1..Len(held) : DOMAIN held[n].figures # {} => held[n].cities = TwoTables
  BY <1>1, <1>2, CityOneTable
<1> HIDE DEF parts
<1>4. \A i \in 1..Len(parts) : parts[i].status = "rows"
  BY <1>1, <1>2, MergedParts
<1>5. \A i \in 1..Len(parts) : IsFiniteSet(parts[i].rows) /\ parts[i].rows = CityRows(held[i])
  BY <1>1, <1>4, CityParts
<1>6. ASSUME NEW row \in AllRows(parts), NEW n \in 1..Len(held),
             row.period \in DOMAIN held[n].figures
      PROVE  \E b \in parts[n].rows :
               KeyOf(b) = KeyOf(row) /\ b.figure = held[n].figures[row.period]
  <2>1. PICK t \in 1..2 : row.place \in TwoTables[t]
    <3>1. PICK i \in 1..Len(held) : row \in CityRows(held[i])
      BY <1>1, <1>5 DEF AllRows
    <3>2. PICK u \in 1..2 : \E p \in DOMAIN held[i].figures, city \in held[i].cities[u] :
            row = Row(p, city, u, held[i].figures[p])
      BY <3>1 DEF CityRows
    <3>3. held[i].cities = TwoTables /\ row.place \in held[i].cities[u]
      BY <3>2, <1>3 DEF Row
    <3> QED
      BY <3>2, <3>3
  <2> DEFINE b == Row(row.period, row.place, t, held[n].figures[row.period])
  <2>2. held[n].cities = TwoTables
    BY <1>3, <1>6
  <2>3. b \in CityRows(held[n])
    BY <2>1, <2>2, <1>6 DEF CityRows
  <2>4. KeyOf(b) = KeyOf(row) /\ b.figure = held[n].figures[row.period]
    BY DEF KeyOf, Row
  <2> QED
    BY <2>3, <2>4, <1>1, <1>5
<1> QED
  BY <1>1, <1>2, <1>5, <1>6, MergedAgree

\* Reports in order: used by both datasets, and of one mind.
InGoodOrder(held) ==
  /\ \A n \in 1..Len(held) :
       /\ IsReport(held[n]) /\ held[n].flaw = "none" /\ held[n].cities = TwoTables
       /\ DOMAIN held[n].figures # {}
  /\ \A m, n \in 1..Len(held) : \A p \in DOMAIN held[m].figures \cap DOMAIN held[n].figures :
       held[m].figures[p] = held[n].figures[p]

PeriodsHeld(held) == UNION {DOMAIN held[n].figures : n \in 1..Len(held)}
PeriodsIn(rows) == {rows[i].period : i \in 1..Len(rows)}

\* The rows that figures give for the periods of a report.
RowsFor(D, figures, place, table) == {Row(p, place, table, figures[p]) : p \in D}

LEMMA RowsOfPeriods ==
  ASSUME NEW D, NEW figures, NEW place, NEW table
  PROVE  /\ \A row \in RowsFor(D, figures, place, table) :
              /\ row.period \in D /\ row.figure = figures[row.period]
              /\ row.place = place /\ row.table = table
         /\ \A p \in D : \E row \in RowsFor(D, figures, place, table) : row.period = p
<1>1. \A p \in D :
        /\ Row(p, place, table, figures[p]).period = p
        /\ Row(p, place, table, figures[p]).figure = figures[p]
        /\ Row(p, place, table, figures[p]).place = place
        /\ Row(p, place, table, figures[p]).table = table
  BY DEF Row
<1> QED
  BY <1>1 DEF RowsFor

\* Parts without a conflict that show all periods of their reports, and no
\* others, are merged into rows of all periods.
LEMMA MergedWhole ==
  ASSUME NEW held, NEW parts \in Seq(Parts), Len(parts) = Len(held), Len(held) # 0,
         InGoodOrder(held),
         \A n \in 1..Len(held) :
           /\ IsFiniteSet(parts[n].rows) /\ parts[n].status = "rows"
           /\ {row.period : row \in parts[n].rows} = DOMAIN held[n].figures
           /\ \A row \in parts[n].rows : row.figure = held[n].figures[row.period],
         \A a, b \in AllRows(parts) : KeyOf(a) = KeyOf(b) => a.table = b.table
  PROVE  /\ Merged(parts).status = "rows"
         /\ PeriodsIn(Merged(parts).rows) = PeriodsHeld(held)
<1>0. Len(held) \in Nat
  OBVIOUS
<1>1. \A a, b \in AllRows(parts) : ~Conflicting(a, b)
  <2> SUFFICES ASSUME NEW a \in AllRows(parts), NEW b \in AllRows(parts), KeyOf(a) = KeyOf(b)
               PROVE  a = b
    BY DEF Conflicting
  <2>1. PICK m \in 1..Len(held) : a \in parts[m].rows
    BY DEF AllRows
  <2>2. PICK n \in 1..Len(held) : b \in parts[n].rows
    BY DEF AllRows
  <2>3. a \in Rows /\ b \in Rows
    <3>1. parts[m] \in Parts /\ parts[n] \in Parts
      OBVIOUS
    <3> QED
      BY <3>1, <2>1, <2>2 DEF Parts
  <2>4. a.period = b.period /\ a.place = b.place /\ a.table = b.table
    BY DEF KeyOf
  <2>5. a.period \in DOMAIN held[m].figures /\ b.period \in DOMAIN held[n].figures
    BY <2>1, <2>2
  <2>6. a.figure = b.figure
    BY <2>1, <2>2, <2>4, <2>5 DEF InGoodOrder
  <2> QED
    BY <2>3, <2>4, <2>6 DEF Rows
<1>2. AllRows(parts) # {}
  <2>1. 1 \in 1..Len(held)
    BY <1>0
  <2>2. DOMAIN held[1].figures # {}
    BY <2>1 DEF InGoodOrder
  <2>3. parts[1].rows # {}
    BY <2>1, <2>2
  <2> QED
    BY <2>1, <2>3 DEF AllRows
<1>3. Merged(parts).status = "rows"
  BY <1>1, <1>2, PartsMerge
<1> DEFINE rows == Merged(parts).rows
<1>4. /\ \A i \in 1..Len(rows) : rows[i] \in AllRows(parts)
      /\ \A a \in AllRows(parts) : \E i \in 1..Len(rows) : rows[i] = a
  <2> HIDE DEF rows
  <2> QED
    BY <1>3, MergedRows DEF rows
<1> HIDE DEF rows
<1>5. PeriodsIn(rows) = {row.period : row \in AllRows(parts)}
  BY <1>4 DEF PeriodsIn
<1>6. {row.period : row \in AllRows(parts)} = PeriodsHeld(held)
  BY DEF AllRows, PeriodsHeld
<1> QED
  BY <1>3, <1>5, <1>6 DEF rows

\* A bundle in good order comes whole, in both datasets.
LEMMA PosWhole ==
  ASSUME NEW held, Len(held) \in Nat, Len(held) # 0, InGoodOrder(held)
  PROVE  /\ PosWeekly(held).status = "rows"
         /\ PeriodsIn(PosWeekly(held).rows) = PeriodsHeld(held)
         /\ PosByCity(held).status = "rows"
         /\ PeriodsIn(PosByCity(held).rows) = PeriodsHeld(held)
<1>1. ASSUME NEW parts, parts = WeeklyOf(held)
      PROVE  Merged(parts).status = "rows" /\ PeriodsIn(Merged(parts).rows) = PeriodsHeld(held)
  <2>1. parts \in Seq(Parts) /\ Len(parts) = Len(held) /\ \A n \in 1..Len(held) : parts[n] = WeeklyPart(held[n])
    BY <1>1, WeeklyParts DEF WeeklyOf, InGoodOrder
  <2>2. \A n \in 1..Len(held) : IsFiniteSet(parts[n].rows) /\ parts[n].status = "rows"
                                  /\ parts[n].rows = WeeklyRows(held[n])
    BY <2>1, WeeklyParts DEF InGoodOrder
  <2>3. ASSUME NEW n \in 1..Len(held)
        PROVE  /\ {row.period : row \in parts[n].rows} = DOMAIN held[n].figures
               /\ \A row \in parts[n].rows : row.figure = held[n].figures[row.period] /\ row.table = 1
    <3>1. parts[n].rows = RowsFor(DOMAIN held[n].figures, held[n].figures, Everywhere, 1)
      BY <2>2 DEF WeeklyRows, RowsFor
    <3> QED
      BY <3>1, RowsOfPeriods
  <2>4. \A a \in AllRows(parts) : a.table = 1
    BY <2>1, <2>3 DEF AllRows
  <2> QED
    BY <2>1, <2>2, <2>3, <2>4, MergedWhole
<1>2. ASSUME NEW parts, parts = CityOf(held)
      PROVE  Merged(parts).status = "rows" /\ PeriodsIn(Merged(parts).rows) = PeriodsHeld(held)
  <2>1. parts \in Seq(Parts) /\ Len(parts) = Len(held) /\ \A n \in 1..Len(held) : parts[n] = CityPart(held[n])
    BY <1>2, CityParts DEF CityOf, InGoodOrder
  <2>2. \A n \in 1..Len(held) : IsFiniteSet(parts[n].rows) /\ parts[n].status = "rows"
                                  /\ parts[n].rows = CityRows(held[n])
    BY <2>1, CityParts DEF InGoodOrder
  <2>3. ASSUME NEW n \in 1..Len(held)
        PROVE  /\ {row.period : row \in parts[n].rows} = DOMAIN held[n].figures
               /\ \A row \in parts[n].rows :
                    /\ row.figure = held[n].figures[row.period]
                    /\ row.place = (IF row.table = 1 THEN Riyadh ELSE Abha)
                    /\ row.table \in {1, 2}
    <3>1. held[n].cities[1] = {Riyadh} /\ held[n].cities[2] = {Abha}
      <4>1. held[n].cities = TwoTables
        BY DEF InGoodOrder
      <4> QED
        BY <4>1 DEF TwoTables
    <3>2. CityRows(held[n]) =
            {Row(p, Riyadh, 1, held[n].figures[p]) : p \in DOMAIN held[n].figures} \cup
            {Row(p, Abha, 2, held[n].figures[p]) : p \in DOMAIN held[n].figures}
      <4>1. 1..2 = {1, 2}
        OBVIOUS
      <4> QED
        BY <3>1, <4>1 DEF CityRows
    <3> QED
      <4> DEFINE figures == held[n].figures
                 D == DOMAIN figures
                 first == RowsFor(D, figures, Riyadh, 1)
                 second == RowsFor(D, figures, Abha, 2)
      <4>1. parts[n].rows = first \cup second
        BY <2>2, <3>2 DEF RowsFor
      <4> HIDE DEF D, figures
      <4>2. /\ \A row \in first :
                 /\ row.period \in D /\ row.figure = figures[row.period]
                 /\ row.place = Riyadh /\ row.table = 1
            /\ \A p \in D : \E row \in first : row.period = p
        BY RowsOfPeriods
      <4>3. \A row \in second :
              /\ row.period \in D /\ row.figure = figures[row.period]
              /\ row.place = Abha /\ row.table = 2
        BY RowsOfPeriods
      <4> HIDE DEF first, second
      <4>4. {row.period : row \in parts[n].rows} = D
        BY <4>1, <4>2, <4>3
      <4>5. \A row \in parts[n].rows :
              /\ row.figure = figures[row.period]
              /\ row.place = (IF row.table = 1 THEN Riyadh ELSE Abha)
              /\ row.table \in {1, 2}
        BY <4>1, <4>2, <4>3
      <4> QED
        BY <4>4, <4>5 DEF D, figures
  <2>4. \A a, b \in AllRows(parts) : KeyOf(a) = KeyOf(b) => a.table = b.table
    <3>1. \A a \in AllRows(parts) :
            /\ a.place = (IF a.table = 1 THEN Riyadh ELSE Abha)
            /\ a.table \in {1, 2}
      BY <2>1, <2>3 DEF AllRows
    <3> QED
      BY <3>1 DEF KeyOf, Riyadh, Abha
  <2> QED
    BY <2>1, <2>2, <2>3, <2>4, MergedWhole
<1> QED
  BY <1>1, <1>2 DEF PosWeekly, PosByCity, WeeklyOf, CityOf

\* The reports that are kept, and their places in the bundle one by one.
Kept(held) == {i \in 1..Len(held) : HasBalance(held[i]) /\ FirstOfQuarter(held, i)}
Places(held) == InOrder(Kept(held), Ascending(Kept(held)))
BalanceOf(r) == Row(r.quarter, Everywhere, 1, r.figures[r.quarter])

LEMMA BalanceFields ==
  ASSUME NEW r
  PROVE  /\ BalanceOf(r).period = r.quarter /\ BalanceOf(r).place = Everywhere
         /\ BalanceOf(r).figure = r.figures[r.quarter]
  BY DEF BalanceOf, Row

\* The rows of the balance, one for each report that is kept.
LEMMA BalanceRows ==
  ASSUME NEW held, Len(held) \in Nat, NEW rows, rows = BudgetBalance(held).rows,
         NEW s, s = Places(held)
  PROVE  /\ BudgetBalance(held).status = (IF Kept(held) = {} THEN "none" ELSE "rows")
         /\ \A i \in 1..Len(rows) : s[i] \in Kept(held) /\ rows[i] = BalanceOf(held[s[i]])
         /\ \A i, j \in 1..Len(rows) : i < j => s[i] < s[j]
         /\ \A k \in Kept(held) : \E i \in 1..Len(rows) : s[i] = k
<1> DEFINE K == Kept(held)
           c == Cardinality(K)
<1>1. K \in SUBSET Nat /\ IsFiniteSet(K)
  <2>1. IsFiniteSet(1..Len(held))
    BY FS_Interval
  <2>2. K \in SUBSET (1..Len(held))
    BY DEF Kept
  <2> HIDE DEF K
  <2>3. IsFiniteSet(K)
    BY <2>1, <2>2, FS_Subset
  <2> QED
    BY <2>2, <2>3
<1>2. rows = [n \in 1..c |-> BalanceOf(held[s[n]])]
  BY Zenon DEF BudgetBalance, Extracted, Kept, Places, BalanceOf
<1>3. BudgetBalance(held).status = (IF K = {} THEN "none" ELSE "rows")
  BY Zenon DEF BudgetBalance, Extracted, Kept
<1>4. s = InOrder(K, Ascending(K))
  BY DEF Places
<1> HIDE DEF K
<1>5. StrictlyOrders(Ascending(K), K)
  BY <1>1, AscendingOrders
<1>6. /\ c \in Nat
      /\ s \in [1..c -> K]
      /\ \A i, j \in 1..c : i < j => <<s[i], s[j]>> \in Ascending(K)
      /\ \A k \in K : \E i \in 1..c : s[i] = k
  BY <1>1, <1>4, <1>5, InOrderLists
<1> HIDE DEF c
<1>7. Len(rows) = c
  BY <1>2, <1>6
<1>8. \A i, j \in 1..Len(rows) : i < j => s[i] < s[j]
  BY <1>6, <1>7 DEF Ascending
<1>9. \A i \in 1..Len(rows) : s[i] \in K /\ rows[i] = BalanceOf(held[s[i]])
  BY <1>2, <1>6, <1>7
<1> QED
  BY <1>3, <1>6, <1>7, <1>8, <1>9 DEF K

QuartersInOrder(held) ==
  /\ \A n \in 1..Len(held) : held[n].quarter \in Nat
  /\ \A m, n \in 1..Len(held) : m < n => held[m].quarter < held[n].quarter

\* Each quarter has one balance; in a bundle with one report of each quarter,
\* in order, it is the one that the report shows.
LEMMA BalanceAgrees ==
  ASSUME NEW held, Len(held) \in Nat, NEW rows, rows = BudgetBalance(held).rows
  PROVE  /\ KeysOnce(rows)
         /\ QuartersInOrder(held) =>
              /\ PeriodsInOrder(rows)
              /\ \A i \in 1..Len(rows), n \in 1..Len(held) :
                   rows[i].period = held[n].quarter =>
                     held[n].figures[rows[i].period] = rows[i].figure
<1> DEFINE s == Places(held)
<1> HIDE DEF s
<1>1. /\ \A i \in 1..Len(rows) : s[i] \in Kept(held) /\ rows[i] = BalanceOf(held[s[i]])
      /\ \A i, j \in 1..Len(rows) : i < j => s[i] < s[j]
  BY BalanceRows DEF s
<1>2. \A k \in Kept(held) : k \in 1..Len(held) /\ HasBalance(held[k]) /\ FirstOfQuarter(held, k)
  BY DEF Kept
<1>3. \A i \in 1..Len(rows) :
        /\ rows[i].period = held[s[i]].quarter /\ rows[i].place = Everywhere
        /\ rows[i].figure = held[s[i]].figures[held[s[i]].quarter]
  BY <1>1, BalanceFields
<1>4. KeysOnce(rows)
  <2> SUFFICES ASSUME NEW i \in 1..Len(rows), NEW j \in 1..Len(rows), i < j,
                      KeyOf(rows[i]) = KeyOf(rows[j])
               PROVE  FALSE
    BY DEF KeysOnce
  <2>1. held[s[i]].quarter = held[s[j]].quarter
    BY <1>3 DEF KeyOf
  <2>2. s[i] \in 1..(s[j] - 1) /\ HasBalance(held[s[i]]) /\ FirstOfQuarter(held, s[j])
    BY <1>1, <1>2
  <2> QED
    BY <2>1, <2>2 DEF FirstOfQuarter
<1>5. ASSUME QuartersInOrder(held) PROVE PeriodsInOrder(rows)
  <2> SUFFICES ASSUME NEW i \in 1..Len(rows), NEW j \in 1..Len(rows), i < j
               PROVE  rows[i].period <= rows[j].period
    BY DEF PeriodsInOrder
  <2>1. s[i] \in 1..Len(held) /\ s[j] \in 1..Len(held) /\ s[i] < s[j]
    BY <1>1, <1>2
  <2>2. /\ held[s[i]].quarter \in Nat /\ held[s[j]].quarter \in Nat
        /\ held[s[i]].quarter < held[s[j]].quarter
    BY <2>1, <1>5 DEF QuartersInOrder
  <2> QED
    BY <2>2, <1>3
<1>6. ASSUME QuartersInOrder(held), NEW i \in 1..Len(rows), NEW n \in 1..Len(held),
             rows[i].period = held[n].quarter
      PROVE  held[n].figures[rows[i].period] = rows[i].figure
  <2>1. s[i] \in 1..Len(held) /\ held[s[i]].quarter = held[n].quarter
    BY <1>1, <1>2, <1>3, <1>6
  <2>2. ~(s[i] < n) /\ ~(n < s[i])
    BY <2>1, <1>6 DEF QuartersInOrder
  <2>3. s[i] = n
    BY <2>1, <2>2
  <2> QED
    BY <2>3, <1>3, <1>6
<1> QED
  BY <1>4, <1>5, <1>6

\* A bundle of reports in order, one of each quarter, gives all their balances.
LEMMA BalanceWhole ==
  ASSUME NEW held, Len(held) \in Nat, Len(held) # 0, QuartersInOrder(held),
         \A n \in 1..Len(held) :
           held[n].flaw = "none" /\ held[n].quarter \in DOMAIN held[n].figures
  PROVE  /\ BudgetBalance(held).status = "rows"
         /\ PeriodsIn(BudgetBalance(held).rows) = {held[n].quarter : n \in 1..Len(held)}
<1> DEFINE s == Places(held)
           rows == BudgetBalance(held).rows
<1> HIDE DEF s, rows
<1>1. ASSUME NEW n \in 1..Len(held) PROVE n \in Kept(held)
  <2>1. HasBalance(held[n])
    BY DEF HasBalance
  <2>2. FirstOfQuarter(held, n)
    BY DEF FirstOfQuarter, QuartersInOrder
  <2> QED
    BY <2>1, <2>2 DEF Kept
<1>2. Kept(held) = 1..Len(held) /\ Kept(held) # {}
  <2>1. 1 \in 1..Len(held)
    OBVIOUS
  <2>2. Kept(held) \subseteq 1..Len(held)
    BY DEF Kept
  <2> QED
    BY <2>1, <2>2, <1>1
<1>3. /\ BudgetBalance(held).status = (IF Kept(held) = {} THEN "none" ELSE "rows")
      /\ \A i \in 1..Len(rows) : s[i] \in Kept(held) /\ rows[i] = BalanceOf(held[s[i]])
      /\ \A k \in Kept(held) : \E i \in 1..Len(rows) : s[i] = k
  BY BalanceRows DEF s, rows
<1>4. \A i \in 1..Len(rows) : rows[i].period = held[s[i]].quarter /\ s[i] \in 1..Len(held)
  BY <1>2, <1>3, BalanceFields
<1>5. \A n \in 1..Len(held) : \E i \in 1..Len(rows) : s[i] = n /\ rows[i].period = held[n].quarter
  BY <1>2, <1>3, <1>4
<1>6. PeriodsIn(rows) = {held[n].quarter : n \in 1..Len(held)}
  <2> DEFINE quarters == {held[n].quarter : n \in 1..Len(held)}
  <2>1. \A i \in 1..Len(rows) : rows[i].period \in quarters
    BY <1>4
  <2>2. \A n \in 1..Len(held) : held[n].quarter \in PeriodsIn(rows)
    BY <1>5 DEF PeriodsIn
  <2>3. PeriodsIn(rows) \subseteq quarters
    BY <2>1 DEF PeriodsIn
  <2> QED
    BY <2>2, <2>3
<1> QED
  BY <1>2, <1>3, <1>6 DEF rows
-----------------------------------------------------------------------------
(***************************************************************************)
(* The links that are fetched.                                             *)
(***************************************************************************)
\* A non-empty set of naturals has a least element.
LEMMA LeastExists ==
  ASSUME NEW K, K \subseteq Nat, K # {}
  PROVE  \E k \in K : \A j \in K : k <= j
<1>1. PICK k \in K : \A j \in K : ~(<<j, k>> \in OpToRel(<, Nat))
  BY NatLessThanWellFounded, WFMin
<1>2. ASSUME NEW j \in K, j < k PROVE FALSE
  <2>1. <<j, k>> \in OpToRel(<, Nat)
    BY <1>2 DEF OpToRel
  <2> QED
    BY <1>1, <2>1
<1> QED
  BY <1>2

ListUrls(urls, page, places, before) ==
  /\ urls \in Seq(ReportUrls)
  /\ \A n \in 1..Len(urls) : \E i \in places : urls[n] = page[i]
  /\ \A i \in places : \E n \in 1..Len(urls) : urls[n] = page[i]
  /\ \A m, n \in 1..Len(urls) : m < n =>
       \E i, j \in places : urls[m] = page[i] /\ urls[n] = page[j] /\ <<i, j>> \in before

\* URLs at places of a page are those of its links there, in their order.
LEMMA UrlsListed ==
  ASSUME NEW page, Len(page) \in Nat, NEW places \in SUBSET ReportLinks(page),
         NEW before, StrictlyOrders(before, places),
         NEW urls, urls = UrlsAt(page, places, before)
  PROVE  ListUrls(urls, page, places, before)
<1> DEFINE s == InOrder(places, before)
           c == Cardinality(places)
<1>1. IsFiniteSet(places)
  <2>1. IsFiniteSet(1..Len(page))
    BY FS_Interval
  <2>2. places \in SUBSET (1..Len(page))
    BY DEF ReportLinks
  <2> QED
    BY <2>1, <2>2, FS_Subset
<1>2. /\ c \in Nat /\ s \in [1..c -> places]
      /\ \A i, j \in 1..c : i < j => <<s[i], s[j]>> \in before
      /\ \A x \in places : \E i \in 1..c : s[i] = x
  BY <1>1, InOrderLists
<1>3. urls = [n \in 1..c |-> page[s[n]]]
  BY DEF UrlsAt
<1> HIDE DEF s, c
<1>4. \A n \in 1..c : s[n] \in places /\ page[s[n]] \in ReportUrls
  BY <1>2 DEF ReportLinks
<1>5. urls \in Seq(ReportUrls) /\ Len(urls) = c /\ \A n \in 1..c : urls[n] = page[s[n]]
  BY <1>2, <1>3, <1>4
<1>6. \A n \in 1..Len(urls) : \E i \in places : urls[n] = page[i]
  BY <1>4, <1>5
<1>7. \A i \in places : \E n \in 1..Len(urls) : urls[n] = page[i]
  BY <1>2, <1>5
<1>8. \A m, n \in 1..Len(urls) : m < n =>
        \E i, j \in places :
          urls[m] = page[i] /\ urls[n] = page[j] /\ <<i, j>> \in before
  BY <1>2, <1>4, <1>5
<1> QED
  BY <1>5, <1>6, <1>7, <1>8 DEF ListUrls

Linked(page) == {page[i] : i \in 1..Len(page)} \cap ReportUrls

\* Every report a page links to is fetched by the SAMA connector, once.
LEMMA PosUrlsListed ==
  ASSUME NEW page, Len(page) \in Nat
  PROVE  /\ PosUrls(page) \in Seq(ReportUrls)
         /\ \A n \in 1..Len(PosUrls(page)) : PosUrls(page)[n] \in Linked(page)
         /\ \A u \in Linked(page) : \E n \in 1..Len(PosUrls(page)) : PosUrls(page)[n] = u
<1> DEFINE urls == PosUrls(page)
           places == FirstOfUrl(page)
<1>1. places \in SUBSET ReportLinks(page) /\ places \in SUBSET Nat
  BY DEF FirstOfUrl, ReportLinks
<1>2. /\ urls \in Seq(ReportUrls)
      /\ \A n \in 1..Len(urls) : \E i \in places : urls[n] = page[i]
      /\ \A i \in places : \E n \in 1..Len(urls) : urls[n] = page[i]
  <2>1. StrictlyOrders(Ascending(places), places)
    BY <1>1, AscendingOrders
  <2>2. urls = UrlsAt(page, places, Ascending(places))
    BY DEF PosUrls
  <2> HIDE DEF places, urls
  <2>3. ListUrls(urls, page, places, Ascending(places))
    BY <1>1, <2>1, <2>2, UrlsListed
  <2> QED
    BY <2>3 DEF ListUrls
<1> HIDE DEF urls
<1>3. ASSUME NEW u \in Linked(page) PROVE \E i \in places : page[i] = u
  <2> DEFINE K == {i \in 1..Len(page) : page[i] = u}
  <2>1. K \subseteq Nat /\ K # {}
    BY DEF Linked
  <2> HIDE DEF K
  <2>2. PICK k \in K : \A j \in K : k <= j
    BY <2>1, LeastExists
  <2>3. k \in ReportLinks(page) /\ page[k] = u /\ k \in Nat
    BY DEF K, ReportLinks, Linked
  <2>4. \A j \in ReportLinks(page) : j < k => page[j] # page[k]
    <3> SUFFICES ASSUME NEW j \in ReportLinks(page), j < k, page[j] = page[k] PROVE FALSE
      OBVIOUS
    <3>1. j \in K /\ j \in Nat
      BY <2>3 DEF K, ReportLinks
    <3> QED
      BY <3>1, <2>2, <2>3
  <2> QED
    BY <2>3, <2>4 DEF FirstOfUrl
<1>4. \A i \in places : page[i] \in Linked(page)
  BY DEF FirstOfUrl, ReportLinks, Linked
<1> HIDE DEF places
<1>5. \A u \in Linked(page) : \E n \in 1..Len(urls) : urls[n] = u
  BY <1>2, <1>3
<1>6. \A n \in 1..Len(urls) : urls[n] \in Linked(page)
  BY <1>2, <1>4
<1> QED
  BY <1>2, <1>5, <1>6 DEF urls

\* The connector of the Ministry of Finance fetches one report of each quarter
\* that a page links to, in the order of quarters.
LEMMA MofUrlsListed ==
  ASSUME NEW page, Len(page) \in Nat
  PROVE  /\ MofUrls(page) \in Seq(ReportUrls)
         /\ \A m, n \in 1..Len(MofUrls(page)) :
              m < n => PeriodOf[MofUrls(page)[m]] < PeriodOf[MofUrls(page)[n]]
         /\ \A n \in 1..Len(MofUrls(page)) : MofUrls(page)[n] \in Linked(page)
         /\ \A u \in Linked(page) : \E n \in 1..Len(MofUrls(page)) :
              PeriodOf[MofUrls(page)[n]] = PeriodOf[u]
<1> DEFINE urls == MofUrls(page)
           places == LastOfQuarter(page)
           before == ByQuarter(page, places)
<1>1. places \in SUBSET ReportLinks(page)
  BY DEF LastOfQuarter
<1>2. \A i \in ReportLinks(page) : page[i] \in Linked(page) /\ QuarterAt(page, i) \in Nat /\ i \in Nat
  BY ReportsAssumption DEF ReportsAssumption, QuarterAt, ReportLinks, ReportUrls, Linked
<1>3. \A i, j \in places : <<i, j>> \in before <=> QuarterAt(page, i) < QuarterAt(page, j)
  BY DEF ByQuarter
<1>4. \A i, j \in places : i < j => QuarterAt(page, j) # QuarterAt(page, i)
  BY DEF LastOfQuarter
<1>5. urls = UrlsAt(page, places, before)
  BY DEF MofUrls
<1>6. ASSUME NEW u \in Linked(page) PROVE \E i \in places : PeriodOf[page[i]] = PeriodOf[u]
  <2> DEFINE K == {d \in Nat : \E i \in ReportLinks(page) :
                     PeriodOf[page[i]] = PeriodOf[u] /\ d = Len(page) - i}
  <2>1. K \subseteq Nat /\ K # {}
    <3>1. PICK i \in 1..Len(page) : page[i] = u
      BY DEF Linked
    <3>2. i \in ReportLinks(page) /\ Len(page) - i \in Nat
      BY <3>1 DEF Linked, ReportLinks
    <3> QED
      BY <3>1, <3>2
  <2>2. \A d \in K : \E i \in ReportLinks(page) :
           PeriodOf[page[i]] = PeriodOf[u] /\ d = Len(page) - i
    OBVIOUS
  <2>3. \A i \in ReportLinks(page) : i \in 1..Len(page) /\ Len(page) - i \in Nat
    BY DEF ReportLinks
  <2>4. \A i \in ReportLinks(page) : PeriodOf[page[i]] = PeriodOf[u] => Len(page) - i \in K
    BY <2>3
  <2> HIDE DEF K
  <2>5. PICK d \in K : \A j \in K : d <= j
    BY <2>1, LeastExists
  <2>6. PICK k \in ReportLinks(page) : PeriodOf[page[k]] = PeriodOf[u] /\ d = Len(page) - k
    BY <2>2
  <2>7. \A j \in ReportLinks(page) : k < j => QuarterAt(page, j) # QuarterAt(page, k)
    <3> SUFFICES ASSUME NEW j \in ReportLinks(page), k < j, QuarterAt(page, j) = QuarterAt(page, k)
                 PROVE  FALSE
      OBVIOUS
    <3>1. PeriodOf[page[j]] = PeriodOf[u]
      BY <2>6 DEF QuarterAt
    <3>2. d <= Len(page) - j
      BY <3>1, <2>4, <2>5
    <3> QED
      BY <3>2, <2>3, <2>6
  <2> QED
    BY <2>6, <2>7 DEF LastOfQuarter
<1> HIDE DEF before, places, urls
<1>7. StrictlyOrders(before, places)
  <2>1. \A i, j \in places : i # j => i < j \/ j < i
    BY <1>1, <1>2
  <2>2. \A i \in places : QuarterAt(page, i) \in Nat
    BY <1>1, <1>2
  <2>3. \A i, j \in places : i # j => QuarterAt(page, i) # QuarterAt(page, j)
    BY <2>1, <1>4
  <2> QED
    BY <1>3, <2>2, <2>3 DEF StrictlyOrders
<1>8. /\ urls \in Seq(ReportUrls)
      /\ \A n \in 1..Len(urls) : \E i \in places : urls[n] = page[i]
      /\ \A i \in places : \E n \in 1..Len(urls) : urls[n] = page[i]
      /\ \A m, n \in 1..Len(urls) : m < n =>
           \E i, j \in places : urls[m] = page[i] /\ urls[n] = page[j] /\ <<i, j>> \in before
  <2>1. ListUrls(urls, page, places, before)
    BY <1>1, <1>5, <1>7, UrlsListed
  <2> QED
    BY <2>1 DEF ListUrls
<1>9. \A m, n \in 1..Len(urls) : m < n => PeriodOf[urls[m]] < PeriodOf[urls[n]]
  <2> SUFFICES ASSUME NEW m \in 1..Len(urls), NEW n \in 1..Len(urls), m < n
               PROVE  PeriodOf[urls[m]] < PeriodOf[urls[n]]
    OBVIOUS
  <2>1. \E i, j \in places : urls[m] = page[i] /\ urls[n] = page[j] /\ <<i, j>> \in before
    BY <1>8
  <2>2. PICK i \in places, j \in places :
           urls[m] = page[i] /\ urls[n] = page[j] /\ <<i, j>> \in before
    BY <2>1
  <2> QED
    BY <1>3, <2>2 DEF QuarterAt
<1>10. \A n \in 1..Len(urls) : urls[n] \in Linked(page)
  BY <1>1, <1>2, <1>8
<1>11. \A u \in Linked(page) : \E n \in 1..Len(urls) : PeriodOf[urls[n]] = PeriodOf[u]
  BY <1>6, <1>8
<1> QED
  BY <1>8, <1>9, <1>10, <1>11 DEF urls
-----------------------------------------------------------------------------
(***************************************************************************)
(* The invariant.  While a bundle is fetched, the URLs still to be fetched *)
(* are the last of those of the page, the reports held are as many as came *)
(* before them, and each came from its own URL unless a redirect moved it. *)
(***************************************************************************)
ReportsAt(u) ==
  [quarter : {PeriodOf[u]}, figures : [PeriodsOf(u) -> Nat], cities : CityTables, flaw : Flaws]

AnyReport ==
  [quarter : Nat, figures : UNION {[PeriodsOf(u) -> Nat] : u \in ReportUrls},
   cities : CityTables, flaw : Flaws]

SourceType ==
  /\ links \in Seq(Urls)
  /\ DOMAIN reports = ReportUrls
  /\ \A u \in ReportUrls : reports[u] \in ReportsAt(u)
  /\ revisions \in Nat

Bundles ==
  [pc : {"idle", "page", "reports", "done", "raised"},
   urls : Seq(ReportUrls), held : Seq(AnyReport),
   cause : {"none", "request", "html", "pdf", "page"},
   since : Nat, moved : BOOLEAN, page : Seq(Urls)]

AllUrls == UrlsOf(bundle.page)
CameJustNow == call.pc = "answered" /\ call.url \in ReportUrls
Fetched == IF CameJustNow THEN Len(bundle.held) - 1 ELSE Len(bundle.held)

PageFits ==
  /\ bundle.pc = "page" =>
       /\ bundle.held = <<>>
       /\ call.pc = "answered" /\ revisions = bundle.since => bundle.page = links
  /\ bundle.pc \in {"reports", "done"} /\ revisions = bundle.since => bundle.page = links

UrlsFit ==
  bundle.pc = "reports" =>
    /\ bundle.urls # <<>>
    /\ call.start = bundle.urls[1]
    /\ Fetched >= 0
    /\ Fetched + Len(bundle.urls) = Len(AllUrls)
    /\ \A i \in 1..Len(bundle.urls) : bundle.urls[i] = AllUrls[Fetched + i]

HeldFits ==
  bundle.pc \in {"reports", "done"} =>
    \A k \in 1..Len(bundle.held) :
      ~bundle.moved =>
        /\ bundle.held[k].quarter = PeriodOf[AllUrls[k]]
        /\ revisions = bundle.since => bundle.held[k] = reports[AllUrls[k]]

DoneFits ==
  bundle.pc = "done" => Len(bundle.held) = Len(AllUrls) /\ AllUrls # <<>>

BundleInv ==
  /\ SourceType /\ bundle \in Bundles
  /\ bundle.since <= revisions
  /\ PageFits /\ UrlsFit /\ HeldFits /\ DoneFits

Inv == CallInv /\ BundleInv
-----------------------------------------------------------------------------
\* The periods of a report are numbers, its own one among them.
LEMMA PeriodsTypes ==
  ASSUME NEW u \in ReportUrls
  PROVE  /\ u \in Approved /\ u \in Urls /\ PeriodOf[u] \in Nat /\ PeriodOf[u] # 0
         /\ PeriodsOf(u) \subseteq Nat /\ PeriodOf[u] \in PeriodsOf(u)
         /\ IsFiniteSet(PeriodsOf(u))
<1>1. u \in Approved /\ u \in Urls /\ PeriodOf[u] \in Nat /\ PeriodOf[u] # 0
  BY ReportsAssumption DEF ReportsAssumption, ReportUrls, Urls
<1>2. PeriodsOf(u) \subseteq Nat /\ PeriodOf[u] \in PeriodsOf(u)
  BY <1>1 DEF PeriodsOf
<1>3. PeriodsOf(u) \subseteq (PeriodOf[u] - 1)..PeriodOf[u]
  BY <1>1 DEF PeriodsOf
<1>4. PeriodOf[u] - 1 \in Int /\ PeriodOf[u] \in Int
  BY <1>1
<1>5. IsFiniteSet((PeriodOf[u] - 1)..PeriodOf[u])
  BY <1>4, FS_Interval
<1>6. IsFiniteSet(PeriodsOf(u))
  BY <1>3, <1>5, FS_Subset
<1> QED
  BY <1>1, <1>2, <1>6

\* What the source has is a report, and stays one when it is corrected.
LEMMA SourceReportTypes ==
  ASSUME NEW u \in ReportUrls, NEW r \in ReportsAt(u)
  PROVE  /\ r \in AnyReport /\ r.quarter = PeriodOf[u]
         /\ DOMAIN r.figures = PeriodsOf(u) /\ r.figures \in [PeriodsOf(u) -> Nat]
         /\ \A p \in PeriodsOf(u) : [r EXCEPT !.figures[p] = @ + 1] \in ReportsAt(u)
         /\ \A flaw \in Flaws : [r EXCEPT !.flaw = flaw] \in ReportsAt(u)
         /\ \A cities \in CityTables : [r EXCEPT !.cities = cities] \in ReportsAt(u)
<1>1. PeriodOf[u] \in Nat
  BY PeriodsTypes
<1>2. r.figures \in [PeriodsOf(u) -> Nat]
  BY DEF ReportsAt
<1>3. ASSUME NEW p \in PeriodsOf(u) PROVE [r EXCEPT !.figures[p] = @ + 1] \in ReportsAt(u)
  <2>1. [r.figures EXCEPT ![p] = @ + 1] \in [PeriodsOf(u) -> Nat]
    BY <1>2
  <2> DEFINE figures == [r.figures EXCEPT ![p] = @ + 1]
  <2>2. [r EXCEPT !.figures[p] = @ + 1] = [r EXCEPT !.figures = figures]
    OBVIOUS
  <2> HIDE DEF figures
  <2>3. [r EXCEPT !.figures = figures] \in ReportsAt(u)
    BY <2>1 DEF ReportsAt, figures
  <2> QED
    BY <2>2, <2>3
<1>4. r \in AnyReport /\ r.quarter = PeriodOf[u]
  BY <1>1, <1>2 DEF ReportsAt, AnyReport
<1>5. \A flaw \in Flaws : [r EXCEPT !.flaw = flaw] \in ReportsAt(u)
  BY DEF ReportsAt
<1>6. \A cities \in CityTables : [r EXCEPT !.cities = cities] \in ReportsAt(u)
  BY DEF ReportsAt
<1> QED
  BY <1>2, <1>3, <1>4, <1>5, <1>6

\* Whatever is held is a report.
LEMMA AnyReportTypes ==
  ASSUME NEW r \in AnyReport
  PROVE  IsReport(r) /\ r.quarter \in Nat /\ DOMAIN r.figures # {}
<1>1. PICK u \in ReportUrls : r.figures \in [PeriodsOf(u) -> Nat]
  BY DEF AnyReport
<1>2. DOMAIN r.figures = PeriodsOf(u)
  BY <1>1
<1>3. \A p \in DOMAIN r.figures : r.figures[p] \in Nat
  BY <1>1
<1> QED
  BY <1>2, <1>3, PeriodsTypes DEF AnyReport, IsReport

\* The URLs of a page are those of reports.
LEMMA UrlsOfTypes ==
  ASSUME NEW page \in Seq(Urls)
  PROVE  UrlsOf(page) \in Seq(ReportUrls)
<1>1. Len(page) \in Nat
  OBVIOUS
<1> QED
  BY <1>1, PosUrlsListed, MofUrlsListed DEF UrlsOf

\* The connector begins at rest, and the source with reports in order.
LEMMA InvInit == Init => Inv
<1> SUFFICES ASSUME Init PROVE Inv
  OBVIOUS
<1>1. CallInv
  BY CallInvInit DEF Init
<1>2. SourceType
  <2>1. links \in Seq(Urls) /\ revisions \in Nat /\ DOMAIN reports = ReportUrls
    BY ReportsAssumption DEF Init, ReportsAssumption
  <2>2. ASSUME NEW u \in ReportUrls PROVE reports[u] \in ReportsAt(u)
    <3>1. reports[u] = FirstReport(u)
      BY DEF Init
    <3>2. [p \in PeriodsOf(u) |-> 0] \in [PeriodsOf(u) -> Nat]
      OBVIOUS
    <3> QED
      BY <3>1, <3>2 DEF FirstReport, Report, ReportsAt, CityTables, TwoTables, Flaws
  <2> QED
    BY <2>1, <2>2 DEF SourceType
<1>3. bundle \in Bundles /\ bundle.pc = "idle" /\ bundle.since <= revisions
  BY DEF Init, IdleBundle, Bundles
<1>4. BundleInv
  BY <1>2, <1>3 DEF BundleInv, PageFits, UrlsFit, HeldFits, DoneFits
<1> QED
  BY <1>1, <1>4 DEF Inv
-----------------------------------------------------------------------------
(***************************************************************************)
(* The steps.                                                              *)
(***************************************************************************)
\* A bundle touches a request in the ways any connector does.
LEMMA BundleIsConnector == Inv /\ [Next]_vars => ConnectorStep
<1> SUFFICES ASSUME Inv, [Next]_vars PROVE ConnectorStep
  OBVIOUS
<1>1. SourceUrl \in Urls
  BY RequestAssumption DEF RequestAssumption, Urls
<1>2. ASSUME Settle PROVE ConnectorStep
  BY <1>2 DEF Settle, sourceVars, ConnectorStep
<1>3. ASSUME NEW cause, Raises(cause) PROVE ConnectorStep
  BY <1>2, <1>3 DEF Raises
<1>4. bundle.page \in Seq(Urls) /\ bundle.urls \in Seq(ReportUrls) /\ ReportUrls \subseteq Urls
  BY PeriodsTypes DEF Inv, BundleInv, Bundles
<1>5. CASE SourceStep \/ Return \/ UNCHANGED vars
  BY <1>5 DEF SourceStep, Return, vars, sourceVars, ConnectorStep
<1>6. CASE StartFetch
  BY <1>1, <1>6 DEF StartFetch, sourceVars, ConnectorStep
<1>7. CASE Answer \/ RequestGoesOn
  BY <1>7 DEF Answer, RequestGoesOn, sourceVars, ConnectorStep, CallNext
<1>8. CASE RequestRaised \/ RefusePage \/ RefuseReport
  BY <1>3, <1>8 DEF RequestRaised, RefusePage, RefuseReport
<1>9. CASE ResumePage
  <2>1. CASE PageRefused(bundle.page)
    BY <1>3, <1>9, <2>1 DEF ResumePage
  <2>2. CASE ~PageRefused(bundle.page)
    <3>1. UrlsOf(bundle.page) \in Seq(ReportUrls) /\ Len(UrlsOf(bundle.page)) \in 1..MaxReports
      BY <1>4, <2>2, UrlsOfTypes DEF PageRefused
    <3> DEFINE urls == UrlsOf(bundle.page)
    <3> HIDE DEF urls
    <3>2. urls[1] \in Urls
      BY <1>4, <3>1, ReportsAssumption DEF urls, ReportsAssumption
    <3>3. Begin(urls[1], FALSE) /\ UNCHANGED sourceVars
      BY <1>9, <2>2 DEF ResumePage, urls
    <3> QED
      BY <3>2, <3>3 DEF ConnectorStep, sourceVars
  <2> QED
    BY <2>1, <2>2
<1>10. CASE ResumeReport
  <2>1. CASE Tail(bundle.urls) = <<>>
    BY <1>2, <1>10, <2>1 DEF ResumeReport
  <2>2. CASE Tail(bundle.urls) # <<>>
    <3> DEFINE rest == Tail(bundle.urls)
    <3>1. bundle.urls # <<>>
      BY <1>10 DEF ResumeReport, Inv, BundleInv, UrlsFit
    <3>2. rest \in Seq(ReportUrls) /\ rest # <<>>
      BY <1>4, <2>2, <3>1, HeadTailProperties
    <3>3. Begin(rest[1], FALSE) /\ UNCHANGED sourceVars
      BY <1>10, <2>2 DEF ResumeReport
    <3> HIDE DEF rest
    <3>4. rest[1] \in Urls
      BY <1>4, <3>2
    <3> QED
      BY <3>3, <3>4 DEF ConnectorStep, sourceVars
  <2> QED
    BY <2>1, <2>2
<1> QED
  BY <1>5, <1>6, <1>7, <1>8, <1>9, <1>10 DEF Next, Resume

\* A change of the source comes after the fetch began.
LEMMA SourceKeeps == Inv /\ SourceStep => BundleInv'
<1> SUFFICES ASSUME Inv, SourceStep PROVE BundleInv'
  OBVIOUS
<1>1. UNCHANGED <<call, sama, bundle>> /\ revisions' = revisions + 1
  BY DEF SourceStep, callVars, Correct, Spoil, Regroup, AddLink, Change
<1>2. SourceType /\ bundle \in Bundles
  BY DEF Inv, BundleInv
<1>3. SourceType'
  <2>1. revisions' \in Nat
    BY <1>1, <1>2 DEF SourceType
  <2>2. ASSUME UNCHANGED links, DOMAIN reports' = ReportUrls,
               \A u \in ReportUrls : reports'[u] \in ReportsAt(u)
        PROVE  SourceType'
    BY <1>2, <2>1, <2>2 DEF SourceType
  <2>3. CASE Correct
    <3>1. PICK p \in UNION {PeriodsOf(u) : u \in ReportUrls}, some \in (SUBSET ReportUrls) \ {{}} :
             /\ \A u \in some : p \in PeriodsOf(u)
             /\ reports' = [u \in ReportUrls |->
                  IF u \in some THEN [reports[u] EXCEPT !.figures[p] = @ + 1] ELSE reports[u]]
      BY <2>3 DEF Correct
    <3>2. ASSUME NEW u \in ReportUrls PROVE reports'[u] \in ReportsAt(u)
      <4>1. reports[u] \in ReportsAt(u)
        BY <1>2 DEF SourceType
      <4>2. CASE u \in some
        <5>1. reports'[u] = [reports[u] EXCEPT !.figures[p] = @ + 1]
          BY <3>1, <4>2
        <5>2. p \in PeriodsOf(u)
          BY <3>1, <4>2
        <5> DEFINE r == reports[u]
        <5>3. \A q \in PeriodsOf(u) : [r EXCEPT !.figures[q] = @ + 1] \in ReportsAt(u)
          BY <4>1, SourceReportTypes
        <5>4. [r EXCEPT !.figures[p] = @ + 1] \in ReportsAt(u)
          BY <5>2, <5>3, Zenon
        <5> QED
          BY <5>1, <5>4, Zenon
      <4>3. CASE u \notin some
        BY <3>1, <4>1, <4>3
      <4> QED
        BY <4>2, <4>3
    <3> QED
      BY <2>2, <2>3, <3>1, <3>2 DEF Correct
  <2>4. CASE Spoil
    <3>1. PICK v \in ReportUrls, flaw \in Flaws \ {"none"} :
             reports' = [reports EXCEPT ![v].flaw = flaw]
      BY <2>4 DEF Spoil
    <3>2. ASSUME NEW u \in ReportUrls PROVE reports'[u] \in ReportsAt(u)
      <4>1. reports[u] \in ReportsAt(u)
        BY <1>2 DEF SourceType
      <4>2. reports'[u] = IF u = v THEN [reports[u] EXCEPT !.flaw = flaw] ELSE reports[u]
        BY <1>2, <3>1 DEF SourceType
      <4> QED
        BY <4>1, <4>2, SourceReportTypes
    <3> QED
      BY <1>2, <2>2, <2>4, <3>1, <3>2 DEF Spoil, SourceType
  <2>5. CASE Regroup
    <3>1. PICK v \in ReportUrls, cities \in {<<{Riyadh}, {}>>, <<{Abha}, {Abha}>>} :
             reports' = [reports EXCEPT ![v].cities = cities]
      BY <2>5 DEF Regroup
    <3>2. cities \in CityTables
      BY DEF CityTables
    <3>3. ASSUME NEW u \in ReportUrls PROVE reports'[u] \in ReportsAt(u)
      <4>1. reports[u] \in ReportsAt(u)
        BY <1>2 DEF SourceType
      <4>2. reports'[u] = IF u = v THEN [reports[u] EXCEPT !.cities = cities] ELSE reports[u]
        BY <1>2, <3>1 DEF SourceType
      <4> QED
        BY <3>2, <4>1, <4>2, SourceReportTypes
    <3> QED
      BY <1>2, <2>2, <2>5, <3>1, <3>3 DEF Regroup, SourceType
  <2>6. CASE AddLink
    <3>1. PICK u \in ReportUrls : links' = Append(links, u)
      BY <2>6 DEF AddLink
    <3>2. u \in Urls
      BY PeriodsTypes
    <3> QED
      BY <1>2, <2>1, <2>6, <3>1, <3>2 DEF SourceType, AddLink
  <2> QED
    BY <2>3, <2>4, <2>5, <2>6 DEF SourceStep
<1>4. bundle.since <= revisions' /\ revisions' # bundle.since
  BY <1>1, <1>2 DEF Inv, BundleInv, SourceType, Bundles
<1>5. Fetched' = Fetched /\ AllUrls' = AllUrls
  BY <1>1 DEF Fetched, AllUrls, UrlsOf, CameJustNow
<1>6. PageFits' /\ UrlsFit' /\ HeldFits' /\ DoneFits'
  BY <1>1, <1>4, <1>5 DEF Inv, BundleInv, PageFits, UrlsFit, HeldFits, DoneFits
<1> QED
  BY <1>1, <1>2, <1>3, <1>4, <1>6 DEF BundleInv

\* A record of the bundle's type has its fields.
LEMMA BundleFields ==
  ASSUME NEW b \in Bundles
  PROVE  /\ b.urls \in Seq(ReportUrls) /\ b.held \in Seq(AnyReport) /\ b.page \in Seq(Urls)
         /\ b.since \in Nat /\ b.moved \in BOOLEAN
         /\ Len(b.held) \in Nat /\ Len(b.urls) \in Nat
         /\ UrlsOf(b.page) \in Seq(ReportUrls)
BY UrlsOfTypes DEF Bundles

\* What begins a request leaves it sent or raised.
LEMMA Begun ==
  ASSUME NEW u, NEW form, Begin(u, form)
  PROVE  call'.pc \in {"sending", "raised"} /\ call'.start = u
BY DEF Begin, NewCall

\* An answer adds the report that the source has, and says where it came from.
LEMMA AnswerKeeps == Inv /\ Answer => BundleInv'
<1> SUFFICES ASSUME Inv, Answer PROVE BundleInv'
  OBVIOUS
<1>1. /\ SourceType /\ bundle \in Bundles /\ call \in Call
      /\ PageFits /\ UrlsFit /\ HeldFits /\ DoneFits
      /\ bundle.since <= revisions
  BY DEF Inv, BundleInv, CallInv
<1>2. /\ call.pc # "answered" /\ call'.pc = "answered"
      /\ call'.url = call.url /\ call'.start = call.start
  BY <1>1 DEF Answer, Succeed, Waiting, Call
<1>3. UNCHANGED sourceVars
  BY DEF Answer
<1> DEFINE held == IF bundle.pc = "reports" /\ call.url \in ReportUrls
                   THEN Append(bundle.held, reports[call.url]) ELSE bundle.held
           page == IF bundle.pc = "page" THEN links ELSE bundle.page
           moved == bundle.moved \/ call.url # call.start
<1>4. bundle' = [bundle EXCEPT !.page = page, !.moved = moved, !.held = held]
  BY DEF Answer
<1>5. page \in Seq(Urls) /\ moved \in BOOLEAN
  BY <1>1, BundleFields DEF SourceType
<1>6. held \in Seq(AnyReport)
  <2>1. call.url \in ReportUrls => reports[call.url] \in AnyReport
    BY <1>1, SourceReportTypes DEF SourceType
  <2> QED
    BY <1>1, <2>1, BundleFields
<1> HIDE DEF held, page, moved
<1>7. /\ bundle' \in Bundles
      /\ bundle'.pc = bundle.pc /\ bundle'.urls = bundle.urls /\ bundle'.since = bundle.since
      /\ bundle'.page = page /\ bundle'.moved = moved /\ bundle'.held = held
  BY <1>1, <1>4, <1>5, <1>6 DEF Bundles
<1>8. SourceType' /\ bundle'.since <= revisions'
  BY <1>1, <1>3, <1>7 DEF SourceType, sourceVars
<1>9. PageFits'
  <2>1. bundle.pc # "reports" => held = bundle.held
    BY DEF held
  <2>2. bundle.pc = "page" => page = links
    BY DEF page
  <2>3. bundle.pc # "page" => page = bundle.page
    BY DEF page
  <2> QED
    BY <1>1, <1>3, <1>7, <2>1, <2>2, <2>3 DEF PageFits, sourceVars
<1>10. CASE bundle.pc \notin {"reports", "done"}
  BY <1>7, <1>8, <1>9, <1>10 DEF BundleInv, UrlsFit, HeldFits, DoneFits
<1>11. CASE bundle.pc = "done"
  <2>1. held = bundle.held /\ page = bundle.page
    BY <1>11 DEF held, page
  <2>2. ~moved => ~bundle.moved
    BY DEF moved
  <2>3. AllUrls' = AllUrls
    BY <1>3, <1>7, <2>1 DEF AllUrls, UrlsOf, sourceVars
  <2>4. DoneFits' /\ UrlsFit'
    BY <1>1, <1>7, <1>11, <2>1, <2>3 DEF DoneFits, UrlsFit
  <2>5. HeldFits'
    BY <1>1, <1>3, <1>7, <1>11, <2>1, <2>2, <2>3 DEF HeldFits, sourceVars
  <2> QED
    BY <1>7, <1>8, <1>9, <2>4, <2>5 DEF BundleInv
<1>12. CASE bundle.pc = "reports"
  <2>1. page = bundle.page /\ (~moved => ~bundle.moved /\ call.url = call.start)
    BY <1>12 DEF page, moved
  <2>2. AllUrls' = AllUrls
    BY <1>3, <1>7, <2>1 DEF AllUrls, UrlsOf, sourceVars
  <2>3. Fetched = Len(bundle.held) /\ Fetched' = Fetched /\ Fetched \in Nat
    <3>1. Fetched = Len(bundle.held) /\ Len(bundle.held) \in Nat
      BY <1>1, <1>2, BundleFields DEF Fetched, CameJustNow
    <3>2. CASE call.url \in ReportUrls
      <4>1. Len(held) = Len(bundle.held) + 1
        BY <1>1, <1>12, <3>2, BundleFields DEF held
      <4>2. Fetched' = Len(held) - 1
        BY <1>2, <1>7, <3>2 DEF Fetched, CameJustNow, ReportUrls
      <4> QED
        BY <3>1, <4>1, <4>2
    <3>3. CASE call.url \notin ReportUrls
      <4>1. held = bundle.held
        BY <3>3 DEF held
      <4>2. Fetched' = Len(held)
        BY <1>2, <1>7, <3>3 DEF Fetched, CameJustNow, ReportUrls
      <4> QED
        BY <3>1, <4>1, <4>2
    <3> QED
      BY <3>2, <3>3
  <2>4. UrlsFit'
    BY <1>1, <1>2, <1>7, <1>12, <2>2, <2>3 DEF UrlsFit
  <2>5. DoneFits'
    BY <1>7, <1>12 DEF DoneFits
  <2>6. HeldFits'
    <3>1. CASE call.url \notin ReportUrls
      <4>1. held = bundle.held
        BY <3>1 DEF held
      <4> QED
        BY <1>1, <1>3, <1>7, <1>12, <2>1, <2>2, <4>1 DEF HeldFits, sourceVars
    <3>2. CASE call.url \in ReportUrls
      <4> DEFINE n == Len(bundle.held) + 1
                 r == reports[call.url]
      <4>1. held = Append(bundle.held, r) /\ bundle.held \in Seq(AnyReport)
        BY <1>1, <1>12, <3>2, BundleFields DEF held
      <4>2. Len(held) = n /\ held[n] = r /\ \A k \in 1..Len(bundle.held) : held[k] = bundle.held[k]
        BY <4>1
      <4>3. ~moved => call.url = AllUrls[n]
        <5>1. call.start = bundle.urls[1] /\ bundle.urls # <<>> /\ Len(bundle.urls) \in Nat
          BY <1>1, <1>12, BundleFields DEF UrlsFit
        <5>2. 1 \in 1..Len(bundle.urls)
          BY <1>1, <5>1, BundleFields
        <5>3. bundle.urls[1] = AllUrls[Fetched + 1]
          BY <1>1, <1>12, <5>2 DEF UrlsFit
        <5> QED
          BY <2>1, <2>3, <5>1, <5>3
      <4>4. r.quarter = PeriodOf[call.url]
        BY <1>1, <3>2, SourceReportTypes DEF SourceType
      <4> HIDE DEF r
      <4>5. ASSUME NEW k \in 1..Len(held), ~moved
            PROVE  /\ held[k].quarter = PeriodOf[AllUrls[k]]
                   /\ revisions = bundle.since => held[k] = reports[AllUrls[k]]
        <5>1. CASE k = n
          BY <4>2, <4>3, <4>4, <4>5, <5>1 DEF r
        <5>2. CASE k # n
          <6>1. k \in 1..Len(bundle.held)
            BY <1>1, <4>2, <5>2, BundleFields
          <6> QED
            BY <1>1, <1>12, <2>1, <4>2, <4>5, <6>1 DEF HeldFits
        <5> QED
          BY <5>1, <5>2
      <4> QED
        BY <1>3, <1>7, <2>2, <4>5 DEF HeldFits, sourceVars
    <3> QED
      BY <3>1, <3>2
  <2> QED
    BY <1>7, <1>8, <1>9, <2>4, <2>5, <2>6 DEF BundleInv
<1> QED
  BY <1>10, <1>11, <1>12

\* What fails and is tried again leaves the bundle and the first URL as they are.
LEMMA RequestGoesOnKeeps == Inv /\ RequestGoesOn => BundleInv'
<1> SUFFICES ASSUME Inv, RequestGoesOn PROVE BundleInv'
  OBVIOUS
<1>1. call \in Call /\ UNCHANGED <<sourceVars, bundle>>
  BY DEF Inv, CallInv, RequestGoesOn
<1>2. call.pc # "answered" /\ call'.pc # "answered" /\ call'.start = call.start
  BY <1>1 DEF RequestGoesOn, Fail, Resend, TransientStatus, PermanentStatus, Redirect, TimeOut,
              Unreachable, Disconnect, Waiting, Raise, RetryOrRaise, Call
<1>3. Fetched' = Fetched /\ AllUrls' = AllUrls
  BY <1>1, <1>2 DEF Fetched, AllUrls, UrlsOf, CameJustNow, sourceVars
<1>4. PageFits' /\ UrlsFit' /\ HeldFits' /\ DoneFits'
  BY <1>1, <1>2, <1>3 DEF Inv, BundleInv, PageFits, UrlsFit, HeldFits, DoneFits, sourceVars
<1> QED
  BY <1>1, <1>4 DEF Inv, BundleInv, SourceType, sourceVars

\* A bundle that is raised, or at rest, holds nothing that is still to be used.
LEMMA RestKeeps ==
  ASSUME BundleInv, UNCHANGED sourceVars, bundle' \in Bundles,
         bundle'.pc \in {"idle", "raised"}, bundle'.since \in {0, bundle.since}
  PROVE  BundleInv'
<1>1. SourceType'
  BY DEF BundleInv, SourceType, sourceVars
<1>2. bundle'.since <= revisions'
  BY DEF BundleInv, SourceType, sourceVars
<1> QED
  BY <1>1, <1>2 DEF BundleInv, PageFits, UrlsFit, HeldFits, DoneFits

\* A fetch begins with nothing held, and notes when it began.
LEMMA StartKeeps == Inv /\ StartFetch => BundleInv'
<1> SUFFICES ASSUME Inv, StartFetch PROVE BundleInv'
  OBVIOUS
<1>1. SourceType /\ UNCHANGED sourceVars
  BY DEF StartFetch, Inv, BundleInv
<1>2. SourceType' /\ revisions' = revisions /\ revisions \in Nat
  BY <1>1 DEF SourceType, sourceVars
<1>3. call'.pc # "answered"
  BY Begun DEF StartFetch
<1>4. bundle' = [pc |-> "page", urls |-> <<>>, held |-> <<>>, cause |-> "none",
                 since |-> revisions, moved |-> FALSE, page |-> <<>>]
  BY DEF StartFetch, IdleBundle
<1>5. bundle' \in Bundles /\ bundle'.since <= revisions'
  BY <1>2, <1>4 DEF Bundles
<1>6. PageFits' /\ UrlsFit' /\ HeldFits' /\ DoneFits'
  BY <1>3, <1>4 DEF PageFits, UrlsFit, HeldFits, DoneFits
<1> QED
  BY <1>2, <1>5, <1>6 DEF BundleInv

\* The page is there: its reports are still to be fetched, all of them.
LEMMA PageTurns ==
  ASSUME Inv, ResumePage, ~PageRefused(bundle.page)
  PROVE  BundleInv'
<1>1. /\ SourceType /\ bundle \in Bundles /\ PageFits /\ bundle.since <= revisions
      /\ bundle.pc = "page" /\ call.pc = "answered"
  BY DEF Inv, BundleInv, ResumePage
<1> DEFINE urls == UrlsOf(bundle.page)
<1>2. /\ bundle' = [bundle EXCEPT !.pc = "reports", !.urls = urls]
      /\ Begin(urls[1], FALSE) /\ UNCHANGED sourceVars
  BY DEF ResumePage
<1>3. urls \in Seq(ReportUrls)
  BY <1>1, BundleFields
<1>4. Len(urls) \in 1..MaxReports
  BY DEF PageRefused
<1>6. bundle'.page = bundle.page
  BY <1>1, <1>2 DEF Bundles
<1>7. AllUrls' = urls
  BY <1>2, <1>6 DEF AllUrls, UrlsOf, sourceVars
<1> HIDE DEF urls
<1>8. urls # <<>> /\ Len(urls) \in Nat
  BY <1>3, <1>4, ReportsAssumption DEF ReportsAssumption
<1>9. /\ bundle' \in Bundles /\ bundle'.pc = "reports" /\ bundle'.urls = urls
      /\ bundle'.held = bundle.held /\ bundle'.since = bundle.since
  BY <1>1, <1>2, <1>3 DEF Bundles
<1>10. call'.pc # "answered" /\ call'.start = urls[1]
  BY <1>2, Begun
<1>11. bundle.held = <<>> /\ (revisions = bundle.since => bundle.page = links)
  BY <1>1 DEF PageFits
<1>12. Fetched' = 0
  BY <1>9, <1>10, <1>11 DEF Fetched, CameJustNow
<1>13. UrlsFit'
  BY <1>7, <1>8, <1>9, <1>10, <1>12 DEF UrlsFit
<1>14. PageFits' /\ HeldFits' /\ DoneFits'
  BY <1>2, <1>6, <1>9, <1>11 DEF PageFits, HeldFits, DoneFits, sourceVars
<1>15. SourceType' /\ bundle'.since <= revisions'
  BY <1>1, <1>2, <1>9 DEF SourceType, sourceVars
<1> QED
  BY <1>9, <1>13, <1>14, <1>15 DEF BundleInv

\* A report is there: the next one is asked for, or all of them are.
LEMMA ReportTurns ==
  ASSUME Inv, ResumeReport
  PROVE  BundleInv'
<1>1. /\ SourceType /\ bundle \in Bundles /\ bundle.since <= revisions
      /\ PageFits /\ UrlsFit /\ HeldFits
      /\ bundle.pc = "reports" /\ call.pc = "answered" /\ call.url \in ReportUrls
  BY DEF Inv, BundleInv, ResumeReport
<1> DEFINE rest == Tail(bundle.urls)
           n == Len(bundle.held)
<1>2. /\ bundle.urls \in Seq(ReportUrls) /\ bundle.held \in Seq(AnyReport)
      /\ Len(bundle.urls) \in Nat /\ n \in Nat
  BY <1>1, BundleFields
<1>3. /\ bundle.urls # <<>>
      /\ n - 1 + Len(bundle.urls) = Len(AllUrls)
      /\ \A i \in 1..Len(bundle.urls) : bundle.urls[i] = AllUrls[n - 1 + i]
  BY <1>1 DEF UrlsFit, Fetched, CameJustNow
<1>4. /\ rest \in Seq(ReportUrls) /\ Len(rest) = Len(bundle.urls) - 1
      /\ \A i \in 1..Len(rest) : rest[i] = bundle.urls[i + 1]
  BY <1>2, <1>3, HeadTailProperties
<1>5. UNCHANGED sourceVars /\ bundle'.page = bundle.page /\ bundle'.held = bundle.held
      /\ bundle'.moved = bundle.moved /\ bundle'.since = bundle.since
  BY <1>1 DEF ResumeReport, Settle, Bundles
<1>6. AllUrls' = AllUrls
  BY <1>5 DEF AllUrls, UrlsOf, sourceVars
<1>7. SourceType' /\ bundle'.since <= revisions'
  BY <1>1, <1>5 DEF SourceType, sourceVars
<1>8. CASE rest = <<>>
  <2>1. bundle' = [bundle EXCEPT !.pc = "done", !.urls = <<>>]
    BY <1>8 DEF ResumeReport
  <2>2. bundle' \in Bundles /\ bundle'.pc = "done"
    <3>1. <<>> \in Seq(ReportUrls)
      OBVIOUS
    <3> QED
      BY <1>1, <2>1, <3>1 DEF Bundles
  <2>3. Len(AllUrls) = n /\ AllUrls # <<>>
    <3> HIDE DEF rest, n
    <3> DEFINE u == Len(bundle.urls)
               r == Len(rest)
    <3>1. r = 0
      BY <1>8
    <3>a. r = u - 1 /\ u \in Nat
      BY <1>2, <1>4
    <3> HIDE DEF u, r
    <3>b. u = 1
      BY <3>1, <3>a
    <3>2. Len(bundle.urls) = 1
      BY <3>b DEF u
    <3> USE DEF n
    <3>3. Len(AllUrls) = n /\ n - 1 >= 0
      BY <1>1, <1>2, <1>3, <3>2 DEF UrlsFit, Fetched, CameJustNow
    <3> QED
      BY <1>2, <3>3
  <2>4. DoneFits'
    BY <1>5, <1>6, <2>3 DEF DoneFits
  <2>5. PageFits' /\ UrlsFit' /\ HeldFits'
    BY <1>1, <1>5, <1>6, <2>2 DEF PageFits, UrlsFit, HeldFits, sourceVars
  <2> QED
    BY <1>7, <2>2, <2>4, <2>5 DEF BundleInv
<1>9. CASE rest # <<>>
  <2>1. bundle' = [bundle EXCEPT !.urls = rest] /\ Begin(rest[1], FALSE)
    BY <1>9 DEF ResumeReport
  <2> HIDE DEF rest
  <2>2. bundle' \in Bundles /\ bundle'.pc = "reports" /\ bundle'.urls = rest
    BY <1>1, <1>4, <2>1 DEF Bundles
  <2>3. call'.pc # "answered" /\ call'.start = rest[1]
    BY <2>1, Begun
  <2>4. Fetched' = n
    BY <1>5, <2>3 DEF Fetched, CameJustNow
  <2> DEFINE u == Len(bundle.urls)
             a == Len(AllUrls)
             r == Len(rest)
  <2>a. u \in Nat /\ n \in Nat /\ n - 1 + u = a /\ r = u - 1
    BY <1>2, <1>3, <1>4
  <2> HIDE DEF u, a, r, n
  <2>5. n + r = a
    BY <2>a
  <2>6. ASSUME NEW i \in 1..Len(rest) PROVE rest[i] = AllUrls[n + i]
    <3>1. i \in 1..r
      BY DEF r
    <3>2. i + 1 \in 1..u /\ n - 1 + (i + 1) = n + i
      BY <2>a, <3>1
    <3> QED
      BY <1>3, <1>4, <3>2 DEF u, n
  <2>7. UrlsFit'
    BY <1>6, <1>9, <2>a, <2>2, <2>3, <2>4, <2>5, <2>6 DEF UrlsFit, r, a
  <2>8. PageFits' /\ HeldFits' /\ DoneFits'
    BY <1>1, <1>5, <1>6, <2>2 DEF PageFits, HeldFits, DoneFits, sourceVars
  <2> QED
    BY <1>7, <2>2, <2>7, <2>8 DEF BundleInv
<1> QED
  BY <1>8, <1>9

\* Every step of the source and of the connector keeps the invariant.
LEMMA InvStep == Inv /\ [Next]_vars => Inv'
<1> SUFFICES ASSUME Inv, [Next]_vars PROVE Inv'
  OBVIOUS
<1>1. CallInv'
  BY CallInvStep, BundleIsConnector DEF Inv
<1> SUFFICES BundleInv'
  BY <1>1 DEF Inv
<1>2. BundleInv /\ bundle \in Bundles
  BY DEF Inv, BundleInv
<1>3. ASSUME NEW cause \in {"request", "html", "pdf", "page"}, Raises(cause)
      PROVE  BundleInv'
  <2>1. bundle' = [bundle EXCEPT !.pc = "raised", !.cause = cause] /\ UNCHANGED sourceVars
    BY <1>3 DEF Raises, Settle
  <2>2. bundle' \in Bundles /\ bundle'.pc = "raised" /\ bundle'.since = bundle.since
    BY <1>2, <2>1 DEF Bundles
  <2> QED
    BY <1>2, <2>1, <2>2, RestKeeps
<1>4. CASE SourceStep \/ StartFetch \/ Answer \/ RequestGoesOn
  BY <1>4, SourceKeeps, StartKeeps, AnswerKeeps, RequestGoesOnKeeps
<1>5. CASE Resume
  <2>1. CASE RequestRaised \/ RefusePage \/ RefuseReport
    BY <1>3, <2>1 DEF RequestRaised, RefusePage, RefuseReport
  <2>2. CASE ResumePage /\ PageRefused(bundle.page)
    BY <1>3, <2>2 DEF ResumePage
  <2> QED
    BY <1>5, <2>1, <2>2, PageTurns, ReportTurns DEF Resume
<1>6. CASE Return
  <2>1. IdleBundle \in Bundles /\ IdleBundle.pc = "idle" /\ IdleBundle.since = 0
    BY DEF IdleBundle, Bundles
  <2> QED
    BY <1>2, <1>6, <2>1, RestKeeps DEF Return
<1>7. CASE UNCHANGED vars
  <2>1. Fetched' = Fetched /\ AllUrls' = AllUrls
    BY <1>7 DEF vars, callVars, sourceVars, Fetched, AllUrls, UrlsOf, CameJustNow
  <2> QED
    BY <1>2, <1>7, <2>1 DEF vars, callVars, sourceVars, BundleInv, SourceType, PageFits, UrlsFit,
                            HeldFits, DoneFits
<1> QED
  BY <1>4, <1>5, <1>6, <1>7 DEF Next

LEMMA Invariance == Spec => []Inv
BY InvInit, InvStep, PTL DEF Spec
-----------------------------------------------------------------------------
\* A request of either bundle costs its source at most (retries + 1) attempts of
\* (hops + 1) sends, one more each with the fallback, whatever the source answers.
THEOREM BundlesAreBounded == Spec => []SendsBounded
<1>1. Inv => SendsBounded
  BY CallInvImplies DEF Inv
<1> QED
  BY Invariance, <1>1, PTL

\* No request of either bundle goes outside of the approved boundary, whatever
\* the pages link to and the redirects name.
THEOREM BundlesStayApproved == Spec => []OnlyApprovedUrls
<1>1. Inv => OnlyApprovedUrls
  BY CallInvImplies DEF Inv
<1> QED
  BY Invariance, <1>1, PTL

\* What is held when the fetch is done.
LEMMA HeldWhenDone ==
  ASSUME Inv, bundle.pc = "done", NEW held, held = bundle.held
  PROVE  /\ Len(held) \in Nat /\ Len(held) # 0 /\ Len(held) = Len(AllUrls)
         /\ AllUrls \in Seq(ReportUrls)
         /\ \A n \in 1..Len(held) : IsReport(held[n]) /\ DOMAIN held[n].figures # {}
         /\ ~bundle.moved =>
              \A n \in 1..Len(held) : held[n].quarter = PeriodOf[AllUrls[n]]
         /\ ~bundle.moved /\ revisions = bundle.since =>
              /\ bundle.page = links
              /\ \A n \in 1..Len(held) : held[n] = reports[AllUrls[n]]
<1>1. bundle \in Bundles /\ PageFits /\ HeldFits /\ DoneFits
  BY DEF Inv, BundleInv
<1>2. held \in Seq(AnyReport) /\ Len(held) \in Nat /\ AllUrls \in Seq(ReportUrls)
  BY <1>1, BundleFields DEF AllUrls
<1>3. Len(held) = Len(AllUrls) /\ AllUrls # <<>>
  BY <1>1 DEF DoneFits
<1>4. Len(held) # 0
  BY <1>2, <1>3
<1>5. \A n \in 1..Len(held) : held[n] \in AnyReport
  BY <1>2
<1>6. \A n \in 1..Len(held) : IsReport(held[n]) /\ DOMAIN held[n].figures # {}
  BY <1>5, AnyReportTypes
<1> QED
  BY <1>1, <1>2, <1>3, <1>4, <1>6 DEF PageFits, HeldFits

\* The reports of the Ministry of Finance are held in the order of quarters,
\* unless a redirect moved one.
LEMMA QuartersWhenDone ==
  ASSUME Inv, bundle.pc = "done", ~sama, ~bundle.moved
  PROVE  QuartersInOrder(bundle.held)
<1> DEFINE held == bundle.held
<1>1. /\ Len(held) \in Nat /\ Len(held) = Len(AllUrls) /\ AllUrls \in Seq(ReportUrls)
      /\ \A n \in 1..Len(held) : held[n].quarter = PeriodOf[AllUrls[n]]
  BY HeldWhenDone
<1>2. AllUrls = MofUrls(bundle.page)
  BY DEF AllUrls, UrlsOf
<1>3. Len(bundle.page) \in Nat
  BY BundleFields DEF Inv, BundleInv, Bundles
<1>4. \A m, n \in 1..Len(AllUrls) : m < n => PeriodOf[AllUrls[m]] < PeriodOf[AllUrls[n]]
  BY <1>2, <1>3, MofUrlsListed
<1>5. \A n \in 1..Len(AllUrls) : PeriodOf[AllUrls[n]] \in Nat
  BY <1>1, PeriodsTypes
<1> QED
  BY <1>1, <1>4, <1>5 DEF QuartersInOrder

\* The rows that are extracted have each key once and, but for crossing
\* redirects of the Ministry of Finance, come in the order of periods; and no
\* report of the bundle contradicts them, whatever the source corrected between
\* two requests.
THEOREM RowsAgree == Spec => []RowsAgreeWithReports
<1>1. ASSUME Inv, bundle.pc = "done", sama, NEW e \in Extractions, e.status = "rows"
      PROVE  KeysOnce(e.rows) /\ PeriodsInOrder(e.rows) /\ Uncontradicted(e.rows, bundle.held)
  <2> DEFINE held == bundle.held
  <2>1. Len(held) \in Nat /\ \A n \in 1..Len(held) : IsReport(held[n])
    BY <1>1, HeldWhenDone
  <2>2. e = PosWeekly(held) \/ e = PosByCity(held)
    BY <1>1 DEF Extractions
  <2> HIDE DEF held
  <2>3. CASE e = PosWeekly(held)
    BY <1>1, <2>1, <2>3, WeeklyAgrees DEF held
  <2>4. CASE e = PosByCity(held)
    BY <1>1, <2>1, <2>4, CityAgrees DEF held
  <2> QED
    BY <2>2, <2>3, <2>4
<1>2. ASSUME Inv, bundle.pc = "done", ~sama, NEW e \in Extractions
      PROVE  /\ KeysOnce(e.rows)
             /\ ~bundle.moved =>
                  /\ PeriodsInOrder(e.rows)
                  /\ \A i \in 1..Len(e.rows), n \in 1..Len(bundle.held) :
                       e.rows[i].period = bundle.held[n].quarter =>
                         bundle.held[n].figures[e.rows[i].period] = e.rows[i].figure
  <2>1. Len(bundle.held) \in Nat
    BY <1>2, HeldWhenDone
  <2>2. e.rows = BudgetBalance(bundle.held).rows
    BY <1>2 DEF Extractions
  <2>3. ~bundle.moved => QuartersInOrder(bundle.held)
    BY <1>2, QuartersWhenDone
  <2> DEFINE held == bundle.held
             rows == e.rows
  <2> HIDE DEF held, rows
  <2>4. /\ KeysOnce(rows)
        /\ QuartersInOrder(held) =>
             /\ PeriodsInOrder(rows)
             /\ \A i \in 1..Len(rows), n \in 1..Len(held) :
                  rows[i].period = held[n].quarter =>
                    held[n].figures[rows[i].period] = rows[i].figure
    BY <2>1, <2>2, BalanceAgrees DEF held, rows
  <2> QED
    BY <2>3, <2>4 DEF held, rows
<1>3. Inv => RowsAgreeWithReports
  <2> SUFFICES ASSUME Inv, bundle.pc = "done", NEW e \in Extractions, e.status = "rows"
               PROVE  /\ \A i, j \in 1..Len(e.rows) :
                           i < j => /\ KeyOf(e.rows[i]) # KeyOf(e.rows[j])
                                    /\ (sama \/ ~bundle.moved) =>
                                         e.rows[i].period <= e.rows[j].period
                      /\ \A i \in 1..Len(e.rows), n \in 1..Len(bundle.held) :
                           (IF sama THEN e.rows[i].period \in DOMAIN bundle.held[n].figures
                            ELSE e.rows[i].period = bundle.held[n].quarter
                                 /\ bundle.held[n].flaw = "none" /\ ~bundle.moved)
                             => bundle.held[n].figures[e.rows[i].period] = e.rows[i].figure
    BY Zenon DEF RowsAgreeWithReports
  <2>1. CASE sama
    BY <1>1, <2>1 DEF KeysOnce, PeriodsInOrder, Uncontradicted
  <2>2. CASE ~sama
    BY <1>2, <2>2 DEF KeysOnce, PeriodsInOrder
  <2> QED
    BY <2>1, <2>2, ReportsAssumption DEF ReportsAssumption
<1> QED
  BY Invariance, <1>3, PTL

\* A source that stands still during the fetch, with reports in order that agree
\* and without redirects, is extracted whole: every period of every report that
\* the page links to.
THEOREM StillReportsWhole == Spec => []StillReportsComeWhole
<1> DEFINE Linking == {links[i] : i \in 1..Len(links)} \cap ReportUrls
           Expected == IF sama THEN UNION {PeriodsOf(u) : u \in Linking}
                       ELSE {PeriodOf[u] : u \in Linking}
<1>1. ASSUME Inv, bundle.pc = "done", revisions = bundle.since, ~bundle.moved,
             \A u \in ReportUrls :
               reports[u] = [FirstReport(u) EXCEPT !.figures = reports[u].figures],
             \A u, v \in ReportUrls : \A p \in PeriodsOf(u) \cap PeriodsOf(v) :
               reports[u].figures[p] = reports[v].figures[p],
             NEW e \in Extractions
      PROVE  e.status = "rows" /\ PeriodsIn(e.rows) = Expected
  <2> DEFINE held == bundle.held
             urls == UrlsOf(links)
             N == 1..Len(held)
  <2>1. /\ Len(held) \in Nat /\ Len(held) # 0 /\ Len(held) = Len(urls)
        /\ urls \in Seq(ReportUrls) /\ Len(links) \in Nat
        /\ \A n \in N : IsReport(held[n]) /\ DOMAIN held[n].figures # {}
                        /\ held[n] = reports[urls[n]] /\ held[n].quarter = PeriodOf[urls[n]]
    <3>1. AllUrls = urls
      BY <1>1, HeldWhenDone DEF AllUrls
    <3>2. Len(links) \in Nat
      BY <1>1 DEF Inv, BundleInv, SourceType
    <3> HIDE DEF urls
    <3> QED
      BY <1>1, <3>1, <3>2, HeldWhenDone
  <2>2. \A n \in N : urls[n] \in ReportUrls
    <3> HIDE DEF urls
    <3> QED
      BY <2>1
  <2>3. \A u \in ReportUrls : reports[u].flaw = "none" /\ reports[u].cities = TwoTables
                              /\ DOMAIN reports[u].figures = PeriodsOf(u)
    <3> SUFFICES ASSUME NEW u \in ReportUrls
                 PROVE  reports[u].flaw = "none" /\ reports[u].cities = TwoTables
                        /\ DOMAIN reports[u].figures = PeriodsOf(u)
      OBVIOUS
    <3>1. reports[u] \in ReportsAt(u)
      BY <1>1 DEF Inv, BundleInv, SourceType
    <3>2. reports[u] = [FirstReport(u) EXCEPT !.figures = reports[u].figures]
      BY <1>1
    <3> DEFINE figures == reports[u].figures
    <3> HIDE DEF figures
    <3>3. reports[u] = [FirstReport(u) EXCEPT !.figures = figures]
      BY <3>2 DEF figures
    <3>4. reports[u].flaw = "none" /\ reports[u].cities = TwoTables
      BY <3>3 DEF FirstReport, Report, TwoTables
    <3> QED
      BY <3>1, <3>4, SourceReportTypes
  <2>4. \A n \in N : held[n].flaw = "none" /\ held[n].cities = TwoTables
                     /\ DOMAIN held[n].figures = PeriodsOf(urls[n])
    BY <2>1, <2>2, <2>3
  <2>5. \A m, n \in N : \A p \in DOMAIN held[m].figures \cap DOMAIN held[n].figures :
          held[m].figures[p] = held[n].figures[p]
    BY <1>1, <2>1, <2>2, <2>4
  <2> HIDE DEF urls
  <2>6. CASE sama
    <3>1. InGoodOrder(held)
      BY <2>1, <2>4, <2>5 DEF InGoodOrder
    <3>2. /\ PosWeekly(held).status = "rows" /\ PosByCity(held).status = "rows"
          /\ PeriodsIn(PosWeekly(held).rows) = PeriodsHeld(held)
          /\ PeriodsIn(PosByCity(held).rows) = PeriodsHeld(held)
      BY <2>1, <3>1, PosWhole
    <3>3. e = PosWeekly(held) \/ e = PosByCity(held)
      BY <1>1, <2>6 DEF Extractions
    <3>4. /\ \A n \in 1..Len(urls) : urls[n] \in Linked(links)
          /\ \A u \in Linked(links) : \E n \in 1..Len(urls) : urls[n] = u
      BY <2>1, <2>6, PosUrlsListed DEF urls, UrlsOf
    <3>5. Linked(links) = Linking
      BY DEF Linked
    <3> HIDE DEF Linking
    <3>6. PeriodsHeld(held) = UNION {PeriodsOf(u) : u \in Linking}
      <4>1. PeriodsHeld(held) \subseteq UNION {PeriodsOf(u) : u \in Linking}
        BY <2>1, <2>4, <3>4, <3>5 DEF PeriodsHeld
      <4>2. UNION {PeriodsOf(u) : u \in Linking} \subseteq PeriodsHeld(held)
        BY <2>1, <2>4, <3>4, <3>5 DEF PeriodsHeld
      <4> QED
        BY <4>1, <4>2
    <3>7. Expected = UNION {PeriodsOf(u) : u \in Linking}
      BY <2>6
    <3> HIDE DEF Expected
    <3> QED
      BY <3>2, <3>3, <3>6, <3>7
  <2>7. CASE ~sama
    <3>1. QuartersInOrder(held)
      BY <1>1, <2>7, QuartersWhenDone
    <3>2. \A n \in N : held[n].flaw = "none" /\ held[n].quarter \in DOMAIN held[n].figures
      BY <2>1, <2>2, <2>4, PeriodsTypes
    <3>3. /\ BudgetBalance(held).status = "rows"
          /\ PeriodsIn(BudgetBalance(held).rows) = {held[n].quarter : n \in N}
      BY <2>1, <3>1, <3>2, BalanceWhole
    <3>4. e = BudgetBalance(held)
      BY <1>1, <2>7 DEF Extractions
    <3>5. /\ \A n \in 1..Len(urls) : urls[n] \in Linked(links)
          /\ \A u \in Linked(links) : \E n \in 1..Len(urls) : PeriodOf[urls[n]] = PeriodOf[u]
      BY <2>1, <2>7, MofUrlsListed DEF urls, UrlsOf
    <3>6. Linked(links) = Linking
      BY DEF Linked
    <3> HIDE DEF Linking
    <3>7. {held[n].quarter : n \in N} = {PeriodOf[u] : u \in Linking}
      <4>1. {held[n].quarter : n \in N} \subseteq {PeriodOf[u] : u \in Linking}
        BY <2>1, <3>5, <3>6
      <4>2. {PeriodOf[u] : u \in Linking} \subseteq {held[n].quarter : n \in N}
        BY <2>1, <3>5, <3>6
      <4> QED
        BY <4>1, <4>2
    <3>8. Expected = {PeriodOf[u] : u \in Linking}
      BY <2>7
    <3> HIDE DEF Expected
    <3> QED
      BY <3>3, <3>4, <3>7, <3>8
  <2> QED
    BY <2>6, <2>7, ReportsAssumption DEF ReportsAssumption
<1>2. Inv => StillReportsComeWhole
  BY <1>1, Zenon DEF StillReportsComeWhole, PeriodsIn
<1> QED
  BY Invariance, <1>2, PTL
=============================================================================
