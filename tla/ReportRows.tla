------------------------------ MODULE ReportRows ------------------------------
(***************************************************************************)
(* What the normalization makes of a bundle of reports: the weekly POS     *)
(* totals and the POS figures by city from one bundle, and the quarterly   *)
(* budget balance of the Ministry of Finance from another.                 *)
(*                                                                         *)
(* A period is a number, and the figures a report prints for it are one    *)
(* value.  The text of a report is kept as its tables, and as the one way  *)
(* in which it may be out of order:                                        *)
(*   "layout"   a table, its unit or its text is missing                   *)
(*   "figures"  a figure is missing, or implausible                        *)
(*   "order"    a period begins after its end                              *)
(*   "month"    a period names a month there is not                        *)
(***************************************************************************)
EXTENDS Integers, Sequences, FiniteSets

Flaws == {"none", "layout", "figures", "order", "month"}

\* The members of a set one after the other; an order is a set of pairs.
InOrder(set, before) ==
  [n \in 1..Cardinality(set) |->
     CHOOSE x \in set : Cardinality({y \in set : <<y, x>> \in before}) = n - 1]

Ascending(numbers) == {pair \in numbers \X numbers : pair[1] < pair[2]}

\* Places are numbers in the order of their names.
Everywhere == 0
Abha == 1
Riyadh == 2

\* quarter is the one the report's URL names; figures are indexed by the periods
\* the report covers, cities by its two tables.
Report(quarter, figures, cities, flaw) ==
  [quarter |-> quarter, figures |-> figures, cities |-> cities, flaw |-> flaw]

Row(period, place, table, figure) ==
  [period |-> period, place |-> place, table |-> table, figure |-> figure]
KeyOf(row) == <<row.period, row.place>>

\* What one report or a whole bundle comes to.  "none": an unsupported shape;
\* "invalid": ExtractedValueValidationError; "raised": ValueError, a failure of
\* the mapping.  The first two limit the dataset.
Extracted(status, rows) == [status |-> status, rows |-> rows]

\* Faulty variant: a report gives its latest period only.
LatestPeriod(r) == {p \in DOMAIN r.figures : \A q \in DOMAIN r.figures : q <= p}

\* Rows are sorted by their keys.
ByKey(rows) ==
  {pair \in rows \X rows :
     LET a == pair[1]
         b == pair[2]
     IN  a.period < b.period \/ (a.period = b.period /\ a.place < b.place)}

PeriodsShown(r) == DOMAIN r.figures
Conflicting(a, b) == KeyOf(a) = KeyOf(b) /\ a # b

\* The reports one after the other; the first that cannot be used ends it.
Merged(parts) ==
  LET conflicts(i) == \E a \in parts[i].rows : \E j \in 1..i : \E b \in parts[j].rows :
                        Conflicting(a, b)
      bad  == {i \in 1..Len(parts) : parts[i].status # "rows" \/ conflicts(i)}
      rows == UNION {parts[i].rows : i \in 1..Len(parts)}
  IN  IF bad # {}
      THEN LET first == CHOOSE i \in bad : \A j \in bad : i <= j
           IN  Extracted(IF parts[first].status = "rows" THEN "invalid"
                         ELSE parts[first].status, <<>>)
      ELSE Extracted(IF rows = {} THEN "none" ELSE "rows", InOrder(rows, ByKey(rows)))
-----------------------------------------------------------------------------
(***************************************************************************)
(* The two datasets of the POS bundle.                                     *)
(***************************************************************************)
WeeklyPart(r) ==
  CASE r.flaw \in {"layout", "figures"} -> Extracted("none", {})
    [] r.flaw = "order" -> Extracted("invalid", {})
    [] r.flaw = "month" -> Extracted("raised", {})
    [] OTHER -> Extracted("rows", {Row(p, Everywhere, 1, r.figures[p]) : p \in PeriodsShown(r)})

PosWeekly(reports) == Merged([i \in 1..Len(reports) |-> WeeklyPart(reports[i])])

\* A flaw in a row of a city is an error, not an unsupported shape; a table
\* without a city is one.  The second table is read when the first is in order.
CityPart(r) ==
  CASE r.flaw = "layout" \/ r.cities[1] = {} -> Extracted("none", {})
    [] r.cities[1] # {} /\ r.flaw \in {"figures", "order"} -> Extracted("invalid", {})
    [] r.cities[1] # {} /\ r.flaw = "month" -> Extracted("raised", {})
    [] r.flaw = "none" /\ r.cities[1] # {} /\ r.cities[2] = {} -> Extracted("none", {})
    [] OTHER -> Extracted("rows",
         UNION {{Row(p, city, t, r.figures[p]) : p \in PeriodsShown(r), city \in r.cities[t]} :
                  t \in 1..2})

PosByCity(reports) == Merged([i \in 1..Len(reports) |-> CityPart(reports[i])])
-----------------------------------------------------------------------------
(***************************************************************************)
(* The balance: reports that cannot be used are passed over, and the first *)
(* of a quarter counts.                                                    *)
(***************************************************************************)
HasBalance(r) == r.flaw \notin {"layout", "figures"} /\ r.quarter \in DOMAIN r.figures

\* Faulty variant: the quarters that were seen are forgotten.
AnyOfQuarter(reports, i) == TRUE

FirstOfQuarter(reports, i) ==
  \A j \in 1..(i - 1) :
    ~(HasBalance(reports[j]) /\ reports[j].quarter = reports[i].quarter)

BudgetBalance(reports) ==
  LET kept == {i \in 1..Len(reports) : HasBalance(reports[i]) /\ FirstOfQuarter(reports, i)}
      rows == [n \in 1..Cardinality(kept) |->
                 LET r == reports[InOrder(kept, Ascending(kept))[n]]
                 IN  Row(r.quarter, Everywhere, 1, r.figures[r.quarter])]
  IN  Extracted(IF kept = {} THEN "none" ELSE "rows", rows)
=============================================================================
