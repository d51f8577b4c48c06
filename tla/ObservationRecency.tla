-------------------------- MODULE ObservationRecency --------------------------
(***************************************************************************)
(* How far the latest observation among the records of a dataset is behind *)
(* what its frequency lets one expect.                                     *)
(*                                                                         *)
(* A record is a function from names of fields to numbers: of a date the   *)
(* day, of a month 12 * year + month, of a quarter 4 * year + quarter, of  *)
(* a year the year.  Unreadable stands for any other text.  Days count     *)
(* from a Monday, 2025-12-01, and MonthStarts are the first days of that   *)
(* month and the following ones.                                           *)
(***************************************************************************)
EXTENDS Integers, Sequences, FiniteSetsExt

CONSTANT MonthStarts

ASSUME CalendarAssumption == MonthStarts \in Seq(Nat)

Unreadable == -1

\* The fields that may tell the time of an observation, the preferred first.
FieldPriority ==
  <<"as_of_date", "week_end_date", "effective_date", "observation_date",
    "observation_month", "observation_quarter", "observation_year">>

KindOf(field) ==
  CASE field = "observation_month" -> "month"
    [] field = "observation_quarter" -> "quarter"
    [] field = "observation_year" -> "year"
    [] OTHER -> "date"

KeysOf(records, field) ==
  {r[field] : r \in {s \in records : field \in DOMAIN s}} \ {Unreadable}

\* The first field that any record has a readable value in; its latest value.
Dated(records) == {i \in 1..Len(FieldPriority) : KeysOf(records, FieldPriority[i]) # {}}
CandidateField(records) == FieldPriority[Min(Dated(records))]
Latest(records) == Max(KeysOf(records, CandidateField(records)))

\* The kinds of observation a frequency can be held against.
Supported(kind, frequency) ==
  <<kind, frequency>> \in {<<"date", "daily">>, <<"date", "weekly">>,
    <<"month", "monthly">>, <<"quarter", "quarterly">>, <<"year", "annual">>}

MonthKey(day) ==
  12 * 2025 + 11 + Cardinality({i \in DOMAIN MonthStarts : MonthStarts[i] <= day})
\* The month of a key is 1 to 12.
YearOf(day) == (MonthKey(day) - 1) \div 12
MonthOf(day) == MonthKey(day) - 12 * YearOf(day)
\* Faulty variant: quarters are counted without the year.
QuarterOfTheYear(day) == 4 * 2025 + (MonthOf(day) - 1) \div 3 + 1

QuarterKey(day) == 4 * YearOf(day) + (MonthOf(day) - 1) \div 3 + 1

\* The latest observation that is not yet too old on that day.
OldestAllowed(frequency, day) ==
  CASE frequency = "daily" -> day - 7
    [] frequency = "weekly" -> day - 21
    [] frequency = "monthly" -> MonthKey(day) - 2
    [] frequency = "quarterly" -> QuarterKey(day) - 2
    [] frequency = "annual" -> YearOf(day) - 1

\* "none" where there is no assessment.
RecencyOf(records, frequency, day) ==
  IF Dated(records) = {} THEN "none"
  ELSE LET kind == KindOf(CandidateField(records))
       IN  CASE frequency \in {"ad_hoc", "unspecified"} -> "not_applicable"
             [] ~Supported(kind, frequency)
                  /\ frequency \notin {"ad_hoc", "unspecified"} -> "none"
             [] OTHER -> IF Latest(records) < OldestAllowed(frequency, day)
                         THEN "stale" ELSE "current"
=============================================================================
