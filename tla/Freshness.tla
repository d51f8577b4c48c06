------------------------------ MODULE Freshness ------------------------------
(***************************************************************************)
(* The label of a stored copy: missing, fresh, stale or unknown, from the  *)
(* time it was written and the time it is looked at.                       *)
(*                                                                         *)
(* An instant is a number of hours, and hour 0 is the start of a Monday in *)
(* UTC.  Riyadh is three hours ahead all year.                             *)
(***************************************************************************)
EXTENDS Integers, FiniteSets

Frequencies ==
  {"daily", "weekly", "monthly", "quarterly", "annual", "ad_hoc", "unspecified"}

HasWindow(frequency) == frequency \notin {"ad_hoc", "unspecified"}

WindowDays(frequency) ==
  CASE frequency = "daily" -> 1
    [] frequency = "weekly" -> 7
    [] frequency = "monthly" -> 31
    [] frequency = "quarterly" -> 92
    [] frequency = "annual" -> 366

RiyadhDay(instant) == (instant + 3) \div 24
\* Friday and Saturday are the weekend.
IsBusinessDay(day) == day % 7 \notin {4, 5}

\* Faulty variant: the business days from the days of the week alone.
BusinessDaysByWeekday(first, last) ==
  Cardinality({day \in (RiyadhDay(first) % 7) + 1 .. (RiyadhDay(last) % 7) : IsBusinessDay(day)})

\* The business days after the day of the first instant, up to that of the second.
BusinessDays(first, last) ==
  Cardinality({day \in RiyadhDay(first) + 1 .. RiyadhDay(last) : IsBusinessDay(day)})

\* A clock that was set back counts as no age at all.
Age(written, now) == IF now > written THEN now - written ELSE 0

WithinWindow(frequency, written, now) ==
  IF frequency = "daily" THEN BusinessDays(written, now) <= 1
  ELSE Age(written, now) <= 24 * WindowDays(frequency)

\* The label of a copy that is there; one that is not is "missing".
LabelOf(frequency, written, now) ==
  CASE ~HasWindow(frequency) -> "unknown"
    [] HasWindow(frequency) /\ WithinWindow(frequency, written, now) -> "fresh"
    [] OTHER -> "stale"
=============================================================================
