----------------------------- MODULE SourcePages -----------------------------
(***************************************************************************)
(* What the normalization makes of the page of a source that is fetched as *)
(* one document: the release cards of the statistics authority, the rows   *)
(* of bank deposits, and the tables of the policy rates and of the weekly  *)
(* money supply.                                                           *)
(*                                                                         *)
(* Every part of a page has a period, a number, and a flaw: the one way in *)
(* which its text is not what the extractor looks for, or "none".  A       *)
(* canonical row is kept as the field that tells its period.               *)
(***************************************************************************)
EXTENDS Integers, Sequences, FiniteSets, SequencesExt

\* As in ReportRows: "none" is an unsupported page, "invalid" an
\* ExtractedValueValidationError, "raised" a ValueError that fails the mapping.
Extracted(status, rows) == [status |-> status, rows |-> rows]
Unsupported == Extracted("none", <<>>)
RowsOrNone(rows) == Extracted(IF rows = <<>> THEN "none" ELSE "rows", rows)

Row(field, period) == [f \in {field} |-> period]
InOrder(indices) == SetToSortSeq(indices, LAMBDA a, b : a < b)
-----------------------------------------------------------------------------
(***************************************************************************)
(* The release cards: inflation by month, growth and unemployment by       *)
(* quarter.                                                                *)
(***************************************************************************)
\* The flaw of a card: "partial", it has no title, summary, date or link;
\* "other", it is not the headline release; "figure", the period or a rate is
\* unreadable; "date", the release date is.
Card(period, link, flaw) == [period |-> period, link |-> link, flaw |-> flaw]

PeriodField(dataset) ==
  IF dataset = "cpi" THEN "observation_month" ELSE "observation_quarter"

\* Inflation alone does not catch the error of the release date.
CardRaises(dataset, card) == dataset = "cpi" /\ card.flaw = "date"

\* Of the cards with one link the first counts.
CardsTaken(cards) ==
  {i \in DOMAIN cards :
     /\ cards[i].flaw = "none"
     /\ \A j \in 1..i - 1 : cards[j].flaw = "none" => cards[j].link # cards[i].link}

ReleaseRows(dataset, cards) ==
  IF \E i \in DOMAIN cards : CardRaises(dataset, cards[i]) THEN Extracted("raised", <<>>)
  ELSE LET taken == InOrder(CardsTaken(cards))
       IN  RowsOrNone([n \in DOMAIN taken |->
             Row(PeriodField(dataset), cards[taken[n]].period)])
-----------------------------------------------------------------------------
(***************************************************************************)
(* The rows of deposits.  An entry of no category of ours, flaw "other", is *)
(* passed over; any other flaw, no object, no value or an unreadable one,  *)
(* spoils the page.                                                        *)
(***************************************************************************)
Line(period, flaw) == [period |-> period, flaw |-> flaw]

DepositRows(entries) ==
  LET ours == SelectSeq(entries, LAMBDA e : e.flaw = "none")
  IN  IF \E i \in DOMAIN entries : entries[i].flaw \notin {"none", "other"}
      THEN Unsupported
      ELSE RowsOrNone([i \in DOMAIN ours |-> Row("observation_month", ours[i].period)])
-----------------------------------------------------------------------------
(***************************************************************************)
(* The policy rates: a history by publish date, else a table with one      *)
(* rate, else the first date and the first rate in the text of the page.   *)
(***************************************************************************)
\* The flaw of a line: "unreadable", a cell is missing, or is no date or no
\* number; "implausible", no percentage can be that.
RatePage(named, table, lines, text) ==
  [named |-> named, table |-> table, lines |-> lines, text |-> text]

RateRow(line) == Row("effective_date", line.period)
RateRecord(line) ==
  CASE line.flaw = "unreadable" -> Unsupported
    [] line.flaw = "implausible" -> Extracted("invalid", <<>>)
    [] line.flaw = "none" -> Extracted("rows", <<RateRow(line)>>)

\* A line that repeats an earlier date is as bad as one that cannot be read.
SpoilsHistory(lines, i) ==
  \/ lines[i].flaw # "none"
  \/ \E j \in 1..i - 1 : lines[j].period = lines[i].period

RateHistory(lines) ==
  LET bad == InOrder({i \in DOMAIN lines : SpoilsHistory(lines, i)})
  IN  CASE bad = <<>> -> RowsOrNone([i \in DOMAIN lines |-> RateRow(lines[i])])
        [] bad # <<>> /\ lines[Head(bad)].flaw = "implausible"
             /\ ~\E j \in 1..Head(bad) - 1 : lines[j].period = lines[Head(bad)].period
             -> Extracted("invalid", <<>>)
        [] OTHER -> Unsupported

\* The table of a single rate is its first line.
SingleRate(page) ==
  IF page.table = "single" /\ page.lines # <<>> THEN RateRecord(Head(page.lines))
  ELSE Unsupported

PolicyRateRows(page) ==
  LET history == IF page.table = "history" THEN RateHistory(page.lines) ELSE Unsupported
  IN  CASE ~page.named -> Unsupported
        [] page.named /\ history.status # "none" -> history
        [] page.named /\ history.status = "none" ->
             IF SingleRate(page).status # "none" THEN SingleRate(page)
             ELSE RateRecord(page.text)
-----------------------------------------------------------------------------
(***************************************************************************)
(* The weekly money supply: the first table in which every line can be     *)
(* read, with a row for every aggregate of every week.                     *)
(***************************************************************************)
MoneyTable(aggregates, lines) == [aggregates |-> aggregates, lines |-> lines]

TableRows(table) ==
  IF \E i \in DOMAIN table.lines : table.lines[i].flaw # "none" THEN <<>>
  ELSE [n \in 1..table.aggregates * Len(table.lines) |->
          Row("week_end_date", table.lines[(n - 1) \div table.aggregates + 1].period)]

MoneySupplyRows(tables) ==
  LET usable == InOrder({i \in DOMAIN tables : TableRows(tables[i]) # <<>>})
  IN  IF usable = <<>> THEN Unsupported ELSE RowsOrNone(TableRows(tables[Head(usable)]))
=============================================================================
