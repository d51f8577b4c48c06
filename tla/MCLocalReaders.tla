---------------------------- MODULE MCLocalReaders ----------------------------
(***************************************************************************)
(* One call and one canary run at a time over each dataset, at the times   *)
(* where a label can turn: around midnight in Riyadh, a weekend, and the   *)
(* turn of the year.  The bodies of the budget dataset go through the      *)
(* reports of ReportRows.                                                  *)
(***************************************************************************)
EXTENDS LocalReaders

Reports == INSTANCE ReportRows

\* December 2025 to March 2026.
MCMonthStarts == <<0, 31, 62, 90>>

\* In Riyadh the first hour of a Wednesday, of Thursday and of Sunday, the last
\* one of the year, and a day in March.
MCInstants == {549, 573, 645, 740, 2160}

December == 12 * 2025 + 12
FirstQuarter == 4 * 2025 + 1
ThirdQuarter == 4 * 2025 + 3

Html(extracted) == Payload("html", Body("str", "none", extracted), NoMetadata)
Json(json, shape, extracted) == Payload("json", Body(json, shape, extracted), NoMetadata)
Bundle(extracted) ==
  LET p == Json("dict", "none", extracted) IN [p EXCEPT !.body.bundle = TRUE]

Dates(days) == [i \in DOMAIN days |-> Row("as_of_date", days[i])]
Budget(reports) ==
  LET balance == Reports!BudgetBalance(reports)
  IN  Extracted(balance.status,
        [i \in DOMAIN balance.rows |-> Row("observation_quarter", balance.rows[i].period)])
BudgetReport(flaw) ==
  Reports!Report(ThirdQuarter, [p \in {ThirdQuarter} |-> 1], <<{}, {}>>, flaw)

MCPayloads(d) ==
  CASE d = "exchange rates" ->
         {Bundle(Extracted("rows", Dates(<<22, 22>>))), Bundle(Extracted("invalid", <<>>)),
          Json("dict", "none", Unsupported)}
    [] d = "cpi" ->
         {Html(ReleaseRows(d, <<Card(December, 1, "none"), Card(December - 1, 2, "none"),
                                Card(December - 1, 2, "none")>>)),
          Html(ReleaseRows(d, <<Card(December, 1, "other"), Card(December, 2, "figure")>>)),
          Html(ReleaseRows(d, <<Card(December, 1, "none"), Card(December, 2, "date")>>))}
    [] d = "gdp" ->
         {Html(ReleaseRows(d, <<Card(ThirdQuarter, 1, "none"), Card(0, 2, "date")>>)),
          Html(ReleaseRows(d, <<Card(0, 1, "partial"), Card(FirstQuarter, 2, "none")>>))}
    [] d = "budget" ->
         {Json("dict", "none", Budget(<<BudgetReport("none")>>)),
          Json("dict", "none", Budget(<<BudgetReport("figures")>>)),
          Json("list", "none", Unsupported)}
    [] d = "deposits" ->
         {Json("list", "top level", DepositRows(<<Line(December, "none"), Line(0, "other")>>)),
          Json("dict", "rows", DepositRows(<<Line(December, "none"), Line(0, "unreadable")>>))}
    [] d = "repo rate" ->
         {Html(PolicyRateRows(RatePage(TRUE, "history",
             <<Line(10, "none"), Line(20, "none")>>, Line(0, "unreadable")))),
          Html(PolicyRateRows(RatePage(TRUE, "history",
             <<Line(10, "none"), Line(10, "none")>>, Line(20, "none")))),
          Html(PolicyRateRows(RatePage(TRUE, "single",
             <<Line(10, "implausible")>>, Line(20, "none"))))}
    [] d = "money supply weekly" ->
         {Html(MoneySupplyRows(<<MoneyTable(2, <<Line(1, "unreadable")>>),
                                 MoneyTable(2, <<Line(1, "none"), Line(8, "none")>>)>>)),
          Html(MoneySupplyRows(<<MoneyTable(0, <<Line(1, "none")>>)>>))}
    [] d = "catalog" ->
         {Json("list", "top level", Extracted("rows", <<>>)),
          Json("dict", "rows", Extracted("rows", <<Row("observation_year", 2024)>>)),
          Json("dict", "none", Unsupported), Html(Unsupported)}

\* Left by an older build, by a newer one, and a file no snapshot can be read from.
MCStored(d) ==
  LET some == CHOOSE p \in MCPayloads(d) : TRUE
  IN  {[some EXCEPT !.metadata = Metadata(CurrentVersion + 1, "none")],
       [some EXCEPT !.readable = FALSE], [some EXCEPT !.intact = FALSE]}
      \cup (IF d = "exchange rates" THEN {Html(Extracted("rows", Dates(<<22>>)))} ELSE {some})

MCDescriptors(d) ==
  CASE d = "exchange rates" -> {[coverage |-> "queryable", frequency |-> "daily"]}
    [] d \in {"cpi", "deposits"} -> {[coverage |-> "queryable", frequency |-> "monthly"]}
    [] d \in {"gdp", "budget"} -> {[coverage |-> "queryable", frequency |-> "quarterly"]}
    [] d = "repo rate" -> {[coverage |-> "queryable", frequency |-> "ad_hoc"]}
    [] d = "money supply weekly" ->
         {[coverage |-> "queryable", frequency |-> "weekly"],
          [coverage |-> "limited", frequency |-> "weekly"]}
    [] d = "catalog" ->
         {[coverage |-> "catalog_only", frequency |-> "annual"],
          [coverage |-> "queryable", frequency |-> "unspecified"]}
=============================================================================
