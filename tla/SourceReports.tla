---------------------------- MODULE SourceReports ----------------------------
(***************************************************************************)
(* A connector that fetches a page of links and then the reports the page  *)
(* links to, one after the other: the POS bundle of the SAMA connector and *)
(* the bundle of the Ministry of Finance.  The source can correct reports  *)
(* and add links between two requests.                                     *)
(***************************************************************************)
EXTENDS ConnectorRequest, ReportRows

CONSTANTS PeriodOf,       \* [Approved -> Nat]: of a report its period, else 0
          FirstLinks,     \* the sequences of links the page may start with
          MaxReports,     \* the connector's ceiling
          MaxRevisions    \* bound on what the source changes

ASSUME ReportsAssumption ==
  /\ PeriodOf \in [Approved -> Nat]
  /\ FirstLinks \subseteq Seq(Urls)
  /\ {MaxReports, MaxRevisions} \subseteq Nat

VARIABLES links,       \* the links of the page, in its order
          reports,     \* [ReportUrls -> what the source has at that URL]
          revisions,   \* changes of the source so far
          bundle       \* the coroutine: of SAMA for POS, else of the Ministry

\* What the connector does not change: the source, and which connector it is.
sourceVars == <<links, reports, revisions, sama>>
vars == <<callVars, sourceVars, bundle>>

ReportUrls == {u \in Approved : PeriodOf[u] # 0}

\* A report shows its own period and the one before.
PeriodsOf(u) == {PeriodOf[u], PeriodOf[u] - 1} \ {0}
FirstReport(u) ==
  Report(PeriodOf[u], [p \in PeriodsOf(u) |-> 0], <<{Riyadh}, {Abha}>>, "none")

\* urls are those still to be fetched; held is report_text and report_url of
\* each that has come.
IdleBundle ==
  [pc |-> "idle", urls |-> <<>>, held |-> <<>>, cause |-> "none",
   since |-> 0, moved |-> FALSE, page |-> <<>>]
-----------------------------------------------------------------------------
\* The source corrects a figure in some of the reports that show it, spoils or
\* regroups a report, or adds a link.
Change ==
  /\ revisions < MaxRevisions
  /\ revisions' = revisions + 1

Correct ==
  /\ Change
  /\ \E p \in UNION {PeriodsOf(u) : u \in ReportUrls}, some \in (SUBSET ReportUrls) \ {{}} :
       /\ \A u \in some : p \in PeriodsOf(u)
       /\ reports' = [u \in ReportUrls |->
            IF u \in some THEN [reports[u] EXCEPT !.figures[p] = @ + 1] ELSE reports[u]]
  /\ UNCHANGED links

Spoil ==
  /\ Change
  /\ \E u \in ReportUrls, flaw \in Flaws \ {"none"} :
       reports' = [reports EXCEPT ![u].flaw = flaw]
  /\ UNCHANGED links

Regroup ==
  /\ Change
  /\ \E u \in ReportUrls, cities \in {<<{Riyadh}, {}>>, <<{Abha}, {Abha}>>} :
       reports' = [reports EXCEPT ![u].cities = cities]
  /\ UNCHANGED links

AddLink ==
  /\ Change
  /\ \E u \in ReportUrls : links' = Append(links, u)
  /\ UNCHANGED reports

SourceStep == (Correct \/ Spoil \/ Regroup \/ AddLink) /\ UNCHANGED <<callVars, sama, bundle>>
-----------------------------------------------------------------------------
(***************************************************************************)
(* The links of the page that are fetched.                                 *)
(***************************************************************************)
ReportLinks(page) == {i \in 1..Len(page) : page[i] \in ReportUrls}

\* The URLs at some places of the page, in an order of these places.
UrlsAt(page, places, before) ==
  [n \in 1..Cardinality(places) |-> page[InOrder(places, before)[n]]]

\* SAMA: the pattern finds links to reports on its own site only, and passes over
\* any other; a link that is repeated counts once.
FirstOfUrl(page) ==
  {i \in ReportLinks(page) : \A j \in ReportLinks(page) : j < i => page[j] # page[i]}
PosUrls(page) == UrlsAt(page, FirstOfUrl(page), Ascending(FirstOfUrl(page)))

\* Ministry of Finance: the last link of each quarter, in the order of quarters.
QuarterAt(page, i) == PeriodOf[page[i]]
LastOfQuarter(page) ==
  {i \in ReportLinks(page) : \A j \in ReportLinks(page) :
     i < j => QuarterAt(page, j) # QuarterAt(page, i)}
ByQuarter(page, places) ==
  {pair \in places \X places : QuarterAt(page, pair[1]) < QuarterAt(page, pair[2])}
MofUrls(page) == UrlsAt(page, LastOfQuarter(page), ByQuarter(page, LastOfQuarter(page)))

UrlsOf(page) == IF sama THEN PosUrls(page) ELSE MofUrls(page)
PageRefused(page) == Len(UrlsOf(page)) \notin 1..MaxReports
-----------------------------------------------------------------------------
(***************************************************************************)
(* The coroutine.                                                          *)
(***************************************************************************)
StartFetch ==
  /\ bundle.pc = "idle"
  /\ Begin(SourceUrl, FALSE)
  /\ bundle' = [IdleBundle EXCEPT !.pc = "page", !.since = revisions]
  /\ UNCHANGED sourceVars

\* The answer is what the source has at this moment at the URL it is asked.
Answer ==
  /\ Succeed
  /\ bundle' = [bundle EXCEPT
       !.page = IF bundle.pc = "page" THEN links ELSE @,
       !.moved = @ \/ call.url # call.start,
       !.held = IF bundle.pc = "reports" /\ call.url \in ReportUrls
                THEN Append(@, reports[call.url]) ELSE @]
  /\ UNCHANGED sourceVars

RequestGoesOn == (Fail \/ Resend) /\ UNCHANGED <<sourceVars, bundle>>

Settle == call' = IdleCall /\ sends' = 0 /\ UNCHANGED sourceVars

Raises(cause) == bundle' = [bundle EXCEPT !.pc = "raised", !.cause = cause] /\ Settle

RequestRaised == call.pc = "raised" /\ Raises("request")

\* Too long, not of the type asked for, or without text.  Also what a redirect
\* leads to when it is not a page, or not a report.
RefusePage == call.pc = "answered" /\ bundle.pc = "page" /\ Raises("html")
RefuseReport == call.pc = "answered" /\ bundle.pc = "reports" /\ Raises("pdf")

ResumePage ==
  /\ call.pc = "answered"
  /\ bundle.pc = "page"
  /\ call.url \notin ReportUrls
  /\ IF PageRefused(bundle.page)
     THEN Raises("page")
     ELSE /\ bundle' = [bundle EXCEPT !.pc = "reports", !.urls = UrlsOf(bundle.page)]
          /\ Begin(UrlsOf(bundle.page)[1], FALSE)
          /\ UNCHANGED sourceVars

ResumeReport ==
  /\ call.pc = "answered"
  /\ bundle.pc = "reports"
  /\ call.url \in ReportUrls
  /\ LET rest == Tail(bundle.urls)
     IN  IF rest = <<>>
         THEN bundle' = [bundle EXCEPT !.pc = "done", !.urls = <<>>] /\ Settle
         ELSE /\ bundle' = [bundle EXCEPT !.urls = rest]
              /\ Begin(rest[1], FALSE)
              /\ UNCHANGED sourceVars

Return ==
  /\ bundle.pc \in {"done", "raised"}
  /\ bundle' = IdleBundle
  /\ UNCHANGED <<callVars, sourceVars>>

Resume == RequestRaised \/ RefusePage \/ RefuseReport \/ ResumePage \/ ResumeReport

Init ==
  /\ CallInit
  /\ sama \in BOOLEAN
  /\ links \in FirstLinks
  /\ reports = [u \in ReportUrls |-> FirstReport(u)]
  /\ revisions = 0
  /\ bundle = IdleBundle

Next == SourceStep \/ StartFetch \/ Answer \/ RequestGoesOn \/ Resume \/ Return

Spec == Init /\ [][Next]_vars

\* The source answers or a timeout ends the wait, and the coroutine runs on.
FairSpec == Spec /\ WF_vars(Answer \/ RequestGoesOn) /\ WF_vars(Resume)
-----------------------------------------------------------------------------
Extractions ==
  IF sama THEN {PosWeekly(bundle.held), PosByCity(bundle.held)}
  ELSE {BudgetBalance(bundle.held)}

\* Rows that normalize have each key once, in order, and no report of the
\* bundle contradicts them: when the source corrects a week between two
\* reports, POS is limited rather than mixed.  The balance of a quarter is the
\* one its own report shows, and quarters are in order, unless redirects bring
\* two reports of a quarter, or an earlier quarter after a later one.
RowsAgreeWithReports ==
  bundle.pc = "done" =>
    \A e \in Extractions : e.status = "rows" =>
      /\ \A i, j \in 1..Len(e.rows) :
           i < j => /\ KeyOf(e.rows[i]) # KeyOf(e.rows[j])
                    /\ (sama \/ ~bundle.moved) =>
                         e.rows[i].period <= e.rows[j].period
      /\ \A i \in 1..Len(e.rows), n \in 1..Len(bundle.held) :
           LET row == e.rows[i]
               r   == bundle.held[n]
           IN  (IF sama THEN row.period \in DOMAIN r.figures
                ELSE row.period = r.quarter /\ r.flaw = "none" /\ ~bundle.moved)
                 => r.figures[row.period] = row.figure

\* A source that stands still during the fetch, with reports in order and at
\* the URLs the page gives, is extracted whole: every period of every linked
\* report.
StillReportsComeWhole ==
  (/\ bundle.pc = "done"
   /\ revisions = bundle.since
   /\ ~bundle.moved
   /\ \A u \in ReportUrls :
        reports[u] = [FirstReport(u) EXCEPT !.figures = reports[u].figures]
   /\ \A u, v \in ReportUrls : \A p \in PeriodsOf(u) \cap PeriodsOf(v) :
        reports[u].figures[p] = reports[v].figures[p])
  => \A e \in Extractions :
       /\ e.status = "rows"
       /\ {e.rows[i].period : i \in 1..Len(e.rows)} =
            LET linked == {links[i] : i \in 1..Len(links)} \cap ReportUrls
            IN  IF sama THEN UNION {PeriodsOf(u) : u \in linked}
                ELSE {PeriodOf[u] : u \in linked}

\* A fetch ends, with a payload or with an error.
ReportsEnd == (bundle.pc # "idle") ~> (bundle.pc \in {"done", "raised"})
=============================================================================
