---------------------------- MODULE ExchangeRates ----------------------------
(***************************************************************************)
(* The page loop of the SAMA connector's exchange rates: a landing page    *)
(* names the latest date, a search for that date gives the first page, and *)
(* the pager of each page leads to the next one.  The source can publish   *)
(* between two requests.  At the end stands what the normalization accepts *)
(* as the rates of one date.                                               *)
(*                                                                         *)
(* A row is a quote: a currency at a rate.  Quotes are numbers in the      *)
(* order in which the source lists them; a currency has several, of which  *)
(* a publication holds one, or none.                                       *)
(***************************************************************************)
EXTENDS ConnectorRequest, Sequences, FiniteSets

CONSTANTS Quotes,         \* 1..n
          CurrencyOf,     \* [Quotes -> currencies]
          Publications,   \* the sets of quotes the source may publish for a date
          MaxDate,        \* dates are 0..MaxDate
          PageSizes,      \* how many rows the source may put on a full page
          PagerSize,      \* page numbers in one block of the source's pager
          MaxPages,       \* _MAX_EXCHANGE_RATES_PAGE_COUNT
          MaxChanges      \* bound on what the source publishes

ASSUME ExchangeRatesAssumption ==
  /\ {MaxDate, PagerSize, MaxPages, MaxChanges} \subseteq Nat
  /\ PageSizes \subseteq Nat \ {0}

\* Quotes are numbered; a block of the pager has other pages than the one that is shown.
ASSUME SourceAssumption ==
  /\ Cardinality(Quotes) \in Nat
  /\ Quotes = 1..Cardinality(Quotes)
  /\ PagerSize > 1

\* The source lists a currency once.
OneQuoteEach(set) == \A q, r \in set : CurrencyOf[q] = CurrencyOf[r] => q = r

ASSUME PublicationsAssumption ==
  Publications \subseteq {set \in SUBSET Quotes : OneQuoteEach(set)}

VARIABLES listed,     \* [Dates -> SUBSET Quotes], what the source holds
          latest,     \* its latest date
          pageSize,   \* the rows it puts on a page
          changes,    \* publications so far
          served,     \* the page in the last answer
          bundle      \* the connector's coroutine

\* What the connector does not change: the source, and which connector it is.
sourceVars == <<listed, latest, pageSize, changes, sama>>
vars == <<callVars, sourceVars, served, bundle>>

Dates == 0..MaxDate
Counts == 0..((MaxDate + 1) * Cardinality(Quotes))
Pages == 1..Cardinality(Quotes)

\* _ExchangeRatesPageState: targets are the pager's page numbers, ellipsis the
\* page its last "..." leads to, action the URL its form is posted to.
Page == [rows : SUBSET Quotes, date : Dates, total : Counts,
         targets : SUBSET Pages, ellipsis : Pages \cup {0}, action : Urls]
NoPage == [rows |-> {}, date |-> 0, total |-> 0, targets |-> {}, ellipsis |-> 0,
           action |-> SourceUrl]

Bundle ==
  [pc       : {"idle", "landing", "search", "paging", "done", "raised"},
   date     : Dates,                 \* current_date_text
   expected : Counts,
   asked    : Pages \cup {0},        \* the page the request in flight leads to
   pages    : Seq([rows : SUBSET Quotes, total : Counts]),
   cause    : {"none", "request", "markup", "page"},   \* why it raised
   plain    : BOOLEAN,               \* a form was answered as a GET: an observer
   since    : 0..MaxChanges,         \* changes when the fetch began: an observer
   shown    : SUBSET [Dates -> SUBSET Quotes]]   \* listed from then on: an observer

IdleBundle ==
  [pc |-> "idle", date |-> 0, expected |-> 0, asked |-> 0, pages |-> <<>>,
   cause |-> "none", plain |-> FALSE, since |-> 0, shown |-> {}]

Fetching == {"landing", "search", "paging"}

CeilDiv(n, k) == (n + k - 1) \div k
Smallest(a, b) == IF a < b THEN a ELSE b
Largest(s) == CHOOSE n \in s : \A m \in s : m <= n
-----------------------------------------------------------------------------
(***************************************************************************)
(* The source.                                                             *)
(***************************************************************************)
RowsOfPage(set, k) ==
  {c \in set : CeilDiv(Cardinality({x \in set : x <= c}), pageSize) = k}

\* A page of the rates of one date.  One beyond the last shows the last.
ServedPage(date, asked, action) ==
  LET set   == listed[date]
      count == CeilDiv(Cardinality(set), pageSize)
      k     == IF count = 0 THEN 1 ELSE Smallest(asked, count)
      first == ((k - 1) \div PagerSize) * PagerSize + 1
      last  == Smallest(first + PagerSize - 1, count)
  IN  [rows |-> RowsOfPage(set, k), date |-> date, total |-> Cardinality(set),
       targets |-> (first..last) \ {k},
       ellipsis |-> IF last < count THEN last + 1 ELSE first - 1,
       action |-> action]

RowsOfAllDates ==
  LET upTo[d \in Dates] ==
        Cardinality(listed[d]) + (IF d = 0 THEN 0 ELSE upTo[d - 1])
  IN  upTo[MaxDate]

\* What a GET shows: the first rows of the latest date, and how many rows there
\* are of all dates.
PlainPage(action) ==
  [ServedPage(latest, 1, action) EXCEPT !.total = RowsOfAllDates]

\* What the source holds becomes listing.
Publish(listing) ==
  /\ changes < MaxChanges
  /\ changes' = changes + 1
  /\ listed' = listing
  /\ bundle' = IF bundle.pc \in Fetching
               THEN [bundle EXCEPT !.shown = @ \cup {listing}]
               ELSE bundle
  /\ UNCHANGED <<callVars, pageSize, sama, served>>

\* The rates of the latest date are published anew: currencies may have come,
\* gone, or been given another rate.
Revise ==
  /\ \E set \in Publications \ {listed[latest]} : Publish([listed EXCEPT ![latest] = set])
  /\ UNCHANGED latest

NewDate ==
  /\ latest < MaxDate
  /\ latest' = latest + 1
  /\ \E set \in Publications \ {{}} : Publish([listed EXCEPT ![latest + 1] = set])

\* The success of a request brings the page it leads to: for a form, a page of
\* the date asked for, or of the latest when the source loses the filter.
Serve ==
  /\ Succeed
  /\ \E action \in Urls, date \in {bundle.date, latest} :
       served' = IF call.posts
                 THEN ServedPage(date, IF bundle.pc = "paging" THEN bundle.asked ELSE 1,
                                 action)
                 ELSE PlainPage(action)
  /\ bundle' = [bundle EXCEPT !.plain = @ \/ call.posts # call.form]
  /\ UNCHANGED sourceVars

RequestGoesOn ==
  /\ Fail \/ Resend
  /\ UNCHANGED <<sourceVars, served, bundle>>
-----------------------------------------------------------------------------
(***************************************************************************)
(* The connector.                                                          *)
(***************************************************************************)
\* Faulty variants: the "..." of the pager is not followed; the page count is
\* rounded down; totals that differ are accepted.
ListedTarget(t) == IF t \in served.targets THEN t ELSE 0
PageCountRoundedDown == served.total \div Cardinality(served.rows)
SameTotalsUnchecked == TRUE

\* _resolve_exchange_rates_event_target; 0 when it raises.
EventTarget(t) ==
  CASE t \in served.targets -> t
    [] /\ t \notin served.targets
       /\ served.ellipsis # 0
       /\ served.targets # {}
       /\ t > Largest(served.targets) -> served.ellipsis
    [] OTHER -> 0

ExpectedPageCount == CeilDiv(served.total, Cardinality(served.rows))

StartFetch ==
  /\ bundle.pc = "idle"
  /\ Begin(SourceUrl, FALSE)
  /\ bundle' = [IdleBundle EXCEPT !.pc = "landing", !.since = changes,
                                   !.shown = {listed}]
  /\ UNCHANGED <<sourceVars, served>>

\* No request is in flight any more.
Settled ==
  /\ call' = IdleCall
  /\ sends' = 0
  /\ served' = NoPage
  /\ UNCHANGED sourceVars

BundleRaises(cause) ==
  /\ bundle' = [bundle EXCEPT !.pc = "raised", !.cause = cause]
  /\ Settled

RequestRaised ==
  /\ call.pc = "raised"
  /\ BundleRaises("request")

\* The answer is too long, is not HTML, or lacks the form, the table or the
\* count the extraction looks for.
RefuseMarkup ==
  /\ call.pc = "answered"
  /\ BundleRaises("markup")

\* _extract_exchange_rates_page_state: a page without rows is refused.
ResumeLanding ==
  /\ call.pc = "answered"
  /\ bundle.pc = "landing"
  /\ IF served.rows = {}
     THEN BundleRaises("page")
     ELSE /\ bundle' = [bundle EXCEPT !.pc = "search", !.date = served.date]
          /\ Begin(served.action, TRUE)
          /\ UNCHANGED <<sourceVars, served>>

\* The page that has come is the next of the bundle; go on from it.
PageValid == served.rows # {} /\ served.date = bundle.date

TakePage(expected) ==
  LET pages == Append(bundle.pages, [rows |-> served.rows, total |-> served.total])
      next  == Len(pages) + 1
      taken == [bundle EXCEPT !.pc = "paging", !.expected = expected, !.pages = pages]
  IN  IF next > expected
      THEN /\ bundle' = [taken EXCEPT !.pc = "done", !.asked = 0]
           /\ Settled
      ELSE IF EventTarget(next) = 0
           THEN BundleRaises("page")
           ELSE /\ bundle' = [taken EXCEPT !.asked = EventTarget(next)]
                /\ Begin(served.action, TRUE)
                /\ UNCHANGED <<sourceVars, served>>

ResumeSearch ==
  /\ call.pc = "answered"
  /\ bundle.pc = "search"
  /\ IF ~PageValid \/ ExpectedPageCount > MaxPages
     THEN BundleRaises("page")
     ELSE TakePage(ExpectedPageCount)

ResumePaging ==
  /\ call.pc = "answered"
  /\ bundle.pc = "paging"
  /\ IF PageValid THEN TakePage(bundle.expected) ELSE BundleRaises("page")

Return ==
  /\ bundle.pc \in {"done", "raised"}
  /\ bundle' = IdleBundle
  /\ UNCHANGED <<callVars, sourceVars, served>>

Resume ==
  RequestRaised \/ RefuseMarkup \/ ResumeLanding \/ ResumeSearch \/ ResumePaging

Init ==
  /\ CallInit
  /\ sama = TRUE
  /\ listed \in {[d \in Dates |-> IF d = 0 THEN set ELSE {}] :
                  set \in Publications \ {{}}}
  /\ pageSize \in PageSizes
  /\ latest = 0
  /\ changes = 0
  /\ served = NoPage
  /\ bundle = IdleBundle

Next ==
  \/ Revise
  \/ NewDate
  \/ StartFetch
  \/ Serve
  \/ RequestGoesOn
  \/ Resume
  \/ Return

Spec == Init /\ [][Next]_vars

\* The source answers or a timeout ends the wait, and the coroutine runs on.
FairSpec == Spec /\ WF_vars(Serve \/ RequestGoesOn) /\ WF_vars(Resume)
-----------------------------------------------------------------------------
\* extract_sama_exchange_rates_current_rows_from_json: what normalizes is of
\* one date, without a currency twice, and as long as every page declares.
Total == bundle.pages[Len(bundle.pages)].total
Rows == UNION {bundle.pages[i].rows : i \in 1..Len(bundle.pages)}
SameTotals == \A i \in 1..Len(bundle.pages) : bundle.pages[i].total = Total
NoRowTwice ==
  \A i, j \in 1..Len(bundle.pages) :
    i # j => \A q \in bundle.pages[i].rows, r \in bundle.pages[j].rows :
               CurrencyOf[q] # CurrencyOf[r]
Accepted == SameTotals /\ NoRowTwice /\ Total = Cardinality(Rows)

\* What the source listed for the bundle's date while the pages were fetched, and
\* those of these publications that have as many rows as the bundle.  A form that
\* a redirect turned into a GET brings the total of all dates instead: a bundle
\* with such a page fits every publication that has no more rows.
Shown == {l[bundle.date] : l \in bundle.shown}
Fitting ==
  {set \in Shown : \/ Cardinality(set) = Cardinality(Rows)
                   \/ bundle.plain /\ Cardinality(set) < Cardinality(Rows)}

\* The pages are fetched one after the other, without any lock on the source, and
\* the normalization compares totals, dates and currencies.  The rows it accepts
\* are of publications that were listed during the fetch and fit their number, and
\* are the whole publication when only one of them fits.  So the site can revise
\* its rows once without leaving a mixture when their number changes; when it does
\* not, as with a corrected rate or a currency in place of another, the code
\* accepts one.
OnlyEqualSizesMix ==
  (bundle.pc = "done" /\ Accepted) =>
    /\ Rows \subseteq UNION Fitting
    /\ (\A set, other \in Fitting : set = other) => Rows \in Fitting

\* While the source stands still, and no redirect turns a form into a GET, a
\* fetch whose requests succeed ends with the whole publication, in a form that
\* normalizes; what a page shows makes it fail only when there are too many
\* pages.
StillSourceIsFetchedWhole ==
  (changes = bundle.since /\ ~bundle.plain) =>
    /\ bundle.pc = "done" => Accepted /\ Rows = listed[latest]
    /\ bundle.cause = "page" =>
         CeilDiv(Cardinality(listed[latest]), pageSize) \notin 1..MaxPages

\* A fetch ends, with a payload or with an error.
FetchesEnd == (bundle.pc # "idle") ~> (bundle.pc \in {"done", "raised"})
=============================================================================
