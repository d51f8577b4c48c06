------------------------ MODULE ExchangeRatesProofs ------------------------
(***************************************************************************)
(* What the page loop of the exchange rates asks of its source and what it *)
(* makes of the pages, for any number of retries and redirects, any URLs   *)
(* and any publications.                                                   *)
(***************************************************************************)
EXTENDS ExchangeRates, ConnectorRequestProofs, FiniteSetTheorems, SequenceTheorems,
        WellFoundedInduction

PageInv == served.action \in Urls

Inv == CallInv /\ PageInv
-----------------------------------------------------------------------------
\* A page names the URL that its form is posted to.
LEMMA PageActions ==
  ASSUME NEW d, NEW k, NEW a \in Urls
  PROVE  ServedPage(d, k, a).action = a /\ PlainPage(a).action = a
<1>1. ServedPage(d, k, a).action = a /\ ServedPage(latest, 1, a).action = a
  BY DEF ServedPage
<1>2. PlainPage(a).action = ServedPage(latest, 1, a).action
  BY DEF PlainPage, ServedPage
<1> QED  BY <1>1, <1>2

\* The page loop begins with a request and no page.
LEMMA InvInit == Init => Inv
<1> SUFFICES ASSUME Init PROVE Inv
  OBVIOUS
<1>1. CallInv
  BY CallInvInit DEF Init
<1>2. PageInv
  BY RequestAssumption DEF Init, PageInv, NoPage, Urls, RequestAssumption
<1> QED  BY <1>1, <1>2 DEF Inv

\* The page loop does to a request what any connector does.
LEMMA PageLoopIsConnector == Inv /\ [Next]_vars => ConnectorStep /\ PageInv'
<1> SUFFICES ASSUME Inv, [Next]_vars PROVE ConnectorStep /\ PageInv'
  OBVIOUS
<1>1. ASSUME Settled PROVE ConnectorStep /\ PageInv'
  <2>1. SourceUrl \in Urls
    BY RequestAssumption DEF RequestAssumption, Urls
  <2> QED  BY <1>1, <2>1 DEF Settled, ConnectorStep, PageInv, NoPage, sourceVars
<1>2. ASSUME Begin(served.action, TRUE), UNCHANGED <<sourceVars, served>> PROVE ConnectorStep /\ PageInv'
  BY <1>2 DEF ConnectorStep, Inv, PageInv, sourceVars
<1>3. ASSUME NEW cause, BundleRaises(cause) PROVE ConnectorStep /\ PageInv'
  BY <1>1, <1>3 DEF BundleRaises
<1>4. ASSUME NEW expected, TakePage(expected) PROVE ConnectorStep /\ PageInv'
  BY <1>1, <1>2, <1>3, <1>4 DEF TakePage
<1>5. CASE Revise \/ NewDate \/ Return \/ UNCHANGED vars
  BY <1>5 DEF Revise, NewDate, Publish, Return, vars, sourceVars, ConnectorStep, Inv, PageInv
<1>6. CASE StartFetch
  <2>1. SourceUrl \in Urls
    BY RequestAssumption DEF RequestAssumption, Urls
  <2> QED  BY <1>6, <2>1 DEF StartFetch, sourceVars, ConnectorStep, Inv, PageInv
<1>7. CASE Serve
  <2>1. PICK action \in Urls, date \in {bundle.date, latest} :
          \/ served' = ServedPage(date, IF bundle.pc = "paging" THEN bundle.asked ELSE 1, action)
          \/ served' = PlainPage(action)
    BY <1>7 DEF Serve
  <2> QED  BY <1>7, <2>1, PageActions DEF Serve, sourceVars, ConnectorStep, CallNext, PageInv
<1>8. CASE RequestGoesOn
  BY <1>8 DEF RequestGoesOn, sourceVars, ConnectorStep, CallNext, Inv, PageInv
<1>9. CASE Resume
  <2>1. CASE RequestRaised
    BY <1>3, <2>1 DEF RequestRaised
  <2>2. CASE RefuseMarkup
    BY <1>3, <2>2 DEF RefuseMarkup
  <2>3. CASE ResumeLanding
    BY <1>2, <1>3, <2>3 DEF ResumeLanding
  <2>4. CASE ResumeSearch
    BY <1>3, <1>4, <2>4 DEF ResumeSearch
  <2>5. CASE ResumePaging
    BY <1>3, <1>4, <2>5 DEF ResumePaging
  <2> QED  BY <1>9, <2>1, <2>2, <2>3, <2>4, <2>5 DEF Resume
<1> QED  BY <1>5, <1>6, <1>7, <1>8, <1>9 DEF Next

\* The invariant of the page loop holds in every state.
LEMMA Invariance == Spec => []Inv
<1>1. Inv /\ [Next]_vars => Inv'
  BY CallInvStep, PageLoopIsConnector DEF Inv
<1> QED  BY InvInit, <1>1, PTL DEF Spec

\* A request costs its source at most (retries + 1) attempts of (hops + 1)
\* sends, one more each with the fallback, whatever the source answers.
THEOREM RequestsAreBounded == Spec => []SendsBounded
<1>1. Inv => SendsBounded
  BY CallInvImplies DEF Inv
<1> QED  BY Invariance, <1>1, PTL

\* No request is sent, first or redirected, retried or by the fallback, to a URL
\* outside of the approved boundary, whatever the pages name.
THEOREM RequestsStayApproved == Spec => []OnlyApprovedUrls
<1>1. Inv => OnlyApprovedUrls
  BY CallInvImplies DEF Inv
<1> QED  BY Invariance, <1>1, PTL
-----------------------------------------------------------------------------
(***************************************************************************)
(* Pages.  A quote's rank is its place in the list; the rows of page k  *)
(* are those whose rank is of the k-th stretch of pageSize.                *)
(***************************************************************************)
Rank(set, c) == Cardinality({x \in set : x <= c})

\* A quotient is the one number of whole parts.
LEMMA Quotient ==
  ASSUME NEW n \in Nat, NEW k \in Nat \ {0}
  PROVE  n \div k \in Nat /\ (n \div k) * k <= n /\ n < (n \div k) * k + k
OBVIOUS

\* Multiples keep their order.
LEMMA MultiplesInOrder ==
  ASSUME NEW p \in Nat \ {0}, NEW q \in Nat, NEW r \in Nat, q < r
  PROVE  q * p \in Nat /\ r * p \in Nat /\ q * p + p <= r * p
<1>1. PICK d \in Nat : r = q + 1 + d
  <2>1. r - q - 1 \in Nat /\ r = q + 1 + (r - q - 1)
    OBVIOUS
  <2> QED
    BY <2>1
<1>2. q * p \in Nat /\ d * p \in Nat /\ (q + 1 + d) * p = q * p + p + d * p
  OBVIOUS
<1> QED
  BY <1>1, <1>2

\* How many pages of p hold n rows: the last of them is needed, and they do.
LEMMA PagesNeeded ==
  ASSUME NEW n \in Nat, NEW p \in Nat \ {0}
  PROVE  /\ CeilDiv(n, p) \in Nat
         /\ CeilDiv(n, p) * p \in Nat
         /\ n <= CeilDiv(n, p) * p
         /\ CeilDiv(n, p) * p < n + p
<1>1. n + p - 1 \in Nat
  OBVIOUS
<1> QED
  BY <1>1, Quotient DEF CeilDiv

\* And no other number does.
LEMMA PagesNeededUnique ==
  ASSUME NEW n \in Nat, NEW p \in Nat \ {0}, NEW q \in Nat, n <= q * p, q * p < n + p
  PROVE  CeilDiv(n, p) = q
<1> DEFINE c == CeilDiv(n, p)
<1>1. c \in Nat /\ c * p \in Nat /\ n <= c * p /\ c * p < n + p
  BY PagesNeeded
<1> HIDE DEF c
<1>2. ~(c < q) /\ ~(q < c)
  BY <1>1, MultiplesInOrder
<1> QED
  BY <1>1, <1>2 DEF c

\* Sets of quotes are finite.
LEMMA FiniteListings ==
  ASSUME NEW set \in SUBSET Quotes
  PROVE  IsFiniteSet(set) /\ Cardinality(set) \in Nat /\ set \subseteq Nat \ {0}
<1>1. IsFiniteSet(1..Cardinality(Quotes))
  BY SourceAssumption, FS_Interval DEF SourceAssumption
<1>2. IsFiniteSet(Quotes) /\ Quotes \subseteq Nat \ {0}
  BY <1>1, SourceAssumption DEF SourceAssumption
<1> QED
  BY <1>2, FS_Subset, FS_CardinalityType

\* Ranks grow with the quotes, from one to their number.
LEMMA RanksInOrder ==
  ASSUME NEW set \in SUBSET Quotes, NEW c \in set
  PROVE  /\ Rank(set, c) \in 1..Cardinality(set)
         /\ \A e \in set : c < e => Rank(set, c) < Rank(set, e)
<1>0. IsFiniteSet(set) /\ Cardinality(set) \in Nat /\ set \subseteq Nat \ {0}
  BY FiniteListings
<1> DEFINE Upto(x) == {y \in set : y <= x}
<1>1. ASSUME NEW x \in set
      PROVE  /\ IsFiniteSet(Upto(x)) /\ Cardinality(Upto(x)) \in Nat
             /\ Cardinality(Upto(x)) <= Cardinality(set)
  BY <1>0, FS_Subset, FS_CardinalityType
<1>2. Cardinality(Upto(c)) # 0
  <2>1. c \in Upto(c)
    <3>1. c \in set /\ c <= c
      BY <1>0
    <3> QED
      BY <3>1
  <2> DEFINE u == Upto(c)
  <2> HIDE DEF u, Upto
  <2>2. u # {} /\ IsFiniteSet(u)
    BY <1>1, <2>1 DEF u
  <2>3. Cardinality(u) # 0
    BY <2>2, FS_EmptySet
  <2> QED
    BY <2>3 DEF u
<1>3. ASSUME NEW e \in set, c < e PROVE Cardinality(Upto(c)) < Cardinality(Upto(e))
  <2>1. Upto(c) \subseteq Upto(e) /\ e \in Upto(e) /\ e \notin Upto(c)
    <3>1. (\A y \in set : y <= c => y <= e) /\ e <= e /\ ~(e <= c)
      BY <1>0, <1>3
    <3> QED
      BY <3>1
  <2> HIDE DEF Upto
  <2>2. Upto(c) # Upto(e)
    BY <2>1
  <2>3. Cardinality(Upto(c)) <= Cardinality(Upto(e)) /\ Cardinality(Upto(c)) # Cardinality(Upto(e))
    BY <1>1, <2>1, <2>2, FS_Subset
  <2> QED
    BY <2>3, <1>1
<1> QED
  BY <1>0, <1>1, <1>2, <1>3 DEF Rank

\* Ranks number a set through.
LEMMA RanksNumberThrough ==
  ASSUME NEW set \in SUBSET Quotes
  PROVE  [c \in set |-> Rank(set, c)] \in Bijection(set, 1..Cardinality(set))
<1> DEFINE n == Cardinality(set)
           f == [c \in set |-> Rank(set, c)]
<1>0. IsFiniteSet(set) /\ n \in Nat /\ set \subseteq Nat \ {0}
  BY FiniteListings
<1>1. f \in [set -> 1..n]
  BY RanksInOrder
<1>2. \A a, b \in set : f[a] = f[b] => a = b
  <2> SUFFICES ASSUME NEW a \in set, NEW b \in set, f[a] = f[b], a # b PROVE FALSE
    OBVIOUS
  <2>1. a < b \/ b < a
    BY <1>0
  <2> QED
    BY <2>1, <1>0, RanksInOrder
<1>3. f \in Injection(set, 1..n)
  BY <1>1, <1>2 DEF Injection, IsInjective
<1>4. IsFiniteSet(1..n) /\ Cardinality(1..n) = n
  BY <1>0, FS_Interval
<1>5. f \in Surjection(set, 1..n)
  <2> HIDE DEF f
  <2> QED
    BY <1>3, <1>4, FS_Injection
<1> QED
  BY <1>3, <1>5 DEF Bijection

\* A quote of a publication is on page k when its rank is of the k-th stretch.
LEMMA RowsByRank ==
  ASSUME NEW set \in SUBSET Quotes, pageSize \in Nat \ {0}, NEW c \in set,
         NEW k \in Nat \ {0}
  PROVE  /\ CeilDiv(Rank(set, c), pageSize) \in 1..CeilDiv(Cardinality(set), pageSize)
         /\ c \in RowsOfPage(set, k) <=> CeilDiv(Rank(set, c), pageSize) = k
<1> DEFINE n == Cardinality(set)
           r == Rank(set, c)
           p == pageSize
           a == CeilDiv(r, p)
           b == CeilDiv(n, p)
<1>1. r \in Nat /\ 1 <= r /\ r <= n /\ n \in Nat /\ p \in Nat \ {0}
  BY FiniteListings, RanksInOrder
<1>2. c \in RowsOfPage(set, k) <=> a = k
  BY DEF RowsOfPage, Rank
<1> HIDE DEF n, r, p
<1>3. /\ a \in Nat /\ a * p \in Nat /\ r <= a * p /\ a * p < r + p
      /\ b \in Nat /\ b * p \in Nat /\ n <= b * p
  BY <1>1, PagesNeeded
<1> HIDE DEF a, b
<1>4. a # 0
  BY <1>1, <1>3
<1>5. ~(b < a)
  <2> SUFFICES ASSUME b < a PROVE FALSE
    OBVIOUS
  <2>1. b * p + p <= a * p
    BY <1>1, <1>3, MultiplesInOrder
  <2> QED
    BY <2>1, <1>1, <1>3
<1> QED
  BY <1>2, <1>3, <1>4, <1>5 DEF a, b, n, r, p

\* Every needed page has rows.
LEMMA PagesHaveRows ==
  ASSUME NEW set \in SUBSET Quotes, pageSize \in Nat \ {0},
         NEW k \in 1..CeilDiv(Cardinality(set), pageSize)
  PROVE  RowsOfPage(set, k) # {}
<1> DEFINE n == Cardinality(set)
           p == pageSize
           b == CeilDiv(n, p)
           f == [c \in set |-> Rank(set, c)]
<1>1. n \in Nat /\ p \in Nat \ {0} /\ b \in Nat /\ b * p \in Nat /\ b * p < n + p /\ k \in 1..b
  BY FiniteListings, PagesNeeded
<1>2. f \in Bijection(set, 1..n)
  BY RanksNumberThrough
<1> HIDE DEF n, p, b, f
<1>3. k \in Nat \ {0} /\ k - 1 \in Nat /\ k * p \in Nat /\ (k - 1) * p \in Nat
      /\ k * p = (k - 1) * p + p /\ k * p <= b * p
  <2>1. k \in Nat \ {0} /\ k - 1 \in Nat /\ k * p \in Nat /\ (k - 1) * p \in Nat
        /\ k * p = (k - 1) * p + p
    BY <1>1
  <2>2. k = b \/ k * p + p <= b * p
    BY <1>1, <2>1, MultiplesInOrder
  <2> QED
    BY <1>1, <2>1, <2>2
<1> DEFINE r == (k - 1) * p + 1
<1>4. r \in 1..n /\ r \in Nat /\ r <= k * p /\ k * p < r + p
  BY <1>1, <1>3
<1>5. CeilDiv(r, p) = k
  <2> HIDE DEF r
  <2> QED
    BY <1>1, <1>3, <1>4, PagesNeededUnique
<1>6. PICK c \in set : f[c] = r
  BY <1>2, <1>4 DEF Bijection, Surjection
<1>7. Rank(set, c) = r
  BY <1>6 DEF f
<1>8. c \in RowsOfPage(set, k)
  <2> HIDE DEF r
  <2> QED
    BY <1>3, <1>5, <1>7, RowsByRank DEF p
<1> QED
  BY <1>8

\* From the length of the first page the connector computes the number of pages.
LEMMA FirstPageTellsCount ==
  ASSUME NEW set \in SUBSET Quotes, set # {}, pageSize \in Nat \ {0}
  PROVE  CeilDiv(Cardinality(set), Cardinality(RowsOfPage(set, 1)))
           = CeilDiv(Cardinality(set), pageSize)
<1> DEFINE n == Cardinality(set)
           p == pageSize
           m == Smallest(p, n)
           rows == RowsOfPage(set, 1)
           f == [c \in set |-> Rank(set, c)]
           g == [c \in rows |-> f[c]]
<1>1. n \in Nat \ {0} /\ p \in Nat \ {0} /\ m \in Nat \ {0} /\ m <= n /\ m <= p
      /\ (m = p \/ m = n)
  <2>1. n \in Nat \ {0}
    BY FiniteListings, FS_EmptySet
  <2> QED
    BY <2>1 DEF Smallest
<1>2. f \in Bijection(set, 1..n)
  BY RanksNumberThrough
<1>3. rows \subseteq set
  BY DEF RowsOfPage
<1>4. \A c \in set : c \in rows <=> f[c] <= p
  <2> SUFFICES ASSUME NEW c \in set PROVE c \in rows <=> f[c] <= p
    OBVIOUS
  <2> DEFINE r == Rank(set, c)
  <2>1. r \in Nat /\ 1 <= r /\ f[c] = r /\ (c \in rows <=> CeilDiv(r, p) = 1)
    BY <1>1, RanksInOrder, RowsByRank
  <2> HIDE DEF r, n, p, m, rows, f, g
  <2>2. CASE r <= p
    BY <1>1, <2>1, <2>2, PagesNeededUnique
  <2>3. CASE ~(r <= p)
    BY <1>1, <2>1, <2>3, PagesNeeded
  <2> QED
    BY <2>1, <2>2, <2>3
<1>5. g \in Bijection(rows, 1..m)
  <2> HIDE DEF n, p, m, rows, f
  <2>1. g \in [rows -> 1..m]
    BY <1>1, <1>2, <1>3, <1>4 DEF Bijection, Injection
  <2>2. \A a, b \in rows : g[a] = g[b] => a = b
    BY <1>2, <1>3 DEF Bijection, Injection, IsInjective
  <2>3. \A r \in 1..m : \E c \in rows : g[c] = r
    <3> SUFFICES ASSUME NEW r \in 1..m PROVE \E c \in rows : g[c] = r
      OBVIOUS
    <3>1. r \in 1..n /\ r <= p
      BY <1>1
    <3>2. PICK c \in set : f[c] = r
      BY <1>2, <3>1 DEF Bijection, Surjection
    <3> QED
      BY <1>4, <3>1, <3>2
  <2> QED
    BY <2>1, <2>2, <2>3 DEF Bijection, Injection, Surjection, IsInjective
<1>6. Cardinality(rows) = m
  <2>1. IsFiniteSet(rows) /\ IsFiniteSet(1..m) /\ Cardinality(1..m) = m
    <3> HIDE DEF m, rows
    <3>1. IsFiniteSet(rows)
      BY <1>3, FiniteListings
    <3> QED
      BY <1>1, <3>1, FS_Interval
  <2>2. ExistsBijection(rows, 1..m)
    BY <1>5 DEF ExistsBijection
  <2> HIDE DEF rows, m
  <2> QED
    BY <2>1, <2>2, FS_Bijection
<1> HIDE DEF n, p, m, rows, f, g
<1>7. CASE m = p
  BY <1>6, <1>7 DEF n, p, rows
<1>8. CASE m = n
  <2>1. CeilDiv(n, m) = 1 /\ CeilDiv(n, p) = 1
    BY <1>1, <1>8, PagesNeededUnique
  <2> QED
    BY <1>6, <2>1 DEF n, p, rows
<1> QED
  BY <1>1, <1>7, <1>8
-----------------------------------------------------------------------------
(***************************************************************************)
(* What a page shows of what the source holds.                             *)
(***************************************************************************)
\* A set of naturals with a member has a least one.
LEMMA LeastExists ==
  ASSUME NEW K, K \subseteq Nat, K # {}
  PROVE  \E k \in K : \A j \in K : k <= j
<1>1. PICK k \in K : \A j \in K : ~(<<j, k>> \in OpToRel(<, Nat))
  BY NatLessThanWellFounded, WFMin
<1>2. ASSUME NEW j \in K, j < k PROVE FALSE
  <2>1. <<j, k>> \in OpToRel(<, Nat)
    BY <1>2 DEF OpToRel
  <2> QED
    BY <1>1, <2>1
<1> QED
  BY <1>2

SourceType ==
  /\ listed \in [Dates -> SUBSET Quotes]
  /\ latest \in Dates /\ changes \in Nat /\ pageSize \in Nat \ {0}

\* The numbers of rows up to a date.
Totals(f) ==
  f \in [Dates -> Nat] /\
  \A d \in Dates : f[d] = Cardinality(listed[d]) + (IF d = 0 THEN 0 ELSE f[d - 1])

\* Numbers of rows up to a date, for the first k dates, exist.
TotalsUpto(k) ==
  {f \in [0..k -> Nat] :
     \A d \in 0..k : f[d] = Cardinality(listed[d]) + (IF d = 0 THEN 0 ELSE f[d - 1])}

LEMMA TotalsExist == ASSUME SourceType PROVE \E f : Totals(f)
<1>0. /\ MaxDate \in Nat /\ Dates = 0..MaxDate
      /\ \A d \in Dates : Cardinality(listed[d]) \in Nat
  BY ExchangeRatesAssumption, FiniteListings DEF ExchangeRatesAssumption, SourceType, Dates
<1> DEFINE K == {k \in 0..MaxDate : TotalsUpto(k) = {}}
<1>1. K = {}
  <2> SUFFICES ASSUME K # {} PROVE FALSE
    OBVIOUS
  <2>1. PICK k \in K : \A j \in K : k <= j
    <3>1. K \subseteq Nat
      BY <1>0
    <3> HIDE DEF K
    <3> QED
      BY <3>1, LeastExists
  <2>2. CASE k = 0
    <3> DEFINE f == [d \in 0..0 |-> Cardinality(listed[d])]
    <3>1. f \in [0..0 -> Nat] /\ f[0] = Cardinality(listed[0]) + 0
      BY <1>0
    <3>2. f \in TotalsUpto(0)
      <4> HIDE DEF f
      <4> QED
        BY <3>1 DEF TotalsUpto
    <3> QED
      BY <2>2, <3>2
  <2>3. CASE k # 0
    <3>1. k - 1 \in 0..MaxDate /\ k - 1 \notin K /\ k \in Dates
      BY <1>0, <2>1, <2>3
    <3>2. PICK f \in TotalsUpto(k - 1) : TRUE
      BY <3>1
    <3> DEFINE n == Cardinality(listed[k])
               g == [d \in 0..k |-> IF d < k THEN f[d] ELSE n + f[k - 1]]
    <3>3. /\ f \in [0..(k - 1) -> Nat] /\ n \in Nat /\ k \in Nat
          /\ \A d \in 0..(k - 1) :
               f[d] = Cardinality(listed[d]) + (IF d = 0 THEN 0 ELSE f[d - 1])
      BY <1>0, <3>1, <3>2 DEF TotalsUpto
    <3>4. g \in [0..k -> Nat]
      <4> HIDE DEF n
      <4> QED
        BY <3>3, <2>3
    <3>5. ASSUME NEW d \in 0..k
          PROVE  g[d] = Cardinality(listed[d]) + (IF d = 0 THEN 0 ELSE g[d - 1])
      <4>1. CASE d < k
        <5>1. d \in 0..(k - 1) /\ (d # 0 => d - 1 \in 0..(k - 1)) /\ (d # 0 => d - 1 < k)
          BY <3>3, <4>1
        <5>2. g[d] = f[d] /\ (d # 0 => g[d - 1] = f[d - 1])
          BY <3>3, <4>1, <5>1
        <5> QED
          BY <3>3, <5>1, <5>2
      <4>2. CASE d = k
        <5>1. k \in 0..k /\ k - 1 \in 0..k /\ k - 1 < k /\ ~(k < k)
          BY <3>3, <2>3
        <5>2. g[k] = n + f[k - 1] /\ g[k - 1] = f[k - 1]
          BY <5>1
        <5> QED
          BY <2>3, <4>2, <5>2
      <4> QED
        BY <3>3, <4>1, <4>2
    <3>6. g \in TotalsUpto(k)
      <4> HIDE DEF g
      <4> QED
        BY <3>4, <3>5 DEF TotalsUpto
    <3> QED
      BY <2>1, <3>6
  <2> QED
    BY <2>2, <2>3
<1>2. PICK f \in TotalsUpto(MaxDate) : TRUE
  BY <1>0, <1>1
<1> QED
  BY <1>0, <1>2 DEF Totals, TotalsUpto

\* Of all dates there are at least as many rows as of the latest.
LEMMA AllDatesCount ==
  ASSUME SourceType
  PROVE  RowsOfAllDates \in Nat /\ Cardinality(listed[latest]) <= RowsOfAllDates
<1>0. /\ MaxDate \in Nat /\ Dates = 0..MaxDate /\ latest \in Dates
      /\ \A d \in Dates : Cardinality(listed[d]) \in Nat
  BY ExchangeRatesAssumption, FiniteListings DEF ExchangeRatesAssumption, SourceType, Dates
<1> DEFINE Is(f) == f = [d \in Dates |->
                      Cardinality(listed[d]) + (IF d = 0 THEN 0 ELSE f[d - 1])]
           t == CHOOSE f : Is(f)
<1>1. PICK g : Totals(g)
  BY TotalsExist
<1>2. Is(g)
  BY <1>1 DEF Totals
<1>3. Is(t)
  <2> HIDE DEF Is
  <2> QED
    BY <1>2
<1>4. RowsOfAllDates = t[MaxDate]
  BY DEF RowsOfAllDates
<1> HIDE DEF t
<1>5. \A d \in Dates : t[d] = g[d]
  <2> DEFINE K == {d \in Dates : t[d] # g[d]}
  <2> SUFFICES ASSUME K # {} PROVE FALSE
    OBVIOUS
  <2>1. PICK k \in K : \A j \in K : k <= j
    <3>1. K \subseteq Nat
      BY <1>0
    <3> HIDE DEF K
    <3> QED
      BY <3>1, LeastExists
  <2>2. k # 0 => k - 1 \in Dates /\ k - 1 \notin K
    BY <1>0, <2>1
  <2>3. k # 0 => t[k - 1] = g[k - 1]
    BY <2>2
  <2> QED
    BY <1>2, <1>3, <2>1, <2>3
<1>6. \A d \in Dates : latest <= d => Cardinality(listed[latest]) <= g[d]
  <2> DEFINE K == {d \in Dates : latest <= d /\ ~(Cardinality(listed[latest]) <= g[d])}
  <2> SUFFICES ASSUME K # {} PROVE FALSE
    OBVIOUS
  <2>1. PICK k \in K : \A j \in K : k <= j
    <3>1. K \subseteq Nat
      BY <1>0
    <3> HIDE DEF K
    <3> QED
      BY <3>1, LeastExists
  <2>2. k \in Dates /\ latest <= k /\ ~(Cardinality(listed[latest]) <= g[k]) /\ k \in Nat
    BY <1>0, <2>1
  <2>3. CASE k = latest
    <3>1. g[k] = Cardinality(listed[k]) + (IF k = 0 THEN 0 ELSE g[k - 1])
          /\ (k # 0 => g[k - 1] \in Nat)
      BY <1>0, <1>1, <2>2 DEF Totals
    <3> QED
      BY <1>0, <2>2, <2>3, <3>1
  <2>4. CASE k # latest
    <3>1. k - 1 \in Dates /\ latest <= k - 1 /\ k - 1 \notin K /\ k # 0
      BY <1>0, <2>1, <2>2, <2>4
    <3>2. g[k] = Cardinality(listed[k]) + g[k - 1] /\ g[k - 1] \in Nat
      BY <1>1, <2>2, <3>1 DEF Totals
    <3>3. Cardinality(listed[latest]) <= g[k - 1]
      BY <3>1
    <3> QED
      BY <1>0, <2>2, <3>2, <3>3
  <2> QED
    BY <2>3, <2>4
<1>7. MaxDate \in Dates /\ latest <= MaxDate /\ g[MaxDate] \in Nat
  BY <1>0, <1>1 DEF Totals
<1> QED
  BY <1>4, <1>5, <1>6, <1>7

\* A page shows rows of its date, and as total their number at least.
LEMMA PagesShow ==
  ASSUME SourceType, NEW d \in Dates, NEW k, NEW a
  PROVE  /\ LET p == ServedPage(d, k, a)
            IN  /\ p.rows \subseteq listed[d] /\ p.date = d
                /\ p.total = Cardinality(listed[d]) /\ p.total \in Nat
         /\ LET p == PlainPage(a)
            IN  /\ p.rows \subseteq listed[latest] /\ p.date = latest
                /\ p.total \in Nat /\ Cardinality(listed[latest]) <= p.total
                /\ p.rows = ServedPage(latest, 1, a).rows
<1>1. \A set, n : RowsOfPage(set, n) \subseteq set
  BY DEF RowsOfPage
<1>2. ASSUME NEW e \in Dates, NEW n
      PROVE  LET p == ServedPage(e, n, a)
             IN  /\ p.rows \subseteq listed[e] /\ p.date = e
                 /\ p.total = Cardinality(listed[e]) /\ p.total \in Nat
  BY <1>1, FiniteListings DEF ServedPage, SourceType
<1>3. /\ PlainPage(a).rows = ServedPage(latest, 1, a).rows
      /\ PlainPage(a).date = ServedPage(latest, 1, a).date
      /\ PlainPage(a).total = RowsOfAllDates
  BY DEF PlainPage, ServedPage
<1> QED
  BY <1>2, <1>3, AllDatesCount DEF SourceType
-----------------------------------------------------------------------------
(***************************************************************************)
(* The page loop.                                                          *)
(***************************************************************************)
\* The source has nothing of a date to come, and a currency once.
SourceInv ==
  /\ SourceType
  /\ \A d \in Dates : (d > latest => listed[d] = {}) /\ OneQuoteEach(listed[d])

LoopBundle ==
  [pc       : {"idle", "landing", "search", "paging", "done", "raised"},
   date     : Dates,
   expected : Nat,
   asked    : Int,
   pages    : Seq([rows : SUBSET Quotes, total : Nat]),
   cause    : {"none", "request", "markup", "page"},
   plain    : BOOLEAN,
   since    : Nat,
   shown    : SUBSET [Dates -> SUBSET Quotes]]

LoopType ==
  /\ bundle \in LoopBundle
  /\ served.rows \subseteq Quotes /\ served.date \in Dates /\ served.total \in Nat
  /\ served.targets \subseteq Int /\ served.ellipsis \in Int

\* A fetch that rests holds no page and no request; while one is under way, what
\* the source holds is shown; pages come only after the search.
Phases ==
  /\ bundle.pc \in {"idle", "done", "raised"} => call = IdleCall /\ served = NoPage
  /\ bundle.pc = "idle" => bundle.cause = "none"
  /\ bundle.pc # "idle" => bundle.since <= changes
  /\ bundle.pc \in Fetching => listed \in bundle.shown
  /\ bundle.pc \in {"landing", "search"} => bundle.pages = <<>>
  /\ bundle.pc = "done" => bundle.pages # <<>>

LoopInv == SourceInv /\ LoopType /\ Phases

\* Constants and the states of rest have their types.
LEMMA RestTypes ==
  /\ 0 \in Dates /\ MaxDate \in Nat /\ Dates = 0..MaxDate
  /\ PagerSize \in Nat \ {0} /\ MaxPages \in Nat
  /\ IdleBundle \in LoopBundle /\ IdleBundle.pc = "idle" /\ IdleBundle.cause = "none"
  /\ NoPage.rows = {} /\ NoPage.date \in Dates /\ NoPage.total \in Nat
  /\ NoPage.targets \subseteq Int /\ NoPage.ellipsis \in Int
<1>1. /\ 0 \in Dates /\ MaxDate \in Nat /\ Dates = 0..MaxDate
      /\ PagerSize \in Nat \ {0} /\ MaxPages \in Nat
  BY ExchangeRatesAssumption, SourceAssumption
     DEF ExchangeRatesAssumption, SourceAssumption, Dates
<1>2. IdleBundle \in LoopBundle /\ IdleBundle.pc = "idle" /\ IdleBundle.cause = "none"
  BY <1>1 DEF IdleBundle, LoopBundle
<1> QED
  BY <1>1, <1>2 DEF NoPage

\* The pager of a page names numbers.
LEMMA PagerTypes ==
  ASSUME SourceType, NEW d \in Dates, NEW k \in Int, NEW a
  PROVE  LET p == ServedPage(d, k, a)
         IN  p.targets \subseteq Int /\ p.ellipsis \in Int
<1> DEFINE count == CeilDiv(Cardinality(listed[d]), pageSize)
           n == IF count = 0 THEN 1 ELSE Smallest(k, count)
           first == ((n - 1) \div PagerSize) * PagerSize + 1
           last == Smallest(first + PagerSize - 1, count)
<1>1. count \in Nat
  BY FiniteListings, PagesNeeded DEF SourceType
<1>2. /\ ServedPage(d, k, a).targets = (first..last) \ {n}
      /\ ServedPage(d, k, a).ellipsis = IF last < count THEN last + 1 ELSE first - 1
  BY DEF ServedPage
<1> HIDE DEF count
<1>3. n \in Int
  BY <1>1 DEF Smallest
<1> HIDE DEF n
<1>4. first \in Int
  BY <1>3, RestTypes
<1> HIDE DEF first
<1>5. last \in Int
  BY <1>1, <1>4, RestTypes DEF Smallest
<1> HIDE DEF last
<1> QED
  BY <1>1, <1>2, <1>4, <1>5

\* What is served is a page of the source.
LEMMA ServeShows ==
  ASSUME LoopInv, CallInv, Serve
  PROVE  /\ served'.rows \subseteq Quotes /\ served'.date \in Dates /\ served'.total \in Nat
         /\ served'.targets \subseteq Int /\ served'.ellipsis \in Int
         /\ served'.rows \subseteq listed[served'.date]
         /\ Cardinality(listed[served'.date]) <= served'.total
         /\ call.posts => served'.total = Cardinality(listed[served'.date])
<1>1. PICK action \in Urls, date \in {bundle.date, latest} :
        served' = IF call.posts
                  THEN ServedPage(date, IF bundle.pc = "paging" THEN bundle.asked ELSE 1,
                                  action)
                  ELSE PlainPage(action)
  BY DEF Serve
<1> DEFINE k == IF bundle.pc = "paging" THEN bundle.asked ELSE 1
<1>2. SourceType /\ date \in Dates /\ latest \in Dates /\ k \in Int /\ 1 \in Int
      /\ listed \in [Dates -> SUBSET Quotes]
  BY DEF LoopInv, LoopType, LoopBundle, SourceInv, SourceType
<1> HIDE DEF k
<1>3. CASE call.posts
  <2>1. served' = ServedPage(date, k, action)
    BY <1>1, <1>3 DEF k
  <2> QED
    BY <1>2, <2>1, PagesShow, PagerTypes
<1>4. CASE ~call.posts
  <2>1. served' = PlainPage(action)
    BY <1>1, <1>4
  <2>2. /\ PlainPage(action).targets = ServedPage(latest, 1, action).targets
        /\ PlainPage(action).ellipsis = ServedPage(latest, 1, action).ellipsis
    BY DEF PlainPage, ServedPage
  <2> QED
    BY <1>2, <1>4, <2>1, <2>2, PagesShow, PagerTypes
<1> QED
  BY <1>3, <1>4

\* What taking a page comes to: the pager leads nowhere, the page was the last,
\* or the next is asked for.
Given == [rows |-> served.rows, total |-> served.total]
NextPage == Len(bundle.pages) + 2

LeadsNowhere(expected) ==
  /\ bundle'.pc = "raised" /\ bundle'.cause = "page" /\ bundle'.pages = bundle.pages
  /\ Settled /\ NextPage <= expected /\ EventTarget(NextPage) = 0
WasLast(expected) ==
  /\ bundle'.pc = "done" /\ bundle'.cause = bundle.cause
  /\ bundle'.pages = Append(bundle.pages, Given) /\ bundle'.pages # <<>>
  /\ Settled /\ NextPage > expected
AsksForNext(expected) ==
  /\ bundle'.pc = "paging" /\ bundle'.cause = bundle.cause
  /\ bundle'.pages = Append(bundle.pages, Given)
  /\ bundle'.expected = expected /\ bundle'.asked = EventTarget(NextPage)
  /\ NextPage <= expected /\ EventTarget(NextPage) # 0
  /\ Begin(served.action, TRUE) /\ UNCHANGED served

LEMMA PageTaken ==
  ASSUME LoopInv, served.rows # {}, NEW expected \in Nat, TakePage(expected)
  PROVE  /\ bundle' \in LoopBundle /\ UNCHANGED sourceVars
         /\ bundle'.since = bundle.since /\ bundle'.shown = bundle.shown
         /\ bundle'.date = bundle.date /\ bundle'.plain = bundle.plain
         /\ LeadsNowhere(expected) \/ WasLast(expected) \/ AsksForNext(expected)
<1> DEFINE pages == Append(bundle.pages, Given)
           next == Len(pages) + 1
           taken == [bundle EXCEPT !.pc = "paging", !.expected = expected, !.pages = pages]
<1>0. bundle \in LoopBundle /\ served.targets \subseteq Int /\ served.ellipsis \in Int
  BY DEF LoopInv, LoopType
<1>1. Given \in [rows : SUBSET Quotes, total : Nat]
  BY DEF LoopInv, LoopType, Given
<1>2. /\ pages \in Seq([rows : SUBSET Quotes, total : Nat]) /\ pages # <<>>
      /\ next = NextPage /\ next \in Int
  <2>1. bundle.pages \in Seq([rows : SUBSET Quotes, total : Nat])
    BY <1>0 DEF LoopBundle
  <2>2. /\ pages \in Seq([rows : SUBSET Quotes, total : Nat])
        /\ Len(pages) = Len(bundle.pages) + 1 /\ Len(bundle.pages) \in Nat
    BY <1>1, <2>1, AppendProperties, LenProperties
  <2>3. pages # <<>>
    BY <2>2
  <2> HIDE DEF pages
  <2> QED
    BY <2>2, <2>3 DEF NextPage
<1>3. \/ next > expected /\ bundle' = [taken EXCEPT !.pc = "done", !.asked = 0] /\ Settled
      \/ ~(next > expected) /\ EventTarget(next) = 0 /\ BundleRaises("page")
      \/ /\ ~(next > expected) /\ EventTarget(next) # 0
         /\ bundle' = [taken EXCEPT !.asked = EventTarget(next)]
         /\ Begin(served.action, TRUE) /\ UNCHANGED <<sourceVars, served>>
  BY DEF TakePage, Given
<1>4. EventTarget(next) \in Int
  BY <1>0, <1>2 DEF EventTarget
<1> DEFINE target == EventTarget(next)
<1> HIDE DEF target, pages, next
<1>5. CASE ~(next > expected) /\ target = 0 /\ BundleRaises("page")
  <2>1. bundle' = [bundle EXCEPT !.pc = "raised", !.cause = "page"] /\ Settled
    BY <1>5 DEF BundleRaises
  <2>2. /\ bundle' \in LoopBundle
        /\ bundle'.since = bundle.since /\ bundle'.shown = bundle.shown
        /\ bundle'.date = bundle.date /\ bundle'.plain = bundle.plain
        /\ bundle'.pc = "raised" /\ bundle'.cause = "page" /\ bundle'.pages = bundle.pages
    BY <1>0, <2>1 DEF LoopBundle
  <2>3. NextPage <= expected /\ EventTarget(NextPage) = 0
    BY <1>2, <1>5 DEF target
  <2>4. UNCHANGED sourceVars
    BY <2>1 DEF Settled
  <2> QED
    BY <2>1, <2>2, <2>3, <2>4 DEF LeadsNowhere
<1>6. CASE next > expected /\ bundle' = [taken EXCEPT !.pc = "done", !.asked = 0] /\ Settled
  <2>1. 0 \in Int /\ UNCHANGED sourceVars
    BY <1>6 DEF Settled
  <2>2. /\ bundle' \in LoopBundle
        /\ bundle'.since = bundle.since /\ bundle'.shown = bundle.shown
        /\ bundle'.date = bundle.date /\ bundle'.plain = bundle.plain
        /\ bundle'.pc = "done" /\ bundle'.cause = bundle.cause /\ bundle'.pages = pages
    BY <1>0, <1>2, <1>6, <2>1 DEF LoopBundle
  <2> QED
    BY <1>2, <1>6, <2>1, <2>2 DEF WasLast, pages
<1>7. CASE /\ ~(next > expected) /\ target # 0 /\ bundle' = [taken EXCEPT !.asked = target]
           /\ Begin(served.action, TRUE) /\ UNCHANGED <<sourceVars, served>>
  <2>1. target \in Int
    BY <1>4 DEF target
  <2>2. /\ bundle' \in LoopBundle
        /\ bundle'.since = bundle.since /\ bundle'.shown = bundle.shown
        /\ bundle'.date = bundle.date /\ bundle'.plain = bundle.plain
        /\ bundle'.pc = "paging" /\ bundle'.cause = bundle.cause /\ bundle'.pages = pages
        /\ bundle'.expected = expected /\ bundle'.asked = target
    BY <1>0, <1>2, <1>7, <2>1 DEF LoopBundle
  <2>3. NextPage <= expected /\ target = EventTarget(NextPage)
    BY <1>2, <1>7 DEF target
  <2> QED
    BY <1>7, <2>2, <2>3 DEF AsksForNext, pages
<1> QED
  BY <1>3, <1>5, <1>6, <1>7 DEF target

\* The number of pages to come that a first page tells is a number.
LEMMA CountType ==
  ASSUME LoopInv, served.rows # {}
  PROVE  ExpectedPageCount \in Nat
<1>1. Cardinality(served.rows) \in Nat \ {0}
  BY FiniteListings, FS_EmptySet DEF LoopInv, LoopType
<1> QED
  BY <1>1, PagesNeeded DEF ExpectedPageCount, LoopInv, LoopType

\* A publication is shown to the fetch under way, which goes on as it was.
SourceMoves ==
  /\ SourceInv' /\ changes' = changes + 1 /\ UNCHANGED <<callVars, served>>
  /\ bundle' = IF bundle.pc \in Fetching
               THEN [bundle EXCEPT !.shown = bundle.shown \cup {listed'}]
               ELSE bundle

\* A publication lists a currency once.
LEMMA PublicationType ==
  ASSUME NEW set \in Publications
  PROVE  set \in SUBSET Quotes /\ OneQuoteEach(set)
BY PublicationsAssumption DEF PublicationsAssumption

\* The source goes its own way, and the page loop changes nothing of it.
LEMMA SourceSteps ==
  ASSUME SourceInv, [Next]_vars
  PROVE  UNCHANGED sourceVars \/ SourceMoves
<1> USE DEF SourceInv, SourceType
<1>1. CASE Revise
  <2>1. PICK set \in Publications : Publish([listed EXCEPT ![latest] = set])
    BY <1>1 DEF Revise
  <2>2. /\ listed' = [listed EXCEPT ![latest] = set] /\ UNCHANGED latest
        /\ UNCHANGED <<pageSize, callVars, served>> /\ changes' = changes + 1
        /\ bundle' = IF bundle.pc \in Fetching
                     THEN [bundle EXCEPT !.shown = bundle.shown \cup {listed'}]
                     ELSE bundle
    BY <1>1, <2>1 DEF Revise, Publish
  <2>3. set \in SUBSET Quotes /\ OneQuoteEach(set)
    BY PublicationType
  <2>4. listed' \in [Dates -> SUBSET Quotes] /\ listed'[latest] = set
        /\ \A d \in Dates : d # latest => listed'[d] = listed[d]
    BY <2>2, <2>3
  <2>5. \A d \in Dates : (d > latest => listed'[d] = {}) /\ OneQuoteEach(listed'[d])
    BY <2>3, <2>4, RestTypes
  <2>6. SourceInv'
    BY <2>2, <2>4, <2>5 DEF OneQuoteEach
  <2> QED
    BY <2>2, <2>6 DEF SourceMoves
<1>2. CASE NewDate
  <2>1. PICK set \in Publications : Publish([listed EXCEPT ![latest + 1] = set])
    BY <1>2 DEF NewDate
  <2>2. /\ listed' = [listed EXCEPT ![latest + 1] = set] /\ latest' = latest + 1
        /\ latest < MaxDate
        /\ UNCHANGED <<pageSize, callVars, served>> /\ changes' = changes + 1
        /\ bundle' = IF bundle.pc \in Fetching
                     THEN [bundle EXCEPT !.shown = bundle.shown \cup {listed'}]
                     ELSE bundle
    BY <1>2, <2>1 DEF NewDate, Publish
  <2>3. set \in SUBSET Quotes /\ OneQuoteEach(set)
    BY PublicationType
  <2>4. latest' \in Dates /\ latest' > latest
    BY <2>2, RestTypes
  <2>5. listed' \in [Dates -> SUBSET Quotes] /\ listed'[latest'] = set
        /\ \A d \in Dates : d # latest' => listed'[d] = listed[d]
    BY <2>2, <2>3, <2>4
  <2>6. \A d \in Dates : (d > latest' => listed'[d] = {}) /\ OneQuoteEach(listed'[d])
    BY <2>2, <2>3, <2>4, <2>5, RestTypes
  <2>7. SourceInv'
    BY <2>2, <2>4, <2>5, <2>6 DEF OneQuoteEach
  <2> QED
    BY <2>2, <2>7 DEF SourceMoves
<1>3. CASE StartFetch \/ Serve \/ RequestGoesOn \/ Resume \/ Return \/ UNCHANGED vars
  BY <1>3 DEF StartFetch, Serve, RequestGoesOn, Resume, Return, vars, RequestRaised, RefuseMarkup,
              ResumeLanding, ResumeSearch, ResumePaging, TakePage, BundleRaises, Settled
<1> QED
  BY <1>1, <1>2, <1>3 DEF Next

\* A publication changes nothing of the fetch but what was shown to it.
LEMMA MovesShow ==
  ASSUME bundle \in LoopBundle, SourceMoves
  PROVE  /\ bundle' \in LoopBundle
         /\ bundle'.pc = bundle.pc /\ bundle'.date = bundle.date
         /\ bundle'.pages = bundle.pages /\ bundle'.cause = bundle.cause
         /\ bundle'.plain = bundle.plain /\ bundle'.since = bundle.since
         /\ bundle.shown \subseteq bundle'.shown
         /\ bundle.pc \in Fetching => listed' \in bundle'.shown
<1>1. listed' \in [Dates -> SUBSET Quotes]
  BY DEF SourceMoves, SourceInv, SourceType
<1>2. CASE bundle.pc \in Fetching
  <2>1. bundle' = [bundle EXCEPT !.shown = bundle.shown \cup {listed'}]
    BY <1>2 DEF SourceMoves
  <2> QED
    BY <1>1, <2>1 DEF LoopBundle
<1>3. CASE bundle.pc \notin Fetching
  BY <1>3 DEF SourceMoves
<1> QED
  BY <1>2, <1>3

\* No step, of the page loop or of the source, breaks the invariant of the loop.
LEMMA LoopStep == LoopInv /\ CallInv /\ [Next]_vars => LoopInv'
<1> SUFFICES ASSUME LoopInv, CallInv, [Next]_vars PROVE LoopInv'
  OBVIOUS
<1>0. /\ SourceInv /\ bundle \in LoopBundle /\ listed \in [Dates -> SUBSET Quotes]
      /\ changes \in Nat /\ bundle.since \in Nat
  BY DEF LoopInv, LoopType, LoopBundle, SourceInv, SourceType
<1>1. CASE ~UNCHANGED sourceVars
  <2>1. SourceMoves
    BY <1>0, <1>1, SourceSteps
  <2>2. /\ SourceInv' /\ changes' = changes + 1 /\ UNCHANGED <<call, served>>
    BY <2>1 DEF SourceMoves, callVars
  <2>3. LoopType'
    BY <1>0, <2>1, <2>2, MovesShow DEF LoopInv, LoopType
  <2>4. Phases'
    BY <1>0, <2>1, <2>2, MovesShow DEF LoopInv, Phases
  <2> QED
    BY <2>2, <2>3, <2>4 DEF LoopInv
<1> SUFFICES ASSUME UNCHANGED sourceVars PROVE LoopType' /\ Phases'
  BY <1>0, <1>1 DEF LoopInv, SourceInv, SourceType, sourceVars
<1>s. UNCHANGED <<listed, changes>>
  BY DEF sourceVars
<1>2. ASSUME Settled, bundle' \in LoopBundle, bundle'.pc \in {"done", "raised"},
             bundle.pc # "idle", bundle'.since = bundle.since, bundle'.shown = bundle.shown,
             bundle'.pc = "done" => bundle'.pages # <<>>
      PROVE  LoopType' /\ Phases'
  <2>1. served' = NoPage /\ call' = IdleCall
    BY <1>2 DEF Settled
  <2>2. LoopType'
    BY <1>2, <2>1, RestTypes DEF LoopType
  <2>3. Phases'
    BY <1>2, <1>s, <2>1 DEF LoopInv, Phases, Fetching
  <2> QED
    BY <2>2, <2>3
<1>3. ASSUME NEW cause \in {"request", "markup", "page"}, BundleRaises(cause), bundle.pc # "idle"
      PROVE  LoopType' /\ Phases'
  <2>1. bundle' = [bundle EXCEPT !.pc = "raised", !.cause = cause] /\ Settled
    BY <1>3 DEF BundleRaises
  <2>2. /\ bundle' \in LoopBundle /\ bundle'.pc = "raised"
        /\ bundle'.since = bundle.since /\ bundle'.shown = bundle.shown
    BY <1>0, <1>3, <2>1 DEF LoopBundle
  <2> QED
    BY <1>2, <1>3, <2>1, <2>2
<1>4. ASSUME NEW expected \in Nat, TakePage(expected), served.rows # {},
             bundle.pc \in {"search", "paging"}
      PROVE  LoopType' /\ Phases'
  <2>1. /\ bundle' \in LoopBundle /\ UNCHANGED sourceVars
        /\ bundle'.since = bundle.since /\ bundle'.shown = bundle.shown
        /\ \/ /\ bundle'.pc = "raised" /\ Settled
           \/ /\ bundle'.pc = "done" /\ Settled /\ bundle'.pages # <<>>
           \/ /\ bundle'.pc = "paging" /\ UNCHANGED served
    BY <1>4, PageTaken DEF LeadsNowhere, WasLast, AsksForNext
  <2>2. CASE bundle'.pc \in {"raised", "done"}
    BY <1>2, <1>4, <2>1, <2>2
  <2>3. CASE bundle'.pc = "paging" /\ UNCHANGED served
    BY <1>4, <1>s, <2>1, <2>3 DEF LoopInv, LoopType, Phases, Fetching
  <2> QED
    BY <2>1, <2>2, <2>3
<1>5. ASSUME call.pc # "idle" PROVE bundle.pc \notin {"idle", "done", "raised"}
  BY <1>5 DEF LoopInv, Phases, IdleCall, NewCall
<1>6. CASE StartFetch
  <2>1. bundle' = [IdleBundle EXCEPT !.pc = "landing", !.since = changes, !.shown = {listed}]
        /\ UNCHANGED served
    BY <1>6 DEF StartFetch
  <2>2. /\ bundle' \in LoopBundle /\ bundle'.pc = "landing" /\ bundle'.since = changes
        /\ bundle'.shown = {listed} /\ bundle'.pages = <<>>
    BY <1>0, <2>1, RestTypes DEF LoopBundle, IdleBundle
  <2> QED
    BY <1>0, <1>s, <2>1, <2>2 DEF LoopInv, LoopType, Phases, Fetching
<1>7. CASE Serve
  <2>1. call.pc # "idle" /\ bundle' = [bundle EXCEPT !.plain = bundle.plain \/ call.posts # call.form]
    BY <1>7 DEF Serve, Succeed, Waiting
  <2>2. /\ bundle' \in LoopBundle /\ bundle'.pc = bundle.pc /\ bundle'.since = bundle.since
        /\ bundle'.shown = bundle.shown /\ bundle'.pages = bundle.pages
    BY <1>0, <2>1 DEF LoopBundle
  <2>3. LoopType'
    BY <1>7, <2>2, ServeShows DEF LoopType
  <2>4. Phases'
    BY <1>5, <1>s, <2>1, <2>2 DEF LoopInv, Phases, Fetching
  <2> QED
    BY <2>3, <2>4
<1>8. CASE RequestGoesOn
  <2>1. call.pc # "idle" /\ UNCHANGED <<served, bundle>>
    BY <1>8 DEF RequestGoesOn, Fail, Resend, TransientStatus, PermanentStatus, Redirect, TimeOut,
                Unreachable, Disconnect, Waiting
  <2> QED
    BY <1>5, <1>s, <2>1 DEF LoopInv, LoopType, Phases, Fetching
<1>9. CASE RequestRaised \/ RefuseMarkup
  BY <1>3, <1>5, <1>9 DEF RequestRaised, RefuseMarkup
<1>10. CASE ResumeLanding
  <2>1. CASE served.rows = {}
    BY <1>3, <1>5, <1>10, <2>1 DEF ResumeLanding
  <2>2. CASE served.rows # {}
    <3>1. /\ bundle' = [bundle EXCEPT !.pc = "search", !.date = served.date] /\ UNCHANGED served
          /\ bundle.pc = "landing"
      BY <1>10, <2>2 DEF ResumeLanding
    <3>2. /\ bundle' \in LoopBundle /\ bundle'.pc = "search" /\ bundle'.since = bundle.since
          /\ bundle'.shown = bundle.shown /\ bundle'.pages = bundle.pages
      BY <1>0, <3>1 DEF LoopBundle, LoopInv, LoopType
    <3> QED
      BY <1>s, <3>1, <3>2 DEF LoopInv, LoopType, Phases, Fetching
  <2> QED
    BY <2>1, <2>2
<1>11. CASE ResumeSearch
  <2>1. CASE ~PageValid \/ ExpectedPageCount > MaxPages
    BY <1>3, <1>5, <1>11, <2>1 DEF ResumeSearch
  <2>2. CASE ~(~PageValid \/ ExpectedPageCount > MaxPages)
    <3>1. TakePage(ExpectedPageCount) /\ served.rows # {} /\ bundle.pc = "search"
      BY <1>11, <2>2 DEF ResumeSearch, PageValid
    <3>2. ExpectedPageCount \in Nat
      BY <3>1, CountType
    <3> QED
      BY <1>4, <3>1, <3>2
  <2> QED
    BY <2>1, <2>2
<1>12. CASE ResumePaging
  <2>1. CASE ~PageValid
    BY <1>3, <1>5, <1>12, <2>1 DEF ResumePaging
  <2>2. CASE PageValid
    <3>1. TakePage(bundle.expected) /\ served.rows # {} /\ bundle.pc = "paging"
      BY <1>12, <2>2 DEF ResumePaging, PageValid
    <3>2. bundle.expected \in Nat
      BY <1>0 DEF LoopBundle
    <3> QED
      BY <1>4, <3>1, <3>2
  <2> QED
    BY <2>1, <2>2
<1>13. CASE Return
  <2>1. bundle' = IdleBundle /\ UNCHANGED <<callVars, served>> /\ bundle.pc \in {"done", "raised"}
    BY <1>13 DEF Return
  <2>2. bundle'.pc = "idle" /\ bundle' \in LoopBundle /\ bundle'.cause = "none"
    BY <2>1, RestTypes
  <2> QED
    BY <2>1, <2>2 DEF LoopInv, LoopType, Phases, Fetching, callVars
<1>14. CASE UNCHANGED vars
  BY <1>14 DEF vars, callVars, sourceVars, LoopInv, LoopType, Phases
<1>15. CASE Revise \/ NewDate
  BY <1>0, <1>s, <1>15 DEF Revise, NewDate, Publish
<1> QED
  BY <1>6, <1>7, <1>8, <1>9, <1>10, <1>11, <1>12, <1>13, <1>14, <1>15 DEF Next, Resume

\* Nothing is under way at first.
LEMMA LoopInit == Init => LoopInv
<1> SUFFICES ASSUME Init PROVE LoopInv
  OBVIOUS
<1>1. PICK set \in Publications : listed = [d \in Dates |-> IF d = 0 THEN set ELSE {}]
  BY DEF Init
<1>2. set \in SUBSET Quotes /\ OneQuoteEach(set) /\ OneQuoteEach({})
  BY PublicationType DEF OneQuoteEach
<1>3. SourceType
  BY <1>1, <1>2, RestTypes, ExchangeRatesAssumption
     DEF Init, SourceType, ExchangeRatesAssumption
<1>4. SourceInv
  BY <1>1, <1>2, <1>3, RestTypes DEF Init, SourceInv
<1>5. LoopType /\ Phases
  BY RestTypes DEF Init, CallInit, LoopType, Phases, Fetching
<1> QED
  BY <1>4, <1>5 DEF LoopInv
-----------------------------------------------------------------------------
(***************************************************************************)
(* Pages of a source that changes.  Each page has rows of one publication  *)
(* that was listed while the fetch went on, and its number as total, or,   *)
(* when a form became a GET, no smaller one.  So the publications that the *)
(* pages of an accepted bundle are of fit the number of its rows.          *)
(***************************************************************************)
Seen(rows, total, d) ==
  \E l \in bundle.shown :
    /\ rows \subseteq l[d]
    /\ Cardinality(l[d]) <= total
    /\ ~bundle.plain => Cardinality(l[d]) = total

\* Forms are sent for pages only; an answer to one was seen, and so were the pages.
ShownPages ==
  /\ bundle.pc \in {"search", "paging"} => call.form
  /\ call.pc = "answered" /\ bundle.pc \in {"search", "paging"} =>
       Seen(served.rows, served.total, served.date)
  /\ \A i \in 1..Len(bundle.pages) :
       Seen(bundle.pages[i].rows, bundle.pages[i].total, bundle.date)

ShownInv == bundle.pc # "idle" => ShownPages

\* A page that is appended is the last, and the others stay what they are.
LEMMA AppendedLast ==
  ASSUME NEW T, NEW s \in Seq(T), NEW x \in T, NEW i \in 1..Len(Append(s, x))
  PROVE  \/ i \in 1..Len(s) /\ Append(s, x)[i] = s[i]
         \/ i = Len(s) + 1 /\ Append(s, x)[i] = x
OBVIOUS

\* A request that goes on is the same request, and has no answer yet.
LEMMA NoAnswerYet ==
  ASSUME call \in Call, call' \in Call, RequestGoesOn
  PROVE  /\ UNCHANGED bundle /\ call'.form = call.form
         /\ call'.pc # "answered" /\ call.pc # "idle"
<1>1. UNCHANGED bundle /\ (Fail \/ Resend)
  BY DEF RequestGoesOn
<1>2. ASSUME NEW error, call' = Raise(error) \/ call' = RetryOrRaise(error)
      PROVE  call'.form = call.form /\ call'.pc # "answered"
  BY <1>2 DEF Raise, RetryOrRaise, Call
<1>3. CASE TransientStatus \/ PermanentStatus \/ TimeOut \/ Unreachable
  BY <1>1, <1>2, <1>3 DEF TransientStatus, PermanentStatus, TimeOut, Unreachable, Waiting
<1>4. CASE \E location \in Urls \cup {NoLocation}, keeps \in BOOLEAN : Redirect(location, keeps)
  BY <1>1, <1>2, <1>4 DEF Redirect, Call
<1>5. CASE Disconnect \/ Resend
  BY <1>1, <1>2, <1>5 DEF Disconnect, Resend, Call
<1> QED
  BY <1>1, <1>3, <1>4, <1>5 DEF Fail

\* What was seen stays seen while the fetch goes on.
LEMMA SeenStays ==
  ASSUME bundle.shown \subseteq bundle'.shown, bundle.plain => bundle'.plain,
         NEW rows, NEW total, NEW d, Seen(rows, total, d)
  PROVE  Seen(rows, total, d)'
BY DEF Seen

\* Whatever is appended to the pages was seen.
LEMMA ShownStep ==
  LoopInv /\ LoopInv' /\ CallInv /\ CallInv' /\ ShownInv /\ [Next]_vars => ShownInv'
<1> SUFFICES ASSUME LoopInv, LoopInv', CallInv, CallInv', ShownInv, [Next]_vars, bundle'.pc # "idle"
             PROVE  ShownPages'
  BY DEF ShownInv
<1>0. /\ SourceInv /\ bundle \in LoopBundle /\ Phases /\ call \in Call /\ call' \in Call
  BY DEF LoopInv, LoopType, CallInv
<1>1. CASE ~UNCHANGED sourceVars
  <2>1. SourceMoves
    BY <1>0, <1>1, SourceSteps
  <2>2. /\ UNCHANGED <<call, served>> /\ bundle.shown \subseteq bundle'.shown
        /\ bundle'.pc = bundle.pc /\ bundle'.date = bundle.date
        /\ bundle'.pages = bundle.pages /\ bundle'.plain = bundle.plain
    BY <1>0, <2>1, MovesShow DEF SourceMoves, callVars
  <2>3. ShownPages
    BY <2>2 DEF ShownInv
  <2> QED
    BY <2>2, <2>3, SeenStays DEF ShownPages
<1> SUFFICES ASSUME UNCHANGED sourceVars PROVE ShownPages'
  BY <1>1
<1>2. ASSUME NEW u, NEW form \in BOOLEAN, Begin(u, form)
      PROVE  call'.pc \in {"sending", "raised"} /\ call'.form = form
  BY <1>2 DEF Begin, NewCall
<1>3. CASE StartFetch
  <2>1. /\ bundle' = [IdleBundle EXCEPT !.pc = "landing", !.since = changes, !.shown = {listed}]
        /\ Begin(SourceUrl, FALSE)
    BY <1>3 DEF StartFetch
  <2>2. bundle'.pc = "landing" /\ bundle'.pages = <<>>
    BY <2>1, RestTypes DEF LoopBundle, IdleBundle
  <2> QED
    BY <2>2 DEF ShownPages
<1> SUFFICES ASSUME ~StartFetch PROVE ShownPages'
  BY <1>3
<1>4. bundle.pc # "idle" => ShownPages
  BY DEF ShownInv
<1>5. ASSUME call.pc # "idle" PROVE bundle.pc \in Fetching
  BY <1>0, <1>5 DEF Phases, IdleCall, NewCall, LoopBundle, Fetching
\* A fetch that raises keeps its pages and has no request any more.
<1>6. ASSUME NEW cause, BundleRaises(cause), bundle.pc \in Fetching
      PROVE  ShownPages'
  <2>1. bundle' = [bundle EXCEPT !.pc = "raised", !.cause = cause] /\ call' = IdleCall
    BY <1>6 DEF BundleRaises, Settled
  <2>2. /\ bundle'.pc = "raised" /\ bundle'.pages = bundle.pages /\ bundle'.date = bundle.date
        /\ bundle'.shown = bundle.shown /\ bundle'.plain = bundle.plain
    BY <1>0, <2>1 DEF LoopBundle
  <2> QED
    BY <1>4, <1>6, <2>2, SeenStays DEF ShownPages, Fetching
\* The page that is taken is the one that was seen.
<1>7. ASSUME NEW expected \in Nat, TakePage(expected), PageValid, call.pc = "answered",
             bundle.pc \in {"search", "paging"}
      PROVE  ShownPages'
  <2>1. served.rows # {} /\ served.date = bundle.date
    BY <1>7 DEF PageValid
  <2>2. /\ bundle'.shown = bundle.shown /\ bundle'.plain = bundle.plain
        /\ bundle'.date = bundle.date
        /\ bundle'.pages = bundle.pages \/ bundle'.pages = Append(bundle.pages, Given)
        /\ \/ bundle'.pc \in {"raised", "done"}
           \/ bundle'.pc = "paging" /\ Begin(served.action, TRUE)
    BY <1>7, <2>1, PageTaken DEF LeadsNowhere, WasLast, AsksForNext
  <2>3. ShownPages /\ Seen(Given.rows, Given.total, bundle.date)
    BY <1>4, <1>7, <2>1 DEF ShownPages, Given
  <2>4. \A i \in 1..Len(bundle'.pages) :
          Seen(bundle'.pages[i].rows, bundle'.pages[i].total, bundle.date)
    <3>1. CASE bundle'.pages = bundle.pages
      BY <2>3, <3>1 DEF ShownPages
    <3>2. CASE bundle'.pages = Append(bundle.pages, Given)
      <4>1. /\ bundle.pages \in Seq([rows : SUBSET Quotes, total : Nat])
            /\ Given \in [rows : SUBSET Quotes, total : Nat]
        BY <1>0 DEF LoopBundle, Given, LoopInv, LoopType
      <4>2. ASSUME NEW i \in 1..Len(Append(bundle.pages, Given))
            PROVE  Append(bundle.pages, Given)[i] \in {Given} \cup
                     {bundle.pages[j] : j \in 1..Len(bundle.pages)}
        BY <4>1, AppendedLast
      <4> QED
        BY <2>3, <3>2, <4>2 DEF ShownPages
    <3> QED
      BY <2>2, <3>1, <3>2
  <2>5. \A i \in 1..Len(bundle'.pages) :
          Seen(bundle.pages[i].rows, bundle.pages[i].total, bundle.date)'
    BY <2>2, <2>4 DEF Seen
  <2>6. bundle'.pc \in {"search", "paging"} => call'.form /\ call'.pc # "answered"
    BY <1>2, <2>2
  <2> QED
    BY <2>5, <2>6 DEF ShownPages
<1>8. CASE Serve
  <2>1. /\ call.pc # "idle" /\ call'.form = call.form
        /\ bundle' = [bundle EXCEPT !.plain = bundle.plain \/ call.posts # call.form]
    BY <1>0, <1>8 DEF Serve, Succeed, Waiting, Call
  <2>2. /\ bundle'.pc = bundle.pc /\ bundle'.date = bundle.date
        /\ bundle'.shown = bundle.shown /\ bundle'.pages = bundle.pages
        /\ (bundle'.plain <=> (bundle.plain \/ call.posts # call.form))
    BY <1>0, <2>1 DEF LoopBundle
  <2>3. ShownPages /\ listed \in bundle.shown
    BY <1>0, <1>4, <1>5, <2>1 DEF Phases, Fetching
  <2>4. /\ served'.rows \subseteq listed[served'.date]
        /\ Cardinality(listed[served'.date]) <= served'.total
        /\ call.posts => served'.total = Cardinality(listed[served'.date])
    BY <1>8, ServeShows
  <2>5. bundle.pc \in {"search", "paging"} => Seen(served.rows, served.total, served.date)'
    <3> SUFFICES ASSUME bundle.pc \in {"search", "paging"}
                 PROVE  Seen(served.rows, served.total, served.date)'
      OBVIOUS
    <3>1. call.form /\ call.form \in BOOLEAN /\ call.posts \in BOOLEAN
      BY <1>0, <2>3 DEF ShownPages, Call
    <3>2. ~bundle'.plain => call.posts
      BY <2>2, <3>1
    <3> QED
      BY <2>2, <2>3, <2>4, <3>2 DEF Seen
  <2>6. \A i \in 1..Len(bundle'.pages) :
          Seen(bundle.pages[i].rows, bundle.pages[i].total, bundle.date)'
    BY <2>2, <2>3 DEF ShownPages, Seen
  <2>7. bundle'.pc \in {"search", "paging"} => call'.form
    BY <2>1, <2>2, <2>3 DEF ShownPages
  <2> QED
    BY <2>2, <2>5, <2>6, <2>7 DEF ShownPages
<1>9. CASE RequestGoesOn
  <2>1. /\ UNCHANGED bundle /\ call'.form = call.form
        /\ call'.pc # "answered" /\ call.pc # "idle"
    BY <1>0, <1>9, NoAnswerYet
  <2>2. ShownPages
    BY <1>4, <1>5, <2>1 DEF Fetching
  <2> QED
    BY <2>1, <2>2, SeenStays DEF ShownPages
<1>10. CASE UNCHANGED vars
  <2>1. UNCHANGED <<bundle, call, served>>
    BY <1>10 DEF vars, callVars
  <2> QED
    BY <1>4, <2>1, SeenStays DEF ShownPages
<1>11. CASE RequestRaised \/ RefuseMarkup
  BY <1>5, <1>6, <1>11 DEF RequestRaised, RefuseMarkup
<1>12. CASE ResumeLanding
  <2>1. CASE served.rows = {}
    BY <1>6, <1>12, <2>1 DEF ResumeLanding, Fetching
  <2>2. CASE served.rows # {}
    <3>1. /\ bundle' = [bundle EXCEPT !.pc = "search", !.date = served.date]
          /\ Begin(served.action, TRUE) /\ bundle.pc = "landing"
      BY <1>12, <2>2 DEF ResumeLanding
    <3>2. bundle'.pages = <<>>
      BY <1>0, <3>1 DEF LoopBundle, Phases
    <3>3. call'.form /\ call'.pc # "answered"
      BY <1>2, <3>1
    <3> QED
      BY <3>2, <3>3 DEF ShownPages
  <2> QED
    BY <2>1, <2>2
<1>13. CASE ResumeSearch
  <2>1. CASE ~PageValid \/ ExpectedPageCount > MaxPages
    BY <1>6, <1>13, <2>1 DEF ResumeSearch, Fetching
  <2>2. CASE ~(~PageValid \/ ExpectedPageCount > MaxPages)
    <3>1. /\ TakePage(ExpectedPageCount) /\ PageValid
          /\ bundle.pc = "search" /\ call.pc = "answered"
      BY <1>13, <2>2 DEF ResumeSearch
    <3>2. ExpectedPageCount \in Nat
      BY <3>1, CountType DEF PageValid
    <3> QED
      BY <1>7, <3>1, <3>2
  <2> QED
    BY <2>1, <2>2
<1>14. CASE ResumePaging
  <2>1. CASE ~PageValid
    BY <1>6, <1>14, <2>1 DEF ResumePaging, Fetching
  <2>2. CASE PageValid
    <3>1. /\ TakePage(bundle.expected) /\ bundle.expected \in Nat
          /\ bundle.pc = "paging" /\ call.pc = "answered"
      BY <1>0, <1>14, <2>2 DEF ResumePaging, LoopBundle
    <3> QED
      BY <1>7, <2>2, <3>1
  <2> QED
    BY <2>1, <2>2
<1>15. ~Return
  BY RestTypes DEF Return
<1>16. CASE Revise \/ NewDate
  <2>1. changes \in Nat /\ UNCHANGED changes /\ changes' = changes + 1
    BY <1>0, <1>16 DEF Revise, NewDate, Publish, SourceInv, SourceType, sourceVars
  <2> QED
    BY <2>1
<1> QED
  BY <1>8, <1>9, <1>10, <1>11, <1>12, <1>13, <1>14, <1>15, <1>16 DEF Next, Resume

\* No fetch is under way at first.
LEMMA ShownInit == Init => ShownInv
BY RestTypes DEF Init, ShownInv

\* The rows that normalize are of publications that fit their number.
LEMMA AcceptedFit ==
  ASSUME LoopInv, ShownPages, bundle.pc = "done", Accepted
  PROVE  /\ Rows \subseteq UNION Fitting
         /\ (\A set, other \in Fitting : set = other) => Rows \in Fitting
<1> DEFINE pages == bundle.pages
<1>1. /\ pages \in Seq([rows : SUBSET Quotes, total : Nat]) /\ pages # <<>>
      /\ bundle.date \in Dates /\ bundle.shown \subseteq [Dates -> SUBSET Quotes]
      /\ bundle.plain \in BOOLEAN
  BY DEF LoopInv, LoopType, LoopBundle, Phases
<1>2. /\ Len(pages) \in 1..Len(pages)
      /\ \A i \in 1..Len(pages) : pages[i] \in [rows : SUBSET Quotes, total : Nat]
  <2>1. Len(pages) \in Nat /\ Len(pages) # 0
    BY <1>1, EmptySeq
  <2> DEFINE T == [rows : SUBSET Quotes, total : Nat]
  <2>2. pages \in Seq(T)
    BY <1>1
  <2> HIDE DEF pages, T
  <2>3. \A i \in 1..Len(pages) : pages[i] \in T
    BY <2>2, ElementOfSeq
  <2> QED
    BY <2>1, <2>3 DEF T
<1>3. Shown \subseteq SUBSET Quotes
  BY <1>1 DEF Shown
<1>4. ASSUME NEW i \in 1..Len(pages)
      PROVE  \E set \in Fitting : pages[i].rows \subseteq set
  <2>1. Seen(pages[i].rows, pages[i].total, bundle.date)
    BY DEF ShownPages
  <2>2. PICK l \in bundle.shown : /\ pages[i].rows \subseteq l[bundle.date]
                                  /\ Cardinality(l[bundle.date]) <= pages[i].total
                                  /\ ~bundle.plain =>
                                       Cardinality(l[bundle.date]) = pages[i].total
    BY <2>1 DEF Seen
  <2> DEFINE set == l[bundle.date]
  <2>3. pages[i].total = Cardinality(Rows)
    BY DEF Accepted, SameTotals
  <2>4. set \in Shown
    BY <2>2 DEF Shown
  <2> HIDE DEF set
  <2>5. Cardinality(set) \in Nat
    BY <1>3, <2>4, FiniteListings
  <2>6. Cardinality(Rows) \in Nat
    <3>1. pages[i] \in [rows : SUBSET Quotes, total : Nat]
      BY <1>2
    <3> QED
      BY <2>3, <3>1
  <2>7. \/ Cardinality(set) = Cardinality(Rows)
        \/ bundle.plain /\ Cardinality(set) < Cardinality(Rows)
    BY <1>1, <2>2, <2>3, <2>5, <2>6 DEF set
  <2>8. set \in Fitting
    BY <2>4, <2>7 DEF Fitting
  <2> QED
    BY <2>2, <2>8 DEF set
<1>5. Rows = UNION {pages[i].rows : i \in 1..Len(pages)}
  BY DEF Rows
<1> HIDE DEF pages
<1>6. Rows \subseteq UNION Fitting
  BY <1>4, <1>5
<1>7. ASSUME \A set, other \in Fitting : set = other PROVE Rows \in Fitting
  <2>1. PICK set \in Fitting : TRUE
    BY <1>2, <1>4
  <2>2. Rows \subseteq set
    BY <1>6, <1>7, <2>1
  <2>3. set \in SUBSET Quotes
    BY <1>3, <2>1 DEF Fitting
  <2>4. IsFiniteSet(set) /\ Cardinality(set) \in Nat
    BY <2>3, FiniteListings
  <2>5. /\ Cardinality(Rows) <= Cardinality(set) /\ Cardinality(Rows) \in Nat
        /\ Cardinality(Rows) = Cardinality(set) => Rows = set
    BY <2>2, <2>4, FS_Subset, FS_CardinalityType
  <2>6. Cardinality(set) = Cardinality(Rows) \/ Cardinality(set) < Cardinality(Rows)
    BY <2>1 DEF Fitting
  <2> QED
    BY <2>1, <2>4, <2>5, <2>6
<1> QED
  BY <1>6, <1>7

\* The invariant of the page loop and of what it has seen holds in every state.
LEMMA PagesInvariance == Spec => [](LoopInv /\ ShownInv)
<1>1. LoopInv /\ ShownInv /\ Inv /\ Inv' /\ [Next]_vars => (LoopInv /\ ShownInv)'
  BY LoopStep, ShownStep DEF Inv
<1> QED
  BY Invariance, LoopInit, ShownInit, <1>1, PTL DEF Spec

\* The rows that the normalization accepts are of publications that were listed
\* during the fetch and fit their number, and are the whole publication when only
\* one of them fits, however often the source changes.
THEOREM AcceptedOfEqualSizes == Spec => []OnlyEqualSizesMix
<1>1. LoopInv /\ ShownInv => OnlyEqualSizesMix
  BY AcceptedFit DEF ShownInv, OnlyEqualSizesMix
<1> QED
  BY PagesInvariance, <1>1, PTL
-----------------------------------------------------------------------------
(***************************************************************************)
(* A source that stands still.  The pages of a bundle are then those of    *)
(* the latest publication, from the first on; the first tells how many     *)
(* there are, and the pager of each leads to the next, within its block or *)
(* by its "...".                                                           *)
(***************************************************************************)
Whole == listed[latest]
PageCount == CeilDiv(Cardinality(Whole), pageSize)

AnswerIs(k) == \E action \in Urls : served = ServedPage(latest, k, action)

\* Forms are sent for pages only.
StillForm ==
  /\ bundle.pc = "landing" => ~call.form
  /\ bundle.pc \in {"search", "paging"} => call.form

\* The answer is the page that was asked for.
StillAnswer ==
  call.pc = "answered" =>
    /\ bundle.pc = "landing" => served.rows = RowsOfPage(Whole, 1) /\ served.date = latest
    /\ bundle.pc = "search" => AnswerIs(1)
    /\ bundle.pc = "paging" => AnswerIs(bundle.asked)

StillPages ==
  /\ bundle.pc \in {"search", "paging"} => bundle.date = latest /\ Whole # {}
  /\ bundle.pc = "paging" =>
       /\ bundle.expected = PageCount
       /\ bundle.asked = Len(bundle.pages) + 1 /\ bundle.asked <= PageCount
  /\ bundle.pc = "done" => Len(bundle.pages) = PageCount
  /\ bundle.pc \in {"paging", "done"} =>
       \A i \in 1..Len(bundle.pages) :
         bundle.pages[i] = [rows |-> RowsOfPage(Whole, i), total |-> Cardinality(Whole)]
  /\ bundle.pc # "raised" => bundle.cause = "none"
  /\ bundle.cause = "page" => PageCount \notin 1..MaxPages

Still == StillForm /\ StillAnswer /\ StillPages

StillInv == (bundle.pc # "idle" /\ changes = bundle.since /\ ~bundle.plain) => Still

\* What is listed, and on how many pages.
LEMMA WholeType ==
  ASSUME SourceType
  PROVE  /\ Whole \in SUBSET Quotes /\ Cardinality(Whole) \in Nat /\ PageCount \in Nat
         /\ Whole # {} => PageCount # 0
<1>1. Whole \in SUBSET Quotes /\ Cardinality(Whole) \in Nat
      /\ (Whole # {} => Cardinality(Whole) # 0)
  BY FiniteListings, FS_EmptySet DEF SourceType, Whole
<1> DEFINE n == Cardinality(Whole)
<1>2. PageCount \in Nat /\ n <= PageCount * pageSize
  BY <1>1, PagesNeeded DEF PageCount, SourceType
<1>3. PageCount = 0 => n = 0
  BY <1>1, <1>2 DEF SourceType
<1> QED
  BY <1>1, <1>2, <1>3

\* The page asked for is the page served.
LEMMA AskedIsServed ==
  ASSUME SourceType, NEW k \in Nat, k = 1 \/ k \in 1..PageCount, NEW a
  PROVE  LET p == ServedPage(latest, k, a)
         IN  /\ p.rows = RowsOfPage(Whole, k) /\ p.date = latest
             /\ p.total = Cardinality(Whole)
             /\ k \in 1..PageCount => p.rows # {}
<1>1. (IF PageCount = 0 THEN 1 ELSE Smallest(k, PageCount)) = k
  BY WholeType DEF Smallest
<1>2. /\ ServedPage(latest, k, a).rows
           = RowsOfPage(Whole, IF PageCount = 0 THEN 1 ELSE Smallest(k, PageCount))
      /\ ServedPage(latest, k, a).date = latest
      /\ ServedPage(latest, k, a).total = Cardinality(Whole)
  BY DEF ServedPage, PageCount, Whole
<1>3. k \in 1..PageCount => RowsOfPage(Whole, k) # {}
  BY WholeType, PagesHaveRows DEF PageCount, SourceType
<1> QED
  BY <1>1, <1>2, <1>3

\* The pager of each page but the last leads to the next one.
LEMMA PagerLeads ==
  ASSUME SourceType, NEW k \in 1..PageCount, k < PageCount, AnswerIs(k)
  PROVE  EventTarget(k + 1) = k + 1
<1> DEFINE q == (k - 1) \div PagerSize
           first == q * PagerSize + 1
           last == Smallest(first + PagerSize - 1, PageCount)
<1>0. PageCount \in Nat /\ k \in Nat \ {0} /\ k - 1 \in Nat /\ PagerSize \in Nat \ {0}
      /\ PagerSize > 1
  BY WholeType, RestTypes, SourceAssumption DEF SourceAssumption
<1>1. /\ served.targets = (first..last) \ {k}
      /\ served.ellipsis = IF last < PageCount THEN last + 1 ELSE first - 1
  <2>1. (IF PageCount = 0 THEN 1 ELSE Smallest(k, PageCount)) = k
    BY <1>0 DEF Smallest
  <2>2. PICK a \in Urls : served = ServedPage(latest, k, a)
    BY DEF AnswerIs
  <2> DEFINE n == IF PageCount = 0 THEN 1 ELSE Smallest(k, PageCount)
             f == ((n - 1) \div PagerSize) * PagerSize + 1
             l == Smallest(f + PagerSize - 1, PageCount)
  <2>3. /\ served.targets = (f..l) \ {n}
        /\ served.ellipsis = IF l < PageCount THEN l + 1 ELSE f - 1
    BY <2>2 DEF ServedPage, PageCount, Whole
  <2>4. n = k
    BY <2>1
  <2> QED
    BY <2>3, <2>4
<1>2. q \in Nat /\ q * PagerSize \in Nat /\ q * PagerSize <= k - 1
      /\ k - 1 < q * PagerSize + PagerSize
  BY <1>0, Quotient
<1> HIDE DEF q
<1>3. /\ first \in Nat /\ first <= k /\ k <= first + PagerSize - 1
      /\ last \in Nat /\ k <= last
      /\ (last < PageCount => last = first + PagerSize - 1)
      /\ last <= PageCount
  BY <1>0, <1>2 DEF Smallest
<1> HIDE DEF first, last
<1>4. CASE k + 1 <= last
  <2>1. k + 1 \in served.targets
    BY <1>0, <1>1, <1>3, <1>4
  <2> QED
    BY <2>1 DEF EventTarget
<1>5. CASE ~(k + 1 <= last)
  <2>1. k = last /\ first < k /\ served.ellipsis = k + 1
    BY <1>0, <1>1, <1>3, <1>5
  <2>2. /\ k + 1 \notin served.targets /\ k - 1 \in served.targets
        /\ \A m \in served.targets : m <= k - 1 /\ m \in Int
    BY <1>0, <1>1, <1>3, <2>1
  <2>3. Largest(served.targets) \in served.targets
        /\ \A m \in served.targets : m <= Largest(served.targets)
    BY <2>2 DEF Largest
  <2>4. k + 1 > Largest(served.targets)
    BY <1>0, <2>2, <2>3
  <2> QED
    BY <1>0, <2>1, <2>2, <2>4 DEF EventTarget
<1> QED
  BY <1>4, <1>5

\* A page taken in its turn is one more of the publication.
LEMMA TakenInTurn ==
  ASSUME LoopInv, StillPages, NEW k \in 1..PageCount, k = Len(bundle.pages) + 1, AnswerIs(k),
         bundle.pc \in {"search", "paging"}, TakePage(PageCount),
         \A i \in 1..Len(bundle.pages) :
           bundle.pages[i] = [rows |-> RowsOfPage(Whole, i), total |-> Cardinality(Whole)]
  PROVE  StillPages' /\ (bundle'.pc = "paging" => Begin(served.action, TRUE))
         /\ (bundle'.pc # "paging" => Settled)
<1>0. /\ SourceType /\ PageCount \in Nat /\ Whole # {} /\ bundle.date = latest
      /\ bundle.cause = "none"
  BY WholeType DEF LoopInv, SourceInv, StillPages
<1>1. /\ served.rows = RowsOfPage(Whole, k) /\ served.total = Cardinality(Whole)
      /\ served.rows # {}
  BY <1>0, AskedIsServed DEF AnswerIs
<1>2. /\ UNCHANGED sourceVars /\ bundle'.date = bundle.date
      /\ LeadsNowhere(PageCount) \/ WasLast(PageCount) \/ AsksForNext(PageCount)
  BY <1>0, <1>1, PageTaken
<1>3. UNCHANGED <<Whole, PageCount, latest>>
  BY <1>2 DEF sourceVars, Whole, PageCount
<1>4. NextPage = k + 1 /\ k \in Nat
  BY <1>0 DEF NextPage, LoopInv, LoopType, LoopBundle
<1>5. NextPage <= PageCount => EventTarget(NextPage) = k + 1
  BY <1>0, <1>4, PagerLeads
<1>6. ~LeadsNowhere(PageCount)
  BY <1>4, <1>5 DEF LeadsNowhere
<1>7. bundle'.pages = Append(bundle.pages, Given) =>
        /\ Len(bundle'.pages) = k
        /\ \A i \in 1..Len(bundle'.pages) :
             bundle'.pages[i] = [rows |-> RowsOfPage(Whole, i), total |-> Cardinality(Whole)]
  <2> SUFFICES ASSUME bundle'.pages = Append(bundle.pages, Given)
               PROVE  /\ Len(bundle'.pages) = k
                      /\ \A i \in 1..Len(bundle'.pages) :
                           bundle'.pages[i] = [rows |-> RowsOfPage(Whole, i),
                                               total |-> Cardinality(Whole)]
    OBVIOUS
  <2>1. /\ bundle.pages \in Seq([rows : SUBSET Quotes, total : Nat])
        /\ Given \in [rows : SUBSET Quotes, total : Nat]
    BY DEF LoopBundle, Given, LoopInv, LoopType
  <2>2. Given = [rows |-> RowsOfPage(Whole, k), total |-> Cardinality(Whole)]
    BY <1>1 DEF Given
  <2>3. Len(Append(bundle.pages, Given)) = k
    BY <2>1, AppendProperties
  <2>4. ASSUME NEW i \in 1..Len(Append(bundle.pages, Given))
        PROVE  \/ i \in 1..Len(bundle.pages) /\ Append(bundle.pages, Given)[i] = bundle.pages[i]
               \/ i = k /\ Append(bundle.pages, Given)[i] = Given
    BY <2>1, AppendedLast
  <2> QED
    BY <2>2, <2>3, <2>4
<1>8. RowsOfPage(Whole, 1)' = RowsOfPage(Whole, 1)
      /\ \A i : RowsOfPage(Whole, i)' = RowsOfPage(Whole, i)
  BY <1>2, <1>3 DEF RowsOfPage, sourceVars
<1>9. CASE WasLast(PageCount)
  <2>1. Len(bundle'.pages) = PageCount
    BY <1>0, <1>4, <1>7, <1>9 DEF WasLast
  <2> QED
    BY <1>0, <1>3, <1>7, <1>8, <1>9, <2>1 DEF WasLast, StillPages
<1>10. CASE AsksForNext(PageCount)
  <2>1. bundle'.asked = k + 1 /\ k + 1 <= PageCount /\ Len(bundle'.pages) = k
    BY <1>4, <1>5, <1>7, <1>10 DEF AsksForNext
  <2> QED
    BY <1>0, <1>2, <1>3, <1>7, <1>8, <1>10, <2>1 DEF AsksForNext, StillPages
<1> QED
  BY <1>2, <1>6, <1>9, <1>10

\* While the source stands still, a fetch goes through its publication.
LEMMA StillStep == LoopInv /\ CallInv /\ CallInv' /\ StillInv /\ [Next]_vars => StillInv'
<1> SUFFICES ASSUME LoopInv, CallInv, CallInv', StillInv, [Next]_vars,
                    bundle'.pc # "idle", changes' = bundle'.since, ~bundle'.plain
             PROVE  Still'
  BY DEF StillInv
<1>0. /\ SourceInv /\ SourceType /\ bundle \in LoopBundle /\ changes \in Nat
      /\ bundle.since \in Nat /\ Phases /\ call \in Call /\ call' \in Call
  BY DEF LoopInv, LoopType, LoopBundle, SourceInv, SourceType, CallInv
<1>1. UNCHANGED sourceVars
  <2> SUFFICES ASSUME ~UNCHANGED sourceVars PROVE FALSE
    OBVIOUS
  <2>1. SourceMoves /\ changes' = changes + 1
    BY <1>0, SourceSteps DEF SourceMoves
  <2>2. bundle.pc # "idle" /\ bundle.since = changes + 1
    BY <1>0, <2>1, MovesShow
  <2>3. bundle.since <= changes
    BY <1>0, <2>2 DEF Phases
  <2> QED
    BY <1>0, <2>2, <2>3
<1>s. /\ UNCHANGED <<Whole, PageCount, latest, changes>>
      /\ \A i : RowsOfPage(Whole, i)' = RowsOfPage(Whole, i)
  BY <1>1 DEF sourceVars, Whole, PageCount, RowsOfPage
<1>2. ASSUME NEW u, NEW form \in BOOLEAN, Begin(u, form)
      PROVE  call'.pc \in {"sending", "raised"} /\ call'.form = form
  BY <1>2 DEF Begin, NewCall
<1>3. CASE StartFetch
  <2>1. /\ bundle' = [IdleBundle EXCEPT !.pc = "landing", !.since = changes, !.shown = {listed}]
        /\ Begin(SourceUrl, FALSE)
    BY <1>3 DEF StartFetch
  <2>2. bundle'.pc = "landing" /\ bundle'.cause = "none"
    BY <2>1 DEF IdleBundle
  <2>3. call'.pc # "answered" /\ ~call'.form
    BY <1>2, <2>1
  <2> QED
    BY <2>2, <2>3 DEF Still, StillForm, StillAnswer, StillPages
<1> SUFFICES ASSUME ~StartFetch PROVE Still'
  BY <1>3
<1>4. bundle.pc # "idle" /\ bundle'.since = bundle.since /\ ~bundle.plain => Still
  BY <1>s DEF StillInv
<1>5. ASSUME call.pc # "idle" PROVE bundle.pc \in {"landing", "search", "paging"}
  BY <1>0, <1>5 DEF Phases, IdleCall, NewCall, LoopBundle
\* Raising ends what the invariant says of answers and pages, but for the cause.
<1>6. ASSUME NEW cause, BundleRaises(cause), cause = "page" => PageCount \notin 1..MaxPages
      PROVE  Still'
  <2>1. bundle' = [bundle EXCEPT !.pc = "raised", !.cause = cause] /\ call' = IdleCall
    BY <1>6 DEF BundleRaises, Settled
  <2>2. bundle'.pc = "raised" /\ bundle'.cause = cause /\ call'.pc = "idle"
    BY <1>0, <2>1 DEF LoopBundle, IdleCall, NewCall
  <2> QED
    BY <1>6, <1>s, <2>2 DEF Still, StillForm, StillAnswer, StillPages
<1>7. ASSUME NEW k \in 1..PageCount, k = Len(bundle.pages) + 1, AnswerIs(k),
             bundle.pc \in {"search", "paging"}, TakePage(PageCount), StillPages,
             \A i \in 1..Len(bundle.pages) :
               bundle.pages[i] = [rows |-> RowsOfPage(Whole, i), total |-> Cardinality(Whole)]
      PROVE  Still'
  <2>1. StillPages' /\ (bundle'.pc = "paging" => Begin(served.action, TRUE))
        /\ (bundle'.pc # "paging" => Settled)
    BY <1>7, TakenInTurn
  <2>2. served.rows # {}
    BY <1>0, <1>7, AskedIsServed DEF AnswerIs
  <2>3. bundle'.pc \in {"paging", "done", "raised"}
    BY <1>7, <2>2, WholeType, <1>0, PageTaken DEF LeadsNowhere, WasLast, AsksForNext
  <2>4. CASE bundle'.pc = "paging"
    BY <1>2, <2>1, <2>4 DEF Still, StillForm, StillAnswer
  <2>5. CASE bundle'.pc # "paging"
    BY <2>1, <2>3, <2>5 DEF Still, StillForm, StillAnswer, Settled, IdleCall, NewCall
  <2> QED
    BY <2>4, <2>5
<1>8. CASE Serve
  <2>1. /\ call.pc # "idle" /\ call'.pc = "answered" /\ call'.form = call.form
        /\ bundle' = [bundle EXCEPT !.plain = bundle.plain \/ call.posts # call.form]
    BY <1>0, <1>8 DEF Serve, Succeed, Waiting, Call
  <2>2. /\ bundle'.pc = bundle.pc /\ bundle'.since = bundle.since /\ bundle'.date = bundle.date
        /\ bundle'.pages = bundle.pages /\ bundle'.expected = bundle.expected
        /\ bundle'.asked = bundle.asked /\ bundle'.cause = bundle.cause
        /\ (bundle'.plain <=> (bundle.plain \/ call.posts # call.form))
    BY <1>0, <2>1 DEF LoopBundle
  <2>3. Still /\ call.posts = call.form /\ bundle.pc \in {"landing", "search", "paging"}
    BY <1>4, <1>5, <2>1, <2>2
  <2>4. PICK action \in Urls, date \in {bundle.date, latest} :
          served' = IF call.posts
                    THEN ServedPage(date, IF bundle.pc = "paging" THEN bundle.asked ELSE 1,
                                    action)
                    ELSE PlainPage(action)
    BY <1>8 DEF Serve
  <2>5. StillAnswer'
    <3>1. CASE bundle.pc = "landing"
      <4>1. served' = PlainPage(action)
        BY <2>3, <2>4, <3>1 DEF Still, StillForm
      <4>2. PlainPage(action).rows = ServedPage(latest, 1, action).rows
            /\ PlainPage(action).date = latest
        BY <1>0, PagesShow DEF SourceType
      <4>3. ServedPage(latest, 1, action).rows = RowsOfPage(Whole, 1)
        BY <1>0, AskedIsServed
      <4>4. served'.rows = RowsOfPage(Whole, 1) /\ served'.date = latest
        BY <4>1, <4>2, <4>3
      <4> QED
        BY <1>s, <2>2, <3>1, <4>4 DEF StillAnswer
    <3>2. CASE bundle.pc = "search"
      <4>1. served' = ServedPage(latest, 1, action)
        BY <2>3, <2>4, <3>2 DEF Still, StillForm, StillPages
      <4>2. AnswerIs(1)'
        BY <1>1, <4>1 DEF AnswerIs, ServedPage, RowsOfPage, sourceVars
      <4> QED
        BY <2>2, <3>2, <4>2 DEF StillAnswer
    <3>3. CASE bundle.pc = "paging"
      <4>1. served' = ServedPage(latest, bundle.asked, action)
        BY <2>3, <2>4, <3>3 DEF Still, StillForm, StillPages
      <4>2. \E a \in Urls : served' = ServedPage(latest, bundle.asked, a)'
        BY <1>1, <2>2, <4>1 DEF ServedPage, RowsOfPage, sourceVars
      <4>3. AnswerIs(bundle.asked)'
        BY <2>2, <4>2 DEF AnswerIs
      <4> QED
        BY <2>2, <3>3, <4>3 DEF StillAnswer
    <3> QED
      BY <2>3, <3>1, <3>2, <3>3
  <2> QED
    BY <1>s, <2>1, <2>2, <2>3, <2>5 DEF Still, StillForm, StillPages
<1>9. CASE RequestGoesOn
  <2>1. /\ UNCHANGED bundle /\ call'.form = call.form
        /\ call'.pc # "answered" /\ call.pc # "idle"
    BY <1>0, <1>9, NoAnswerYet
  <2>2. Still
    BY <1>4, <1>5, <2>1
  <2> QED
    BY <1>s, <2>1, <2>2 DEF Still, StillForm, StillAnswer, StillPages
<1>10. CASE UNCHANGED vars
  <2>1. UNCHANGED <<bundle, call, served>>
    BY <1>10 DEF vars, callVars
  <2>2. Still
    BY <1>4, <2>1
  <2>3. ASSUME NEW k, AnswerIs(k) PROVE \E a \in Urls : served' = ServedPage(latest, k, a)'
    BY <1>1, <2>1, <2>3 DEF AnswerIs, ServedPage, RowsOfPage, sourceVars
  <2>4. StillAnswer'
    BY <1>s, <2>1, <2>2, <2>3 DEF Still, StillAnswer, AnswerIs
  <2> QED
    BY <1>s, <2>1, <2>2, <2>4 DEF Still, StillForm, StillPages
<1>11. CASE RequestRaised \/ RefuseMarkup
  BY <1>6, <1>11 DEF RequestRaised, RefuseMarkup
<1>12. CASE ResumeLanding
  <2>1. CASE BundleRaises("page") /\ served.rows = {}
    <3>1. bundle.pc = "landing" /\ call.pc = "answered"
      BY <1>12 DEF ResumeLanding
    <3>2. bundle'.since = bundle.since /\ bundle'.plain = bundle.plain
      BY <1>0, <2>1 DEF BundleRaises, LoopBundle
    <3>3. RowsOfPage(Whole, 1) = {}
      BY <1>4, <2>1, <3>1, <3>2 DEF Still, StillAnswer
    <3>4. 1 \notin 1..PageCount
      BY <1>0, <3>3, WholeType, PagesHaveRows DEF PageCount, SourceType
    <3>5. PageCount \notin 1..MaxPages
      BY <1>0, <3>4, WholeType
    <3> QED
      BY <1>6, <2>1, <3>5
  <2>2. CASE served.rows # {}
    <3>1. /\ bundle' = [bundle EXCEPT !.pc = "search", !.date = served.date]
          /\ Begin(served.action, TRUE) /\ bundle.pc = "landing" /\ call.pc = "answered"
      BY <1>12, <2>2 DEF ResumeLanding
    <3>2. /\ bundle'.since = bundle.since /\ bundle'.plain = bundle.plain
          /\ bundle'.pc = "search" /\ bundle'.date = served.date /\ bundle'.cause = bundle.cause
      BY <1>0, <3>1 DEF LoopBundle
    <3>3. Still
      BY <1>4, <3>1, <3>2
    <3>4. served.date = latest /\ Whole # {} /\ bundle.cause = "none"
      BY <2>2, <3>1, <3>3 DEF Still, StillAnswer, StillPages, RowsOfPage
    <3>5. call'.form /\ call'.pc # "answered"
      BY <1>2, <3>1
    <3> QED
      BY <1>s, <3>2, <3>4, <3>5 DEF Still, StillForm, StillAnswer, StillPages
  <2> QED
    BY <1>12, <2>1, <2>2 DEF ResumeLanding
<1>13. CASE ResumeSearch
  <2>1. bundle.pc = "search" /\ call.pc = "answered" /\ bundle.pages = <<>>
    BY <1>0, <1>13 DEF ResumeSearch, Phases
  <2>2. Still
    <3>1. CASE BundleRaises("page")
      BY <1>0, <1>4, <2>1, <3>1 DEF BundleRaises, LoopBundle
    <3>2. CASE TakePage(ExpectedPageCount) /\ PageValid
      BY <1>0, <1>4, <2>1, <3>2, PageTaken, CountType DEF PageValid
    <3> QED
      BY <1>13, <3>1, <3>2 DEF ResumeSearch
  <2>3. AnswerIs(1) /\ bundle.date = latest /\ Whole # {} /\ StillPages
    BY <2>1, <2>2 DEF Still, StillAnswer, StillPages
  <2>4. 1 \in 1..PageCount /\ PageCount \in Nat
    BY <1>0, <2>3, WholeType
  <2>5. /\ served.rows = RowsOfPage(Whole, 1) /\ served.total = Cardinality(Whole)
        /\ served.date = latest /\ served.rows # {}
    BY <1>0, <2>3, <2>4, AskedIsServed DEF AnswerIs
  <2>6. ExpectedPageCount = PageCount
    BY <1>0, <2>3, <2>5, WholeType, FirstPageTellsCount DEF ExpectedPageCount, PageCount, SourceType
  <2>7. PageValid
    BY <2>3, <2>5 DEF PageValid
  <2>8. CASE PageCount > MaxPages
    <3>1. BundleRaises("page")
      BY <1>13, <2>6, <2>8 DEF ResumeSearch
    <3>2. PageCount \notin 1..MaxPages
      BY <2>4, <2>8, RestTypes
    <3> QED
      BY <1>6, <3>1, <3>2
  <2>9. CASE ~(PageCount > MaxPages)
    <3>1. TakePage(PageCount)
      BY <1>13, <2>6, <2>7, <2>9 DEF ResumeSearch
    <3>2. Len(bundle.pages) + 1 = 1
          /\ \A i \in 1..Len(bundle.pages) :
               bundle.pages[i] = [rows |-> RowsOfPage(Whole, i), total |-> Cardinality(Whole)]
      BY <2>1
    <3> QED
      BY <1>7, <2>1, <2>3, <2>4, <3>1, <3>2
  <2> QED
    BY <2>8, <2>9
<1>14. CASE ResumePaging
  <2>1. bundle.pc = "paging" /\ call.pc = "answered" /\ bundle.expected \in Nat
    BY <1>0, <1>14 DEF ResumePaging, LoopBundle
  <2>2. Still
    <3>1. CASE BundleRaises("page")
      BY <1>0, <1>4, <2>1, <3>1 DEF BundleRaises, LoopBundle
    <3>2. CASE TakePage(bundle.expected) /\ PageValid
      BY <1>0, <1>4, <2>1, <3>2, PageTaken DEF PageValid
    <3> QED
      BY <1>14, <3>1, <3>2 DEF ResumePaging
  <2> DEFINE k == bundle.asked
  <2>3. /\ AnswerIs(k) /\ bundle.date = latest /\ Whole # {} /\ StillPages
        /\ bundle.expected = PageCount /\ k = Len(bundle.pages) + 1 /\ k <= PageCount
        /\ \A i \in 1..Len(bundle.pages) :
             bundle.pages[i] = [rows |-> RowsOfPage(Whole, i), total |-> Cardinality(Whole)]
    BY <2>1, <2>2 DEF Still, StillAnswer, StillPages
  <2>4. k \in 1..PageCount /\ k \in Nat
    <3>1. Len(bundle.pages) \in Nat
      BY <1>0 DEF LoopBundle
    <3> HIDE DEF k
    <3> QED
      BY <1>0, <2>3, <3>1, WholeType
  <2> HIDE DEF k
  <2>5. served.date = latest /\ served.rows # {}
    BY <1>0, <2>3, <2>4, AskedIsServed DEF AnswerIs
  <2>6. PageValid
    BY <2>3, <2>5 DEF PageValid
  <2>7. TakePage(PageCount)
    BY <1>14, <2>3, <2>6 DEF ResumePaging
  <2> QED
    BY <1>7, <2>1, <2>3, <2>4, <2>7
<1>15. ~Return
  BY RestTypes DEF Return
<1>16. CASE Revise \/ NewDate
  BY <1>0, <1>s, <1>16 DEF Revise, NewDate, Publish
<1> QED
  BY <1>8, <1>9, <1>10, <1>11, <1>12, <1>13, <1>14, <1>15, <1>16 DEF Next, Resume

\* All pages of a publication are the publication, each row once.
LEMMA PagesMakeWhole ==
  ASSUME LoopInv, Still, bundle.pc = "done"
  PROVE  Accepted /\ Rows = listed[latest]
<1> DEFINE pages == bundle.pages
<1>1. /\ SourceType /\ Whole \in SUBSET Quotes /\ PageCount \in Nat
      /\ Len(pages) = PageCount /\ PageCount # 0
      /\ \A i \in 1..PageCount :
           pages[i] = [rows |-> RowsOfPage(Whole, i), total |-> Cardinality(Whole)]
  <2>1. pages # <<>> /\ pages \in Seq([rows : SUBSET Quotes, total : Nat])
    BY DEF LoopInv, LoopType, LoopBundle, Phases
  <2>2. Len(pages) # 0
    BY <2>1, EmptySeq
  <2> QED
    BY <2>2, WholeType DEF LoopInv, SourceInv, Still, StillPages
<1>2. /\ \A i \in 1..PageCount :
           pages[i].rows = RowsOfPage(Whole, i) /\ pages[i].total = Cardinality(Whole)
      /\ PageCount \in 1..PageCount
  <2> HIDE DEF pages
  <2>1. PageCount \in 1..PageCount
    BY <1>1
  <2> QED
    BY <1>1, <2>1
<1> HIDE DEF pages
<1>3. Total = Cardinality(Whole) /\ SameTotals
  BY <1>1, <1>2 DEF Total, SameTotals, pages
<1>4. ASSUME NEW i, NEW j, i # j, NEW q \in RowsOfPage(Whole, i), NEW r \in RowsOfPage(Whole, j)
      PROVE  CurrencyOf[q] # CurrencyOf[r]
  <2>1. q \in Whole /\ r \in Whole /\ q # r
    BY <1>4 DEF RowsOfPage
  <2>2. OneQuoteEach(Whole)
    BY DEF LoopInv, SourceInv, SourceType, Whole
  <2> QED
    BY <2>1, <2>2 DEF OneQuoteEach
<1>5. NoRowTwice
  BY <1>1, <1>2, <1>4 DEF NoRowTwice, pages
<1>6. Rows = Whole
  <2>1. Rows = UNION {RowsOfPage(Whole, i) : i \in 1..PageCount}
    BY <1>1, <1>2 DEF Rows, pages
  <2>2. ASSUME NEW c \in Whole PROVE \E i \in 1..PageCount : c \in RowsOfPage(Whole, i)
    <3>1. CeilDiv(Rank(Whole, c), pageSize) \in 1..PageCount
      BY <1>1, RowsByRank DEF PageCount, SourceType
    <3>2. \A k \in Nat \ {0} : c \in RowsOfPage(Whole, k) <=> CeilDiv(Rank(Whole, c), pageSize) = k
      BY <1>1, RowsByRank DEF SourceType
    <3> QED
      BY <1>1, <3>1, <3>2
  <2>3. \A i : RowsOfPage(Whole, i) \subseteq Whole
    BY DEF RowsOfPage
  <2> QED
    BY <2>1, <2>2, <2>3
<1> QED
  BY <1>3, <1>5, <1>6 DEF Accepted, Whole

\* The invariant of a still source holds in every state.
LEMMA StillInvariance == Spec => []StillInv
<1>1. Init => StillInv
  BY RestTypes DEF Init, StillInv
<1>2. LoopInv /\ Inv /\ Inv' /\ StillInv /\ [Next]_vars => StillInv'
  BY StillStep DEF Inv
<1> QED
  BY Invariance, PagesInvariance, <1>1, <1>2, PTL DEF Spec

\* While the source stands still, a fetch whose requests succeed ends with the
\* whole publication, in a form that normalizes; what a page shows makes it fail
\* only when there are too many pages.
THEOREM StillSourceComesWhole == Spec => []StillSourceIsFetchedWhole
<1>1. LoopInv /\ StillInv => StillSourceIsFetchedWhole
  <2> SUFFICES ASSUME LoopInv, StillInv, changes = bundle.since, ~bundle.plain
               PROVE  /\ bundle.pc = "done" => Accepted /\ Rows = listed[latest]
                      /\ bundle.cause = "page" =>
                           CeilDiv(Cardinality(listed[latest]), pageSize) \notin 1..MaxPages
    BY DEF StillSourceIsFetchedWhole
  <2>1. CASE bundle.pc = "done"
    BY <2>1, PagesMakeWhole DEF StillInv, Still, StillPages
  <2>2. CASE bundle.pc # "done" /\ bundle.pc # "idle"
    BY <2>2 DEF StillInv, Still, StillPages, PageCount, Whole
  <2>3. CASE bundle.pc = "idle"
    BY <2>3 DEF LoopInv, Phases
  <2> QED
    BY <2>1, <2>2, <2>3
<1> QED
  BY PagesInvariance, StillInvariance, <1>1, PTL
=============================================================================
