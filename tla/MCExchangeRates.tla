-------------------------- MODULE MCExchangeRates --------------------------
(***************************************************************************)
(* Four currencies, the first of which is quoted at two rates, 1 and 2.    *)
(***************************************************************************)
EXTENDS ExchangeRates

MCQuotes == 1..5

MCCurrencyOf == <<1, 1, 2, 3, 4>>

\* Of each number of rows, on up to four pages: from one to another a currency
\* comes, goes, takes the place of another or is given the other rate.
MCPublications ==
  {{}, {1}, {2}, {1, 3}, {4, 5}, {1, 3, 4}, {2, 3, 4}, {3, 4, 5}, {1, 3, 4, 5}, {2, 3, 4, 5}}
=============================================================================
