------------------------------ MODULE MCReports ------------------------------
(***************************************************************************)
(* The pages of links of SourceReports for TLC: reports in order and out   *)
(* of it, a link that is repeated, two reports of a period, a link that    *)
(* leads outside, more reports than the ceiling, or none.                  *)
(***************************************************************************)
EXTENDS SourceReports

PeriodOfReport == [u \in Approved |->
  CASE u = "week 1" -> 1 [] u = "week 2" -> 2 [] u = "week 2 again" -> 2 [] OTHER -> 0]

FirstPages ==
  {<<"week 1", "week 2">>, <<"week 2", "other", "week 1", "week 2">>, <<"week 2", "week 1">>,
   <<"week 1", "elsewhere">>, <<"week 1", "week 2", "week 2 again">>,
   <<"week 2", "other", "week 2 again">>, <<"other">>}
=============================================================================
