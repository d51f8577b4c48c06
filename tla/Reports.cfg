CONSTANTS
  Approved = {"page", "other", "week 1", "week 2", "week 2 again"}
  SourceUrl = "page"
  Outside = {"elsewhere"}
  MaxRetries = 1
  MaxHops = 1
  PeriodOf <- PeriodOfReport
  FirstLinks <- FirstPages
  MaxReports = 2
  MaxRevisions = 1
SPECIFICATION FairSpec
INVARIANTS
  RowsAgreeWithReports
  StillReportsComeWhole
PROPERTY ReportsEnd
