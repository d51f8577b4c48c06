CONSTANTS
  Datasets = {"exchange rates", "cpi", "gdp", "budget", "deposits", "repo rate", "money supply weekly", "catalog"}
  PayloadsOf <- MCPayloads
  StoredOf <- MCStored
  DescriptorsOf <- MCDescriptors
  MonthStarts <- MCMonthStarts
  Instants <- MCInstants
  Start = 549
  MaxChanges = 1
SPECIFICATION Spec
INVARIANTS
  PartsHeldDuringCall
  FreshLabelsAreBounded
  AnswersExplainThemselves
  CanaryAgreesWithQuery
PROPERTY StaleStaysStale
