CONSTANTS
  Approved = {"page", "moved"}
  SourceUrl = "page"
  Outside = {"elsewhere"}
  MaxRetries = 1
  MaxHops = 1
  Quotes <- MCQuotes
  CurrencyOf <- MCCurrencyOf
  Publications <- MCPublications
  MaxDate = 1
  PageSizes = {1, 2}
  PagerSize = 2
  MaxPages = 3
  MaxChanges = 1
SPECIFICATION FairSpec
INVARIANTS
  SendsBounded
  OnlyApprovedUrls
  OnlyEqualSizesMix
  StillSourceIsFetchedWhole
PROPERTY FetchesEnd
