SPECIFICATION Spec
CONSTANTS
  Datasets = {"city", "repo", "ghost"}
  Locators = {"posPage"}
  Registered = {"city", "repo"}
  CanaryDatasets = {"city"}
  MaxVersion = 1
  AgeCap = 2
  Requests = {r1}
  Loop = loop
  Tools = {t1}
  TierA <- CityGhost
  Optional <- NoDatasets
  Cooldown = 1
  TicksPerSecond = 1
  MaxDisruptions = 1
  RefreshMissing = TRUE
  RefreshStale = TRUE
  ServeUnknownLocally = FALSE
  AllowStaleFallback = TRUE
  NoCoroutine = NoCoroutine
  LocatorOf <- OneLocator
  Window <- MCWindow
  Unwindowed <- MCUnwindowed
  Coroutines <- MCCoroutines
  Unparseable <- MCUnparseable
INVARIANTS
  TypeOK
  OneRunAtATime
  ResultMatchesDisk
  HealthyHasSnapshot
  RecordedVerdictsStand
PROPERTIES
  PreviewVerdictIsEarned
  ImplementsLocalData
