SPECIFICATION FairSpec
CONSTANTS
  Datasets = {"city"}
  Locators = {"posPage"}
  Registered = {"city"}
  CanaryDatasets = {}
  MaxVersion = 1
  AgeCap = 2
  Requests = {r1}
  Loop = loop
  Tools = {t1}
  TierA <- City
  Optional <- NoDatasets
  Cooldown = 1
  TicksPerSecond = 1
  MaxDisruptions = 1
  RefreshMissing = FALSE
  RefreshStale = FALSE
  ServeUnknownLocally = TRUE
  AllowStaleFallback = TRUE
  NoCoroutine = NoCoroutine
  LocatorOf <- MCLocatorOf
  Window <- MCWindow
  Unwindowed <- MCUnwindowed
  Coroutines <- MCCoroutines
  Unparseable <- MCUnparseable
PROPERTIES
  PreviewsReturn
  LoopKeepsCycling
  RunsReturn
  StaleIsAttended
