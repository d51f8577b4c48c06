SPECIFICATION Spec
CONSTANTS
  Datasets = {"pos"}
  Locators = {"posPage"}
  Registered = {"pos"}
  CanaryDatasets = {}
  MaxVersion = 1
  AgeCap = 2
  Requests = {r1}
  Loop = loop
  Tools = {}
  TierA <- PosOnly
  Optional <- NoDatasets
  Cooldown = 1
  TicksPerSecond = 1
  MaxDisruptions = 1
  RefreshMissing = TRUE
  RefreshStale = TRUE
  ServeUnknownLocally = TRUE
  AllowStaleFallback = TRUE
  NoCoroutine = NoCoroutine
  LocatorOf <- MCLocatorOf
  Window <- MCWindow
  Unwindowed <- MCUnwindowed
  Coroutines <- MCCoroutines
  Unparseable <- MCUnparseable
INVARIANTS
  StaleServedOnlyWhenStale
