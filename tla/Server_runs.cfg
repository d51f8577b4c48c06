SPECIFICATION Spec
CONSTANTS
  Datasets = {"pos", "city", "repo"}
  Locators = {"posPage", "repoPage"}
  Registered = {"pos", "city", "repo"}
  CanaryDatasets = {}
  MaxVersion = 1
  AgeCap = 2
  Requests = {}
  Loop = loop
  Tools = {t1}
  TierA <- PosRepo
  Optional <- City
  Cooldown = 1
  TicksPerSecond = 2
  MaxDisruptions = 1
  RefreshMissing = TRUE
  RefreshStale = TRUE
  ServeUnknownLocally = TRUE
  AllowStaleFallback = TRUE
  NoCoroutine = NoCoroutine
  LocatorOf <- MCLocatorOf
  Window <- MCWindow
  Unwindowed <- MCUnwindowed
  Coroutines <- MCCoroutines
  Unparseable <- MCUnparseable
INVARIANTS
  SharedLocatorAgrees
PROPERTIES
  RunsNeverRegress
  RunsDegradeOnlyUnfresh
  CooldownSpacing
