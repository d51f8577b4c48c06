CONSTANTS
  Processes = {"server", "canary"}
  Catalog <- MCCatalog
  Fields <- MCFields
  Seed <- NewBuild
  MaxDisruptions = 2
SPECIFICATION Spec
INVARIANTS
  StartedMeansReconciled
  StatusesAgree
PROPERTIES
  HealthRowsKept
  LoneSeedingPreservesStatus
