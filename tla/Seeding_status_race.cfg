CONSTANTS
  Processes = {"server", "canary"}
  Catalog <- OneDataset
  Fields <- MCFields
  Seed <- Upgrade
  MaxDisruptions = 0
SPECIFICATION Spec
PROPERTY SeedingPreservesStatus
