CONSTANTS
  Processes = {"server", "canary"}
  Catalog <- OneDataset
  Fields <- MCFields
  Seed <- NewBuild
  MaxDisruptions = 0
SPECIFICATION Spec
INVARIANT NoStartFails
