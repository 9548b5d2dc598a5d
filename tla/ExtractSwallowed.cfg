SPECIFICATION ExtractSpec
CONSTANTS
  f1 = f1
  TraceFiles = {f1}
  MaxRuns = 1
  NoDb = NoDb
  NoFile = NoFile
  FastFts = FALSE
  FullIntegrity = FALSE
  Parallel = FALSE
  StorageFaults = TRUE
  Bystander = FALSE
  Deletes = FALSE
SYMMETRY FileSymmetry
INVARIANT ParsedIsStored
