SPECIFICATION Spec
CONSTANTS
  None = None
  DeviceFiles = {"f1", "f2"}
  Devices = {"d1", "d2"}
  Diagnostics = {"p"}
  Uuidtext = {"q"}
  ZipRoots = 2
  MaxPreps = 2
  MaxTampers = 1
  Window = 1
  ArchiveSizes = {2, 3}
  NoEntry = NoEntry
  Outputs = {"x", "y"}
  MaxSessions = 2
  Absent = Absent
  Hollow = Hollow
  Missing = Missing
  Unreadable = Unreadable
  Contents = {"c", "d"}
  Tree <- Paths3
  Arguments <- Arguments14
  Hosts <- TwoHosts
  Connected <- UpToTwo
  NotGiven = NotGiven
  Entries = {1, 2}
  LogFiles <- Files3
  f1 = f1
  f2 = f2
  TraceFiles = {f1, f2}
  MaxRuns = 3
  NoDb = NoDb
  NoFile = NoFile
  FastFts = TRUE
  FullIntegrity = TRUE
  Parallel = FALSE
  StorageFaults = TRUE
  Bystander = TRUE
  Deletes = TRUE
INVARIANT OutputIsWhole
INVARIANT CancelLeavesNoOutput
INVARIANT NoForeignEvidence
INVARIANT AttestationIsTrue
INVARIANT SealCoversSession
INVARIANT VerifyTellsTheTruth
INVARIANT ValidationIsHonest
INVARIANT IInv
INVARIANT FinalIsWhole
INVARIANT CompleteIsWhole
INVARIANT LedgerIsTruthful
INVARIANT CancelHonoured
INVARIANT FinalHasItsWal
PROPERTY CompleteStands
PROPERTY OutputSpec
CHECK_DEADLOCK FALSE
