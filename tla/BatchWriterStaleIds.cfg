SPECIFICATION Spec
CONSTANTS
  Archives <- Archives9
  MaxInt64 = 50
  Trees <- Trees5
  Pieces <- Pieces9
  Shelves <- Shelves6
  Word = 16
  MemoMax = 1
  p1 = p1
  p2 = p2
  ProcessNames = {p1, p2}
  NumFiles = 2
  NumRels = 1
  NumWorkers = 1
  WriterMayFail = FALSE
  WorkerMayDie = FALSE
  MaxEntries = 5
  WriterBatch = 2
  Rejects = TRUE
  Aborts = TRUE
  References <- References3
  Databases <- Databases2
  Nothing = Nothing
  FanIn = 2
  Samples = 1
SYMMETRY NameSymmetry
INVARIANT IdsOutliveAborts
CHECK_DEADLOCK FALSE
