SPECIFICATION Spec
CONSTANTS
  None = None
  Nothing = Nothing
  Unset = Unset
  Annotators = {"p", "q"}
  LogRows <- Rows4
  Kb <- Kb4
  Libraries <- Libraries3
  Versions = {15, None}
  Unparsed = Unparsed
  BatchSize = 2
  MaxCalls = 2
  KbFiles <- TwoFiles
  Drafts <- Drafts0
  Initial <- Initial3
  NoFile = NoFile
  Broken = Broken
  Labels = {"l1"}
  MaxWrites = 2
  Keys = {"k1"}
  Second = 2
  Skews <- Skews2
  BatchRows = 1
  MaxEvents = 3
  MaxClock = 3
  MaxDiffs = 2
  Lines <- Lines4
  LineNames = {"a", "b"}
  Marks <- Marks4
  Filters <- Filters6
  PageSizes = {1, 2}
  MaxMarks = 2
INVARIANT AnnotatedExactly
INVARIANT SummaryIsCurrent
INVARIANT KbIsSound
INVARIANT ResultIsTrue
INVARIANT ReadersAreTrue
CHECK_DEADLOCK FALSE
