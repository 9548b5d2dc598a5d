SPECIFICATION GuiSpec
CONSTANTS
  Acquire = Acquire
  Identify = Identify
  VerifyHash = VerifyHash
  Exploit = Exploit
  Screens <- ShellScreens
  Hosts <- ShellHosts
  Stoppable <- Controlled
  Pickers <- Controlled
  Hiding = {Identify}
  MaxTasks = 3
  Cases <- Cases2
  Facets = {"process"}
  SearchTexts = {"x"}
  Cutoffs <- Cutoffs2
  PickerTimes = {6}
  Caps = {1, 9}
  Batch = 1
  PerSecond = 2
  Unbound = Unbound
  Malformed = Malformed
  MaxSets = 2
  StillSeconds = {0, 1}
  MaxJobs = 3
  Results <- Results2
  Words = {"x"}
  PageRows = 1
  Blank = Blank
  LogLevels = {"DEBUG", "INFO", "WARN"}
  MaxRecords = 2
  MaxLogged = 4
INVARIANT ShownWorkIsOver
INVARIANT DrainStopsTheRun
INVARIANT ScreenIsTrue
INVARIANT WizardIsHonest
INVARIANT ResultsAreShown
INVARIANT LogPanelIsTrue
PROPERTY QuitCompletes
