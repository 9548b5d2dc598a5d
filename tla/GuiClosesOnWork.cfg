SPECIFICATION Spec
CONSTANTS
  Acquire = Acquire
  Identify = Identify
  VerifyHash = VerifyHash
  Exploit = Exploit
  Screens <- ShellScreens
  Hosts <- ShellHosts
  Stoppable <- Controlled
  Pickers <- Controlled
  Hiding = {Identify}
  MaxTasks = 3
INVARIANT NothingRunsAtClose
