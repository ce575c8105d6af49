CONSTANTS
  RunJobs = {"j"}
  MaxRuns = 2
  MaxTasks = 2
  MaxFaults = 2
  MaxManualRuns = 2
  MaxCommands = 2
  MaxLogged = 2
  MaxLoads = 2
  MaxLogFaults = 2
SPECIFICATION Spec
PROPERTIES RunEndShownOrSaid ManualLoadingEnds LoggedEndShownOrSaid
