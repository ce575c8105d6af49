CONSTANTS
  api = api
  sched = sched
  a1 = a1
  a2 = a2
  s1 = s1
  j1 = j1
  Manual = Manual
  Home <- MCHome
  Procs = {api, sched}
  Loops = {sched}
  Callers = {a1, s1}
  Jobs = {j1}
  Slots = 1
  Queries = 1
  MaxRuns = 1
  Pids = {1, 2, 3}
  FreshPids = TRUE
  Crashable = {sched}
  Stoppable = {sched}
  PurgeJobs = {}
  StoreFaults = FALSE
  ThreadFaults = FALSE
SPECIFICATION FairSpec
INVARIANT OrphanClosureSound EventHasExecutor
PROPERTY NoResurrection OrphansRecovered RunsTerminate GracefulExit
