CONSTANTS
  api = api
  sched = sched
  a1 = a1
  a2 = a2
  s1 = s1
  j1 = j1
  Manual = Manual
  Home <- MCHome
  Procs = {api, sched}
  Loops = {sched}
  Callers = {a1, s1}
  Jobs = {j1}
  Slots = 2
  Queries = 1
  MaxRuns = 2
  Pids = {1, 2}
  FreshPids = TRUE
  Crashable = {}
  Stoppable = {}
  PurgeJobs = {}
  StoreFaults = FALSE
  ThreadFaults = FALSE
SPECIFICATION Spec
INVARIANT OneRunPerJob
