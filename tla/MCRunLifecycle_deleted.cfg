CONSTANTS
  api = api
  sched = sched
  a1 = a1
  a2 = a2
  s1 = s1
  j1 = j1
  Manual = Manual
  Home <- MCHome
  Procs = {api, sched}
  Loops = {sched}
  Callers = {a1, s1}
  Jobs = {j1}
  Slots = 1
  Queries = 1
  MaxRuns = 1
  Pids = {1, 2}
  FreshPids = FALSE
  Crashable = {api}
  Stoppable = {}
  PurgeJobs = {j1}
  StoreFaults = TRUE
  ThreadFaults = FALSE
SPECIFICATION FairSpec
PROPERTY DeletedStaysDeleted ThreadsEnd
