CONSTANTS
  api = api
  sched = sched
  a1 = a1
  a2 = a2
  s1 = s1
  j1 = j1
  Manual = Manual
  Home <- MCHome
  Procs = {api}
  Loops = {}
  Callers = {a1, a2}
  Jobs = {j1}
  Slots = 1
  Queries = 1
  MaxRuns = 2
  Pids = {1}
  FreshPids = TRUE
  Crashable = {}
  Stoppable = {}
  PurgeJobs = {}
  StoreFaults = TRUE
  ThreadFaults = TRUE
SPECIFICATION Spec
SYMMETRY Symmetry
INVARIANT SlotConservation
INVARIANT StatusMatchesStore
PROPERTY SuccessNeverFails
