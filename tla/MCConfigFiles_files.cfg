CONSTANTS
  api = api
  sched = sched
  a1 = a1
  s1 = s1
  Nobody = Nobody
  NoCache = NoCache
  Home <- MCHome
  Procs = {api, sched}
  Callers = {a1, s1}
  MaxJobs = 1
  MaxRule = 2
  UserPacks = {}
  Texts = {1, 2}
  MaxTorn = 1
SPECIFICATION FilesSpec
INVARIANT FilesHavePacks
PROPERTY Implements AllOrNothing
