CONSTANTS
  api = api
  sched = sched
  user = user
  user2 = user2
  ticker = ticker
  Never = Never
  Home <- MCHome
  Procs = {api, sched}
  Callers = {user, ticker}
  Tickers = {ticker}
  MaxJobs = 2
  Intervals = {1}
  Slots = 1
  Broken = {2}
  Requests = {"edit", "purge", "run_now", "batch"}
  Timely = FALSE
SPECIFICATION Spec
INVARIANT EnabledIsScheduled
INVARIANT StartsOnlyWanted
PROPERTY JobStartsFresh
