CONSTANTS
  api = api
  sched = sched
  user = user
  user2 = user2
  ticker = ticker
  Never = Never
  Home <- MCHome
  Procs = {api}
  Callers = {user, ticker}
  Tickers = {ticker}
  MaxJobs = 2
  Intervals = {1}
  Slots = 1
  Broken = {1}
  Requests = {"edit", "import"}
  Timely = TRUE
SPECIFICATION FairSpec
PROPERTY DueJobsRun EnabledJobsKeepRunning
