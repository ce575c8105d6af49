CONSTANTS
  MaxJobs = 2
  FirstJobs = 1
  Packs = {"p"}
  NoPack = "none"
  Bound <- MCBound
  MaxWaits = 2
  MaxListed = 3
  FirstListed = 2
  RowsPerPage = 2
  MaxPending = 1
  Impatient = FALSE
  DraftPacks = {"p", "q"}
  FirstPacks = {"p"}
  PinnedPacks = {"p"}
  Specs = {"s", "t"}
  Rests = {"r", "R", "u"}
  BlankDraft <- MCBlank
  NormalRest <- MCNormalRest
  DefaultDraft = "default"
  MaxHandlers = 1
  Navs = {"dashboard", "jobs", "logs"}
  Dashboard = "dashboard"
  MaxSnapshot = 2
SPECIFICATION Spec
INVARIANTS OnePackInHand WorkspaceAgrees FlagsAsLastShown CleanMeansSaved ReloadKeepsWhatIsShown
