------------------------------- MODULE MCPages -------------------------------
(***************************************************************************)
(* The pages of the web UI that follow runs, for TLC: jobs, manual search  *)
(* and logs.  All of them are mounted at any time (App.tsx) and share      *)
(* nothing but the server, whose runs each of them sees start and end at   *)
(* any time.  So a behaviour is one of one page, chosen at the start, and  *)
(* the others rest in a state in which fairness asks nothing of them.      *)
(***************************************************************************)
EXTENDS JobRuns, ManualRun, LogsPage

VARIABLE following
vars == <<following, runVars, manualVars, logsVars>>

RunsAtRest ==
  /\ history = [r \in RunIds |-> "none"] /\ lastRun = [j \in RunJobs |-> NoRun]
  /\ rows = Nothing /\ active = Nothing
  /\ timer = FALSE /\ message = "" /\ faults = 0
  /\ tasks = [t \in Slots |-> Idle]

LogsAtRest ==
  /\ logged = NoRuns /\ runs = NoRuns /\ chosen = NoLogged /\ stopping = NoLogged
  /\ logsTimer = FALSE /\ logsError = FALSE /\ logFaults = 0
  /\ loads = [l \in LoadSlots |-> NoLoad]

Init ==
  /\ following \in {"jobs", "manual", "logs"}
  /\ IF following = "jobs" THEN RunsInit ELSE RunsAtRest
  /\ IF following = "logs" THEN LogsInit ELSE LogsAtRest
  /\ ManualInit

\* The page of the behaviour moves, the others rest.
Next ==
  /\ UNCHANGED following
  /\ \/ following = "jobs" /\ RunsNext
     \/ following # "jobs" /\ UNCHANGED runVars
  /\ \/ following = "manual" /\ ManualNext
     \/ following # "manual" /\ UNCHANGED manualVars
  /\ \/ following = "logs" /\ LogsNext
     \/ following # "logs" /\ UNCHANGED logsVars

Spec == Init /\ [][Next]_vars /\ RunsFairness /\ ManualFairness /\ LogsFairness
==============================================================================
