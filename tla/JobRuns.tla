------------------------------- MODULE JobRuns -------------------------------
(***************************************************************************)
(* How the jobs page of the web UI follows the runs of its jobs:           *)
(* pages/jobs/useJobsRunState.ts, the merge of the list's answers in       *)
(* useJobsPageState.tsx (loadJobs), handleRunNow and handleStopRun of      *)
(* useJobsActions.ts, and the status of a run in runProgress.ts.           *)
(*                                                                         *)
(* The page keeps one timer of 300 ms.  The effect that arms it depends on *)
(* pollActiveRunsOnce and onError, which are new closures in every render: *)
(* each render of the page clears the timer and arms it again when a run   *)
(* is shown running, and nothing else arms it.  Setting a state to the     *)
(* value it has renders nothing.                                           *)
(*                                                                         *)
(* Requests are made, answered at the server and received in three steps.  *)
(* Every job is on the page of the list; the percentages and times of a    *)
(* run are left out, and the selected job that a refresh reloads (see      *)
(* JobWorkspace).                                                          *)
(***************************************************************************)
EXTENDS Naturals, FiniteSets, FiniteSetsExt

CONSTANTS
  RunJobs,       \* the jobs of the list
  MaxRuns,       \* bound: runs that ever start
  MaxTasks,      \* bound: handlers that wait for an answer
  MaxFaults      \* bound: requests that fail

RunIds == 1..MaxRuns
NoRun == 0

ASSUME JobRunsAssumption == MaxRuns \in Nat /\ MaxTasks \in Nat \ {0} /\ MaxFaults \in Nat

VARIABLES
  history,    \* the status of each run (search_runs.jsonl)
  lastRun,    \* the last run of each job there
  rows,       \* jobs: the last run of each job as the list shows it
  active,     \* activeRunsByJobId (activeRunsRef.current is the same)
  timer,      \* whether the poll timer is armed
  message,    \* error: what the page says went wrong
  tasks,      \* the handlers that wait for an answer
  faults      \* requests that have failed so far

runVars == <<history, lastRun, rows, active, timer, message, tasks, faults>>
server == <<history, lastRun>>

\* A run as the page shows it; buildActiveJobRunFromJob makes one of a row that runs.
Entry == [run: {NoRun} \cup RunIds, running: BOOLEAN]
NoEntry == [run |-> NoRun, running |-> FALSE]
Nothing == [j \in RunJobs |-> NoEntry]

\* A handler at an await: a poll (asked, got), the list (rows), a start or a
\* stop (job, run).  It polls after the list when a start ("loud") or a stop
\* ("quiet": its errors are dropped) has made it.
Idle == [at |-> "idle", asked |-> [j \in RunJobs |-> NoRun], got |-> [j \in RunJobs |-> "none"],
         answer |-> "wait", rows |-> Nothing, then |-> "none", job |-> CHOOSE j \in RunJobs : TRUE,
         run |-> NoRun]
Await(at, then) == [Idle EXCEPT !.at = at, !.then = then]
Slots == 1..MaxTasks
Free == {t \in Slots : tasks[t] = Idle}

RunsInit ==
  /\ history \in {[r \in RunIds |-> IF r = 1 THEN s ELSE "none"] : s \in {"none", "running"}}
  /\ lastRun \in [RunJobs -> {NoRun, 1}]
  /\ Cardinality({j \in RunJobs : lastRun[j] = 1}) = (IF history[1] = "none" THEN 0 ELSE 1)
  /\ rows = Nothing /\ active = Nothing
  /\ timer = FALSE /\ message = ""
  /\ tasks = [t \in Slots |-> IF t = 1 THEN Await("list", "none") ELSE Idle]
  /\ faults = 0

-----------------------------------------------------------------------------
AnyRunning(shown) == \E j \in RunJobs : shown[j].running

\* (mutant of Rendered) the effect arms the timer only when it is not waiting for an answer
RenderedOnce == timer' = (timer /\ AnyRunning(active'))

\* The page has rendered: its effects clear the timer and arm it for the runs shown.
Rendered == timer' = AnyRunning(active')

\* (mutant of Say) the error of a poll is swallowed
SayNothing(text) == UNCHANGED <<message, timer>>

\* setError, when nothing else changes: the same text renders nothing.
Say(text) ==
  /\ message' = text
  /\ IF text = message THEN UNCHANGED timer ELSE Rendered

\* (mutant of Merge) an entry that runs gives way to a row that has ended
MergeAlways(shown, items) ==
  [j \in RunJobs |-> IF items[j].running THEN items[j] ELSE NoEntry]

\* mergeActiveRunsFromJobs
Merge(shown, items) ==
  [j \in RunJobs |->
     IF shown[j] = NoEntry THEN IF items[j].running THEN items[j] ELSE NoEntry
     ELSE IF shown[j].running \/ items[j].run = NoRun THEN shown[j] ELSE NoEntry]

\* loadJobs up to its request.
LoadJobs(then) == Await("list", then)

\* pollActiveRunsOnce up to its requests, one for each run that is shown running.
PollActiveRunsOnce(shown, then) ==
  IF AnyRunning(shown)
  THEN [Await("poll", then) EXCEPT
          !.asked = [j \in RunJobs |-> IF shown[j].running THEN shown[j].run ELSE NoRun],
          !.got = [j \in RunJobs |-> IF shown[j].running THEN "wait" ELSE "none"]]
  ELSE Idle

-----------------------------------------------------------------------------
(* The server: see RunLifecycle for what is behind it. *)

LastStatus(j) == IF lastRun[j] = NoRun THEN "none" ELSE history[lastRun[j]]
Snapshot == [j \in RunJobs |-> [run |-> lastRun[j], running |-> LastStatus(j) = "running"]]

StartRun(j, r) ==
  /\ history[r] = "none" /\ \A q \in RunIds : q < r => history[q] # "none"
  /\ LastStatus(j) # "running"
  /\ history' = [history EXCEPT ![r] = "running"] /\ lastRun' = [lastRun EXCEPT ![j] = r]

EndRun(r) == history' = [history EXCEPT ![r] = "ended"] /\ UNCHANGED lastRun

\* The scheduler starts a run of a job that is due.
SchedulerStarts ==
  /\ \E j \in RunJobs, r \in RunIds : StartRun(j, r)
  /\ UNCHANGED <<rows, active, timer, message, tasks, faults>>

RunEnds ==
  /\ \E r \in RunIds : history[r] = "running" /\ EndRun(r)
  /\ UNCHANGED <<rows, active, timer, message, tasks, faults>>

\* delete_runs_for_job: the runs are removed with their job.
RunIsPurged ==
  /\ \E j \in RunJobs :
       /\ lastRun[j] # NoRun
       /\ history' = [history EXCEPT ![lastRun[j]] = "gone"] /\ lastRun' = [lastRun EXCEPT ![j] = NoRun]
  /\ UNCHANGED <<rows, active, timer, message, tasks, faults>>

Fails == faults < MaxFaults /\ faults' = faults + 1

\* GET /runs/{id}
ServeRun(t) ==
  /\ tasks[t].at = "poll"
  /\ \E j \in RunJobs :
       /\ tasks[t].got[j] = "wait"
       /\ \/ tasks' = [tasks EXCEPT ![t].got[j] = history[tasks[t].asked[j]]] /\ UNCHANGED faults
          \/ tasks' = [tasks EXCEPT ![t].got[j] = "error"] /\ Fails
  /\ UNCHANGED <<server, rows, active, timer, message>>

\* GET /jobs
ServeList(t) ==
  /\ tasks[t].at = "list" /\ tasks[t].answer = "wait"
  /\ \/ tasks' = [tasks EXCEPT ![t].answer = "ok", ![t].rows = Snapshot] /\ UNCHANGED faults
     \/ tasks' = [tasks EXCEPT ![t].answer = "error"] /\ Fails
  /\ UNCHANGED <<server, rows, active, timer, message>>

\* POST /jobs/{id}/run-now; a job that runs is not started again.
ServeStart(t) ==
  /\ tasks[t].at = "start" /\ tasks[t].answer = "wait"
  /\ \/ \E r \in RunIds :
          StartRun(tasks[t].job, r) /\ tasks' = [tasks EXCEPT ![t].answer = "ok", ![t].run = r]
     \/ tasks' = [tasks EXCEPT ![t].answer = "error"] /\ UNCHANGED server
  /\ UNCHANGED <<rows, active, timer, message, faults>>

\* POST /runs/{id}/cancel: it waits two seconds for the end of the run.
ServeStop(t) ==
  LET r == tasks[t].run IN
  /\ tasks[t].at = "stop" /\ tasks[t].answer = "wait"
  /\ \/ history[r] = "running" /\ EndRun(r)
     \/ UNCHANGED server
  /\ tasks' = [tasks EXCEPT ![t].answer = IF history[r] = "gone" THEN "error" ELSE "ok"]
  /\ UNCHANGED <<rows, active, timer, message, faults>>

-----------------------------------------------------------------------------
(* The page. *)

\* The timer fires.
TimerFires ==
  /\ timer /\ Free # {}
  /\ tasks' = [tasks EXCEPT ![Min(Free)] = PollActiveRunsOnce(active, "none")]
  /\ timer' = FALSE
  /\ UNCHANGED <<server, rows, active, message, faults>>

\* (mutant of Polled) an answer "not found" leaves the entry
PolledKeepsStale(shown, poll) ==
  [j \in RunJobs |->
     IF poll.got[j] \in {"none", "gone"} THEN shown[j]
     ELSE [run |-> poll.asked[j], running |-> poll.got[j] = "running"]]

\* The answers of a poll are stored under their jobs; a run that is gone is dropped.
Polled(shown, poll) ==
  [j \in RunJobs |->
     CASE poll.got[j] = "none" -> shown[j]
       [] poll.got[j] = "gone" -> NoEntry
       [] OTHER -> [run |-> poll.asked[j], running |-> poll.got[j] = "running"]]

\* Every request of a poll has an answer (Promise.all): one that failed discards
\* the others; else the list is loaded again.
PollLands(t) ==
  LET poll == tasks[t]
      failed == \E j \in RunJobs : poll.got[j] = "error"
  IN
  /\ poll.at = "poll" /\ \A j \in RunJobs : poll.got[j] # "wait"
  /\ \/ /\ failed
        /\ tasks' = [tasks EXCEPT ![t] = Idle]
        /\ UNCHANGED active
        /\ IF poll.then = "quiet" THEN UNCHANGED <<message, timer>> ELSE Say("network")
     \/ /\ ~failed
        /\ tasks' = [tasks EXCEPT ![t] = LoadJobs("none")]
        /\ active' = Polled(active, poll)
        /\ message' = "" /\ Rendered
  /\ UNCHANGED <<server, rows, faults>>

\* loadJobs after its answer, and the poll a start or stop has asked for after it.
RowsLand(t) ==
  LET list == tasks[t] IN
  /\ list.at = "list" /\ list.answer # "wait"
  /\ \/ /\ list.answer = "ok"
        /\ rows' = list.rows /\ active' = Merge(active, list.rows)
        /\ UNCHANGED message
     \/ /\ list.answer = "error"
        /\ rows' = Nothing /\ message' = "network"
        /\ UNCHANGED active
  /\ tasks' = [tasks EXCEPT ![t] =
                 IF list.then = "none" THEN Idle ELSE PollActiveRunsOnce(active', list.then)]
  /\ Rendered
  /\ UNCHANGED <<server, faults>>

\* The user acts; the bound keeps one task for the timer.
UserStarts(task) ==
  /\ Cardinality(Free) > 1
  /\ tasks' = [tasks EXCEPT ![Min(Free)] = task]
  /\ UNCHANGED <<server, rows, active, faults>>

\* The user searches, turns the page or changes the status: refreshJobs.
ReloadList == UserStarts(LoadJobs("none")) /\ message' = "" /\ Rendered

\* The buttons of the workspace: handleRunNow, handleStopRun.
RunNow ==
  \E j \in RunJobs :
    /\ ~active[j].running
    /\ UserStarts([Await("start", "loud") EXCEPT !.job = j])
    /\ Say("")

StopRun ==
  \E j \in RunJobs :
    /\ active[j].running
    /\ UserStarts([Await("stop", "quiet") EXCEPT !.job = j, !.run = active[j].run])
    /\ Say("")

\* The answer: markJobRunStarted, then the list, then a poll.
CommandLands(t) ==
  LET command == tasks[t] IN
  /\ command.at \in {"start", "stop"} /\ command.answer # "wait"
  /\ \/ /\ command.answer = "error"
        /\ tasks' = [tasks EXCEPT ![t] = Idle]
        /\ UNCHANGED active /\ Say("refused")
     \/ /\ command.answer = "ok"
        /\ tasks' = [tasks EXCEPT ![t] = LoadJobs(command.then)]
        /\ active' = IF command.at = "stop" THEN active
                     ELSE [active EXCEPT ![command.job] = [run |-> command.run, running |-> TRUE]]
        /\ message' = "" /\ Rendered
  /\ UNCHANGED <<server, rows, faults>>

ServeTask(t) == ServeRun(t) \/ ServeList(t) \/ ServeStart(t) \/ ServeStop(t)
TaskLands(t) == PollLands(t) \/ RowsLand(t) \/ CommandLands(t)

RunsNext ==
  \/ SchedulerStarts \/ RunEnds \/ RunIsPurged
  \/ TimerFires \/ ReloadList \/ RunNow \/ StopRun
  \/ \E t \in Slots : ServeTask(t) \/ TaskLands(t)

(***************************************************************************)
(* Fairness: the timer fires, and every request is answered, with an error *)
(* if need be.  Nothing is assumed of the runs or of the user.             *)
(***************************************************************************)
RunsFairness == WF_runVars(TimerFires) /\ \A t \in Slots : WF_runVars(ServeTask(t) \/ TaskLands(t))

-----------------------------------------------------------------------------
(* Properties *)

ShownRunning(j, r) == active[j] = [run |-> r, running |-> TRUE]

\* When a run the page shows running has ended or is gone, the page stops to
\* show it running, or it says that something went wrong: whatever polls, lists
\* and commands overlap, the timer is armed again until then
\* (useJobsRunState.ts, pollActiveRunsOnce and the effect that arms the timer).
RunEndShownOrSaid ==
  \A j \in RunJobs, r \in RunIds :
    (ShownRunning(j, r) /\ history[r] # "running") ~> (~ShownRunning(j, r) \/ message # "")

\* The same without the excuse: after two polls that failed with the same text
\* the page no longer polls, although the server answers again.
RunEndShown ==
  \A j \in RunJobs, r \in RunIds :
    (ShownRunning(j, r) /\ history[r] # "running") ~> ~ShownRunning(j, r)

\* A run the list shows running is followed: once no answer is awaited, the
\* page holds an entry of the job for the timer to poll.
ListedRunIsFollowed == Free = Slots => \A j \in RunJobs : rows[j].running => active[j].running

=============================================================================
