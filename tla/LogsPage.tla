------------------------------ MODULE LogsPage ------------------------------
(***************************************************************************)
(* The logs page of the web UI, pages/LogsPage.tsx: load, the timer that   *)
(* repeats it while a run is shown running, the selected run, and          *)
(* handleStopRun.                                                          *)
(*                                                                         *)
(* The effect that arms the timer of one second depends on runs only:      *)
(* every answer that sets runs clears the timer and arms it anew, an error *)
(* that leaves the runs as they are does not.  A load asks for the runs    *)
(* and the logs together and fails when one of them does; the logs and the *)
(* text "loading" are left out.                                            *)
(***************************************************************************)
EXTENDS Naturals, FiniteSets, FiniteSetsExt

CONSTANTS
  MaxLogged,     \* bound: runs of the history
  MaxLoads,      \* bound: handlers that wait for an answer
  MaxLogFaults   \* bound: requests that fail

LoggedIds == 1..MaxLogged
NoLogged == 0

ASSUME LogsAssumption == MaxLogged \in Nat \ {0} /\ MaxLoads \in Nat \ {0} /\ MaxLogFaults \in Nat

VARIABLES
  logged,      \* the status of each run at the server
  runs,        \* the runs as the page shows them
  chosen,      \* selectedRunId
  stopping,    \* stoppingRunId
  logsTimer,   \* whether the timer is armed
  logsError,   \* whether an error is shown
  loads,       \* the handlers that wait for an answer
  logFaults    \* requests that have failed so far

logsVars == <<logged, runs, chosen, stopping, logsTimer, logsError, loads, logFaults>>
page == <<runs, chosen, stopping, logsTimer, logsError>>

NoRuns == [r \in LoggedIds |-> "none"]
Listed(list) == {r \in LoggedIds : list[r] # "none"}
ShowsRunning(list) == \E r \in LoggedIds : list[r] = "running"

\* A handler at an await: a load (whether it keeps the runs when it fails), or
\* the cancel of a run before its load.
NoLoad == [at |-> "none", keeps |-> FALSE, run |-> NoLogged, answer |-> "wait", list |-> NoRuns]
LoadSlots == 1..MaxLoads
FreeLoads == {l \in LoadSlots : loads[l] = NoLoad}
LoadOf(keeps, r) == [NoLoad EXCEPT !.at = "load", !.keeps = keeps, !.run = r]

LogsInit ==
  /\ logged \in {[r \in LoggedIds |-> IF r = 1 THEN s ELSE "none"] : s \in {"none", "running"}}
  /\ runs = NoRuns /\ chosen = NoLogged /\ stopping = NoLogged
  /\ logsTimer = FALSE /\ logsError = FALSE /\ logFaults = 0
  /\ loads = [l \in LoadSlots |-> IF l = 1 THEN LoadOf(FALSE, NoLogged) ELSE NoLoad]

-----------------------------------------------------------------------------
LoggedStarts ==
  /\ \E r \in LoggedIds :
       /\ logged[r] = "none" /\ \A q \in LoggedIds : q < r => logged[q] # "none"
       /\ logged' = [logged EXCEPT ![r] = "running"]
  /\ UNCHANGED <<page, loads, logFaults>>

LoggedEnds ==
  /\ \E r \in LoggedIds : logged[r] = "running" /\ logged' = [logged EXCEPT ![r] = "ended"]
  /\ UNCHANGED <<page, loads, logFaults>>

LogFails == logFaults < MaxLogFaults /\ logFaults' = logFaults + 1

\* GET /runs and GET /logs/runtime
ServeLoad(l) ==
  /\ loads[l].at = "load" /\ loads[l].answer = "wait"
  /\ \/ loads' = [loads EXCEPT ![l].answer = "ok", ![l].list = logged] /\ UNCHANGED logFaults
     \/ loads' = [loads EXCEPT ![l].answer = "error"] /\ LogFails
  /\ UNCHANGED <<logged, page>>

\* POST /runs/{id}/cancel; the run may end later.
ServeLogCancel(l) ==
  LET r == loads[l].run IN
  /\ loads[l].at = "cancel" /\ loads[l].answer = "wait"
  /\ \/ /\ loads' = [loads EXCEPT ![l].answer = "ok"] /\ UNCHANGED logFaults
        /\ \/ logged[r] = "running" /\ logged' = [logged EXCEPT ![r] = "ended"]
           \/ UNCHANGED logged
     \/ loads' = [loads EXCEPT ![l].answer = "error"] /\ LogFails /\ UNCHANGED logged
  /\ UNCHANGED page

-----------------------------------------------------------------------------
Asks(load) ==
  /\ loads' = [loads EXCEPT ![Min(FreeLoads)] = load]
  /\ logsError' = FALSE
  /\ UNCHANGED <<logged, logFaults>>

\* The button "refresh": a load that empties the page when it fails.
RefreshLogs ==
  /\ Cardinality(FreeLoads) > 1
  /\ Asks(LoadOf(FALSE, NoLogged)) /\ UNCHANGED <<runs, chosen, stopping, logsTimer>>

LogsTimerFires ==
  /\ logsTimer /\ FreeLoads # {}
  /\ logsTimer' = FALSE
  /\ Asks(LoadOf(TRUE, NoLogged)) /\ UNCHANGED <<runs, chosen, stopping>>

ChooseRun == \E r \in Listed(runs) : chosen' = r /\ UNCHANGED <<logged, runs, stopping, logsTimer, logsError, loads, logFaults>>

\* The button "stop" of the selected run, disabled while that run is being stopped.
HandleStopRun ==
  /\ chosen # NoLogged /\ runs[chosen] = "running" /\ stopping # chosen
  /\ Cardinality(FreeLoads) > 1
  /\ stopping' = chosen
  /\ Asks([NoLoad EXCEPT !.at = "cancel", !.run = chosen]) /\ UNCHANGED <<runs, chosen, logsTimer>>

\* The cancel is answered: the handler loads, or says what went wrong.
CancelAnswered(l) ==
  LET cancel == loads[l] IN
  /\ cancel.at = "cancel" /\ cancel.answer # "wait"
  /\ \/ /\ cancel.answer = "ok"
        /\ loads' = [loads EXCEPT ![l] = LoadOf(TRUE, cancel.run)]
        /\ logsError' = FALSE /\ UNCHANGED stopping
     \/ /\ cancel.answer = "error"
        /\ loads' = [loads EXCEPT ![l] = NoLoad]
        /\ logsError' = TRUE /\ stopping' = NoLogged
  /\ UNCHANGED <<logged, runs, chosen, logsTimer, logFaults>>

\* (mutant of RunsSet) the timer is armed when the first run is shown running, not by every answer
RunsSetOnce(list) ==
  runs' = list /\ logsTimer' = (ShowsRunning(list) /\ (logsTimer \/ ~ShowsRunning(runs)))

\* setRuns, and the effect that depends on it.
RunsSet(list) == runs' = list /\ logsTimer' = ShowsRunning(list)

\* load after its answer: the newest run is selected when the selected one is
\* gone.  A load of handleStopRun ends the stopping.
LoadAnswered(l) ==
  LET load == loads[l] IN
  /\ load.at = "load" /\ load.answer # "wait"
  /\ loads' = [loads EXCEPT ![l] = NoLoad]
  /\ stopping' = IF load.run = NoLogged THEN stopping ELSE NoLogged
  /\ \/ /\ load.answer = "ok"
        /\ RunsSet(load.list)
        /\ chosen' = IF chosen \in Listed(load.list) THEN chosen
                     ELSE IF Listed(load.list) = {} THEN NoLogged ELSE Max(Listed(load.list))
        /\ UNCHANGED logsError
     \/ /\ load.answer = "error" /\ logsError' = TRUE
        /\ IF load.keeps THEN UNCHANGED <<runs, chosen, logsTimer>>
           ELSE RunsSet(NoRuns) /\ chosen' = NoLogged
  /\ UNCHANGED <<logged, logFaults>>

LoadMoves(l) == ServeLoad(l) \/ ServeLogCancel(l) \/ CancelAnswered(l) \/ LoadAnswered(l)

LogsNext ==
  \/ LoggedStarts \/ LoggedEnds
  \/ RefreshLogs \/ LogsTimerFires \/ ChooseRun \/ HandleStopRun
  \/ \E l \in LoadSlots : LoadMoves(l)

(***************************************************************************)
(* Fairness: the timer fires, and every request is answered, with an error *)
(* if need be.  Nothing is assumed of the runs or of the user.             *)
(***************************************************************************)
LogsFairness == WF_logsVars(LogsTimerFires) /\ \A l \in LoadSlots : WF_logsVars(LoadMoves(l))

-----------------------------------------------------------------------------
(* Properties *)

\* When a run the page shows running has ended, the page stops to show it
\* running, or it says that something went wrong: whatever loads and stops
\* overlap, the timer goes on until then (LogsPage.tsx, load and the effect on
\* runs).  Without the excuse it does not hold: one load of the timer that
\* fails leaves no timer behind.
LoggedEndShownOrSaid ==
  \A r \in LoggedIds :
    (runs[r] = "running" /\ logged[r] # "running") ~> (runs[r] # "running" \/ logsError)

=============================================================================
