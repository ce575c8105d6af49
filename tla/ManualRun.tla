------------------------------ MODULE ManualRun ------------------------------
(***************************************************************************)
(* How the manual search page of the web UI follows the run it started:    *)
(* onRun, onStopRun, finishManualRun and the polling effect of             *)
(* pages/manual/useManualSearchPageState.tsx, the buttons of               *)
(* ManualSearchPageHeader.tsx, and the progress of runProgress.ts.         *)
(*                                                                         *)
(* The effect depends on loading and on the run and the status of the      *)
(* progress: when one of them changes, the poll of the old effect is       *)
(* cancelled (its answer will be ignored, its timer is cleared), and a     *)
(* page that loads a running run begins a new one.  So there is one poll   *)
(* that matters at any time.  Messages, percentages and times are left     *)
(* out; a run that succeeded has its result (see RunLifecycle), and no     *)
(* manual run is ever deleted.                                             *)
(***************************************************************************)
EXTENDS Naturals, FiniteSets

CONSTANTS
  MaxManualRuns,   \* bound: runs the page ever starts
  MaxCommands      \* bound: handlers of its buttons that wait for an answer

ManualRunIds == 1..MaxManualRuns
NoManualRun == 0
Ended == {"success", "failed", "cancelled"}

ASSUME ManualRunAssumption == MaxManualRuns \in Nat \ {0} /\ MaxCommands \in Nat \ {0}

VARIABLES
  manualRuns,   \* the status of each run at the server
  progress,     \* runProgress: the run and its status
  loading,      \* whether the page says that it executes
  result,       \* the run whose result is shown
  execution,    \* lastExecution: the run and its status
  poll,         \* the poll of the effect: off, asked, an answer, or its timer
  commands      \* the handlers that wait for an answer

manualVars == <<manualRuns, progress, loading, result, execution, poll, commands>>
shown == <<progress, loading, result, execution>>

Progress(r, status) == [run |-> r, status |-> status]

\* A handler at an await: a start, or a stop that cancels its run and then gets it.
NoCommand == [at |-> "none", run |-> NoManualRun, answer |-> "wait"]
CommandSlots == 1..MaxCommands
FreeCommands == {c \in CommandSlots : commands[c] = NoCommand}

ManualInit ==
  /\ manualRuns = [r \in ManualRunIds |-> "none"]
  /\ progress = Progress(NoManualRun, "idle") /\ execution = progress
  /\ loading = FALSE /\ result = NoManualRun
  /\ poll = "off"
  /\ commands = [c \in CommandSlots |-> NoCommand]

-----------------------------------------------------------------------------
(* The server: see RunLifecycle for what is behind it. *)

ManualRunEnds ==
  /\ \E r \in ManualRunIds, status \in {"success", "failed"} :
       manualRuns[r] = "running" /\ manualRuns' = [manualRuns EXCEPT ![r] = status]
  /\ UNCHANGED <<shown, poll, commands>>

\* GET /runs/{id} for the poll
ServePoll ==
  /\ poll = "asked"
  /\ poll' \in {manualRuns[progress.run], "error"}
  /\ UNCHANGED <<manualRuns, shown, commands>>

\* POST /manual/run/start; it is refused when no slot is free.
ServeManualStart(c) ==
  /\ commands[c].at = "start" /\ commands[c].answer = "wait"
  /\ \/ \E r \in ManualRunIds :
          /\ manualRuns[r] = "none" /\ \A q \in ManualRunIds : q < r => manualRuns[q] # "none"
          /\ manualRuns' = [manualRuns EXCEPT ![r] = "running"]
          /\ commands' = [commands EXCEPT ![c].answer = "ok", ![c].run = r]
     \/ UNCHANGED manualRuns /\ commands' = [commands EXCEPT ![c].answer = "error"]
  /\ UNCHANGED <<shown, poll>>

\* POST /runs/{id}/cancel: it waits two seconds for the end of the run, which
\* may come later.  The handler then asks for the run.
ServeCancel(c) ==
  LET r == commands[c].run IN
  /\ commands[c].at = "cancel" /\ commands[c].answer = "wait"
  /\ \/ /\ commands' = [commands EXCEPT ![c].at = "get"]
        /\ \/ manualRuns[r] = "running" /\ manualRuns' = [manualRuns EXCEPT ![r] = "cancelled"]
           \/ UNCHANGED manualRuns
     \/ commands' = [commands EXCEPT ![c].answer = "error"] /\ UNCHANGED manualRuns
  /\ UNCHANGED <<shown, poll>>

\* GET /runs/{id} for a stop
ServeGet(c) ==
  /\ commands[c].at = "get" /\ commands[c].answer = "wait"
  /\ \E answer \in {manualRuns[commands[c].run], "error"} :
       commands' = [commands EXCEPT ![c].answer = answer]
  /\ UNCHANGED <<manualRuns, shown, poll>>

-----------------------------------------------------------------------------
(* The page. *)

\* The polling effect after a step that has set the states of the page.
PollingEffect ==
  IF loading' /\ progress'.run # NoManualRun /\ progress'.status = "running"
  THEN poll' = IF <<loading, progress>>' = <<loading, progress>> THEN poll ELSE "asked"
  ELSE poll' = "off"

\* finishManualRun: the page stops to load, whatever the status of the run is.
FinishManualRun(r, status) ==
  /\ progress' = Progress(r, status) /\ loading' = FALSE
  /\ IF status = "success"
     THEN result' = r /\ execution' = Progress(r, "success")
     ELSE result' = NoManualRun
          /\ execution' = Progress(r, IF status = "cancelled" THEN "cancelled" ELSE "failed")
  /\ PollingEffect

\* (mutant of PollFails) the error of a poll is only said
PollFailureSaid == UNCHANGED shown /\ poll' = "off"

\* A poll that fails ends the loading.
PollFails ==
  /\ loading' = FALSE /\ progress' = [progress EXCEPT !.status = "failed"]
  /\ execution' = Progress(progress.run, "failed")
  /\ UNCHANGED result
  /\ PollingEffect

\* pollRun after its answer.
PollAnswered ==
  /\ \/ poll = "running" /\ poll' = "timer" /\ UNCHANGED shown
     \/ poll \in Ended /\ FinishManualRun(progress.run, poll)
     \/ poll = "error" /\ PollFails
  /\ UNCHANGED <<manualRuns, commands>>

\* The timer of 300 ms.
PollAgain == poll = "timer" /\ poll' = "asked" /\ UNCHANGED <<manualRuns, shown, commands>>

Waits(command) ==
  /\ FreeCommands # {}
  /\ commands' = [commands EXCEPT ![CHOOSE c \in FreeCommands : TRUE] = command]

\* The button "run" (disabled while the page loads).
OnRun ==
  /\ ~loading
  /\ Waits([NoCommand EXCEPT !.at = "start"])
  /\ loading' = TRUE /\ result' = NoManualRun
  /\ progress' = Progress(NoManualRun, "running")
  /\ UNCHANGED <<manualRuns, execution>>
  /\ PollingEffect

StartAnswered(c) ==
  LET start == commands[c] IN
  /\ start.at = "start" /\ start.answer # "wait"
  /\ commands' = [commands EXCEPT ![c] = NoCommand]
  /\ \/ /\ start.answer = "ok"
        /\ progress' = Progress(start.run, "running")
        /\ UNCHANGED <<loading, execution>>
     \/ /\ start.answer = "error"
        /\ loading' = FALSE /\ progress' = Progress(NoManualRun, "failed") /\ execution' = progress'
  /\ UNCHANGED <<manualRuns, result>>
  /\ PollingEffect

\* The button "stop": shown while the progress is that of a running run.
OnStopRun ==
  /\ progress.status = "running" /\ progress.run # NoManualRun
  /\ Waits([NoCommand EXCEPT !.at = "cancel", !.run = progress.run])
  /\ UNCHANGED <<manualRuns, shown, poll>>

StopAnswered(c) ==
  LET stop == commands[c] IN
  /\ stop.at \in {"cancel", "get"} /\ stop.answer # "wait"
  /\ commands' = [commands EXCEPT ![c] = NoCommand]
  /\ IF stop.answer = "error" THEN UNCHANGED <<shown, poll>> ELSE FinishManualRun(stop.run, stop.answer)
  /\ UNCHANGED manualRuns

PollMoves == ServePoll \/ PollAnswered \/ PollAgain
CommandMoves(c) ==
  ServeManualStart(c) \/ ServeCancel(c) \/ ServeGet(c) \/ StartAnswered(c) \/ StopAnswered(c)

ManualNext ==
  \/ ManualRunEnds \/ OnRun \/ OnStopRun
  \/ PollMoves \/ \E c \in CommandSlots : CommandMoves(c)

(***************************************************************************)
(* Fairness: the timer fires, and every request is answered, with an error *)
(* if need be.  Nothing is assumed of the runs or of the user.             *)
(***************************************************************************)
ManualFairness == WF_manualVars(PollMoves) /\ \A c \in CommandSlots : WF_manualVars(CommandMoves(c))

-----------------------------------------------------------------------------
(* Properties *)

RunGoesOn == progress.run # NoManualRun /\ manualRuns[progress.run] = "running"

\* The page does not say for ever that it executes, with its button disabled,
\* when there is no run or the run has ended: whatever polls, starts and late
\* answers of stops overlap, one of them ends the loading (the polling effect
\* and finishManualRun of useManualSearchPageState.tsx).
ManualLoadingEnds == (loading /\ ~RunGoesOn) ~> (~loading \/ RunGoesOn)

\* The page that says "this execution has ended" (ManualSearchPageHeader.tsx)
\* shows no running run.  It does not hold: one poll that fails is taken for a
\* failure of the run, and a stop that gives up after two seconds as well.
FailedHasEnded == execution.status = "failed" /\ execution.run # NoManualRun
                    => manualRuns[execution.run] # "running"

\* A result on the page is that of the last execution.  It does not hold: the
\* answer of a stop may come when the next run is being started, which fails.
ResultOfLastExecution == result # NoManualRun => execution = Progress(result, "success")

=============================================================================
