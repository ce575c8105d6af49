# XData collector: a verification project

TLA+ models, TLC runs and TLAPS proofs for the X/Twitter data collector of this
repository: a Python backend (an HTTP API process and a scheduler process over
shared files and an SQLite database) and a React workbench.

- [1. The system](#1-the-system): components, state, operations, interactions
- [2. Modules](#2-modules)
- [3. What the runs show](#3-what-the-runs-show)
- [4. What is proved](#4-what-is-proved)
- [5. Where the code disagrees with its documents and tests](#5-where-the-code-disagrees-with-its-documents-and-tests)
- [6. What is not modelled](#6-what-is-not-modelled)
- [7. Plan](#7-plan)

## 1. The system

Two long-lived processes hold each a `DesktopService` of their own: the API
(`run/api.py`, one thread per request) and the scheduler (`run/scheduler.py`,
one tick every 30 seconds). They share no memory, only files: `config/`
(workspace and task packs), `runtime/` (run history, sequence numbers, health
snapshot) and `data/app.db`. Every file is guarded by a lock of its own
(`_exclusive_lock`: a re-entrant thread lock per path, then `flock` with a
timeout of ten seconds).

| Component | State | Operations | What makes it correct |
| --- | --- | --- | --- |
| Run lifecycle, `runs.py` (`RunMixin`) | per process: semaphore of 4 background slots, table of cancel events, table of background threads | `run_job_now`, `start_manual_run`, `cancel_run`, `get_run`, `list_runs`, the background threads, shutdown and join | slots are conserved; every run ends; an ended run stays ended; a closed run has no thread; status and stored results agree |
| Run history, `workspace_store.py` (`RuntimeStateStore`) | `search_runs.jsonl`, `sequences.json` | `create_run`, `update_run_progress`, `finish_run`, `get_run`, `list_runs`, `delete_runs_for_job` | ids are unique; no update is lost; a deleted row stays deleted |
| Job registry and scheduling, `jobs.py` (`JobMixin`) | jobs in `workspace.json`: enabled, deleted, interval, next run | create, update, toggle, delete, restore, purge, batch, `tick`, `_schedule_job_next_run` | an enabled job is scheduled and is run; a disabled or deleted job is not started; ids are not reused |
| Workspace and packs, `workspace_store.py` (`WorkspaceStore`, `TaskPackStore`) | `workspace.json`, `packs/*.json`, a cache per process | `get_workspace`, `update_workspace`, `mutate_workspace`, pack operations, rollback | a change of several files happens wholly or not at all; a registered job has its pack |
| Rule sets and packs, `rules_taskpacks.py` | packs whose rule set has an id | create, update, delete, clone | a rule set in use is not deleted |
| Items, `items.py`, `collector_store.py`, `source_identity.py` | tables `x_items_raw`, `x_items_curated` | store, list, filter, delete, dedupe | dedupe keeps one row per source and loses none |
| Search specification and rules, `collector_rules.py` | none (pure) | query plan, time slices, rule evaluation | the slices cover the window once; levels follow the rules |
| Search client, `twitter_cli.py` | a child process | search, fallback, enrichment, cancellation, timeout | a cancelled search stops; a failed one falls back |
| Health, `health.py` | snapshot file, probe cache | `health`, `health_snapshot` | the snapshot keeps the last success |
| Service manager, `services.py` | pid files, processes | start, stop, restart, status, adopt | a failed start is rolled back; stop reaches the process |
| Job pages, `web-ui/src/pages/jobs` | rows and page of the list, ticks, runs being followed, open job, draft, task pack in hand, one timer | list, search, tick, batch, run, stop, poll, open, save, delete, restore, import and save packs | what is acted on is what is shown; the end of a run is noticed; draft, pack and job belong together |
| Manual search page, `pages/manual` | draft, pack in hand, run, progress, result, one poll | run, stop, poll, import, save, delete packs | loading ends; a draft that is "not modified" is what the server has |
| Results page, `pages/results` | table, page, sort, keyword, filter tree, selection, requests in flight | load, fallback, select, delete, dedupe, switch, reopen | a late response never replaces a newer one; what is deleted is what is shown |
| Logs page, `pages/LogsPage.tsx` | runs, selected run, one timer | load, repeat, stop | the end of a run is noticed |
| Editors, columns, panes | filter tree, search specification, rules and their text inputs, widths | edits, drags, storage and back | what is saved is read back the same; texts show their values |
| Window, dashboard, settings, `App.tsx` | active page, hash, theme, snapshot, token, settings text; local and session storage | navigate, toggle, load, apply, save, import, reload | a reload shows what was shown; the settings page shows the server's document |

Interactions: the API and the scheduler call the same `RunMixin` methods; a run
is a thread of the process that started it; the other process sees it only as a
row of the history. Cancelling goes through an event in the memory of the
executing process. A thread that succeeds writes the next run time of its job
into the workspace. The UI polls the history; its handlers are callbacks of one
thread that continue after every `await` with the state of the render they were
made in.

Hard behaviours: several threads and two processes over files, with sections of
code under a lock and gaps between them; processes killed at any point and
restarted under a new (or the same) pid; locks that time out, writes that fail;
cancellation and shutdown against work in progress; purging what is executing; in
the UI, answers that are late, overtaken or errors, timers that are armed again
only by a render, and state that is a render old.
`PROJECT.json` lists each of them at its line under "hazards".

## 2. Modules

| Module | Models | Uses |
| --- | --- | --- |
| `RunLifecycle` | the life of a run in every process | - |
| `JobSchedule` | the registry of jobs, the tick, users' requests | a run is a thread that occupies a slot; its details are in `RunLifecycle` |
| `Configuration` | what the configuration files promise: atomic operations on jobs, packs and rule sets | - |
| `ConfigFiles` | the files, their lock, rollback, crash and cache | extends `Configuration` and implements it |
| `JobRuns` | how the jobs page follows runs | the server is what `RunLifecycle` lets a reader see |
| `JobWorkspace` | the open job, its draft, the pack in hand | - |
| `JobSelection` | the list of jobs, its ticks and batches | - |
| `ManualRun`, `ManualDraft` | the manual search page: its run, its draft and pack | - |
| `LogsPage` | the logs page and its timer | - |
| `ResultsPage` | the results page and the items behind it | a filter tree is a value of it |
| `FilterTree`, `SpecDraft`, `RuleDraft`, `TableColumns`, `SplitPane` | the editors of the UI | - |
| `Workbench` | what the window keeps in the browser | - |
| `SettingsEditor` | the editor of the workspace document and its requests | the server is one document |
| `MCRunLifecycle`, `MCJobSchedule`, `MCConfigFiles`, `MCResultsPage`, `MCJobSelection` | values of constants; which process a caller lives in, symmetry | the module they check |
| `MCPages` | `JobRuns`, `ManualRun`, `LogsPage` side by side | extends the three |
| `MCWorkspaces` | `JobWorkspace`, `JobSelection`, `ManualDraft`, `Workbench` side by side | extends the four |
| `MCEditors` | `FilterTree`, `SpecDraft`, `RuleDraft`, `SettingsEditor`, `TableColumns`, `SplitPane` side by side | extends the six |
| `RunSlots_proofs`, `RunHistory_proofs`, `RunOwners_proofs` | theorems about `RunLifecycle`, section 4 | each extends the one before |
| `JobSchedule_proofs`, `ConfigFiles_proofs`, `ResultsPage_proofs`, `FilterTree_proofs` | theorems, section 4 | the module they are about |
| `Workspaces_proofs` | theorems about the modules of `MCWorkspaces` and, but for `FilterTree`, of `MCEditors` | extends the nine |

`MCPages`, `MCWorkspaces` and `MCEditors` put together parts that share no
variable: what one sees of the others (a run starts, a list changes) is a step
of its own module that may come at any time. A behaviour is therefore one of one
part, chosen in the initial state, and the others rest; the state space is the
sum of theirs and not the product, and no behaviour of a part is lost.

Operators marked `(mutant of ...)` are plausible mistakes in the operator they
name. No specification uses them: replacing the original by one shows that a
property can fail.

### RunLifecycle

The life of a run in every process, over the shared history
(`RunMixin` and `RuntimeStateStore`). One step is one section of code under one
lock, of a file or of an in-memory table; everything between interleaves.

| Variable | Code |
| --- | --- |
| `seq` | `run_id` of `sequences.json` |
| `row`, `info` | the lines of `search_runs.jsonl`; `info` holds `job_id` and `owner_pid`, which never change. `note` tells who wrote the last status, as `error_text` does |
| `saved` | what a run has committed to the database: nothing, raw, or raw and curated results |
| `mode`, `pid`, `used` | a process is down, up, or stopping after a signal; its pid; the pids handed out so far |
| `slots` | `_run_slot_limit` of each process |
| `leaked` | history: permits no code path will give back |
| `event` | `_run_cancel_events` of each process |
| `call` | a request thread, or the scheduler's main thread: its position in `run_job_now`, `start_manual_run`, `cancel_run`, a read of the history, or a purge |
| `work` | the background thread of each run: its position, process, outcome |

A caller's actions follow the call: `StartJob`, `CancelRun`, `Read` take their
one look at the history; `ScanAlive`, `ScanOrphan`, `CloseOrphan`, `Reread`
walk through the running rows read, newest first, as
`_reconcile_orphaned_run` does; `Acquire`, `Alloc`, `Append`, `Register`,
`Launch` start a run, and `CreateRaises`, `LaunchRaises`, `FailGet`,
`FailFinish`, `FailFinishRaises`, `Release` are the except clause;
`CancelSignal`, `CancelNoEvent`, `CancelForce` cancel; `PurgeLoad`, `PurgeSave`
are the two sections of `delete_runs_for_job`. A thread's actions follow
`_execute_manual_run` and the wrappers around it, from `Plan` to `Cleanup`.
Processes start, crash, are told to stop, lose their loop (`TickRaises`) and exit.

`StoreFaults` lets any access to the history raise (a lock that timed out, a
write that failed); without it only a missing row raises. `ThreadFaults` lets
`Thread.start` fail. `FreshPids` says that a pid is never handed out twice.

### JobSchedule

The registry and everything that reads and writes it (`JobMixin`, and the parts
of `RunMixin` that touch jobs). A write goes through `mutate_workspace`, which
reads, changes and writes the file under its lock, and is one step; a tick, a
batch and `run_job_now` are several steps, each on what was read before.

| Variable | Code |
| --- | --- |
| `job` | the entries of `workspace.json`: `deleted_at` (stage), `enabled`, `interval_minutes`, and the time left until `next_run_at` |
| `nextId` | `meta.next_job_id` |
| `copy` | a workspace that a user has exported, or a settings page has loaded, and may write back later |
| `thread` | what occupies each background slot of each process: a job, the interval it was started with, and whether its row is still in the history |
| `call` | a tick (`tick`), a batch (`batch_jobs`) or a single start: the items left and the position in `run_job_now` |
| `away` | history: the jobs that have not been wanted at any moment since the call began |

`Edit` is `create_job`, `update_job`, `toggle_job`, `delete_job`,
`restore_job`; `Purge` and `PurgeRows` are the two files `purge_job` changes;
`Tick`, `TickItem`, `BatchJobs`, `BatchItem`, `ReadJob`, `LookForRun`,
`LaunchRun`, `LaunchRefused` follow the loops; `RunSucceeds`, `RunFails`,
`ScheduleNextRun`, `ReleaseSlot` the end of a thread. Every write ends with the
normalisation of `next_job_id`, which is part of the step. An import writes
back what was once exported (a file edited by hand is not modelled). Names,
groups, tags and search specifications do not influence the schedule and are
left out; that a pack is unreadable is the constant `Broken`.

### Configuration and ConfigFiles

`Configuration` says what an operation on jobs, packs and rule sets changes, as
a set of outcomes on a registry and a set of packs: an operation that raises
has no outcome. A rule set has no file of its own, it is what the packs embed:
`packs` therefore records what each pack holds (the id of its rule set, and all
the rest as one text) and which packs have an earlier `updated_at`, because the
catalog (`_rule_set_catalog`) goes by that order. All rule sets are taken to
have the same display name, so that the name of a rule set's own pack is given
by its id. `Tear` is what is left of an operation whose process dies between
the two files.

`ConfigFiles` does the same with files. `Acquire` takes `workspace.json.lock`,
reads both files and works out an outcome; `WritePack` and `WriteRegistry` are
the two replacements; `WriteRaises`, `Rollback`, `RollbackRaises` are the error
paths of `_FileTransaction`; `Crash` kills a process at any point. A caller that
times out on the lock has changed nothing and takes no step. `cache` is the
workspace a store remembers with the signature (time and size) of the file:
another process that replaces the file makes it invalid, unless the signature
stays the same by accident, which `Cached` allows at any replacement.

The refinement mapping is `Agreed`: a pack that has been written counts from
the moment the registry that goes with it is written. Until then, the abstract
packs are those that the transaction recorded.

### The UI modules

A handler runs up to an `await` in one step and goes on in another; the server
answers in a step in between, with the result or with an error. Whatever a
handler continues with is what its closure holds: the request in flight keeps
the page, sort, filter, pack or draft of the render it was made in. The server
side is what `RunLifecycle`, `JobSchedule` and `Configuration` let a client see,
reduced to the answers: runs start and end, jobs and packs change, rows arrive.

`ResultsPage` is the largest: `loads` holds the list requests with their
`aborted` flag and the snapshot of the filter, `latest` is the number of the
newest (`requestRef`), `mutation` the deletion or deduplication in flight. The
actions are the controls (`TypeKeyword`, `EditTree`, `Sort`, `ChangePage`,
`Refresh`, `ResetFilters`, `SwitchTable`, `Reopen`, the ticks, `DeleteOne`,
`BatchDelete`, `Dedupe`) and the continuations (`FallBack`, `ShowAnswer`,
`ShowFailure`, `IgnoreStale`, `MutationDone`, ...). The window may be loaded again
at any time, which drops its handlers but not a deletion the server has got.
`view` is history: the query the rows on the screen answer. `Hasty` lets the
user also sort, type and switch while the page works on something; without it
the user leaves the query and its controls alone then (rows are ticked at any
time).

`JobRuns` models renders explicitly: the effect that arms the poll timer depends
on closures that every render makes anew, so that *any* render arms the timer
again and a `setState` to the same value does not (`Rendered`, `Say`). The same
holds of `LogsPage`, whose effect depends on the list of runs, and of
`ManualRun`, whose effect depends on three values (`PollingEffect`).

`JobWorkspace` keeps of a draft whom it is of and the pack it is bound to; a
request may fail before or after the server has done what it asks for, and the
history variable `unsure` tells that a change of the open job failed so late;
`JobSelection` keeps the ticks, what was last known of each ticked job
(`deletedById`) and the page of the list. `ManualDraft` keeps draft, pack in
hand and the handlers at an `await`; a draft is two texts, of which one has a
normal form at the server. `Workbench` has the hash, the two storages (which may
refuse to write, and of which one is shared with other windows) and what the
window shows. `SettingsEditor` has the document at the server, the text in the
editor, the two flags that disable buttons, and the requests that wait;
`timely`, `typed` and `doubt` are history and tell when the two must agree.

`FilterTree`, `SpecDraft` and `RuleDraft` are about what editors make of values
that were stored, loaded or typed: they translate the normalisations of
`resultsFilterState.ts`, `collector.ts` and `useDelimitedInputDraft.ts`.
`TableColumns` and `SplitPane` are the two kinds of drags. A tree of
`FilterTree` is a function from paths to nodes, a path being the path of the
group and a place in it: what the code does by recursion over children it does
for every path at once, and no operator is recursive. A condition that is dropped
leaves its place empty, since only the order of children counts; a node that is
removed takes along all that is below it, and later children of its group move
down with what is below them, as their paths are what the page addresses them by.
`ResultsPage` takes trees as values and `Clean` for `sanitizeFilterTreeForSubmit`;
what it assumes of `Clean` (a tree that was submitted is submitted unchanged) is
the lemma `SubmittedTree` of `FilterTree_proofs`.

## 3. What the runs show

| Run | Instance | Shows |
| --- | --- | --- |
| `slots` | one API process, two request threads, one slot, two runs, store and thread faults | `SlotConservation`: every permit is free, held by a starting caller, held by one live thread, or lost on one of the two known error paths; `SuccessNeverFails`; `StatusMatchesStore` |
| `recover` | the scheduler may be stopped, killed and started again; three fresh pids; fair | `OrphanClosureSound`: a row closed because its owner is gone has no live thread; `OrphansRecovered`, `RunsTerminate`; `NoResurrection`: an ended run never runs again; `EventHasExecutor`; `GracefulExit`: a scheduler that stops on a signal leaves no running row of its own |
| `deleted` | one run, purged at any point, store faults, the API may be killed; fair | `DeletedStaysDeleted`, `ThreadsEnd` |
| `edits` | two job ids, one with an unreadable pack; a user who edits, purges, starts and works in batches; the scheduler in a process of its own | `EnabledIsScheduled`, `StartsOnlyWanted`, `JobStartsFresh` |
| `due` | two jobs of which the first can never be started; edits and imports; fair | `DueJobsRun`: the other job is run whenever it is due; `EnabledJobsKeepRunning`: while it stays enabled and no request changes it, it is run again and again |
| `files` | two processes, one job, one pack of its own per job and rule set, two rule sets, failing writes, one torn operation | `Implements`: the files implement `Configuration`; `AllOrNothing`; `FilesHavePacks` |
| `results` | a raw table of two rows that gets a third, a curated one of one row, pages of two rows, one keyword, one filter tree, up to three requests, a patient user; fair | `ViewIsCurrent`, `SelectionOnPage`, `SelectionKeepsItsScope`, `DeletesWhatIsShown`, `FallbackFindsRows`, `LoadingEnds` |
| `pages` | jobs, manual search and logs page, each with two runs, two handlers at a time and up to two failed requests; fair | `RunEndShownOrSaid`, `ManualLoadingEnds`, `LoggedEndShownOrSaid` |
| `workspaces` | two jobs and a pack in the workspace; three jobs on pages of two in the list; two packs and six drafts; three pages of the window | `OnePackInHand` and `WorkspaceAgrees`; `FlagsAsLastShown`; `CleanMeansSaved`; `ReloadKeepsWhatIsShown` |
| `editors` | trees of two nodes, numbers on both sides of every limit, one rule of two conditions and two words, three documents and three requests of the settings page, two tables of two or three columns, three widths of the window | `SubmittedIsComplete`, `FiltersSurviveReopen`; `SpecIsNormal`; `TextShowsValue`; `EditorShowsServer`; `WidthsConserved`; `StackedPanesAreFree` |
| `twice`, `purge` | small instances | the disagreements of section 5 |

The type invariants of `RunLifecycle`, `JobSchedule` and `ConfigFiles` are
theorems (section 4).

### Bounds

`RunLifecycle`: two runs are the fewest that compete for a slot, for the same
job or for the file; two callers and two processes the fewest that race; one
slot makes "slots exhausted" reachable with one run. One query per plan visits
every position of the loop (before, in and after it). Three pids let one process
be killed, come back and be judged by the other. A run is counted when its slot
is taken, so that the bound on run ids (`MaxRuns`) never stops a caller
half-way. `recover` and `deleted` have a single run, because liveness is checked
there and one run already meets every crash, stop and purge.

`JobSchedule`: `MaxJobs` bounds the ids ever given. Two are enough for a purged
job and its successor, and for an order among due jobs. One interval is used:
two values only differ in when a job becomes due, which the interleaving of
`Clock` with everything else covers. Time left is at most the interval, so that
no bound on the clock is needed.

`ConfigFiles`: one job and two rule sets (the built-in one, and one with a pack
of its own) already give packs of both kinds, a rule set with two copies, and
one in use. Two callers in two processes compete for the lock. `MaxTorn = 1`
bounds the number of operations cut off in the middle, not the moment.

`ResultsPage`: pages of two rows let the user pick one of several, and the third
row, which a run stores at any moment, makes a second page, which a deletion
empties again, so that the page falls back; the first two rows have one
deduplication key; keyword and filter tree match one row each, and not the same.
`MaxLoads` bounds the requests of a behaviour: three are the first one, one that
replaces it or follows it, and one that a deletion or another change makes after
that. One deletion is under way at a time, also one sent by a page that is gone.

`JobRuns`: one job with two runs, so that the answer about an old run meets a
newer one; two tasks, of which one is kept for the timer; two faults, because it
takes two errors with the same text for a render to be missing. `ManualRun` and
`LogsPage`: a start and a stop that overlap, two runs.

`JobWorkspace`: two jobs with different packs and two handlers at a time.
`JobSelection` and `ManualDraft`: one handler at a time (a user who waits);
with more, the properties fail in the ways section 5 lists, and a page of the
list can hold two of three jobs. `Workbench`: two snapshots tell a fresh one
from a stored one.
`SettingsEditor`: three requests are two that overlap and one more, sent before
or after; of three documents one is the normal form of another.

Editors: `MaxNodes = 2` is a group with a condition, or a condition with its
neighbour, for every operator of a number and of a list of tags, and the stored
trees add texts and fields that are gone. The numbers of `SpecDraft` are below
zero, zero, inside, and beyond the limits of days and of counts. Two words and
one item "a, b" are what it takes for a printed list to differ from its parts.

All passing runs are checked for deadlock.

### Fairness

`RunLifecycle`: a thread or caller that has begun goes on (weak fairness of
each): the operating system schedules it, locks time out and searches have a
timeout of their own. A request server is started again after it died (Docker
restarts it, or the user does): weak fairness of `StartProcess` for servers
only, none for the scheduler. The pages of the UI poll the job list and the
history for as long as they are open, so a request server reads the whole of it
again and again (strong fairness of `ReadRows`, because a caller is not idle all
the time). Nothing makes a user start, cancel or purge anything.

`JobSchedule`: calls and threads that have begun go on, the scheduler's loop
ticks for ever, and time passes; users need not do anything. `Timely` says that
no tick begins while a thread is between the end of its run and the release of
its slot, a matter of milliseconds against the 30 seconds between two ticks.
Without it a job could be skipped at every tick because its thread always
happens to hold the slot just then. It is used by `due` alone; `edits` lets
ticks begin at any moment. In `due` a job that cannot be started never takes a
slot; a job that starts and then fails is not rescheduled, is due again at the
next tick, and as many of those as there are slots may starve the others. No
property claims otherwise.

UI: a request is answered at last, be it with an error (`fetch` rejects when the
connection is gone, and the server has a thread per request); a promise that is
settled runs its continuation; a timer that is armed and not cleared fires. That
is weak fairness per request and per timer. Nothing makes the user act or a run
end.

## 4. What is proved

By TLAPS, for every value of the constants that satisfies the assumption of the
module (any finite set of callers in `RunLifecycle`; processes, jobs, pids,
intervals, texts and bounds are arbitrary):

| Theorem | Statement |
| --- | --- |
| `RunSlots_proofs!TypeCorrect` | `Spec => []TypeOK` |
| `RunSlots_proofs!SlotsConserved` | `Spec => []SlotConservation` |
| `RunSlots_proofs!SlotsBound` | at most `Slots` threads run in a process |
| `RunSlots_proofs!EventsSound` | `Spec => []EventHasExecutor` if `ThreadFaults = FALSE` |
| `RunHistory_proofs!StatusAgrees` | `Spec => []StatusMatchesStore` |
| `RunHistory_proofs!EndedStaysEnded` | `Spec => NoResurrection` if `PurgeJobs = {}` |
| `RunHistory_proofs!GoneStaysGone` | `Spec /\ []PurgesAlone => DeletedStaysDeleted` |
| `RunHistory_proofs!SuccessStands` | `Spec /\ []PurgesAlone => SuccessNeverFails` |
| `RunHistory_proofs!LoneStartsOneRun` | `Spec /\ []StartsAlone => []OneRunPerJob` if `PurgeJobs = {}` |
| `RunOwners_proofs!OrphansSound` | `Spec => []OrphanClosureSound` |
| `RunOwners_proofs!SchedulersExitClean` | `Spec => GracefulExit` if pids are fresh, `StoreFaults = FALSE` and `PurgeJobs = {}` |
| `JobSchedule_proofs!TypeCorrect` | `Spec => []TypeOK` |
| `JobSchedule_proofs!EnabledJobsScheduled` | `Spec => []EnabledIsScheduled` |
| `JobSchedule_proofs!OnlyWantedStart` | `Spec => []StartsOnlyWanted` |
| `JobSchedule_proofs!NewJobsStartFresh` | `Spec => JobStartsFresh` if no workspace is imported |
| `ConfigFiles_proofs!FilesTypeCorrect` | `FilesSpec => []FilesTypeOK` |
| `ConfigFiles_proofs!PacksPresent` | `FilesSpec => []FilesHavePacks` |
| `ConfigFiles_proofs!FilesImplementConfiguration` | `FilesSpec => Implements` |
| `ConfigFiles_proofs!AllOrNothingHolds` | `FilesSpec => AllOrNothing` |
| `ResultsPage_proofs!ViewStaysCurrent` | `Spec => []ViewIsCurrent` if `Hasty = FALSE` |
| `ResultsPage_proofs!SelectionStaysOnPage` | `Spec => []SelectionOnPage` if `Hasty = FALSE` |
| `ResultsPage_proofs!SelectionLeavesWithItsScope` | `Spec => SelectionKeepsItsScope` if `Hasty = FALSE` |
| `ResultsPage_proofs!DeletionsAreOfWhatIsShown` | `Spec => DeletesWhatIsShown` if `Hasty = FALSE` |
| `ResultsPage_proofs!FallbackAlwaysFindsRows` | `Spec => FallbackFindsRows` |
| `FilterTree_proofs!DraftStaysTree` | `FilterSpec => []DraftIsTree` |
| `FilterTree_proofs!SubmittedComplete` | `FilterSpec => []SubmittedIsComplete` |
| `FilterTree_proofs!ReopenKeepsFilters` | `FilterSpec => []FiltersSurviveReopen` |
| `Workspaces_proofs!PackInHandIsBound` | `OnePackInHand` of `JobWorkspace` |
| `Workspaces_proofs!WorkspaceIsOfOneJob` | `WorkspaceAgrees` of `JobWorkspace` |
| `Workspaces_proofs!TicksAreAsShown` | `FlagsAsLastShown` of `JobSelection` if `Impatient = FALSE` |
| `Workspaces_proofs!CleanDraftIsSaved` | `CleanMeansSaved` of `ManualDraft` if `MaxHandlers = 1` |
| `Workspaces_proofs!ReloadShowsTheSame` | `ReloadKeepsWhatIsShown` of `Workbench` |
| `Workspaces_proofs!EditorAlwaysShowsServer` | `EditorShowsServer` of `SettingsEditor` |
| `Workspaces_proofs!SpecStaysNormal` | `SpecIsNormal` of `SpecDraft` |
| `Workspaces_proofs!TextAlwaysShowsValue` | `TextShowsValue` of `RuleDraft` |
| `Workspaces_proofs!WidthsStayConserved` | `WidthsConserved` of `TableColumns` |
| `Workspaces_proofs!StackedPanesStayFree` | `StackedPanesAreFree` of `SplitPane` |

The modules of the UI that `MCWorkspaces` and `MCEditors` put side by side have
no `Spec` of their own; their theorems say `Init /\ [][Next]_vars => []Inv` of
the module's own initial condition and steps.

The hypotheses are those without which the property is false; TLC finds a
counterexample to each. `PurgeJobs = {}`: a purge writes back a copy in which an
ended run may still be running (for `GracefulExit` and `OneRunPerJob`, with a
second job: a caller that has found no running run of it appends its own next to
the one written back). `StartsAlone` (no two callers start one job at the same
time): the run `twice`, section 5.
`PurgesAlone` (no two purges overlap): a second purge writes back the rows the
first removed; and, with a second job and a rescheduling that fails, a copy made
before a run succeeded lets its thread decide to record a failure, and a copy
made after it puts the success back first. `FreshPids`, for `GracefulExit`: of
two processes that have one pid, each in its container, one leaves the rows of
the other. `StoreFaults = FALSE`: a thread whose last write fails leaves its row
running.
`Hasty`, `Impatient` and `MaxHandlers` say that the user waits; one who does not
can break these properties (with `MaxLoads = 4` for `DeletesWhatIsShown`,
`MaxPending = 2` for `FlagsAsLastShown`), and section 5 lists what is then seen.
The runs that check these properties satisfy the same hypotheses.

Slots. `TypeOK` is inductive, `SlotConservation` is not: a step of a thread must
know that the thread belongs to a process that is up, and a launch that the run
it starts has no thread yet. `SlotInv` adds: run ids above `seq` have no thread
and no row (`FreshIds`); a caller that is starting a run has an id of its own
that no other caller or thread has (`OwnId`); a process that is down has no
callers, threads or events (`DownIsIdle`). With these, every action changes one
of the four terms of the sum by one and another by one the other way; the proofs
count the sets `Holders(p)` and `Workers(p)` with the theorems on cardinalities.
`EventsSound` adds `EventHasExecutor` itself to the part about identifiers.

Schedule. `RegistryInv` strengthens the types (a call or thread that is not idle
names a job) and says `EnabledIsScheduled` of the registry and of the exported
copy alike, since the copy may come back. `StartInv` says what each position of
a call knows: a tick that has not yet read an entry again holds a job that was
due when the tick began, and `away` never gains members while the call goes on.
`FreshInv` bounds every job of a thread or a call, and every entry, by `nextId`,
which only an import can lower; that is why the theorem excludes imports.

Files. `FilesInv` says that a caller that is busy holds the lock, so that at most
one is; that what it read is still what the files say (`HolderOK`); and that its
target is an outcome of that (`OutcomesSound`: every outcome is well typed and
keeps a pack for each registered job). Each step then maps to an operation
(`WriteRegistry`, or `WritePack` of an operation on a single pack), to `Tear` (a
crash or failed rollback with one file written), or to a stutter.

History. A purge is two sections: its caller holds a copy of the history and
writes it back without the rows of the job. The invariants therefore speak of
every version of a row (`Versions(r)`), in the file and in the copies. `StoreInv`
adds to the identifiers of `SlotInv` what a run has stored at each position of
its thread (`SavedSoFar`), and says `StatusMatchesStore` of every version, with
the position at which a cancellation can be there. `IdRowInv` says that a run id
not yet appended has no row in any version; then only `Append` and `PurgeSave`
can make a row present. `DeletedInv` adds that a copy holds no row that has been
deleted since. `SuccessInv` adds that a version that says "success" or "failed"
is only found when its thread has come to its end, and that no two versions say
one and the other.

`LoneInv`, of `LoneStartsOneRun`, says what a caller that starts a job knows:
while it scans, every running row of the job is among those it still has to look
at; once it goes on, there is none. No other caller adds one, and a thread, a
cancellation or the closing of an orphan only takes some away. So what `twice`
finds has one cause, that `run_job_now` reads and appends in two sections; where
nothing is purged, one section for both would be enough.

Owners. `OwnerInv` says that the pid in a row is one that was handed out, that a
thread and a caller that is starting a run live in the process their row names,
and that a process that is up has a pid. `Gone(r)` (the run has a row, no thread,
and no caller about to start one) never ends; what a caller judges an orphan is
gone, because a thread or such a caller would keep the pid in use, however old
the row is; and every version closed as an orphan is of a run that is gone.
`ExitInv` adds that a running row of a process that lives is held by a thread or
a caller (`RunsAreHeld`), that a thread past its last write has closed its row
(`EndsClosed`), and that processes have distinct pids; a scheduler that exits
waits for both.

Results page. `PageInv` says what the last request asks for (`AskedInv`): the
query the page states, and, if rows of another scope are shown or all matching
rows of an advanced filter are chosen, that its answer will clear the selection.
`LoadingInv` says that the page loads exactly while that request has not been
handled, so that answers of older ones are dropped; `MutationInv` that a deletion
whose page is still open is for the query on the screen.

`FallbackFindsRows` needs no patient user and has an invariant of its own,
`FetchInv`. It says of every request (`LoadOK`) that it may still fall back, or
asks for the first page, or for a page that begins before the last of the rows it
counted when it fell back, unless it neither clears nor follows a deletion; and
of an answer that it has rows if the page begins before its count. The second part
is the lemma `PageHasRows` about `Answer`, with the library's theorems on
subsequences; the first is `FallbackPageBegins`, arithmetic about the last page.
For that, `Answer` says which row stands at a place by how many come before it,
and not by sorting a sequence, of whose length the prover knows nothing. The
field `counted` of a request is history: the count its fallback relied on.

Filter trees. `FilterInv` says that every draft is a finite tree whose inner nodes
are groups (`DraftIsTree`), that its conditions have a field of the table and an
operator of that field, and that an applied tree is complete and is left as it is
by another submission. Of a single condition three facts are needed: what is
submitted is complete and is submitted again unchanged (`SanitizedIsComplete`);
the form the editor is given (`coerceFilterConditionForUi`) is of the same field
and submits what the condition it was made of submits (`SanitizeCoerced`); and
what a user chooses or types stays a condition (`OperatorChosen`, `ValueTyped`).
They lift to trees because only conditions are dropped, so that every node keeps
its group (`ReplacedTree`). The hard step is a removal: that the later children,
moved down with all below them, take no place of another node and find their
groups there (`ClosedApart`, `ClosedFront`, `RemovedTree`). A new node's place is
free because a finite set of numbers has a greatest one, which is proved from the
minimality principle for well-founded relations, as the induction theorems cannot
be used.

Workspaces and editors. `WorkInv` follows the only handler that waits: at each
of its positions `AgreesUntil` says what already agrees and what its answer will
bring. A change that the server has made and the page does not know of yet is
the one exception (`AgreeBut`): if the answer is a success it sets the selected
job, and if it is an error `unsure` records that the job may no longer be as it
is shown, until an answer sets it again. `TicksInv` and `DraftInv` do the same for the list and the pack in hand.
`SettingsInv` says which requests are alone, and that the answer of a timely one
is the document of the server. `BenchInv` says that the storage holds what is
shown. `OnePackInHand`, `StackedPanesAreFree` and, with the shape of the inputs,
`TextShowsValue` are inductive. For `SpecIsNormal` the bounding and ordering of a
range is shown to be idempotent, and each edit to yield a range it leaves alone.
`ColumnsInv` says that a drag is of two different columns that were at least as
wide as their minimum when it began: `DraggedLeft` then stays within bounds that
do not cross. To make that provable `TableColumns` picks the two columns by
their positions among the definitions, not from a filtered sequence.

Every safety invariant and action property of the passing runs is a theorem.
Only model-checked: liveness, which is beyond the prover (`OrphansRecovered`,
`RunsTerminate`, `ThreadsEnd`, `DueJobsRun`, `EnabledJobsKeepRunning`,
`RunEndShownOrSaid`, `ManualLoadingEnds`, `LoggedEndShownOrSaid`,
`LoadingEnds`), and that the two properties of section 5 are violated. The type invariants of `JobSchedule` and
`ConfigFiles` and `DraftIsTree` are proved and not checked by a run; `IsTree` of
the trees that may be stored is an assumption TLC evaluates.

## 5. Where the code disagrees with its documents and tests

Two runs look for a violation and find it; `PROJECT.json` quotes the lines.

| Run | Property | What happens |
| --- | --- | --- |
| `twice` | `OneRunPerJob` | two callers both find no running run of a job; without purges there is no other cause (`LoneStartsOneRun`) |
| `purge` | `BatchHitsTickedRows` | after a task was created while deleted tasks were listed, live tasks stand under the status "deleted"; choosing all matching ones and purging removes the deleted tasks |

Other disagreements that the models show, without a run of their own. Each can
be seen by checking the property named with the instance named:

| Property | Instance | What happens |
| --- | --- | --- |
| `RefusedOnlyWhenBusy` of `RunLifecycle` | `slots` | `create_run` raises, the except clause uses the unbound `run_id` and raises in turn before it releases the slot (`runs.py:186`) |
| `ContextGoneIsOver` of `RunLifecycle` | `recover` | a cancel in the other process closes the row of a run that goes on (`runs.py:417`) |
| `OrphansRecovered` | `recover` with `Pids = {1}` and `FreshPids = FALSE` | in a container every process is pid 1, so that a dead owner looks alive (`runs.py:103`) |
| `UpdateIsVisible` of `Configuration` | `files` | the catalog shows the oldest copy of a rule set: an update is not seen while a job's or a user's pack embeds an older one (`rules_taskpacks.py:48`) |
| `ViewIsCurrent` | `results` with `Hasty = TRUE` | a deletion that ends after the user has switched tables loads the old table into the page of the new one (`useResultsPageState.tsx:428`) |
| `SelectionOnPage` | `results` with `Hasty = TRUE` | a sort replaces the request of a new filter, which would have cleared the selection: "all matching" stays chosen with a filter it does not know (`useResultsPageState.tsx:306`) |
| `RunEndShown` of `JobRuns` | `pages` | two polls fail with the same text: the second renders nothing, the timer is not armed again, and the run stays on the page as running |
| `ListedRunIsFollowed` of `JobRuns` | `pages` | a list that shows a newer run drops the entry of the ended one and does not follow the new one until the next list |
| `FailedHasEnded` of `ManualRun` | `pages` | one poll that fails, or a stop that gives up after two seconds, is shown as the end of the run |
| `ResultOfLastExecution` of `ManualRun` | `pages` | the late answer of a stop shows the result of the run before the one being started |
| `SaveWritesOwnJob` of `JobWorkspace` | `workspaces` | an opened job is selected before its pack has come and its draft is filled: a save in between stores the draft that was there under that job (`useJobsPageState.tsx:301`) |
| `CleanMeansSaved` | `workspaces` with `MaxHandlers = 2` | a pack that is loaded while it is saved is answered as it was before and called "not modified" |

Met while modelling, with no claim of the repository to hold against them:

- `delete_runs_for_job` reads and writes the history in two locked sections; an
  update in between is lost, and an ended run of another job may be running
  again (`RunLifecycle` with a non-empty `PurgeJobs` violates `NoResurrection`).
- A batch is validated once: its purge removes a job that another request has
  restored meanwhile.
- Between the recording of a success and the rescheduling, the job is due and
  has no running run: a tick that falls there starts it again.
- A deleted rule set stays in the catalog while a user's pack embeds it.
- A late answer of a stop can end the loading of a manual run that goes on,
  which is then no longer polled.
- Edits of tags, name and rules made while a pack is being saved are overwritten
  by its answer.
- A change of the open job that is reported as failed after the server has made
  it is not seen by the page: `purge_job` removes the job before
  `delete_runs_for_job` may raise (`jobs.py:455`), an answer may be lost, and the
  catch of `handlePurge` leaves the job open. Reloading does not tell either,
  because `refreshJobs` keeps the selected job when it cannot be loaded
  (`WorkspaceAgrees` without `unsure` is violated). A task whose creation is
  reported as failed is still a new one in the form: saving again makes a second.
- A job ticked on another page stays ticked when it is deleted elsewhere; the
  batch is then refused as mixed only if the page has learnt of it.
- `handleRestore` sets the status of the list to "active" and leaves "all
  matching" on.
- `api.py` answers every `ValueError` with "not found", so that the message for
  a pack that jobs refer to is never shown.
- The settings editor saves the whole document it loaded, with no check that it
  is still current, and can be loaded again while a save is in flight: if a load
  or an export is answered from the older document and later than the save, the
  editor shows the older one (`EditorShowsServer` without `timely` is violated).
  An answer also replaces what was typed while it was awaited.
- The page fallback asks once. If rows go between the answer it counted and the
  one it asks for, the page can stay empty although there are rows;
  `FallbackFindsRows` therefore speaks of answers with at least the rows counted
  (`useResultsPageState.tsx:236`).
- The width of the left pane is not brought into its bounds again when the
  window shrinks and stays split.

## 6. What is not modelled

Within the modelled parts: what a search returns and which items match (only
whether results were stored), error texts, progress counters, log views, HTTP
routing; `run_manual` (only tests call it); the migration of workspaces of
version 1; imports at the level of files (`update_workspace` is in
`JobSchedule` only); a run history torn by a kill during its rewriting.

Within the UI modules: messages (only whether there is one, where a property
needs it), layout, percentages and times; the text query of the job list; the
difference between viewing and editing a job, which no handler makes; the select
of the pack to import in the workspace (any pack may be picked); the fields of a
job's form; the summary above the settings document. `JobRuns` is checked with one
job, so that a failed poll of one job that discards the answers of others is in
the module but not in the instance. `SpecDraft` has one metric for four and
leaves out blanks around a raw query and whether metrics were set explicitly;
`RuleDraft` leaves out levels (renaming one leaves the levels of rules
dangling) and that the backend drops rules without conditions. `FilterTree` lets
a draft condition keep the values its operator does not use, as the code does.
`JobWorkspace` and `SettingsEditor` let a request fail after it took effect;
`JobSelection` and `ManualDraft` take an error for a request that did nothing.
(In `JobSelection` one that did something would leave the rows and ticks as they
are until the next list.) `ManualDraft` resolves names to packs, and leaves out
that a pack without a rule set name is dirty as soon as it is loaded.

Whole parts with no module: items and deduplication at the database (what the
results page asks of them is in `ResultsPage`), the query plan and rule
evaluation, the search client, health, the service manager. They are a child
process and its timeouts, network probes, pure functions over texts and dates,
and pid files; their points where concurrency bites are: the fallback that
catches cancellation (`twitter_cli.py:209`), deduplication while rows are stored
(`items.py:394`), starting services with rollback and stopping with a deadline
shorter than the scheduler's (`services.py:177`, `:453`), the read-modify-write
of the health snapshot (`health.py:59`), and the cap on time slices
(`collector_rules.py:388`). They have no entry under "hazards", which is kept
for what a module reaches (and the torn history). `PROJECT.json` lists each as a
component. Installation, doctor, bootstrap and the static server check the
environment and keep no state.

## 7. Plan

Done: the backend modules and the theorems of section 4; the modules of the UI
and the runs `results`, `pages`, `workspaces`, `editors`. Next, in this order:

1. Proofs: a job is rescheduled once per success.
2. `Dedupe`: grouping and survivor against runs that store and users that
   delete; the raw and curated tables.
3. `TwitterSearch`: timeout, cancellation, fallback and enrichment of one search,
   composed with the position "search" of `RunLifecycle`.
4. `QueryPlan` and rule evaluation as functions, checked against a reference
   definition over bounded inputs (slices cover the window once).
5. `ServiceManager` (start with rollback, adoption, stop with a deadline) and
   `Health` (read-modify-write of the snapshot across a probe).

New runs replace or join existing ones where one instance answers both
questions, so that the whole set stays small enough to be checked on every
change.
