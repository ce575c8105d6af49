---------------------------- MODULE RunLifecycle ----------------------------
(***************************************************************************)
(* The life of a collection run: backend/collector_service_parts/runs.py   *)
(* (RunMixin) over the run history of backend/workspace_store.py           *)
(* (RuntimeStateStore).                                                    *)
(*                                                                         *)
(* Several operating-system processes (the HTTP API, the scheduler) hold   *)
(* each a service object of their own: a semaphore of background slots, a  *)
(* table of cancel events, and background threads.  They share only the    *)
(* files sequences.json and search_runs.jsonl.  A step is one section of   *)
(* code under one lock (of a file or of an in-memory table); everything    *)
(* between two such sections interleaves.  The table of background threads *)
(* (_background_run_threads) holds exactly the live workers and callers at *)
(* the launch, so it is not a variable.                                    *)
(***************************************************************************)
EXTENDS Naturals, FiniteSets

CONSTANTS
  Procs,        \* processes that hold a service object
  Loops,        \* those that run the scheduler loop, not a request server
  Callers,      \* request threads and scheduler main loops
  Home,         \* Home[c]: the process caller c belongs to
  Jobs,         \* automatic jobs
  Manual,       \* the job of a manual run (job_id is None)
  Slots,        \* MAX_BACKGROUND_RUNS
  Queries,      \* number of queries of a plan
  MaxRuns,      \* bound: run ids that are ever allocated
  Pids,         \* bound: pids the operating system hands out
  FreshPids,    \* TRUE: no pid is handed out twice (one host, no reuse)
  Crashable,    \* processes that may be killed
  Stoppable,    \* processes that may be told to stop
  PurgeJobs,    \* jobs the user purges
  StoreFaults,  \* TRUE: a lock may time out or a write may fail
  ThreadFaults  \* TRUE: Thread.start may fail

RunId == 1..MaxRuns
NoRun == 0
NoPid == 0
Terminal == {"success", "failed", "cancelled"}
Status == {"absent", "running"} \cup Terminal
Note == {"none", "worker", "owner_gone", "context_gone"}  \* who wrote the last status

ASSUME ConstantsAssumption ==
  /\ Loops \subseteq Procs /\ Crashable \cup Stoppable \subseteq Procs /\ PurgeJobs \subseteq Jobs
  /\ IsFiniteSet(Callers) /\ Home \in [Callers -> Procs]
  /\ Manual \notin Jobs
  /\ Slots \in Nat \ {0} /\ Queries \in Nat /\ MaxRuns \in Nat
  /\ Pids \subseteq Nat \ {NoPid}
  /\ FreshPids \in BOOLEAN /\ StoreFaults \in BOOLEAN /\ ThreadFaults \in BOOLEAN

VARIABLES
  seq,      \* sequences.json: the last run_id handed out
  row,      \* search_runs.jsonl, by run id; status "absent": no such line
  info,     \* the columns create_run writes once: job_id and owner_pid
  saved,    \* what the run has committed to the database
  mode,     \* whether a process is down, up, or stopping after a signal
  pid,      \* pid of a process's current (or last) incarnation
  used,     \* pids handed out so far
  slots,    \* free permits of _run_slot_limit
  leaked,   \* history: permits no code path will give back
  event,    \* _run_cancel_events: event[p][r]
  call,     \* what each caller is doing
  work      \* the background thread of each run

vars == <<seq, row, info, saved, mode, pid, used, slots, leaked, event, call, work>>
files == <<seq, row, info, saved>>
process == <<mode, pid, used>>

Row == [status: Status, note: Note]
NoRow == [status |-> "absent", note |-> "none"]
Info == [job: Jobs \cup {Manual}, owner: Pids \cup {NoPid}]

CallPc == {"idle", "scan", "orphan", "reread", "acquire", "alloc", "append", "register",
           "launch", "failget", "failfin", "release", "cancel", "force", "purge"}
Call == [pc: CallPc, op: {"none", "start", "read", "cancel", "purge"},
         job: Jobs \cup {Manual}, run: RunId \cup {NoRun}, seen: SUBSET RunId,
         snap: [RunId -> Row]]
Idle == [pc |-> "idle", op |-> "none", job |-> Manual, run |-> NoRun, seen |-> {},
         snap |-> [r \in RunId |-> NoRow]]

WorkPc == {"none", "plan", "query", "search", "progress", "raw", "curated", "finish",
           "errget", "errfin", "pop", "resched", "recget", "recfin", "cleanup", "ended"}
NoProc == "none"
Work == [pc: WorkPc, proc: Procs \cup {NoProc}, out: Terminal, done: Nat]
NoWork == [pc |-> "none", proc |-> NoProc, out |-> "failed", done |-> 0]
Ended == [NoWork EXCEPT !.pc = "ended"]

TypeOK ==
  /\ seq \in 0..MaxRuns
  /\ row \in [RunId -> Row]
  /\ info \in [RunId -> Info]
  /\ saved \in [RunId -> {"none", "raw", "curated"}]
  /\ mode \in [Procs -> {"down", "up", "stopping"}]
  /\ pid \in [Procs -> Pids \cup {NoPid}]
  /\ used \subseteq Pids
  /\ slots \in [Procs -> 0..Slots]
  /\ leaked \in [Procs -> Nat]
  /\ event \in [Procs -> [RunId -> {"none", "clear", "set"}]]
  /\ call \in [Callers -> Call]
  /\ work \in [RunId -> Work]

-----------------------------------------------------------------------------
Running == {r \in RunId : row[r].status = "running"}

\* (mutant of PidAlive) a process that is shutting down counts as gone
PidAliveOnlyUp(q) == \E p \in Procs : mode[p] = "up" /\ pid[p] = q

\* (mutant of PidAlive) a pid once handed out counts as alive for ever
PidAliveEver(q) == q \in used

\* _owner_pid_alive: a pid is alive when some process has it now.
PidAlive(q) == \E p \in Procs : mode[p] # "down" /\ pid[p] = q

Live(r) == work[r].pc \notin {"none", "ended"}
Workers(p) == {r \in RunId : work[r].proc = p /\ Live(r)}

\* A caller between acquiring a slot and handing it to a thread (or losing it).
Holding == {"alloc", "append", "register", "launch", "failget", "failfin", "release"}
Holders(p) == {c \in Callers : Home[c] = p /\ call[c].pc \in Holding}

Init ==
  /\ seq = 0
  /\ row = [r \in RunId |-> NoRow]
  /\ info = [r \in RunId |-> [job |-> Manual, owner |-> NoPid]]
  /\ saved = [r \in RunId |-> "none"]
  /\ mode = [p \in Procs |-> "down"]
  /\ pid = [p \in Procs |-> NoPid]
  /\ used = {}
  /\ slots = [p \in Procs |-> Slots]
  /\ leaked = [p \in Procs |-> 0]
  /\ event = [p \in Procs |-> [r \in RunId |-> "none"]]
  /\ call = [c \in Callers |-> Idle]
  /\ work = [r \in RunId |-> NoWork]

-----------------------------------------------------------------------------
(* Operations of the run history: each is one section under the file lock. *)

\* (mutant of FinishRun) a missing row is written anew
FinishUpserts(r, status, note) ==
  row' = [row EXCEPT ![r].status = status, ![r].note = note]

\* finish_run: no guard on the current status; a missing row is an error.
FinishRun(r, status, note) ==
  /\ row[r].status # "absent"
  /\ row' = [row EXCEPT ![r].status = status, ![r].note = note]

\* The store raises: the row is missing, or the lock timed out or the write failed.
StoreRaises(r) == row[r].status = "absent" \/ StoreFaults

Step(c, at, to) == call[c].pc = at /\ call' = [call EXCEPT ![c].pc = to]
Return(c) == call' = [call EXCEPT ![c] = Idle]
ReturnFrom(c, at) == call[c].pc = at /\ Return(c)

\* A new request or tick begins only in a process that is serving.
Begin(c, rec) ==
  /\ call[c].pc = "idle"
  /\ mode[Home[c]] = "up"
  /\ call' = [call EXCEPT ![c] = rec]

-----------------------------------------------------------------------------
(* Reading the history and closing orphans.                                 *)

\* get_run, list_runs, _last_runs_by_job: one read of the file; the running
\* rows read are then reconciled one by one, newest first.
ReadRows(c, S) ==
  /\ S # {}
  /\ Begin(c, [Idle EXCEPT !.pc = "scan", !.op = "read", !.seen = S])
  /\ UNCHANGED <<files, process, slots, leaked, event, work>>

Read(c) == \E S \in SUBSET Running : ReadRows(c, S)

\* run_job_now reads the running rows of its job (_running_run_for_job).
StartJob(c, j) ==
  /\ Begin(c, [Idle EXCEPT !.pc = "scan", !.op = "start", !.job = j,
                           !.seen = {r \in Running : info[r].job = j}])
  /\ UNCHANGED <<files, process, slots, leaked, event, work>>

\* cancel_run first reads its row with get_run.
CancelRun(c, r) ==
  /\ row[r].status = "running"
  /\ Begin(c, [Idle EXCEPT !.pc = "scan", !.op = "cancel", !.run = r, !.seen = {r}])
  /\ UNCHANGED <<files, process, slots, leaked, event, work>>

Newest(c, r) == r \in call[c].seen /\ \A s \in call[c].seen : s <= r

\* The owner of the newest row read answers: the row stands as running.
ScanAlive(c) == \E r \in RunId :
  /\ call[c].pc = "scan" /\ Newest(c, r) /\ PidAlive(info[r].owner)
  /\ \/ call[c].op = "start"  /\ Return(c)      \* the run already in progress is returned
     \/ call[c].op = "cancel" /\ Step(c, "scan", "cancel")
     \/ call[c].op = "read"   /\ call' = [call EXCEPT ![c].seen = @ \ {r}]
  /\ UNCHANGED <<files, process, slots, leaked, event, work>>

\* _reconcile_orphaned_run decides to close the row it has read.
ScanOrphan(c) == \E r \in RunId :
  /\ call[c].pc = "scan" /\ Newest(c, r) /\ ~PidAlive(info[r].owner)
  /\ call' = [call EXCEPT ![c].pc = "orphan", ![c].run = r]
  /\ UNCHANGED <<files, process, slots, leaked, event, work>>

CloseOrphan(c) ==
  /\ Step(c, "orphan", "reread")
  /\ FinishRun(call[c].run, "cancelled", "owner_gone")
  /\ UNCHANGED <<seq, info, saved, process, slots, leaked, event, work>>

\* The scheduler's own look at a job's runs, outside the try block of the tick.
Tick(c) == Home[c] \in Loops /\ call[c].op = "read"

\* The loop of a process ends: request_background_shutdown sets every event.
EndLoop(p) ==
  /\ mode' = [mode EXCEPT ![p] = "stopping"]
  /\ event' = [event EXCEPT ![p] = [r \in RunId |-> IF @[r] = "none" THEN "none" ELSE "set"]]

\* An error there ends the scheduler's loop, and with it the process.
TickRaises(c) ==
  /\ Tick(c) /\ Return(c)
  /\ \/ call[c].pc = "scan" /\ StoreFaults
     \/ call[c].pc \in {"orphan", "reread"} /\ StoreRaises(call[c].run)
  /\ EndLoop(Home[c])
  /\ UNCHANGED <<files, pid, used, slots, leaked, work>>

CloseOrphanRaises(c) ==
  /\ ReturnFrom(c, "orphan") /\ StoreRaises(call[c].run) /\ ~Tick(c)
  /\ UNCHANGED <<files, process, slots, leaked, event, work>>

\* The row is read back; run_job_now and cancel_run still test its status.
Reread(c) ==
  LET r == call[c].run IN
  /\ call[c].pc = "reread" /\ row[r].status # "absent"
  /\ \/ call[c].op = "start"  /\ row[r].status = "running" /\ Return(c)
     \/ call[c].op = "cancel" /\ row[r].status = "running" /\ Step(c, "reread", "cancel")
     \/ call[c].op = "cancel" /\ row[r].status # "running" /\ Return(c)
     \/ /\ call[c].op = "read" \/ (call[c].op = "start" /\ row[r].status # "running")
        /\ call' = [call EXCEPT ![c].pc = "scan", ![c].seen = @ \ {r}, ![c].run = NoRun]
  /\ UNCHANGED <<files, process, slots, leaked, event, work>>

RereadRaises(c) ==
  /\ ReturnFrom(c, "reread") /\ StoreRaises(call[c].run) /\ ~Tick(c)
  /\ UNCHANGED <<files, process, slots, leaked, event, work>>

ScanDone(c) ==
  /\ call[c].seen = {}
  /\ \/ call[c].op = "start" /\ Step(c, "scan", "acquire")
     \/ call[c].op # "start" /\ ReturnFrom(c, "scan")
  /\ UNCHANGED <<files, process, slots, leaked, event, work>>

-----------------------------------------------------------------------------
(* Starting a background run: run_job_now and start_manual_run.             *)

\* MaxRuns bounds the model here, before a run id can be needed.
WithinBound == seq + Cardinality({c \in Callers : call[c].pc = "alloc"}) < MaxRuns

Take(p) ==
  /\ WithinBound
  /\ slots[p] > 0 /\ slots' = [slots EXCEPT ![p] = @ - 1]

\* _release_run_slot: the bounded semaphore refuses to exceed its limit.
GiveBack(p) == slots' = [slots EXCEPT ![p] = IF @ < Slots THEN @ + 1 ELSE @]

StartManual(c) ==
  /\ Begin(c, [Idle EXCEPT !.pc = "alloc", !.op = "start"])
  /\ Take(Home[c])
  /\ UNCHANGED <<files, process, leaked, event, work>>

Acquire(c) ==
  /\ Step(c, "acquire", "alloc") /\ Take(Home[c])
  /\ UNCHANGED <<files, process, leaked, event, work>>

\* "too many background runs", or the job's pack cannot be loaded.
StartRefused(c) ==
  /\ ReturnFrom(c, "acquire")
  /\ UNCHANGED <<files, process, slots, leaked, event, work>>

\* create_run, first section: _next_sequence.
Alloc(c) ==
  /\ call[c].pc = "alloc" /\ seq < MaxRuns
  /\ seq' = seq + 1
  /\ call' = [call EXCEPT ![c].pc = "append", ![c].run = seq + 1]
  /\ UNCHANGED <<row, info, saved, process, slots, leaked, event, work>>

\* create_run, second section: the row is appended.
Append(c) ==
  LET p == Home[c] IN
  /\ Step(c, "append", "register")
  /\ row' = [row EXCEPT ![call[c].run] = [status |-> "running", note |-> "none"]]
  /\ info' = [info EXCEPT ![call[c].run] = [job |-> call[c].job, owner |-> pid[p]]]
  /\ UNCHANGED <<seq, saved, process, slots, leaked, event, work>>

\* _create_run raises: run_id is unbound in the except clause, whose first line
\* raises in turn, so that the slot is never released.
CreateRaises(c) ==
  /\ StoreFaults
  /\ call[c].pc \in {"alloc", "append"} /\ Return(c)
  /\ leaked' = [leaked EXCEPT ![Home[c]] = @ + 1]
  /\ UNCHANGED <<files, process, slots, event, work>>

Register(c) ==
  /\ Step(c, "register", "launch")
  /\ event' = [event EXCEPT ![Home[c]][call[c].run] = "clear"]
  /\ UNCHANGED <<files, process, slots, leaked, work>>

\* Thread.start: the slot is now the thread's.
Launch(c) ==
  /\ ReturnFrom(c, "launch")
  /\ work' = [work EXCEPT ![call[c].run] =
                [pc |-> "plan", proc |-> Home[c], out |-> "success", done |-> 0]]
  /\ UNCHANGED <<files, process, slots, leaked, event>>

LaunchRaises(c) ==
  /\ ThreadFaults /\ Step(c, "launch", "failget")
  /\ UNCHANGED <<files, process, slots, leaked, event, work>>

\* _record_background_run_failure reads the row, and closes it if still running.
FailGet(c) ==
  /\ call[c].pc = "failget"
  /\ \/ row[call[c].run].status = "running" /\ Step(c, "failget", "failfin")
     \/ row[call[c].run].status # "running" /\ Step(c, "failget", "release")
     \/ StoreFaults /\ Step(c, "failget", "release")
  /\ UNCHANGED <<files, process, slots, leaked, event, work>>

FailFinish(c) ==
  /\ Step(c, "failfin", "release")
  /\ FinishRun(call[c].run, "failed", "worker")
  /\ UNCHANGED <<seq, info, saved, process, slots, leaked, event, work>>

\* The exception leaves the except clause before _release_run_slot.
FailFinishRaises(c) ==
  /\ ReturnFrom(c, "failfin") /\ StoreRaises(call[c].run)
  /\ leaked' = [leaked EXCEPT ![Home[c]] = @ + 1]
  /\ UNCHANGED <<files, process, slots, event, work>>

Release(c) ==
  /\ ReturnFrom(c, "release") /\ GiveBack(Home[c])
  /\ UNCHANGED <<files, process, leaked, event, work>>

-----------------------------------------------------------------------------
(* Cancelling and purging.                                                  *)

\* The event is in this process: set it.  (The caller then polls the row for
\* two seconds, which changes nothing.)
CancelSignal(c) ==
  LET p == Home[c] r == call[c].run IN
  /\ ReturnFrom(c, "cancel") /\ event[p][r] # "none"
  /\ event' = [event EXCEPT ![p][r] = "set"]
  /\ UNCHANGED <<files, process, slots, leaked, work>>

\* No event in this process: the execution context is taken to be gone.
CancelNoEvent(c) ==
  /\ Step(c, "cancel", "force") /\ event[Home[c]][call[c].run] = "none"
  /\ UNCHANGED <<files, process, slots, leaked, event, work>>

CancelForce(c) ==
  /\ ReturnFrom(c, "force")
  /\ FinishRun(call[c].run, "cancelled", "context_gone")
  /\ UNCHANGED <<seq, info, saved, process, slots, leaked, event, work>>

CancelForceRaises(c) ==
  /\ ReturnFrom(c, "force") /\ StoreRaises(call[c].run)
  /\ UNCHANGED <<files, process, slots, leaked, event, work>>

\* delete_runs_for_job loads and saves the history in two sections.
PurgeLoad(c, j) ==
  /\ Begin(c, [Idle EXCEPT !.pc = "purge", !.op = "purge", !.job = j,
                 !.snap = [r \in RunId |-> IF info[r].job = j THEN NoRow ELSE row[r]]])
  /\ UNCHANGED <<files, process, slots, leaked, event, work>>

PurgeSave(c) ==
  /\ ReturnFrom(c, "purge")
  /\ row' = call[c].snap \/ (StoreFaults /\ UNCHANGED row)
  /\ UNCHANGED <<seq, info, saved, process, slots, leaked, event, work>>

-----------------------------------------------------------------------------
(* The background thread of run r: _run_auto_job_in_background or           *)
(* _run_manual_in_background around _execute_manual_run.                    *)

Goto(r, at, to) == work[r].pc = at /\ work' = [work EXCEPT ![r].pc = to]

\* An exception with the given outcome takes the thread to another point.
Raise(r, at, to, outcome) ==
  /\ work[r].pc = at
  /\ work' = [work EXCEPT ![r].pc = to, ![r].out = outcome]

Present(r) == row[r].status # "absent"
Signalled(r) == \E p \in Procs : work[r].proc = p /\ event[p][r] = "set"

\* Before the try block: the plan or the rule set is refused; otherwise the
\* first progress update.
Plan(r) ==
  /\ \/ Raise(r, "plan", "recget", "failed")
     \/ Present(r) /\ Goto(r, "plan", "query")
     \/ StoreRaises(r) /\ Raise(r, "plan", "errget", "failed")
  /\ UNCHANGED <<files, process, slots, leaked, event, call>>

\* The event is tested before each query ...
Query(r) ==
  /\ work[r].done < Queries
  /\ \/ Signalled(r) /\ Raise(r, "query", "errget", "cancelled")
     \/ ~Signalled(r) /\ Goto(r, "query", "search")
  /\ UNCHANGED <<files, process, slots, leaked, event, call>>

\* ... and by the search while its command runs.  Any other error of a query
\* is only recorded.
Search(r) ==
  /\ \/ Goto(r, "search", "progress")
     \/ Signalled(r) /\ Raise(r, "search", "errget", "cancelled")
  /\ UNCHANGED <<files, process, slots, leaked, event, call>>

\* (mutant of Progress) the progress update writes the whole row back as running
ProgressWritesStatus(r) ==
  /\ Present(r) /\ work[r].pc = "progress"
  /\ work' = [work EXCEPT ![r].pc = "query", ![r].done = @ + 1]
  /\ row' = [row EXCEPT ![r].status = "running"]
  /\ UNCHANGED <<seq, info, saved, process, slots, leaked, event, call>>

\* update_run_progress leaves the status as it is.
Progress(r) ==
  /\ \/ /\ Present(r) /\ work[r].pc = "progress"
        /\ work' = [work EXCEPT ![r].pc = "query", ![r].done = @ + 1]
     \/ StoreRaises(r) /\ Raise(r, "progress", "errget", "failed")
  /\ UNCHANGED <<files, process, slots, leaked, event, call>>

\* After the last query: nothing fetched and some error, or on to the results.
QueriesDone(r) ==
  /\ work[r].done = Queries
  /\ \/ Goto(r, "query", "raw")
     \/ Queries > 0 /\ Raise(r, "query", "errget", "failed")
  /\ UNCHANGED <<files, process, slots, leaked, event, call>>

\* _store_raw commits, then rules are evaluated.
StoreRaw(r) ==
  /\ \/ Goto(r, "raw", "curated") /\ saved' = [saved EXCEPT ![r] = "raw"]
     \/ StoreFaults /\ Raise(r, "raw", "errget", "failed") /\ UNCHANGED saved
  /\ UNCHANGED <<seq, row, info, process, slots, leaked, event, call>>

\* _store_curated commits; an error of the dedupe that follows is only recorded.
StoreCurated(r) ==
  /\ \/ Goto(r, "curated", "finish") /\ saved' = [saved EXCEPT ![r] = "curated"]
     \/ StoreFaults /\ Raise(r, "curated", "errget", "failed") /\ UNCHANGED saved
  /\ UNCHANGED <<seq, row, info, process, slots, leaked, event, call>>

\* (mutant of FinishSuccess) a cancellation that comes after the last query still counts
FinishHonoursCancel(r) ==
  /\ \E status \in {"success", "cancelled"} :
       /\ status = "cancelled" => Signalled(r)
       /\ Raise(r, "finish", "pop", status)
       /\ FinishRun(r, status, "worker")
  /\ UNCHANGED <<seq, info, saved, process, slots, leaked, event, call>>

FinishSuccess(r) ==
  /\ \/ /\ Raise(r, "finish", "pop", "success")
        /\ FinishRun(r, "success", "worker")
     \/ /\ StoreRaises(r) /\ Raise(r, "finish", "errget", "failed")
        /\ UNCHANGED row
  /\ UNCHANGED <<seq, info, saved, process, slots, leaked, event, call>>

\* The except clause of _execute_manual_run: read the row, then close it.  An
\* error here replaces the exception.
ErrorGet(r) ==
  /\ \/ Present(r) /\ Goto(r, "errget", "errfin")
     \/ StoreRaises(r) /\ Raise(r, "errget", "pop", "failed")
  /\ UNCHANGED <<files, process, slots, leaked, event, call>>

ErrorFinish(r) ==
  /\ \/ Goto(r, "errfin", "pop") /\ FinishRun(r, work[r].out, "worker")
     \/ StoreRaises(r) /\ Raise(r, "errfin", "pop", "failed") /\ UNCHANGED row
  /\ UNCHANGED <<seq, info, saved, process, slots, leaked, event, call>>

\* The finally clause of _execute_manual_run.
PopEvent(r) ==
  /\ \/ work[r].out # "success" /\ Goto(r, "pop", "recget")
     \/ /\ work[r].out = "success"
        /\ Goto(r, "pop", IF info[r].job = Manual THEN "cleanup" ELSE "resched")
  /\ event' = [event EXCEPT ![work[r].proc][r] = "none"]
  /\ UNCHANGED <<files, process, slots, leaked, call>>

\* _schedule_job_next_run, after a success only; it may raise.
Reschedule(r) ==
  /\ \/ Goto(r, "resched", "cleanup")
     \/ StoreFaults /\ Raise(r, "resched", "recget", "failed")
  /\ UNCHANGED <<files, process, slots, leaked, event, call>>

\* (mutant of RecordGet) the row is closed whatever it reads
RecordUnguarded(r) ==
  /\ Goto(r, "recget", IF Present(r) THEN "recfin" ELSE "cleanup")
  /\ UNCHANGED <<files, process, slots, leaked, event, call>>

\* (mutant of RecordGet) a failure before the try block is not recorded
RecordNothing(r) ==
  /\ Goto(r, "recget", "cleanup")
  /\ UNCHANGED <<files, process, slots, leaked, event, call>>

\* (mutant of RecordGet) a row that cannot be read is read again
RecordRetries(r) ==
  /\ \/ row[r].status = "running" /\ Goto(r, "recget", "recfin")
     \/ row[r].status \in Terminal /\ Goto(r, "recget", "cleanup")
  /\ UNCHANGED <<files, process, slots, leaked, event, call>>

\* _record_background_run_failure closes the row only if it still reads running.
RecordGet(r) ==
  /\ \/ row[r].status = "running" /\ Goto(r, "recget", "recfin")
     \/ row[r].status # "running" /\ Goto(r, "recget", "cleanup")
     \/ StoreFaults /\ Goto(r, "recget", "cleanup")
  /\ UNCHANGED <<files, process, slots, leaked, event, call>>

RecordFinish(r) ==
  /\ Goto(r, "recfin", "cleanup")
  /\ \/ FinishRun(r, work[r].out, "worker")
     \/ StoreRaises(r) /\ UNCHANGED row
  /\ UNCHANGED <<seq, info, saved, process, slots, leaked, event, call>>

\* (mutant of Cleanup) the slot is given back only after a success
CleanupOnSuccess(r) ==
  LET p == work[r].proc IN
  /\ work[r].pc = "cleanup"
  /\ work' = [work EXCEPT ![r] = Ended]
  /\ IF work[r].out = "success" THEN GiveBack(p) ELSE UNCHANGED slots
  /\ event' = [event EXCEPT ![p][r] = "none"]
  /\ UNCHANGED <<files, process, leaked, call>>

\* (mutant of Cleanup) the thread's own finally clause leaves the event
CleanupKeepsEvent(r) ==
  /\ work[r].pc = "cleanup"
  /\ work' = [work EXCEPT ![r] = Ended]
  /\ GiveBack(work[r].proc)
  /\ UNCHANGED <<files, process, leaked, event, call>>

\* The finally clause of the thread: event, thread table, slot.
Cleanup(r) ==
  LET p == work[r].proc IN
  /\ work[r].pc = "cleanup"
  /\ work' = [work EXCEPT ![r] = Ended]
  /\ GiveBack(p)
  /\ event' = [event EXCEPT ![p][r] = "none"]
  /\ UNCHANGED <<files, process, leaked, call>>

-----------------------------------------------------------------------------
(* The processes.                                                           *)

\* Pids bounds the incarnations of the model here: one is left to start each
\* process again.
PidsLeft ==
  FreshPids => Cardinality({q \in Procs : mode[q] = "down"}) < Cardinality(Pids \ used)

\* A process that ends takes its callers, threads and tables with it.
Vanish(p) ==
  /\ PidsLeft
  /\ mode' = [mode EXCEPT ![p] = "down"]
  /\ call' = [c \in Callers |-> IF Home[c] = p THEN Idle ELSE call[c]]
  /\ event' = [event EXCEPT ![p] = [r \in RunId |-> "none"]]
  /\ work' = [r \in RunId |-> IF r \in Workers(p) THEN Ended ELSE work[r]]
  /\ UNCHANGED <<files, pid, used, slots, leaked>>

Crash(p) == p \in Crashable /\ mode[p] # "down" /\ Vanish(p)

\* A new incarnation has a new pid, a full semaphore and empty tables.
StartProcess(p) ==
  /\ mode[p] = "down"
  /\ \E q \in Pids :
       /\ FreshPids => q \notin used
       /\ pid' = [pid EXCEPT ![p] = q]
       /\ used' = used \cup {q}
  /\ mode' = [mode EXCEPT ![p] = "up"]
  /\ slots' = [slots EXCEPT ![p] = Slots]
  /\ leaked' = [leaked EXCEPT ![p] = 0]
  /\ UNCHANGED <<files, event, call, work>>

\* A signal: the scheduler finishes its tick first, the request threads of the
\* API are not waited for.
Shutdown(p) ==
  /\ p \in Stoppable /\ mode[p] = "up"
  /\ p \in Loops => \A c \in Callers : Home[c] = p => call[c].pc = "idle"
  /\ EndLoop(p)
  /\ UNCHANGED <<files, pid, used, slots, leaked, call, work>>

\* (mutant of Exit) the background threads are daemons
ExitAtOnce(p) == mode[p] = "stopping" /\ Vanish(p)

\* join_background_runs gives up after ten seconds, but the interpreter itself
\* waits for the threads, which are not daemons.
Exit(p) == mode[p] = "stopping" /\ Workers(p) = {} /\ Vanish(p)

-----------------------------------------------------------------------------
CallerStep(c) ==
  \/ ScanAlive(c) \/ ScanOrphan(c) \/ CloseOrphan(c) \/ CloseOrphanRaises(c)
  \/ Reread(c) \/ RereadRaises(c) \/ TickRaises(c) \/ ScanDone(c)
  \/ Acquire(c) \/ StartRefused(c) \/ Alloc(c) \/ Append(c) \/ CreateRaises(c)
  \/ Register(c) \/ Launch(c) \/ LaunchRaises(c)
  \/ FailGet(c) \/ FailFinish(c) \/ FailFinishRaises(c) \/ Release(c)
  \/ CancelSignal(c) \/ CancelNoEvent(c) \/ CancelForce(c) \/ CancelForceRaises(c)
  \/ PurgeSave(c)

\* The scheduler's tick only looks for running runs and starts jobs.
Request(c) ==
  \/ Read(c) \/ \E j \in Jobs : StartJob(c, j)
  \/ /\ Home[c] \notin Loops
     /\ \/ StartManual(c)
        \/ \E r \in RunId : CancelRun(c, r)
        \/ \E j \in PurgeJobs : PurgeLoad(c, j)

WorkerStep(r) ==
  \/ Plan(r) \/ Query(r) \/ Search(r) \/ Progress(r) \/ QueriesDone(r)
  \/ StoreRaw(r) \/ StoreCurated(r) \/ FinishSuccess(r)
  \/ ErrorGet(r) \/ ErrorFinish(r) \/ PopEvent(r) \/ Reschedule(r)
  \/ RecordGet(r) \/ RecordFinish(r) \/ Cleanup(r)

ProcessStep(p) == Crash(p) \/ StartProcess(p) \/ Shutdown(p) \/ Exit(p)

Next ==
  \/ \E c \in Callers : CallerStep(c) \/ Request(c)
  \/ \E r \in RunId : WorkerStep(r)
  \/ \E p \in Procs : ProcessStep(p)

Spec == Init /\ [][Next]_vars

\* A thread that has begun goes on, a dead owner's host process is started
\* again, and the pages of the web UI keep reading the job list and the history.
Fairness ==
  /\ \A c \in Callers : WF_vars(CallerStep(c))
  /\ \A r \in RunId : WF_vars(WorkerStep(r))
  /\ \A p \in Procs \ Loops : WF_vars(StartProcess(p))
  /\ \A c \in Callers : Home[c] \notin Loops => SF_vars(ReadRows(c, Running))

FairSpec == Spec /\ Fairness

-----------------------------------------------------------------------------
(* Safety.                                                                  *)

\* Every permit of a process's semaphore is free, held by a caller that is
\* starting a run, held by exactly one live background thread, or lost on one
\* of the two error paths that skip _release_run_slot.  In particular no path
\* releases twice, and never more than Slots threads run at a time.
SlotConservation ==
  \A p \in Procs : mode[p] # "down" =>
    slots[p] + Cardinality(Holders(p)) + Cardinality(Workers(p)) + leaked[p] = Slots

\* A cancel event that can be found has a thread that will look at it: it
\* belongs to a run whose thread is live, or whose caller is about to start it.
\* So cancel_run never signals a run that nobody executes.
EventHasExecutor ==
  \A p \in Procs, r \in RunId : event[p][r] # "none" =>
    \/ r \in Workers(p)
    \/ \E c \in Callers : Home[c] = p /\ call[c].pc = "launch" /\ call[c].run = r

\* A run closed with "the owner process is no longer running" has no thread
\* that could still store results, however old the row was that was judged.
OrphanClosureSound ==
  \A r \in RunId : row[r].status = "cancelled" /\ row[r].note = "owner_gone" => ~Live(r)

\* The status a run's own thread gave it tells what is in the database: after
\* success everything, after a cancellation it acknowledged nothing at all.
StatusMatchesStore ==
  \A r \in RunId :
    /\ row[r].status = "success" => saved[r] = "curated"
    /\ row[r].status = "cancelled" /\ row[r].note = "worker" => saved[r] = "none"

\* A run that has ended never counts as running again: no late progress
\* update, retry or closing writes back a running row.
NoResurrection ==
  [][\A r \in RunId : row[r].status \in Terminal => row'[r].status # "running"]_vars

\* A scheduler that stops on a signal leaves no run behind, unless it is killed
\* meanwhile: its tick has returned, and its threads are waited for, so every
\* run it owns has ended.
GracefulExit ==
  [][\A p \in Loops : Exit(p) =>
       \A r \in RunId : row[r].status = "running" => info[r].owner # pid[p]]_vars

\* A success never turns into a failure, whatever raises after it was recorded
\* (rescheduling, popping the event, giving the slot back).
SuccessNeverFails ==
  [][\A r \in RunId : row[r].status = "success" => row'[r].status # "failed"]_vars

\* A run that is gone from the history stays gone: its thread may still be at
\* work, but none of its late writes creates the row again.
DeletedStaysDeleted ==
  [][\A r \in RunId : info[r].owner # NoPid /\ row[r].status = "absent" =>
       row'[r].status = "absent"]_vars

(* Liveness. *)

\* Every background thread ends and gives its slot back, also when the row of its
\* run is deleted under it.
ThreadsEnd == \A r \in RunId : Live(r) ~> ~Live(r)

\* While the processes live, every run comes to an end, cancelled or not.
RunsTerminate ==
  \A r \in RunId : row[r].status = "running" ~> row[r].status # "running"

\* A running row that no thread executes or is about to execute.
Starting(r) == \E c \in Callers : call[c].pc \in Holding /\ call[c].run = r
Orphan(r) == row[r].status = "running" /\ ~Live(r) /\ ~Starting(r)

\* A run whose process has died is closed, as long as somebody reads the history.
OrphansRecovered == \A r \in RunId : Orphan(r) ~> row[r].status # "running"

(* Claims of the documentation and the tests that the code does not keep.   *)

\* README: the number of concurrent runs is limited; a run is refused only
\* when that limit is reached, that is, when some run holds a slot.
RefusedOnlyWhenBusy ==
  \A p \in Procs : mode[p] # "down" /\ slots[p] = 0 => Holders(p) \cup Workers(p) # {}

\* A job that has a running run is skipped, so it never has two.
OneRunPerJob ==
  \A r, s \in Running : info[r].job \in Jobs /\ info[r].job = info[s].job => r = s

\* A run closed because its execution context is gone is executed no more.
ContextGoneIsOver ==
  \A r \in RunId : row[r].note = "context_gone" => ~Live(r)

=============================================================================
