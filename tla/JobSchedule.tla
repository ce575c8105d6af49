----------------------------- MODULE JobSchedule -----------------------------
(***************************************************************************)
(* The registry of automatic jobs and the scheduler's tick:                *)
(* backend/collector_service_parts/jobs.py (JobMixin), with run_job_now    *)
(* and _run_auto_job_in_background of runs.py as far as they touch jobs.   *)
(*                                                                         *)
(* The registry is one file.  Every write goes through mutate_workspace,   *)
(* which reads, changes and writes the file under its lock: one step here. *)
(* A tick, a batch and run_job_now are several steps: each works on what   *)
(* it has read before.  How a run is started, executed and recorded is the *)
(* subject of RunLifecycle; here it is a thread that occupies a slot.      *)
(*                                                                         *)
(* next_run_at is kept as the time that is left until then.                *)
(***************************************************************************)
EXTENDS Naturals, FiniteSets

CONSTANTS
  MaxJobs,    \* bound: job ids that are ever allocated
  Intervals,  \* values of interval_minutes, in units of the clock
  Procs,      \* processes with a service object
  Slots,      \* background slots of each
  Callers,    \* request threads and the scheduler's main thread
  Home,       \* Home[c]: the process of a caller
  Tickers,    \* callers that only run ticks
  Broken,     \* jobs whose task pack cannot be loaded
  Requests,   \* kinds of requests users send
  Never,      \* next_run_at is None
  Timely      \* TRUE: a thread that has ended gives its slot back before the next tick

JobId == 1..MaxJobs
SlotId == 1..Slots
NoJob == 0

ASSUME ScheduleAssumption ==
  /\ MaxJobs \in Nat /\ Slots \in Nat /\ Never \notin Nat
  /\ Intervals \subseteq Nat \ {0} /\ Intervals # {}
  /\ Home \in [Callers -> Procs] /\ Tickers \subseteq Callers /\ Broken \subseteq JobId
  /\ Requests \subseteq {"edit", "purge", "run_now", "batch", "import"} /\ Timely \in BOOLEAN

VARIABLES
  job,     \* workspace.json: the registry; stage "none": no such entry
  nextId,  \* workspace.json: meta.next_job_id
  copy,    \* a workspace that a user has exported
  thread,  \* thread[p][k]: what occupies slot k of process p
  call,    \* what each caller is doing
  away     \* history: jobs that have not been wanted since the call began

vars == <<job, nextId, copy, thread, call, away>>

\* Time left; a due job has none.
Delay == Nat \cup {Never}
Job == [stage: {"none", "active", "deleted"}, enabled: BOOLEAN, interval: Intervals, next: Delay]
NoEntry == [stage |-> "none", enabled |-> FALSE,
            interval |-> CHOOSE i \in Intervals : TRUE, next |-> Never]

Thread == [pc: {"free", "running", "resched", "done"}, job: JobId \cup {NoJob},
           interval: Intervals, row: BOOLEAN]
Free == [pc |-> "free", job |-> NoJob, interval |-> CHOOSE i \in Intervals : TRUE, row |-> FALSE]

BatchOp == {"enable", "disable", "run_now", "delete", "restore", "purge"}
Call == [pc: {"idle", "next", "read", "look", "acquire", "rows"}, op: BatchOp \cup {"none", "tick"},
         todo: SUBSET JobId, job: JobId \cup {NoJob}, interval: Intervals]
Idle == [pc |-> "idle", op |-> "none", todo |-> {}, job |-> NoJob,
         interval |-> CHOOSE i \in Intervals : TRUE]

Registry == [job: [JobId -> Job], nextId: 1..(MaxJobs + 1)]

TypeOK ==
  /\ job \in [JobId -> Job]
  /\ nextId \in 1..(MaxJobs + 1)
  /\ copy \in Registry
  /\ thread \in [Procs -> [SlotId -> Thread]]
  /\ call \in [Callers -> Call]
  /\ away \in [Callers -> SUBSET JobId]

Init ==
  /\ job = [j \in JobId |-> NoEntry]
  /\ nextId = 1
  /\ copy = [job |-> [j \in JobId |-> NoEntry], nextId |-> 1]
  /\ thread = [p \in Procs |-> [k \in SlotId |-> Free]]
  /\ call = [c \in Callers |-> Idle]
  /\ away = [c \in Callers |-> {}]

-----------------------------------------------------------------------------
Known(j) == job[j].stage # "none"
Active(j) == job[j].stage = "active"

\* (mutant of Due) next_run_at alone is taken to say that a job is due
DueByTime(j) == Active(j) /\ job[j].next = 0

\* tick: enabled, not deleted, and next_run_at is not later than now.
Due(j) == Active(j) /\ job[j].enabled /\ job[j].next = 0

\* A running row of job j in the history (whose thread lives in any process).
HasRun(j) == \E p \in Procs, k \in SlotId :
  thread[p][k].pc = "running" /\ thread[p][k].job = j /\ thread[p][k].row

\* A tick wants a job that is active and enabled; a user any active job.
Wanted(op, j, registry) == registry[j].stage = "active" /\ (op = "tick" => registry[j].enabled)

\* mutate_workspace: the callback's change of job entry j (and next_job_id).
Commit(registry, next) ==
  /\ job' = registry
  /\ nextId' = next
  /\ away' = [c \in Callers |-> {j \in away[c] : ~Wanted(call[c].op, j, registry)}]

Mutate(j, entry) == Commit([job EXCEPT ![j] = entry], nextId)
Scheduled(enabled, interval) == IF enabled THEN interval ELSE Never

-----------------------------------------------------------------------------
(* What a user changes.  An entry that is missing (or deleted, where that   *)
(* matters) makes the operation raise: nothing is written.                  *)

\* (mutant of NextJobId) next_job_id is computed from the entries alone
NextIdFromEntries(registry, next) ==
  1 + Cardinality({i \in JobId : \E j \in JobId : i <= j /\ registry[j].stage # "none"})

\* _normalize_workspace: never below an id in use, never below the stored value.
NextJobId(registry, next) ==
  LET above == 1 + Cardinality({i \in JobId : \E j \in JobId : i <= j /\ registry[j].stage # "none"})
  IN IF next > above THEN next ELSE above

CreateJob(interval, enabled) ==
  /\ nextId \in JobId
  /\ LET entry == [stage |-> "active", enabled |-> enabled, interval |-> interval,
                   next |-> Scheduled(enabled, interval)]
         registry == [job EXCEPT ![nextId] = entry]
     IN Commit(registry, NextJobId(registry, nextId + 1))

UpdateJob(j, interval, enabled) ==
  /\ Active(j) /\ j \notin Broken
  /\ Mutate(j, [job[j] EXCEPT !.interval = interval, !.enabled = enabled,
                              !.next = Scheduled(enabled, interval)])

ToggleJob(j, enabled) ==
  /\ Active(j)
  /\ Mutate(j, [job[j] EXCEPT !.enabled = enabled,
                              !.next = Scheduled(enabled, job[j].interval)])

DeleteJob(j) ==
  /\ Known(j)
  /\ Mutate(j, [job[j] EXCEPT !.stage = "deleted", !.enabled = FALSE, !.next = Never])

\* (mutant of RestoreJob) the job comes back enabled, without a next run
RestoreEnabled(j) ==
  /\ Known(j)
  /\ Mutate(j, [job[j] EXCEPT !.stage = "active", !.enabled = TRUE, !.next = Never])

\* restore_job does not ask whether the job is deleted.
RestoreJob(j) ==
  /\ Known(j)
  /\ Mutate(j, [job[j] EXCEPT !.stage = "active", !.enabled = FALSE, !.next = Never])

\* purge_job, first half: the entry is removed (deleted or not).
PurgeEntry(j) ==
  /\ Known(j)
  /\ LET registry == [job EXCEPT ![j] = NoEntry] IN Commit(registry, NextJobId(registry, nextId))

\* One request, one change of the registry.
Edit(c) ==
  /\ "edit" \in Requests /\ call[c].pc = "idle" /\ c \notin Tickers
  /\ \/ \E i \in Intervals, b \in BOOLEAN : CreateJob(i, b)
     \/ \E j \in JobId, b \in BOOLEAN : ToggleJob(j, b)
     \/ \E j \in JobId, i \in Intervals, b \in BOOLEAN : UpdateJob(j, i, b)
     \/ \E j \in JobId : DeleteJob(j)
     \/ \E j \in JobId : RestoreJob(j)
  /\ UNCHANGED <<copy, thread, call>>

Purge(c, j) ==
  /\ "purge" \in Requests /\ call[c].pc = "idle" /\ c \notin Tickers
  /\ PurgeEntry(j)
  /\ call' = [call EXCEPT ![c] = [Idle EXCEPT !.pc = "rows", !.job = j]]
  /\ UNCHANGED <<copy, thread>>

\* purge_job, second half: delete_runs_for_job removes the rows, not the threads.
PurgeRows(c) ==
  /\ call[c].pc = "rows"
  /\ thread' = [p \in Procs |-> [k \in SlotId |->
       IF thread[p][k].job = call[c].job THEN [thread[p][k] EXCEPT !.row = FALSE]
       ELSE thread[p][k]]]
  /\ call' = [call EXCEPT ![c] = IF call[c].todo = {} THEN Idle
                                 ELSE [@ EXCEPT !.pc = "next", !.job = NoJob]]
  /\ UNCHANGED <<job, nextId, copy, away>>

\* The settings page saves, or imports, a workspace as it was some time ago.
ExportWorkspace ==
  /\ "import" \in Requests
  /\ copy' = [job |-> job, nextId |-> nextId]
  /\ UNCHANGED <<job, nextId, thread, call, away>>

ImportWorkspace ==
  /\ "import" \in Requests
  /\ Commit(copy.job, NextJobId(copy.job, copy.nextId))
  /\ UNCHANGED <<copy, thread, call>>

-----------------------------------------------------------------------------
(* Ticks, batches and run_job_now.                                          *)

Begin(c, op, todo) ==
  /\ call[c].pc = "idle" /\ todo # {}
  /\ call' = [call EXCEPT ![c] = [Idle EXCEPT !.pc = "next", !.op = op, !.todo = todo]]
  /\ away' = [away EXCEPT ![c] = {j \in JobId : ~Wanted(op, j, job)}]
  /\ UNCHANGED <<job, nextId, copy, thread>>

\* tick reads the registry once.
Tick(c) ==
  /\ Timely => \A p \in Procs, k \in SlotId : thread[p][k].pc \notin {"resched", "done"}
  /\ Begin(c, "tick", {j \in JobId : Due(j)})

RunJobNow(c, j) == "run_now" \in Requests /\ c \notin Tickers /\ Begin(c, "run_now", {j})

\* batch_jobs selects the entries and validates them, once.
BatchJobs(c, op, S) ==
  /\ "batch" \in Requests /\ c \notin Tickers
  /\ S \subseteq {j \in JobId : Known(j)}
  /\ \A j \in S : Active(j) <=> op \notin {"restore", "purge"}
  /\ Begin(c, op, S)

\* The item is done, or its error is recorded; the next one follows.
NextItem(c) ==
  LET left == call[c].todo \ {call[c].job} IN
  call' = [call EXCEPT ![c] = IF left = {} THEN Idle
                              ELSE [@ EXCEPT !.pc = "next", !.todo = left, !.job = NoJob]]

\* (mutant of ItemFails) the first error ends the tick
TickGivesUp(c) == call' = [call EXCEPT ![c] = Idle]

ItemFails(c) == NextItem(c)

Goto(c, at, to) == call[c].pc = at /\ call' = [call EXCEPT ![c].pc = to]

\* (mutant of TickItem) one start a tick: the other due jobs are put off
TickPutsOff(c, j) ==
  /\ call[c].pc = "next" /\ call[c].op \in {"tick", "run_now"}
  /\ j \in call[c].todo /\ \A i \in call[c].todo : j <= i
  /\ call' = [call EXCEPT ![c].job = j, ![c].pc = "read", ![c].todo = {j}]
  /\ Commit([i \in JobId |-> IF i \in call[c].todo \ {j}
                            THEN [job[i] EXCEPT !.next = Scheduled(@ # Never, job[i].interval)]
                            ELSE job[i]], nextId)
  /\ UNCHANGED <<copy, thread>>

\* The tick takes due jobs by id, and skips one that has a running run.
TickItem(c, j) ==
  /\ call[c].pc = "next" /\ call[c].op \in {"tick", "run_now"}
  /\ j \in call[c].todo /\ \A i \in call[c].todo : j <= i
  /\ call' = [call EXCEPT ![c] =
       IF call[c].op = "tick" /\ HasRun(j)
       THEN IF call[c].todo = {j} THEN Idle ELSE [call[c] EXCEPT !.todo = @ \ {j}]
       ELSE [call[c] EXCEPT !.job = j, !.pc = "read"]]
  /\ UNCHANGED <<job, nextId, copy, thread, away>>

\* One item of a batch that changes the registry; an entry that is no longer
\* there or no longer active is an error of that item.
BatchItem(c, j) ==
  LET op == call[c].op
      left == call[c].todo \ {j}
      done == IF left = {} THEN Idle ELSE [call[c] EXCEPT !.todo = left]
  IN
  /\ call[c].pc = "next" /\ j \in call[c].todo
  /\ \/ op \in {"enable", "disable"} /\ ToggleJob(j, op = "enable") /\ call' = [call EXCEPT ![c] = done]
     \/ op = "delete" /\ DeleteJob(j) /\ call' = [call EXCEPT ![c] = done]
     \/ op = "restore" /\ RestoreJob(j) /\ call' = [call EXCEPT ![c] = done]
     \/ /\ op = "purge" /\ PurgeEntry(j)
        /\ call' = [call EXCEPT ![c].pc = "rows", ![c].job = j, ![c].todo = left]
     \/ /\ op \in BatchOp \ {"run_now"}
        /\ ~Known(j) \/ (op \in {"enable", "disable"} /\ ~Active(j))
        /\ call' = [call EXCEPT ![c] = done]
        /\ UNCHANGED <<job, nextId, away>>
  /\ UNCHANGED <<copy, thread>>

\* run_job_now reads the entry: it must be there and not deleted.  Whether it
\* is enabled is not asked again.
ReadJob(c) ==
  LET j == call[c].job IN
  /\ call[c].pc = "read"
  /\ \/ Active(j) /\ call' = [call EXCEPT ![c].pc = "look", ![c].interval = job[j].interval]
     \/ ~Active(j) /\ ItemFails(c)
  /\ UNCHANGED <<job, nextId, copy, thread, away>>

\* A running run of the job is returned; otherwise the pack is loaded.
LookForRun(c) ==
  LET j == call[c].job IN
  /\ call[c].pc = "look"
  /\ \/ HasRun(j) /\ NextItem(c)
     \/ ~HasRun(j) /\ j \notin Broken /\ Goto(c, "look", "acquire")
     \/ ~HasRun(j) /\ j \in Broken /\ ItemFails(c)
  /\ UNCHANGED <<job, nextId, copy, thread, away>>

LaunchRun(c, k) ==
  LET p == Home[c] IN
  /\ call[c].pc = "acquire" /\ thread[p][k].pc = "free"
  /\ thread' = [thread EXCEPT ![p][k] =
       [pc |-> "running", job |-> call[c].job, interval |-> call[c].interval, row |-> TRUE]]
  /\ NextItem(c)
  /\ UNCHANGED <<job, nextId, copy, away>>

\* "too many background runs"
LaunchRefused(c) ==
  /\ call[c].pc = "acquire"
  /\ \A k \in SlotId : thread[Home[c]][k].pc # "free"
  /\ ItemFails(c)
  /\ UNCHANGED <<job, nextId, copy, thread, away>>

-----------------------------------------------------------------------------
(* The background threads.                                                  *)

ThreadStep(p, k, at, to) ==
  /\ thread[p][k].pc = at
  /\ thread' = [thread EXCEPT ![p][k].pc = to]
  /\ UNCHANGED <<copy, call>>

\* The success is recorded in the history, before the job is rescheduled.
RunSucceeds(p, k) ==
  /\ thread[p][k].row
  /\ ThreadStep(p, k, "running", "resched")
  /\ UNCHANGED <<job, nextId, away>>

\* A failed or cancelled run, or one whose row is gone: no rescheduling.
RunFails(p, k) ==
  /\ ThreadStep(p, k, "running", "done")
  /\ UNCHANGED <<job, nextId, away>>

\* _schedule_job_next_run: only next_run_at, by the interval the run was
\* started with, whatever has become of the job.
ScheduleNextRun(p, k) ==
  LET j == thread[p][k].job IN
  /\ ThreadStep(p, k, "resched", "done")
  /\ IF Known(j) THEN Mutate(j, [job[j] EXCEPT !.next = thread[p][k].interval])
     ELSE Mutate(j, job[j])

ReleaseSlot(p, k) ==
  /\ thread[p][k].pc = "done"
  /\ thread' = [thread EXCEPT ![p][k] = Free]
  /\ UNCHANGED <<job, nextId, copy, call, away>>

-----------------------------------------------------------------------------
Less(d) == IF d = Never \/ d = 0 THEN d ELSE d - 1
Older(registry) == [j \in JobId |-> [registry[j] EXCEPT !.next = Less(@)]]

\* Time passes.
Clock ==
  /\ \E j \in JobId : Less(job[j].next) # job[j].next \/ Less(copy.job[j].next) # copy.job[j].next
  /\ job' = Older(job)
  /\ copy' = [copy EXCEPT !.job = Older(@)]
  /\ UNCHANGED <<nextId, thread, call, away>>

CallStep(c) ==
  \/ PurgeRows(c) \/ \E j \in JobId : TickItem(c, j) \/ BatchItem(c, j)
  \/ ReadJob(c) \/ LookForRun(c) \/ LaunchRefused(c) \/ \E k \in SlotId : LaunchRun(c, k)

ThreadEnds(p, k) == RunSucceeds(p, k) \/ RunFails(p, k)
ThreadGoesOn(p, k) == ScheduleNextRun(p, k) \/ ReleaseSlot(p, k)

Request(c) ==
  \/ Edit(c) \/ \E j \in JobId : Purge(c, j) \/ RunJobNow(c, j)
  \/ \E op \in BatchOp, S \in SUBSET JobId : BatchJobs(c, op, S)

Next ==
  \/ \E c \in Callers : Tick(c) \/ CallStep(c) \/ Request(c)
  \/ \E p \in Procs, k \in SlotId : ThreadEnds(p, k) \/ ThreadGoesOn(p, k)
  \/ ExportWorkspace \/ ImportWorkspace
  \/ Clock

Spec == Init /\ [][Next]_vars

\* The scheduler ticks for ever, calls and threads that have begun go on, and
\* time passes.
Fairness ==
  /\ \A c \in Callers : WF_vars(CallStep(c))
  /\ \A c \in Tickers : WF_vars(Tick(c))
  /\ \A p \in Procs, k \in SlotId : WF_vars(ThreadEnds(p, k)) /\ WF_vars(ThreadGoesOn(p, k))
  /\ WF_vars(Clock)

FairSpec == Spec /\ Fairness

-----------------------------------------------------------------------------
\* An enabled job always has a time for its next run, whatever sequence of
\* edits, runs and imports led there: it cannot be enabled and forgotten.
EnabledIsScheduled ==
  \A j \in JobId : job[j].enabled => Active(j) /\ job[j].next # Never

\* What is about to be started was wanted at some moment since the call began:
\* a tick starts no job that was disabled or deleted before the tick read the
\* registry, even though the end of an earlier run may have set its
\* next_run_at since; run_job_now none that was deleted before it was called.
StartsOnlyWanted ==
  \A c \in Callers : call[c].pc = "acquire" => call[c].job \notin away[c]

\* A new job never finds a run under its id: ids of purged jobs, whose threads
\* may still be at work, are not given again.
JobStartsFresh ==
  [][\A j \in JobId : job[j].stage = "none" /\ job'[j].stage # "none" =>
       \A p \in Procs, k \in SlotId : thread[p][k].job # j]_vars

\* A due job is run, or ceases to be due.
DueJobsRun == \A j \in JobId \ Broken : Due(j) ~> ~Due(j) \/ HasRun(j)

\* A job that stays enabled, and that requests no longer change, is run again and
\* again: its runs and the clock neither put it off for ever nor leave it without
\* a next run, whatever happens to the other jobs (runs.py, _schedule_job_next_run).
Untouched(j) == UNCHANGED <<thread, call>> => job'[j] \in {job[j], [job[j] EXCEPT !.next = Less(@)]}
EnabledJobsKeepRunning ==
  \A j \in JobId \ Broken :
    <>[](job[j].enabled) /\ <>[][Untouched(j)]_vars => []<>HasRun(j)

=============================================================================
