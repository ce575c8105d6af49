-------------------------- MODULE JobSchedule_proofs --------------------------
(***************************************************************************)
(* Theorems about JobSchedule, for any number of jobs, callers, processes, *)
(* slots, intervals and kinds of requests.                                 *)
(***************************************************************************)
EXTENDS JobSchedule, FiniteSetTheorems, TLAPS

-----------------------------------------------------------------------------
(* The inductive invariant of type correctness and of EnabledIsScheduled.   *)

\* A call that works on one job, and a thread that executes one, know which.
BusyCall == {x \in Call : x.pc \in {"read", "look", "acquire", "rows"} => x.job \in JobId}
BusyThread == {x \in Thread : x.pc \in {"running", "resched"} => x.job \in JobId}

RegistryOK(registry) ==
  \A j \in JobId : registry[j].enabled => registry[j].stage = "active" /\ registry[j].next # Never

RegistryInv ==
  /\ TypeOK
  /\ call \in [Callers -> BusyCall]
  /\ thread \in [Procs -> [SlotId -> BusyThread]]
  /\ RegistryOK(job) /\ RegistryOK(copy.job)

\* What every change of the registry achieves.
Changed ==
  /\ job' \in [JobId -> Job]
  /\ nextId' \in 1..(MaxJobs + 1)
  /\ RegistryOK(job')
  /\ away' = [c \in Callers |-> {j \in away[c] : ~Wanted(call[c].op, j, job')}]

-----------------------------------------------------------------------------
(* The values records start from.                                           *)

LEMMA SomeInterval == (CHOOSE i \in Intervals : TRUE) \in Intervals
BY ScheduleAssumption

LEMMA NoEntryType == NoEntry \in Job /\ NoEntry.enabled = FALSE /\ NoEntry.stage = "none"
BY SomeInterval DEF NoEntry, Job, Delay

LEMMA FreeType == Free \in BusyThread
BY SomeInterval DEF Free, BusyThread, Thread

LEMMA IdleType == Idle \in BusyCall /\ Idle.pc = "idle" /\ Idle.op = "none" /\ Idle.todo = {}
BY SomeInterval DEF Idle, BusyCall, Call

LEMMA ScheduledType ==
  ASSUME NEW i \in Intervals, NEW b \in BOOLEAN
  PROVE  Scheduled(b, i) \in Delay /\ (b => Scheduled(b, i) # Never)
BY ScheduleAssumption DEF Scheduled, Delay

\* An entry's interval is a time.
LEMMA IntervalIsDelay == ASSUME NEW i \in Intervals PROVE i \in Delay /\ i # Never
BY ScheduleAssumption DEF Delay

LEMMA NextJobIdBound ==
  ASSUME NEW registry, NEW next \in 1..(MaxJobs + 1)
  PROVE  NextJobId(registry, next) \in 1..(MaxJobs + 1) /\ NextJobId(registry, next) >= next
<1> DEFINE S == {i \in JobId : \E j \in JobId : i <= j /\ registry[j].stage # "none"}
<1>1. IsFiniteSet(JobId) /\ Cardinality(JobId) = MaxJobs
  BY FS_Interval, ScheduleAssumption DEF JobId
<1>2. IsFiniteSet(S) /\ Cardinality(S) <= MaxJobs
  BY <1>1, FS_Subset
<1>3. Cardinality(S) \in Nat
  BY <1>2, FS_CardinalityType
<1>4. NextJobId(registry, next) = IF next > 1 + Cardinality(S) THEN next ELSE 1 + Cardinality(S)
  BY DEF NextJobId
<1> HIDE DEF S
<1>5. QED
  BY <1>2, <1>3, <1>4, ScheduleAssumption

-----------------------------------------------------------------------------
(* Each change of the registry keeps it well formed.                        *)

LEMMA MutateChanges ==
  ASSUME RegistryInv, NEW j \in JobId, NEW entry \in Job, Mutate(j, entry),
         entry.enabled => entry.stage = "active" /\ entry.next # Never
  PROVE  Changed
<1>1. job' = [job EXCEPT ![j] = entry] /\ nextId' = nextId
  BY DEF Mutate, Commit
<1>2. job' \in [JobId -> Job]
  BY <1>1 DEF RegistryInv, TypeOK
<1>3. RegistryOK(job')
  BY <1>1 DEF RegistryInv, TypeOK, RegistryOK
<1>4. QED
  BY <1>1, <1>2, <1>3 DEF Mutate, Commit, Changed, RegistryInv, TypeOK

LEMMA CreateChanges ==
  ASSUME RegistryInv, NEW i \in Intervals, NEW b \in BOOLEAN, CreateJob(i, b)
  PROVE  Changed
<1> DEFINE entry == [stage |-> "active", enabled |-> b, interval |-> i, next |-> Scheduled(b, i)]
           registry == [job EXCEPT ![nextId] = entry]
<1>1. nextId \in JobId /\ nextId + 1 \in 1..(MaxJobs + 1)
  BY ScheduleAssumption DEF CreateJob, JobId
<1>2. entry \in Job
  BY ScheduledType DEF Job
<1>3. Commit(registry, NextJobId(registry, nextId + 1))
  BY DEF CreateJob
<1>4. registry \in [JobId -> Job]
  BY <1>1, <1>2 DEF RegistryInv, TypeOK
<1>5. RegistryOK(registry)
  BY <1>1, ScheduledType DEF RegistryInv, TypeOK, RegistryOK
<1> HIDE DEF registry
<1>6. NextJobId(registry, nextId + 1) \in 1..(MaxJobs + 1)
  BY <1>1, NextJobIdBound
<1>7. QED
  BY <1>3, <1>4, <1>5, <1>6 DEF Commit, Changed

LEMMA UpdateChanges ==
  ASSUME RegistryInv, NEW j \in JobId, NEW i \in Intervals, NEW b \in BOOLEAN, UpdateJob(j, i, b)
  PROVE  Changed
<1> DEFINE entry == [job[j] EXCEPT !.interval = i, !.enabled = b, !.next = Scheduled(b, i)]
<1>1. entry \in Job /\ (entry.enabled => entry.stage = "active" /\ entry.next # Never)
  BY ScheduledType DEF RegistryInv, TypeOK, Job, UpdateJob, Active
<1>2. Mutate(j, entry)
  BY DEF UpdateJob
<1> HIDE DEF entry
<1>3. QED
  BY <1>1, <1>2, MutateChanges

LEMMA ToggleChanges ==
  ASSUME RegistryInv, NEW j \in JobId, NEW b \in BOOLEAN, ToggleJob(j, b)
  PROVE  Changed
<1> DEFINE entry == [job[j] EXCEPT !.enabled = b, !.next = Scheduled(b, job[j].interval)]
<1>1. job[j] \in Job /\ job[j].interval \in Intervals
  BY DEF RegistryInv, TypeOK, Job
<1>2. entry \in Job /\ (entry.enabled => entry.stage = "active" /\ entry.next # Never)
  BY <1>1, ScheduledType DEF Job, ToggleJob, Active
<1>3. Mutate(j, entry)
  BY DEF ToggleJob
<1> HIDE DEF entry
<1>4. QED
  BY <1>2, <1>3, MutateChanges

LEMMA DeleteChanges ==
  ASSUME RegistryInv, NEW j \in JobId, DeleteJob(j)
  PROVE  Changed
<1> DEFINE entry == [job[j] EXCEPT !.stage = "deleted", !.enabled = FALSE, !.next = Never]
<1>1. entry \in Job /\ ~entry.enabled
  BY DEF RegistryInv, TypeOK, Job, Delay
<1>2. Mutate(j, entry)
  BY DEF DeleteJob
<1> HIDE DEF entry
<1>3. QED
  BY <1>1, <1>2, MutateChanges

LEMMA RestoreChanges ==
  ASSUME RegistryInv, NEW j \in JobId, RestoreJob(j)
  PROVE  Changed
<1> DEFINE entry == [job[j] EXCEPT !.stage = "active", !.enabled = FALSE, !.next = Never]
<1>1. entry \in Job /\ ~entry.enabled
  BY DEF RegistryInv, TypeOK, Job, Delay
<1>2. Mutate(j, entry)
  BY DEF RestoreJob
<1> HIDE DEF entry
<1>3. QED
  BY <1>1, <1>2, MutateChanges

LEMMA PurgeChanges ==
  ASSUME RegistryInv, NEW j \in JobId, PurgeEntry(j)
  PROVE  Changed
<1> DEFINE registry == [job EXCEPT ![j] = NoEntry]
<1>1. Commit(registry, NextJobId(registry, nextId))
  BY DEF PurgeEntry
<1>2. registry \in [JobId -> Job] /\ RegistryOK(registry)
  BY NoEntryType DEF RegistryInv, TypeOK, RegistryOK
<1> HIDE DEF registry
<1>3. NextJobId(registry, nextId) \in 1..(MaxJobs + 1)
  BY NextJobIdBound DEF RegistryInv, TypeOK
<1>4. QED
  BY <1>1, <1>2, <1>3 DEF Commit, Changed

LEMMA ImportChanges ==
  ASSUME RegistryInv, ImportWorkspace
  PROVE  Changed
<1>1. copy.job \in [JobId -> Job] /\ copy.nextId \in 1..(MaxJobs + 1) /\ RegistryOK(copy.job)
  BY DEF RegistryInv, TypeOK, Registry
<1>2. NextJobId(copy.job, copy.nextId) \in 1..(MaxJobs + 1)
  BY <1>1, NextJobIdBound
<1>3. QED
  BY <1>1, <1>2 DEF ImportWorkspace, Commit, Changed

LEMMA ScheduleChanges ==
  ASSUME RegistryInv, NEW p \in Procs, NEW k \in SlotId, ScheduleNextRun(p, k)
  PROVE  Changed
<1> DEFINE j == thread[p][k].job
           entry == IF Known(j) THEN [job[j] EXCEPT !.next = thread[p][k].interval] ELSE job[j]
<1>1. thread[p][k] \in BusyThread /\ thread[p][k].pc = "resched"
  BY DEF RegistryInv, ScheduleNextRun, ThreadStep
<1>2. j \in JobId /\ thread[p][k].interval \in Intervals
  BY <1>1 DEF BusyThread, Thread
<1>3. thread[p][k].interval \in Delay /\ thread[p][k].interval # Never
  BY <1>2, IntervalIsDelay
<1>4. entry \in Job /\ (entry.enabled => entry.stage = "active" /\ entry.next # Never)
  BY <1>2, <1>3 DEF RegistryInv, TypeOK, Job, RegistryOK
<1>5. Mutate(j, entry)
  BY DEF ScheduleNextRun
<1> HIDE DEF j, entry
<1>6. QED
  BY <1>2, <1>4, <1>5, MutateChanges

-----------------------------------------------------------------------------
(* Calls and threads.                                                       *)

\* A call's record is replaced.
LEMMA CallUpdate ==
  ASSUME RegistryInv, NEW c \in Callers, NEW rec \in BusyCall, call' = [call EXCEPT ![c] = rec]
  PROVE  call' \in [Callers -> BusyCall]
BY DEF RegistryInv

LEMMA CallType == ASSUME call' \in [Callers -> BusyCall] PROVE call' \in [Callers -> Call]
BY DEF BusyCall

LEMMA ThreadType ==
  ASSUME thread' \in [Procs -> [SlotId -> BusyThread]]
  PROVE  thread' \in [Procs -> [SlotId -> Thread]]
BY DEF BusyThread

LEMMA ThreadUpdate ==
  ASSUME RegistryInv, NEW p \in Procs, NEW k \in SlotId, NEW rec \in BusyThread,
         thread' = [thread EXCEPT ![p][k] = rec]
  PROVE  thread' \in [Procs -> [SlotId -> BusyThread]]
BY DEF RegistryInv

LEMMA NextItemType ==
  ASSUME RegistryInv, NEW c \in Callers, NextItem(c)
  PROVE  call' \in [Callers -> BusyCall]
<1> DEFINE left == call[c].todo \ {call[c].job}
           rec == IF left = {} THEN Idle
                  ELSE [call[c] EXCEPT !.pc = "next", !.todo = left, !.job = NoJob]
<1>1. call[c] \in Call
  BY DEF RegistryInv, BusyCall
<1>2. rec \in BusyCall
  BY <1>1, IdleType DEF BusyCall, Call, NoJob
<1>3. call' = [call EXCEPT ![c] = rec]
  BY DEF NextItem
<1> HIDE DEF rec
<1>4. QED
  BY <1>2, <1>3, CallUpdate

\* A call whose record goes on to another position, on the same job.
LEMMA CallMoves ==
  ASSUME NEW x \in BusyCall, x.pc \in {"read", "look", "acquire", "rows"},
         NEW to \in {"idle", "next", "read", "look", "acquire", "rows"}, NEW i \in Intervals
  PROVE  [x EXCEPT !.pc = to] \in BusyCall /\ [x EXCEPT !.pc = to, !.interval = i] \in BusyCall
BY DEF BusyCall, Call

-----------------------------------------------------------------------------
(* What each action does to the parts of the invariant.                     *)

LEMMA BeginInv ==
  ASSUME RegistryInv, NEW c \in Callers, NEW op \in BatchOp \cup {"tick"}, NEW S \in SUBSET JobId,
         Begin(c, op, S)
  PROVE  RegistryInv'
<1>1. [Idle EXCEPT !.pc = "next", !.op = op, !.todo = S] \in BusyCall
  BY IdleType DEF BusyCall, Call
<1>2. call' \in [Callers -> BusyCall]
  BY <1>1, CallUpdate DEF Begin
<1>3. away' \in [Callers -> SUBSET JobId]
  BY DEF Begin, RegistryInv, TypeOK
<1>4. QED
  BY <1>2, <1>3, CallType DEF Begin, RegistryInv, TypeOK, RegistryOK

LEMMA TickInv ==
  ASSUME RegistryInv, NEW c \in Callers, Tick(c)
  PROVE  RegistryInv'
BY BeginInv DEF Tick

LEMMA RunJobNowInv ==
  ASSUME RegistryInv, NEW c \in Callers, NEW j \in JobId, RunJobNow(c, j)
  PROVE  RegistryInv'
BY BeginInv DEF RunJobNow, BatchOp

LEMMA BatchJobsInv ==
  ASSUME RegistryInv, NEW c \in Callers, NEW op \in BatchOp, NEW S \in SUBSET JobId, BatchJobs(c, op, S)
  PROVE  RegistryInv'
BY BeginInv DEF BatchJobs

\* A change of the registry, with whatever becomes of the calls and threads.
LEMMA ChangedInv ==
  ASSUME RegistryInv, Changed, UNCHANGED copy,
         call' \in [Callers -> BusyCall], thread' \in [Procs -> [SlotId -> BusyThread]]
  PROVE  RegistryInv'
<1>1. away' \in [Callers -> SUBSET JobId]
  BY DEF Changed, RegistryInv, TypeOK
<1>2. copy' \in Registry /\ RegistryOK(copy.job)'
  BY DEF RegistryInv, TypeOK, RegistryOK
<1>3. job' \in [JobId -> Job] /\ nextId' \in 1..(MaxJobs + 1) /\ RegistryOK(job)'
  BY DEF Changed, RegistryOK
<1>4. QED
  BY <1>1, <1>2, <1>3, CallType, ThreadType DEF RegistryInv, TypeOK

\* A step of a call that touches nothing but itself.
LEMMA CallInv ==
  ASSUME RegistryInv, UNCHANGED <<job, nextId, copy, thread, away>>, call' \in [Callers -> BusyCall]
  PROVE  RegistryInv'
BY CallType DEF RegistryInv, TypeOK, RegistryOK

LEMMA EditInv ==
  ASSUME RegistryInv, NEW c \in Callers, Edit(c)
  PROVE  RegistryInv'
<1>1. Changed
  <2>1. CASE \E i \in Intervals, b \in BOOLEAN : CreateJob(i, b)
    BY <2>1, CreateChanges
  <2>2. CASE \E j \in JobId, b \in BOOLEAN : ToggleJob(j, b)
    BY <2>2, ToggleChanges
  <2>3. CASE \E j \in JobId, i \in Intervals, b \in BOOLEAN : UpdateJob(j, i, b)
    BY <2>3, UpdateChanges
  <2>4. CASE \E j \in JobId : DeleteJob(j)
    BY <2>4, DeleteChanges
  <2>5. CASE \E j \in JobId : RestoreJob(j)
    BY <2>5, RestoreChanges
  <2>6. QED
    BY <2>1, <2>2, <2>3, <2>4, <2>5 DEF Edit
<1>2. UNCHANGED <<copy, thread, call>>
  BY DEF Edit
<1>3. call' \in [Callers -> BusyCall] /\ thread' \in [Procs -> [SlotId -> BusyThread]]
  BY <1>2 DEF RegistryInv
<1>4. QED
  BY <1>1, <1>2, <1>3, ChangedInv

LEMMA PurgeInv ==
  ASSUME RegistryInv, NEW c \in Callers, NEW j \in JobId, Purge(c, j)
  PROVE  RegistryInv'
<1>1. Changed
  BY PurgeChanges DEF Purge
<1>2. [Idle EXCEPT !.pc = "rows", !.job = j] \in BusyCall
  BY IdleType DEF BusyCall, Call
<1>3. call' \in [Callers -> BusyCall]
  BY <1>2, CallUpdate DEF Purge
<1>4. thread' \in [Procs -> [SlotId -> BusyThread]] /\ UNCHANGED copy
  BY DEF Purge, RegistryInv
<1>5. QED
  BY <1>1, <1>3, <1>4, ChangedInv

LEMMA PurgeRowsInv ==
  ASSUME RegistryInv, NEW c \in Callers, PurgeRows(c)
  PROVE  RegistryInv'
<1> DEFINE rec == IF call[c].todo = {} THEN Idle ELSE [call[c] EXCEPT !.pc = "next", !.job = NoJob]
<1>1. call[c] \in Call
  BY DEF RegistryInv, BusyCall
<1>2. rec \in BusyCall
  BY <1>1, IdleType DEF BusyCall, Call, NoJob
<1>3. call' = [call EXCEPT ![c] = rec]
  BY <1>1 DEF PurgeRows, RegistryInv
<1> HIDE DEF rec
<1>4. call' \in [Callers -> BusyCall]
  BY <1>2, <1>3, CallUpdate
<1>5. \A p \in Procs, k \in SlotId : [thread[p][k] EXCEPT !.row = FALSE] \in BusyThread
  <2>1. \A x \in BusyThread : [x EXCEPT !.row = FALSE] \in BusyThread
    BY DEF BusyThread, Thread
  <2>2. \A p \in Procs, k \in SlotId : thread[p][k] \in BusyThread
    BY DEF RegistryInv
  <2>3. QED
    BY <2>1, <2>2
<1>6. thread' \in [Procs -> [SlotId -> BusyThread]]
  BY <1>5 DEF PurgeRows, RegistryInv
<1>7. QED
  BY <1>4, <1>6, CallType, ThreadType DEF PurgeRows, RegistryInv, TypeOK, RegistryOK

LEMMA ExportInv ==
  ASSUME RegistryInv, ExportWorkspace
  PROVE  RegistryInv'
BY DEF ExportWorkspace, RegistryInv, TypeOK, Registry, RegistryOK

LEMMA ImportInv ==
  ASSUME RegistryInv, ImportWorkspace
  PROVE  RegistryInv'
<1>1. Changed
  BY ImportChanges
<1>2. call' \in [Callers -> BusyCall] /\ thread' \in [Procs -> [SlotId -> BusyThread]] /\ UNCHANGED copy
  BY DEF ImportWorkspace, RegistryInv
<1>3. QED
  BY <1>1, <1>2, ChangedInv

LEMMA TickItemInv ==
  ASSUME RegistryInv, NEW c \in Callers, NEW j \in JobId, TickItem(c, j)
  PROVE  RegistryInv'
<1> DEFINE skipped == IF call[c].todo = {j} THEN Idle ELSE [call[c] EXCEPT !.todo = call[c].todo \ {j}]
           rec == IF call[c].op = "tick" /\ HasRun(j) THEN skipped
                  ELSE [call[c] EXCEPT !.job = j, !.pc = "read"]
<1>1. call[c] \in Call /\ call[c].pc = "next"
  BY DEF RegistryInv, BusyCall, TickItem
<1>2. skipped \in BusyCall
  BY <1>1, IdleType DEF BusyCall, Call
<1>3. [call[c] EXCEPT !.job = j, !.pc = "read"] \in BusyCall
  BY <1>1 DEF BusyCall, Call
<1>4. call' = [call EXCEPT ![c] = rec]
  BY DEF TickItem
<1> HIDE DEF skipped
<1>5. rec \in BusyCall
  BY <1>2, <1>3
<1> HIDE DEF rec
<1>6. call' \in [Callers -> BusyCall]
  BY <1>4, <1>5, CallUpdate
<1>7. QED
  BY <1>6, CallInv DEF TickItem

LEMMA BatchItemInv ==
  ASSUME RegistryInv, NEW c \in Callers, NEW j \in JobId, BatchItem(c, j)
  PROVE  RegistryInv'
<1> DEFINE left == call[c].todo \ {j}
           done == IF left = {} THEN Idle ELSE [call[c] EXCEPT !.todo = left]
           rows == [call[c] EXCEPT !.pc = "rows", !.job = j, !.todo = left]
<1>1. call[c] \in Call /\ call[c].pc = "next" /\ call \in [Callers -> BusyCall]
  BY DEF RegistryInv, BusyCall, BatchItem
<1>2. done \in BusyCall /\ rows \in BusyCall
  BY <1>1, IdleType DEF BusyCall, Call
<1>3. \/ Changed /\ call' = [call EXCEPT ![c] = done]
      \/ Changed /\ call' = [call EXCEPT ![c] = rows]
      \/ UNCHANGED <<job, nextId, away>> /\ call' = [call EXCEPT ![c] = done]
  <2>1. CASE call[c].op \in {"enable", "disable"} /\ ToggleJob(j, call[c].op = "enable")
                /\ call' = [call EXCEPT ![c] = done]
    BY <2>1, ToggleChanges
  <2>2. CASE call[c].op = "delete" /\ DeleteJob(j) /\ call' = [call EXCEPT ![c] = done]
    BY <2>2, DeleteChanges
  <2>3. CASE call[c].op = "restore" /\ RestoreJob(j) /\ call' = [call EXCEPT ![c] = done]
    BY <2>3, RestoreChanges
  <2>4. CASE call[c].op = "purge" /\ PurgeEntry(j)
                /\ call' = [call EXCEPT ![c].pc = "rows", ![c].job = j, ![c].todo = left]
    <3>1. call' = [call EXCEPT ![c] = rows]
      BY <1>1, <2>4
    <3>2. QED
      BY <2>4, <3>1, PurgeChanges
  <2>5. CASE call' = [call EXCEPT ![c] = done] /\ UNCHANGED <<job, nextId, away>>
    BY <2>5
  <2>6. QED
    BY <2>1, <2>2, <2>3, <2>4, <2>5 DEF BatchItem
<1>4. UNCHANGED <<copy, thread>>
  BY DEF BatchItem
<1> HIDE DEF done, rows
<1>5. call' \in [Callers -> BusyCall]
  BY <1>2, <1>3, CallUpdate
<1>6. thread' \in [Procs -> [SlotId -> BusyThread]]
  BY <1>4 DEF RegistryInv
<1>7. QED
  BY <1>3, <1>4, <1>5, <1>6, ChangedInv, CallInv

LEMMA ReadJobInv ==
  ASSUME RegistryInv, NEW c \in Callers, ReadJob(c)
  PROVE  RegistryInv'
<1>1. call[c] \in BusyCall /\ call[c].pc = "read" /\ call[c].job \in JobId
  BY DEF RegistryInv, BusyCall, ReadJob
<1>2. job[call[c].job].interval \in Intervals
  BY <1>1 DEF RegistryInv, TypeOK, Job
<1>3. call' \in [Callers -> BusyCall]
  <2>1. CASE call' = [call EXCEPT ![c].pc = "look", ![c].interval = job[call[c].job].interval]
    <3>1. call' = [call EXCEPT ![c] = [call[c] EXCEPT !.pc = "look", !.interval = job[call[c].job].interval]]
      BY <2>1 DEF RegistryInv
    <3>2. [call[c] EXCEPT !.pc = "look", !.interval = job[call[c].job].interval] \in BusyCall
      BY <1>1, <1>2, CallMoves
    <3>3. QED
      BY <3>1, <3>2, CallUpdate
  <2>2. CASE NextItem(c)
    BY <2>2, NextItemType
  <2>3. QED
    BY <2>1, <2>2 DEF ReadJob, ItemFails
<1>4. QED
  BY <1>3, CallInv DEF ReadJob

LEMMA LookForRunInv ==
  ASSUME RegistryInv, NEW c \in Callers, LookForRun(c)
  PROVE  RegistryInv'
<1>1. call[c] \in BusyCall /\ call[c].pc = "look"
  BY DEF RegistryInv, LookForRun
<1>2. call' \in [Callers -> BusyCall]
  <2>1. CASE Goto(c, "look", "acquire")
    <3>1. call' = [call EXCEPT ![c] = [call[c] EXCEPT !.pc = "acquire"]]
      BY <2>1 DEF Goto, RegistryInv
    <3>2. [call[c] EXCEPT !.pc = "acquire"] \in BusyCall
      BY <1>1 DEF BusyCall, Call
    <3>3. QED
      BY <3>1, <3>2, CallUpdate
  <2>2. CASE NextItem(c)
    BY <2>2, NextItemType
  <2>3. QED
    BY <2>1, <2>2 DEF LookForRun, ItemFails
<1>3. QED
  BY <1>2, CallInv DEF LookForRun

LEMMA LaunchRunInv ==
  ASSUME RegistryInv, NEW c \in Callers, NEW k \in SlotId, LaunchRun(c, k)
  PROVE  RegistryInv'
<1> DEFINE rec == [pc |-> "running", job |-> call[c].job, interval |-> call[c].interval, row |-> TRUE]
<1>1. call[c] \in BusyCall /\ call[c].pc = "acquire" /\ Home[c] \in Procs
  BY ScheduleAssumption DEF RegistryInv, LaunchRun
<1>2. rec \in BusyThread
  BY <1>1 DEF BusyCall, Call, BusyThread, Thread
<1>3. thread' = [thread EXCEPT ![Home[c]][k] = rec]
  BY DEF LaunchRun
<1> HIDE DEF rec
<1>4. thread' \in [Procs -> [SlotId -> BusyThread]]
  BY <1>1, <1>2, <1>3, ThreadUpdate
<1>5. call' \in [Callers -> BusyCall]
  BY NextItemType DEF LaunchRun
<1>6. QED
  BY <1>4, <1>5, CallType, ThreadType DEF LaunchRun, RegistryInv, TypeOK, RegistryOK

LEMMA LaunchRefusedInv ==
  ASSUME RegistryInv, NEW c \in Callers, LaunchRefused(c)
  PROVE  RegistryInv'
BY NextItemType, CallInv DEF LaunchRefused, ItemFails

LEMMA ThreadMoves ==
  ASSUME RegistryInv, NEW p \in Procs, NEW k \in SlotId,
         NEW at \in {"running", "resched"}, NEW to \in {"resched", "done"}, ThreadStep(p, k, at, to)
  PROVE  thread' \in [Procs -> [SlotId -> BusyThread]]
<1>1. thread[p][k] \in BusyThread /\ thread[p][k].pc = at
  BY DEF RegistryInv, ThreadStep
<1>2. [thread[p][k] EXCEPT !.pc = to] \in BusyThread
  BY <1>1 DEF BusyThread, Thread
<1>3. thread' = [thread EXCEPT ![p][k] = [thread[p][k] EXCEPT !.pc = to]]
  BY DEF ThreadStep, RegistryInv
<1>4. QED
  BY <1>2, <1>3, ThreadUpdate

LEMMA ThreadEndsInv ==
  ASSUME RegistryInv, NEW p \in Procs, NEW k \in SlotId, ThreadEnds(p, k)
  PROVE  RegistryInv'
<1>1. thread' \in [Procs -> [SlotId -> BusyThread]]
  BY ThreadMoves DEF ThreadEnds, RunSucceeds, RunFails
<1>2. UNCHANGED <<job, nextId, copy, call, away>>
  BY DEF ThreadEnds, RunSucceeds, RunFails, ThreadStep
<1>3. QED
  BY <1>1, <1>2, ThreadType DEF RegistryInv, TypeOK, RegistryOK

LEMMA ScheduleNextRunInv ==
  ASSUME RegistryInv, NEW p \in Procs, NEW k \in SlotId, ScheduleNextRun(p, k)
  PROVE  RegistryInv'
<1>1. Changed
  BY ScheduleChanges
<1>2. thread' \in [Procs -> [SlotId -> BusyThread]]
  BY ThreadMoves DEF ScheduleNextRun
<1>3. call' \in [Callers -> BusyCall] /\ UNCHANGED copy
  BY DEF ScheduleNextRun, ThreadStep, RegistryInv
<1>4. QED
  BY <1>1, <1>2, <1>3, ChangedInv

LEMMA ReleaseSlotInv ==
  ASSUME RegistryInv, NEW p \in Procs, NEW k \in SlotId, ReleaseSlot(p, k)
  PROVE  RegistryInv'
<1>1. thread' \in [Procs -> [SlotId -> BusyThread]]
  BY FreeType, ThreadUpdate DEF ReleaseSlot
<1>2. QED
  BY <1>1, ThreadType DEF ReleaseSlot, RegistryInv, TypeOK, RegistryOK

LEMMA LessDelay ==
  ASSUME NEW d \in Delay
  PROVE  Less(d) \in Delay /\ (Less(d) = Never <=> d = Never)
BY ScheduleAssumption DEF Less, Delay

LEMMA OlderType ==
  ASSUME NEW registry \in [JobId -> Job]
  PROVE  /\ Older(registry) \in [JobId -> Job]
         /\ \A j \in JobId : /\ Older(registry)[j].stage = registry[j].stage
                             /\ Older(registry)[j].enabled = registry[j].enabled
                             /\ Older(registry)[j].next = Less(registry[j].next)
         /\ RegistryOK(registry) => RegistryOK(Older(registry))
<1>1. \A j \in JobId : registry[j] \in Job /\ Less(registry[j].next) \in Delay
  BY LessDelay DEF Job
<1>2. \A j \in JobId : Older(registry)[j] = [registry[j] EXCEPT !.next = Less(registry[j].next)]
  BY DEF Older
<1>3. \A j \in JobId : /\ Older(registry)[j] \in Job
                       /\ Older(registry)[j].stage = registry[j].stage
                       /\ Older(registry)[j].enabled = registry[j].enabled
                       /\ Older(registry)[j].next = Less(registry[j].next)
  BY <1>1, <1>2 DEF Job
<1>4. Older(registry) \in [JobId -> Job]
  BY <1>3 DEF Older
<1>5. ASSUME RegistryOK(registry) PROVE RegistryOK(Older(registry))
  BY <1>1, <1>3, <1>5, LessDelay DEF RegistryOK, Job
<1>6. QED
  BY <1>3, <1>4, <1>5

LEMMA ClockInv ==
  ASSUME RegistryInv, Clock
  PROVE  RegistryInv'
<1>1. job' \in [JobId -> Job] /\ RegistryOK(job')
  BY OlderType DEF Clock, RegistryInv, TypeOK
<1>2. copy.job \in [JobId -> Job] /\ copy.nextId \in 1..(MaxJobs + 1)
      /\ copy \in [job: [JobId -> Job], nextId: 1..(MaxJobs + 1)]
  BY DEF RegistryInv, TypeOK, Registry
<1>3. Older(copy.job) \in [JobId -> Job] /\ RegistryOK(Older(copy.job))
  BY <1>2, OlderType DEF RegistryInv
<1>4. copy' \in Registry /\ copy'.job = Older(copy.job)
  BY <1>2, <1>3 DEF Clock, Registry
<1>5. RegistryOK(copy.job)'
  BY <1>3, <1>4 DEF RegistryOK
<1>6. RegistryOK(job)'
  BY <1>1 DEF RegistryOK
<1>7. QED
  BY <1>1, <1>4, <1>5, <1>6 DEF Clock, RegistryInv, TypeOK

LEMMA InitRegistryInv == Init => RegistryInv
<1>1. NoEntry \in Job /\ Free \in BusyThread /\ Free \in Thread /\ Idle \in BusyCall /\ Idle \in Call
  BY NoEntryType, FreeType, IdleType DEF BusyThread, BusyCall
<1>2. 1 \in 1..(MaxJobs + 1)
  BY ScheduleAssumption
<1>3. QED
  BY <1>1, <1>2, NoEntryType DEF Init, RegistryInv, TypeOK, Registry, RegistryOK

LEMMA StepRegistryInv == RegistryInv /\ [Next]_vars => RegistryInv'
<1> SUFFICES ASSUME RegistryInv, [Next]_vars PROVE RegistryInv'
  OBVIOUS
<1>1. ASSUME NEW c \in Callers, Tick(c) \/ CallStep(c) PROVE RegistryInv'
  BY <1>1, TickInv, PurgeRowsInv, TickItemInv, BatchItemInv, ReadJobInv, LookForRunInv,
     LaunchRunInv, LaunchRefusedInv DEF CallStep
<1>2. ASSUME NEW c \in Callers, Request(c) PROVE RegistryInv'
  BY <1>2, EditInv, PurgeInv, RunJobNowInv, BatchJobsInv DEF Request
<1>3. ASSUME NEW p \in Procs, NEW k \in SlotId, ThreadEnds(p, k) \/ ThreadGoesOn(p, k) PROVE RegistryInv'
  BY <1>3, ThreadEndsInv, ScheduleNextRunInv, ReleaseSlotInv DEF ThreadGoesOn
<1>4. CASE UNCHANGED vars
  BY <1>4 DEF vars, RegistryInv, TypeOK, RegistryOK
<1>5. QED
  BY <1>1, <1>2, <1>3, <1>4, ExportInv, ImportInv, ClockInv DEF Next

LEMMA RegistryInvariant == Spec => []RegistryInv
BY InitRegistryInv, StepRegistryInv, PTL DEF Spec

\* Every variable keeps its type, whatever users, ticks and runs do, and
\* next_job_id never passes the bound.
THEOREM TypeCorrect == Spec => []TypeOK
<1>1. RegistryInv => TypeOK
  BY DEF RegistryInv
<1>2. QED
  BY <1>1, RegistryInvariant, PTL

\* An enabled job is never forgotten: create, update, toggle, delete, restore,
\* purge, import and the rescheduling at the end of a run all leave every
\* enabled entry active and with a time for its next run.
THEOREM EnabledJobsScheduled == Spec => []EnabledIsScheduled
<1>1. RegistryInv => EnabledIsScheduled
  BY DEF RegistryInv, RegistryOK, EnabledIsScheduled, Active
<1>2. QED
  BY <1>1, RegistryInvariant, PTL

-----------------------------------------------------------------------------
(* What a call starts was wanted at some moment since the call began.       *)

Starting == {"read", "look", "acquire"}
Starters == {"tick", "run_now"}

\* Of a call x, its set A of jobs that have not been wanted since it began, and
\* a registry: nothing in A is wanted now; a tick only goes for jobs outside A,
\* because it read them as due; and a job past ReadJob is outside A, because it
\* was active there.
StartOK(x, A, registry) ==
  /\ x.pc \in Starting => x.op \in Starters
  /\ x.pc # "idle" /\ x.op \in Starters => \A j \in A : ~Wanted(x.op, j, registry)
  /\ x.pc # "idle" /\ x.op = "tick" => x.todo \cap A = {}
  /\ x.pc = "read" /\ x.op = "tick" => x.job \notin A
  /\ x.pc \in {"look", "acquire"} => x.job \notin A

StartInv == \A c \in Callers : StartOK(call[c], away[c], job)

\* A call that starts nothing.
LEMMA NoStart ==
  ASSUME NEW x, NEW A, NEW registry, x.pc \notin Starting, x.op \notin Starters
  PROVE  StartOK(x, A, registry)
BY DEF StartOK, Starting, Starters

\* The other calls when the registry changes.
LEMMA ChangedStart ==
  ASSUME StartInv, Changed, NEW c \in Callers, call'[c] = call[c]
  PROVE  StartOK(call[c], away[c], job)'
<1>1. StartOK(call[c], away[c], job)
  BY DEF StartInv
<1>2. away'[c] = {j \in away[c] : ~Wanted(call[c].op, j, job')}
  BY DEF Changed
<1>3. QED
  BY <1>1, <1>2 DEF StartOK

\* A registry that differs in times only.
LEMMA SameStart ==
  ASSUME NEW x, NEW A \in SUBSET JobId, NEW r1, NEW r2, StartOK(x, A, r1),
         \A j \in JobId : r2[j].stage = r1[j].stage /\ r2[j].enabled = r1[j].enabled
  PROVE  StartOK(x, A, r2)
BY DEF StartOK, Wanted

\* A call whose record changes, and nothing else that matters.
LEMMA CallStart ==
  ASSUME RegistryInv, StartInv, NEW c \in Callers, NEW rec, call' = [call EXCEPT ![c] = rec],
         UNCHANGED <<job, away>>, StartOK(rec, away[c], job)
  PROVE  StartInv'
BY DEF StartInv, RegistryInv, TypeOK

LEMMA NextItemStart ==
  ASSUME RegistryInv, StartInv, NEW c \in Callers, NextItem(c), UNCHANGED <<job, away>>,
         call[c].pc # "idle"
  PROVE  StartInv'
<1> DEFINE left == call[c].todo \ {call[c].job}
           rec == IF left = {} THEN Idle
                  ELSE [call[c] EXCEPT !.pc = "next", !.todo = left, !.job = NoJob]
<1>1. call[c] \in Call /\ StartOK(call[c], away[c], job)
  BY DEF RegistryInv, TypeOK, StartInv
<1>2. StartOK(Idle, away[c], job)
  BY NoStart, IdleType DEF Starting, Starters
<1>3. StartOK([call[c] EXCEPT !.pc = "next", !.todo = left, !.job = NoJob], away[c], job)
  BY <1>1 DEF StartOK, Call, Starting
<1>4. call' = [call EXCEPT ![c] = rec]
  BY DEF NextItem
<1>5. StartOK(rec, away[c], job)
  BY <1>2, <1>3
<1> HIDE DEF rec
<1>6. QED
  BY <1>4, <1>5, CallStart

LEMMA BeginStart ==
  ASSUME RegistryInv, StartInv, NEW c \in Callers, NEW op \in BatchOp \cup {"tick"},
         NEW S \in SUBSET JobId, Begin(c, op, S), op = "tick" => \A j \in S : Wanted(op, j, job)
  PROVE  StartInv'
<1> DEFINE rec == [Idle EXCEPT !.pc = "next", !.op = op, !.todo = S]
           A == {j \in JobId : ~Wanted(op, j, job)}
<1>1. Idle \in Call
  BY IdleType DEF BusyCall
<1>2. rec.pc = "next" /\ rec.op = op /\ rec.todo = S
  BY <1>1 DEF Call
<1>3. StartOK(rec, A, job)
  BY <1>2 DEF StartOK, Starting
<1>4. call' = [call EXCEPT ![c] = rec] /\ away' = [away EXCEPT ![c] = A] /\ job' = job
  BY DEF Begin
<1> HIDE DEF rec, A
<1>5. QED
  BY <1>3, <1>4 DEF StartInv, RegistryInv, TypeOK

LEMMA TickStart ==
  ASSUME RegistryInv, StartInv, NEW c \in Callers, Tick(c)
  PROVE  StartInv'
<1>1. \A j \in {i \in JobId : Due(i)} : Wanted("tick", j, job)
  BY DEF Due, Active, Wanted
<1>2. Begin(c, "tick", {i \in JobId : Due(i)})
  BY DEF Tick
<1>3. QED
  BY <1>1, <1>2, BeginStart

\* A registry change by a caller (whose own call ends up as rec) or by a thread.
LEMMA ChangedBy ==
  ASSUME RegistryInv, StartInv, Changed, NEW c \in Callers, NEW rec,
         call' = [call EXCEPT ![c] = rec], StartOK(rec, away'[c], job')
  PROVE  StartInv'
<1>1. \A d \in Callers : StartOK(call[d], away[d], job)'
  <2> SUFFICES ASSUME NEW d \in Callers PROVE StartOK(call[d], away[d], job)'
    OBVIOUS
  <2>1. CASE d = c
    BY <2>1 DEF RegistryInv, TypeOK
  <2>2. CASE d # c
    <3>1. call'[d] = call[d]
      BY <2>2 DEF RegistryInv, TypeOK
    <3>2. QED
      BY <3>1, ChangedStart
  <2>3. QED
    BY <2>1, <2>2
<1>2. QED
  BY <1>1 DEF StartInv

LEMMA ChangedAlone ==
  ASSUME StartInv, Changed, UNCHANGED call
  PROVE  StartInv'
BY ChangedStart DEF StartInv

LEMMA EditStart ==
  ASSUME RegistryInv, StartInv, NEW c \in Callers, Edit(c)
  PROVE  StartInv'
BY CreateChanges, ToggleChanges, UpdateChanges, DeleteChanges, RestoreChanges, ChangedAlone DEF Edit

LEMMA PurgeStart ==
  ASSUME RegistryInv, StartInv, NEW c \in Callers, NEW j \in JobId, Purge(c, j)
  PROVE  StartInv'
<1> DEFINE rec == [Idle EXCEPT !.pc = "rows", !.job = j]
<1>1. Idle \in Call /\ Idle.op = "none"
  BY IdleType DEF BusyCall
<1>2. rec.pc = "rows" /\ rec.op = "none"
  BY <1>1 DEF Call
<1> HIDE DEF rec
<1>3. StartOK(rec, away'[c], job')
  BY <1>2, NoStart DEF Starting, Starters
<1>4. Changed /\ call' = [call EXCEPT ![c] = rec]
  BY PurgeChanges DEF Purge, rec
<1>5. QED
  BY <1>3, <1>4, ChangedBy

LEMMA PurgeRowsStart ==
  ASSUME RegistryInv, StartInv, NEW c \in Callers, PurgeRows(c)
  PROVE  StartInv'
<1> DEFINE rec == IF call[c].todo = {} THEN Idle ELSE [call[c] EXCEPT !.pc = "next", !.job = NoJob]
<1>1. call[c] \in Call /\ call[c].pc = "rows" /\ StartOK(call[c], away[c], job)
  BY DEF RegistryInv, TypeOK, StartInv, PurgeRows
<1>2. StartOK(Idle, away[c], job)
  BY NoStart, IdleType DEF Starting, Starters
<1>3. StartOK([call[c] EXCEPT !.pc = "next", !.job = NoJob], away[c], job)
  BY <1>1 DEF StartOK, Call, Starting
<1>4. call' = [call EXCEPT ![c] = rec] /\ StartOK(rec, away[c], job)
  BY <1>2, <1>3 DEF PurgeRows, RegistryInv, TypeOK
<1> HIDE DEF rec
<1>5. QED
  BY <1>4, CallStart DEF PurgeRows

LEMMA TickItemStart ==
  ASSUME RegistryInv, StartInv, NEW c \in Callers, NEW j \in JobId, TickItem(c, j)
  PROVE  StartInv'
<1> DEFINE fewer == [call[c] EXCEPT !.todo = call[c].todo \ {j}]
           read == [call[c] EXCEPT !.job = j, !.pc = "read"]
           rec == IF call[c].op = "tick" /\ HasRun(j)
                  THEN IF call[c].todo = {j} THEN Idle ELSE fewer
                  ELSE read
<1>1. call[c] \in Call /\ call[c].pc = "next" /\ call[c].op \in Starters /\ j \in call[c].todo
      /\ StartOK(call[c], away[c], job)
  BY DEF RegistryInv, TypeOK, StartInv, TickItem, Starters
<1>2. StartOK(Idle, away[c], job)
  BY NoStart, IdleType DEF Starting, Starters
<1>3. StartOK(fewer, away[c], job)
  BY <1>1 DEF StartOK, Call, Starting
<1>4. StartOK(read, away[c], job)
  BY <1>1 DEF StartOK, Call, Starting
<1>5. call' = [call EXCEPT ![c] = rec]
  BY DEF TickItem
<1> HIDE DEF fewer, read
<1>6. StartOK(rec, away[c], job)
  BY <1>2, <1>3, <1>4
<1> HIDE DEF rec
<1>7. QED
  BY <1>5, <1>6, CallStart DEF TickItem

LEMMA BatchItemStart ==
  ASSUME RegistryInv, StartInv, NEW c \in Callers, NEW j \in JobId, BatchItem(c, j)
  PROVE  StartInv'
<1> DEFINE left == call[c].todo \ {j}
           done == IF left = {} THEN Idle ELSE [call[c] EXCEPT !.todo = left]
           rows == [call[c] EXCEPT !.pc = "rows", !.job = j, !.todo = left]
<1>1. call[c] \in Call /\ call[c].pc = "next" /\ call \in [Callers -> BusyCall]
  BY DEF RegistryInv, TypeOK, BatchItem
<1>2. call[c].op \notin Starters
  BY DEF BatchItem, BatchOp, Starters
<1>3. /\ done.pc \notin Starting /\ done.op \notin Starters
      /\ rows.pc \notin Starting /\ rows.op \notin Starters
  BY <1>1, <1>2, IdleType DEF Call, Starting, Starters
<1>4. \/ Changed /\ call' = [call EXCEPT ![c] = done]
      \/ Changed /\ call' = [call EXCEPT ![c] = rows]
      \/ UNCHANGED <<job, away>> /\ call' = [call EXCEPT ![c] = done]
  <2>1. CASE call[c].op \in {"enable", "disable"} /\ ToggleJob(j, call[c].op = "enable")
                /\ call' = [call EXCEPT ![c] = done]
    BY <2>1, ToggleChanges
  <2>2. CASE call[c].op = "delete" /\ DeleteJob(j) /\ call' = [call EXCEPT ![c] = done]
    BY <2>2, DeleteChanges
  <2>3. CASE call[c].op = "restore" /\ RestoreJob(j) /\ call' = [call EXCEPT ![c] = done]
    BY <2>3, RestoreChanges
  <2>4. CASE call[c].op = "purge" /\ PurgeEntry(j)
                /\ call' = [call EXCEPT ![c].pc = "rows", ![c].job = j, ![c].todo = left]
    <3>1. call' = [call EXCEPT ![c] = rows]
      BY <1>1, <2>4
    <3>2. QED
      BY <2>4, <3>1, PurgeChanges
  <2>5. CASE call' = [call EXCEPT ![c] = done] /\ UNCHANGED <<job, nextId, away>>
    BY <2>5
  <2>6. QED
    BY <2>1, <2>2, <2>3, <2>4, <2>5 DEF BatchItem
<1> HIDE DEF done, rows
<1>5. QED
  BY <1>3, <1>4, NoStart, ChangedBy, CallStart

LEMMA ReadJobStart ==
  ASSUME RegistryInv, StartInv, NEW c \in Callers, ReadJob(c)
  PROVE  StartInv'
<1>1. call[c] \in Call /\ call[c].pc = "read" /\ call[c].op \in Starters
      /\ StartOK(call[c], away[c], job)
  BY DEF RegistryInv, TypeOK, StartInv, ReadJob, StartOK, Starting
<1>2. CASE Active(call[c].job)
           /\ call' = [call EXCEPT ![c].pc = "look", ![c].interval = job[call[c].job].interval]
  <2> DEFINE rec == [call[c] EXCEPT !.pc = "look", !.interval = job[call[c].job].interval]
  <2>1. call' = [call EXCEPT ![c] = rec]
    BY <1>2 DEF RegistryInv
  <2>2. call[c].job \notin away[c]
    BY <1>1, <1>2 DEF StartOK, Wanted, Active, Starters
  <2>3. StartOK(rec, away[c], job)
    BY <1>1, <2>2 DEF StartOK, Call, Starting
  <2> HIDE DEF rec
  <2>4. QED
    BY <2>1, <2>3, CallStart DEF ReadJob
<1>3. CASE NextItem(c)
  BY <1>1, <1>3, NextItemStart DEF ReadJob
<1>4. QED
  BY <1>2, <1>3 DEF ReadJob, ItemFails

LEMMA LookForRunStart ==
  ASSUME RegistryInv, StartInv, NEW c \in Callers, LookForRun(c)
  PROVE  StartInv'
<1>1. call[c] \in Call /\ call[c].pc = "look" /\ StartOK(call[c], away[c], job)
  BY DEF RegistryInv, TypeOK, StartInv, LookForRun
<1>2. CASE Goto(c, "look", "acquire")
  <2> DEFINE rec == [call[c] EXCEPT !.pc = "acquire"]
  <2>1. call' = [call EXCEPT ![c] = rec]
    BY <1>2 DEF Goto, RegistryInv
  <2>2. StartOK(rec, away[c], job)
    BY <1>1 DEF StartOK, Call, Starting
  <2> HIDE DEF rec
  <2>3. QED
    BY <2>1, <2>2, CallStart DEF LookForRun
<1>3. CASE NextItem(c)
  BY <1>1, <1>3, NextItemStart DEF LookForRun
<1>4. QED
  BY <1>2, <1>3 DEF LookForRun, ItemFails

LEMMA AcquireStart ==
  ASSUME RegistryInv, StartInv, NEW c \in Callers,
         LaunchRefused(c) \/ \E k \in SlotId : LaunchRun(c, k)
  PROVE  StartInv'
BY NextItemStart DEF LaunchRefused, LaunchRun, ItemFails

LEMMA ClockStart ==
  ASSUME RegistryInv, StartInv, Clock
  PROVE  StartInv'
<1>1. \A j \in JobId : job'[j].stage = job[j].stage /\ job'[j].enabled = job[j].enabled
  BY OlderType DEF Clock, RegistryInv, TypeOK
<1>2. UNCHANGED <<call, away>> /\ \A c \in Callers : away[c] \in SUBSET JobId
  BY DEF Clock, RegistryInv, TypeOK
<1>3. QED
  BY <1>1, <1>2, SameStart DEF StartInv

LEMMA StepStartInv == RegistryInv /\ StartInv /\ [Next]_vars => StartInv'
<1> SUFFICES ASSUME RegistryInv, StartInv, [Next]_vars PROVE StartInv'
  OBVIOUS
<1>1. ASSUME NEW c \in Callers, Tick(c) \/ CallStep(c) PROVE StartInv'
  BY <1>1, TickStart, PurgeRowsStart, TickItemStart, BatchItemStart, ReadJobStart,
     LookForRunStart, AcquireStart DEF CallStep
<1>2. ASSUME NEW c \in Callers, Request(c) PROVE StartInv'
  <2>1. ASSUME NEW j \in JobId, RunJobNow(c, j) PROVE StartInv'
    BY <2>1, BeginStart DEF RunJobNow, BatchOp
  <2>2. ASSUME NEW op \in BatchOp, NEW S \in SUBSET JobId, BatchJobs(c, op, S) PROVE StartInv'
    BY <2>2, BeginStart DEF BatchJobs, BatchOp
  <2>3. QED
    BY <1>2, <2>1, <2>2, EditStart, PurgeStart DEF Request
<1>3. ASSUME NEW p \in Procs, NEW k \in SlotId, ScheduleNextRun(p, k) PROVE StartInv'
  BY <1>3, ScheduleChanges, ChangedAlone DEF ScheduleNextRun, ThreadStep
<1>4. ASSUME NEW p \in Procs, NEW k \in SlotId, ThreadEnds(p, k) \/ ReleaseSlot(p, k) PROVE StartInv'
  BY <1>4 DEF ThreadEnds, RunSucceeds, RunFails, ThreadStep, ReleaseSlot, StartInv
<1>5. CASE ImportWorkspace
  BY <1>5, ImportChanges, ChangedAlone DEF ImportWorkspace
<1>6. CASE ExportWorkspace \/ UNCHANGED vars
  BY <1>6 DEF ExportWorkspace, vars, StartInv
<1>7. QED
  BY <1>1, <1>2, <1>3, <1>4, <1>5, <1>6, ClockStart DEF Next, ThreadGoesOn

\* A tick starts no job that was disabled or deleted all the time since it read
\* the registry, and run_job_now none that was deleted all the time, although
\* neither holds the lock between its reading and its starting.
THEOREM OnlyWantedStart == Spec => []StartsOnlyWanted
<1>1. Init => StartInv
  BY NoStart, IdleType DEF Init, StartInv, Starting, Starters
<1>2. RegistryInv /\ StartInv => StartsOnlyWanted
  BY DEF StartInv, StartOK, StartsOnlyWanted
<1>3. QED
  BY <1>1, <1>2, StepStartInv, RegistryInvariant, PTL DEF Spec

-----------------------------------------------------------------------------
(* Ids are not given again, unless an older workspace is imported.          *)

\* The registry gains at most one entry, under the id that was next; and
\* next_job_id then moves beyond it.
Grows ==
  /\ nextId' >= nextId
  /\ \A j \in JobId : job'[j].stage # "none" =>
       job[j].stage # "none" \/ (j = nextId /\ nextId' > nextId)

\* Every id in use, in the registry, of a call or of a thread, is below the next.
FreshInv ==
  /\ \A j \in JobId : Known(j) => j < nextId
  /\ \A c \in Callers : call[c].pc \in {"look", "acquire"} => call[c].job < nextId
  /\ \A p \in Procs, k \in SlotId : thread[p][k].job < nextId

LEMMA MutateGrows ==
  ASSUME RegistryInv, NEW j \in JobId, NEW entry, Mutate(j, entry),
         Known(j) \/ entry.stage = "none"
  PROVE  Grows
BY DEF RegistryInv, TypeOK, Mutate, Commit, Known, Grows

LEMMA CreateGrows ==
  ASSUME RegistryInv, NEW i \in Intervals, NEW b \in BOOLEAN, CreateJob(i, b)
  PROVE  Grows
<1> DEFINE entry == [stage |-> "active", enabled |-> b, interval |-> i, next |-> Scheduled(b, i)]
           registry == [job EXCEPT ![nextId] = entry]
<1>1. nextId \in JobId /\ nextId + 1 \in 1..(MaxJobs + 1) /\ nextId \in Nat
  BY ScheduleAssumption DEF CreateJob, JobId
<1>2. job' = registry /\ nextId' = NextJobId(registry, nextId + 1)
  BY DEF CreateJob, Commit
<1>3. \A j \in JobId : j # nextId => registry[j] = job[j]
  BY DEF RegistryInv, TypeOK
<1> HIDE DEF registry
<1>4. nextId' >= nextId + 1 /\ nextId' \in Nat
  BY <1>1, <1>2, NextJobIdBound, ScheduleAssumption
<1>5. QED
  BY <1>1, <1>2, <1>3, <1>4 DEF Grows

LEMMA PurgeGrows ==
  ASSUME RegistryInv, NEW j \in JobId, PurgeEntry(j)
  PROVE  Grows
<1> DEFINE registry == [job EXCEPT ![j] = NoEntry]
<1>1. job' = registry /\ nextId' = NextJobId(registry, nextId)
  BY DEF PurgeEntry, Commit
<1>2. \A i \in JobId : registry[i].stage # "none" => job[i].stage # "none"
  BY NoEntryType DEF RegistryInv, TypeOK
<1> HIDE DEF registry
<1>3. nextId' >= nextId
  BY <1>1, NextJobIdBound DEF RegistryInv, TypeOK
<1>4. QED
  BY <1>1, <1>2, <1>3 DEF Grows

\* The operations on one entry.
LEMMA EditGrows ==
  ASSUME RegistryInv, NEW j \in JobId, NEW i \in Intervals, NEW b \in BOOLEAN,
         ToggleJob(j, b) \/ UpdateJob(j, i, b) \/ DeleteJob(j) \/ RestoreJob(j)
  PROVE  Grows
BY MutateGrows DEF ToggleJob, UpdateJob, DeleteJob, RestoreJob, Active, Known

LEMMA SameGrows ==
  ASSUME RegistryInv, UNCHANGED <<job, nextId>>
  PROVE  Grows
BY DEF RegistryInv, TypeOK, Grows

LEMMA BatchItemGrows ==
  ASSUME RegistryInv, NEW c \in Callers, NEW j \in JobId, BatchItem(c, j)
  PROVE  Grows
<1>1. \/ \E b \in BOOLEAN : ToggleJob(j, b)
      \/ DeleteJob(j) \/ RestoreJob(j) \/ PurgeEntry(j) \/ UNCHANGED <<job, nextId>>
  BY DEF BatchItem
<1>2. QED
  BY <1>1, SomeInterval, EditGrows, PurgeGrows, SameGrows

LEMMA ScheduleGrows ==
  ASSUME RegistryInv, NEW p \in Procs, NEW k \in SlotId, ScheduleNextRun(p, k)
  PROVE  Grows
<1>1. thread[p][k] \in BusyThread /\ thread[p][k].pc = "resched"
  BY DEF RegistryInv, ScheduleNextRun, ThreadStep
<1>2. thread[p][k].job \in JobId
  BY <1>1 DEF BusyThread
<1>3. QED
  BY <1>2, MutateGrows DEF ScheduleNextRun, Known

LEMMA ClockGrows ==
  ASSUME RegistryInv, Clock
  PROVE  Grows
BY OlderType DEF Clock, RegistryInv, TypeOK, Grows

LEMMA StepGrows ==
  ASSUME RegistryInv, Next, ~ImportWorkspace
  PROVE  Grows
<1>1. ASSUME NEW c \in Callers, Tick(c) \/ CallStep(c) PROVE Grows
  <2>1. ASSUME NEW j \in JobId, BatchItem(c, j) PROVE Grows
    BY <2>1, BatchItemGrows
  <2>2. CASE \/ Tick(c) \/ PurgeRows(c) \/ ReadJob(c) \/ LookForRun(c) \/ LaunchRefused(c)
             \/ \E j \in JobId : TickItem(c, j)
             \/ \E k \in SlotId : LaunchRun(c, k)
    BY <2>2, SameGrows DEF Tick, Begin, PurgeRows, ReadJob, LookForRun, LaunchRefused, TickItem, LaunchRun
  <2>3. QED
    BY <1>1, <2>1, <2>2 DEF CallStep
<1>2. ASSUME NEW c \in Callers, Request(c) PROVE Grows
  <2>1. CASE Edit(c)
    <3>1. ASSUME NEW j \in JobId, NEW b \in BOOLEAN, ToggleJob(j, b) PROVE Grows
      BY <3>1, SomeInterval, EditGrows
    <3>2. ASSUME NEW j \in JobId, DeleteJob(j) \/ RestoreJob(j) PROVE Grows
      BY <3>2, SomeInterval, EditGrows
    <3>3. QED
      BY <2>1, <3>1, <3>2, CreateGrows, EditGrows DEF Edit
  <2>2. ASSUME NEW j \in JobId, Purge(c, j) PROVE Grows
    BY <2>2, PurgeGrows DEF Purge
  <2>3. CASE \/ \E j \in JobId : RunJobNow(c, j)
             \/ \E op \in BatchOp, S \in SUBSET JobId : BatchJobs(c, op, S)
    BY <2>3, SameGrows DEF RunJobNow, BatchJobs, Begin
  <2>4. QED
    BY <1>2, <2>1, <2>2, <2>3 DEF Request
<1>3. ASSUME NEW p \in Procs, NEW k \in SlotId, ThreadEnds(p, k) \/ ReleaseSlot(p, k) PROVE Grows
  BY <1>3, SameGrows DEF ThreadEnds, RunSucceeds, RunFails, ReleaseSlot
<1>4. ASSUME ExportWorkspace PROVE Grows
  BY <1>4, SameGrows DEF ExportWorkspace
<1>5. QED
  BY <1>1, <1>2, <1>3, <1>4, ScheduleGrows, ClockGrows DEF Next, ThreadGoesOn

LEMMA IdsStayBelow ==
  ASSUME RegistryInv, RegistryInv', FreshInv, Grows
  PROVE  /\ \A j \in JobId : Known(j)' => j < nextId'
         /\ \A n \in Nat : n < nextId => n < nextId'
BY ScheduleAssumption DEF RegistryInv, TypeOK, FreshInv, Grows, Known, JobId

\* The job a call is going to start was known when the call read it.
CallsGoOn ==
  \A c \in Callers : call'[c].pc \in {"look", "acquire"} =>
    /\ call'[c].job = call[c].job
    /\ call[c].pc \in {"look", "acquire"} \/ (call[c].job \in JobId /\ Known(call[c].job))

\* A call ends up as a record that is not going to start anything.
LEMMA OtherCalls ==
  ASSUME RegistryInv, NEW c \in Callers, NEW rec, rec.pc \notin {"look", "acquire"},
         call' = [call EXCEPT ![c] = rec]
  PROVE  CallsGoOn
BY DEF RegistryInv, TypeOK, CallsGoOn

LEMMA NextItemGoesOn ==
  ASSUME RegistryInv, NEW c \in Callers, NextItem(c)
  PROVE  CallsGoOn
<1> DEFINE left == call[c].todo \ {call[c].job}
           rec == IF left = {} THEN Idle
                  ELSE [call[c] EXCEPT !.pc = "next", !.todo = left, !.job = NoJob]
<1>1. call[c] \in Call
  BY DEF RegistryInv, TypeOK
<1>2. rec.pc \notin {"look", "acquire"}
  BY <1>1, IdleType DEF Call
<1>3. call' = [call EXCEPT ![c] = rec]
  BY DEF NextItem
<1> HIDE DEF rec
<1>4. QED
  BY <1>2, <1>3, OtherCalls

LEMMA ReadJobGoesOn ==
  ASSUME RegistryInv, NEW c \in Callers, ReadJob(c)
  PROVE  CallsGoOn
<1>1. call[c] \in BusyCall /\ call[c] \in Call /\ call[c].pc = "read"
  BY DEF RegistryInv, TypeOK, ReadJob
<1>2. call[c].job \in JobId
  BY <1>1 DEF BusyCall
<1>3. CASE Active(call[c].job)
           /\ call' = [call EXCEPT ![c].pc = "look", ![c].interval = job[call[c].job].interval]
  <2>1. call'[c].job = call[c].job /\ \A d \in Callers \ {c} : call'[d] = call[d]
    BY <1>1, <1>3 DEF RegistryInv, TypeOK, Call
  <2>2. Known(call[c].job)
    BY <1>3 DEF Active, Known
  <2>3. QED
    BY <1>2, <2>1, <2>2 DEF CallsGoOn
<1>4. CASE NextItem(c)
  BY <1>4, NextItemGoesOn
<1>5. QED
  BY <1>3, <1>4 DEF ReadJob, ItemFails

LEMMA LookForRunGoesOn ==
  ASSUME RegistryInv, NEW c \in Callers, LookForRun(c)
  PROVE  CallsGoOn
<1>1. CASE Goto(c, "look", "acquire")
  <2>1. call'[c].job = call[c].job /\ call[c].pc = "look" /\ \A d \in Callers \ {c} : call'[d] = call[d]
    BY <1>1 DEF Goto, RegistryInv, TypeOK, Call
  <2>2. QED
    BY <2>1 DEF CallsGoOn
<1>2. CASE NextItem(c)
  BY <1>2, NextItemGoesOn
<1>3. QED
  BY <1>1, <1>2 DEF LookForRun, ItemFails

LEMMA BeginGoesOn ==
  ASSUME RegistryInv, NEW c \in Callers, NEW op, NEW S, Begin(c, op, S)
  PROVE  CallsGoOn
<1> DEFINE rec == [Idle EXCEPT !.pc = "next", !.op = op, !.todo = S]
<1>1. rec.pc = "next"
  BY DEF Idle
<1>2. call' = [call EXCEPT ![c] = rec]
  BY DEF Begin
<1> HIDE DEF rec
<1>3. QED
  BY <1>1, <1>2, OtherCalls

LEMMA TickItemGoesOn ==
  ASSUME RegistryInv, NEW c \in Callers, NEW j \in JobId, TickItem(c, j)
  PROVE  CallsGoOn
<1> DEFINE fewer == [call[c] EXCEPT !.todo = call[c].todo \ {j}]
           read == [call[c] EXCEPT !.job = j, !.pc = "read"]
           rec == IF call[c].op = "tick" /\ HasRun(j)
                  THEN IF call[c].todo = {j} THEN Idle ELSE fewer
                  ELSE read
<1>1. call[c] \in Call /\ call[c].pc = "next" /\ call' = [call EXCEPT ![c] = rec]
  BY DEF RegistryInv, TypeOK, TickItem
<1>2. rec.pc \notin {"look", "acquire"}
  BY <1>1, IdleType DEF Call
<1> HIDE DEF rec
<1>3. QED
  BY <1>1, <1>2, OtherCalls

LEMMA BatchItemGoesOn ==
  ASSUME RegistryInv, NEW c \in Callers, NEW j \in JobId, BatchItem(c, j)
  PROVE  CallsGoOn
<1> DEFINE left == call[c].todo \ {j}
           done == IF left = {} THEN Idle ELSE [call[c] EXCEPT !.todo = left]
           rows == [call[c] EXCEPT !.pc = "rows", !.job = j, !.todo = left]
<1>1. call[c] \in Call /\ call[c].pc = "next" /\ call \in [Callers -> Call]
  BY DEF RegistryInv, TypeOK, BatchItem
<1>2. done.pc \notin {"look", "acquire"} /\ rows.pc \notin {"look", "acquire"}
  BY <1>1, IdleType DEF Call
<1>3. call' = [call EXCEPT ![c] = done] \/ call' = [call EXCEPT ![c] = rows]
  BY <1>1 DEF BatchItem
<1> HIDE DEF done, rows
<1>4. QED
  BY <1>2, <1>3, OtherCalls

LEMMA PurgeGoesOn ==
  ASSUME RegistryInv, NEW c \in Callers, PurgeRows(c) \/ \E j \in JobId : Purge(c, j)
  PROVE  CallsGoOn
<1>1. ASSUME NEW j \in JobId, Purge(c, j) PROVE CallsGoOn
  <2> DEFINE rec == [Idle EXCEPT !.pc = "rows", !.job = j]
  <2>1. rec.pc = "rows" /\ call' = [call EXCEPT ![c] = rec]
    BY <1>1 DEF Idle, Purge
  <2> HIDE DEF rec
  <2>2. QED
    BY <2>1, OtherCalls
<1>2. CASE PurgeRows(c)
  <2> DEFINE rec == IF call[c].todo = {} THEN Idle ELSE [call[c] EXCEPT !.pc = "next", !.job = NoJob]
  <2>1. call[c] \in Call /\ call' = [call EXCEPT ![c] = rec]
    BY <1>2 DEF RegistryInv, TypeOK, PurgeRows
  <2>2. rec.pc \notin {"look", "acquire"}
    BY <2>1, IdleType DEF Call
  <2> HIDE DEF rec
  <2>3. QED
    BY <2>1, <2>2, OtherCalls
<1>3. QED
  BY <1>1, <1>2

LEMMA StepCalls == ASSUME RegistryInv, Next PROVE CallsGoOn
<1>1. ASSUME NEW c \in Callers, Tick(c) \/ CallStep(c) PROVE CallsGoOn
  BY <1>1, BeginGoesOn, PurgeGoesOn, TickItemGoesOn, BatchItemGoesOn, ReadJobGoesOn,
     LookForRunGoesOn, NextItemGoesOn DEF Tick, CallStep, LaunchRefused, LaunchRun, ItemFails
<1>2. ASSUME NEW c \in Callers, Request(c) PROVE CallsGoOn
  <2>1. CASE Edit(c)
    BY <2>1 DEF Edit, CallsGoOn
  <2>2. QED
    BY <1>2, <2>1, BeginGoesOn, PurgeGoesOn DEF Request, RunJobNow, BatchJobs
<1>3. CASE UNCHANGED call
  BY <1>3 DEF CallsGoOn
<1>4. ASSUME NEW p \in Procs, NEW k \in SlotId, ThreadEnds(p, k) \/ ThreadGoesOn(p, k) PROVE UNCHANGED call
  BY <1>4 DEF ThreadEnds, ThreadGoesOn, RunSucceeds, RunFails, ScheduleNextRun, ThreadStep, ReleaseSlot
<1>5. ExportWorkspace \/ ImportWorkspace \/ Clock => UNCHANGED call
  BY DEF ExportWorkspace, ImportWorkspace, Clock
<1>6. QED
  BY <1>1, <1>2, <1>3, <1>4, <1>5 DEF Next

\* The job of a thread changes only when a call starts it, or the slot is freed.
ThreadsGoOn ==
  \A p \in Procs, k \in SlotId :
    \/ thread'[p][k].job = thread[p][k].job
    \/ thread'[p][k].job = NoJob
    \/ \E c \in Callers : call[c].pc = "acquire" /\ thread'[p][k].job = call[c].job

LEMMA ThreadStepGoesOn ==
  ASSUME RegistryInv, NEW p \in Procs, NEW k \in SlotId, NEW at, NEW to, ThreadStep(p, k, at, to)
  PROVE  ThreadsGoOn
BY DEF RegistryInv, TypeOK, Thread, ThreadStep, ThreadsGoOn

LEMMA LaunchRunGoesOn ==
  ASSUME RegistryInv, NEW c \in Callers, NEW k \in SlotId, LaunchRun(c, k)
  PROVE  ThreadsGoOn
<1> DEFINE rec == [pc |-> "running", job |-> call[c].job, interval |-> call[c].interval, row |-> TRUE]
<1>1. thread' = [thread EXCEPT ![Home[c]][k] = rec] /\ rec.job = call[c].job /\ call[c].pc = "acquire"
  BY DEF LaunchRun
<1> HIDE DEF rec
<1>2. QED
  BY <1>1 DEF RegistryInv, TypeOK, ThreadsGoOn

LEMMA StepThreads == ASSUME RegistryInv, Next PROVE ThreadsGoOn
<1>1. CASE UNCHANGED thread
  BY <1>1 DEF ThreadsGoOn
<1>2. ASSUME NEW c \in Callers, PurgeRows(c) PROVE ThreadsGoOn
  <2>1. \A p \in Procs, k \in SlotId :
          thread'[p][k] = thread[p][k] \/ thread'[p][k] = [thread[p][k] EXCEPT !.row = FALSE]
    BY <1>2 DEF PurgeRows
  <2>2. \A x \in Thread : [x EXCEPT !.row = FALSE].job = x.job
    BY DEF Thread
  <2>3. \A p \in Procs, k \in SlotId : thread[p][k] \in Thread
    BY DEF RegistryInv, TypeOK
  <2>4. QED
    BY <2>1, <2>2, <2>3 DEF ThreadsGoOn
<1>3. ASSUME NEW c \in Callers, Tick(c) \/ CallStep(c) PROVE ThreadsGoOn
  <2>1. ASSUME \/ Tick(c) \/ ReadJob(c) \/ LookForRun(c) \/ LaunchRefused(c)
               \/ \E j \in JobId : TickItem(c, j) \/ BatchItem(c, j)
        PROVE  UNCHANGED thread
    BY <2>1 DEF Tick, Begin, ReadJob, LookForRun, LaunchRefused, TickItem, BatchItem
  <2>2. QED
    BY <1>1, <1>2, <1>3, <2>1, LaunchRunGoesOn DEF CallStep
<1>4. ASSUME NEW c \in Callers, Request(c) PROVE UNCHANGED thread
  BY <1>4 DEF Request, Edit, Purge, RunJobNow, BatchJobs, Begin
<1>5. ASSUME NEW p \in Procs, NEW k \in SlotId, ThreadEnds(p, k) \/ ScheduleNextRun(p, k) PROVE ThreadsGoOn
  BY <1>5, ThreadStepGoesOn DEF ThreadEnds, RunSucceeds, RunFails, ScheduleNextRun
<1>6. ASSUME NEW p \in Procs, NEW k \in SlotId, ReleaseSlot(p, k) PROVE ThreadsGoOn
  BY <1>6 DEF ReleaseSlot, RegistryInv, TypeOK, Free, ThreadsGoOn
<1>7. ExportWorkspace \/ ImportWorkspace \/ Clock => UNCHANGED thread
  BY DEF ExportWorkspace, ImportWorkspace, Clock
<1>8. QED
  BY <1>1, <1>3, <1>4, <1>5, <1>6, <1>7 DEF Next, ThreadGoesOn

LEMMA StepFreshInv ==
  RegistryInv /\ RegistryInv' /\ FreshInv /\ [Next /\ ~ImportWorkspace]_vars => FreshInv'
<1> SUFFICES ASSUME RegistryInv, RegistryInv', FreshInv, [Next /\ ~ImportWorkspace]_vars PROVE FreshInv'
  OBVIOUS
<1>1. CASE UNCHANGED vars
  BY <1>1 DEF vars, FreshInv, Known
<1>2. CASE Next /\ ~ImportWorkspace
  <2>1. /\ \A j \in JobId : Known(j)' => j < nextId'
        /\ \A n \in Nat : n < nextId => n < nextId'
    BY <1>2, StepGrows, IdsStayBelow
  <2>2. /\ \A c \in Callers : call[c].job \in Nat
        /\ \A p \in Procs, k \in SlotId : thread[p][k].job \in Nat
        /\ nextId' \in Nat /\ nextId' > 0
    BY ScheduleAssumption DEF RegistryInv, TypeOK, Call, Thread, JobId, NoJob
  <2>3. \A c \in Callers : call'[c].pc \in {"look", "acquire"} => call'[c].job < nextId'
    BY <1>2, <2>1, <2>2, StepCalls DEF CallsGoOn, FreshInv
  <2>4. \A p \in Procs, k \in SlotId : thread'[p][k].job < nextId'
    BY <1>2, <2>1, <2>2, StepThreads DEF ThreadsGoOn, FreshInv, NoJob
  <2>5. QED
    BY <2>1, <2>3, <2>4 DEF FreshInv
<1>3. QED
  BY <1>1, <1>2

\* Without imports, a new job never finds a run of an old one under its id:
\* ids of purged jobs, whose threads may still be at work, are not given again.
THEOREM NewJobsStartFresh == "import" \notin Requests => (Spec => JobStartsFresh)
<1> SUFFICES ASSUME "import" \notin Requests PROVE Spec => JobStartsFresh
  OBVIOUS
<1> DEFINE Fresh == \A j \in JobId : job[j].stage = "none" /\ job'[j].stage # "none" =>
                      \A p \in Procs, k \in SlotId : thread[p][k].job # j
<1>1. ~ImportWorkspace
  BY DEF ImportWorkspace
<1>2. Init => FreshInv
  BY NoEntryType DEF Init, FreshInv, Known, Idle, Free, NoJob
<1>3. RegistryInv /\ RegistryInv' /\ FreshInv /\ [Next]_vars => FreshInv'
  BY <1>1, StepFreshInv
<1>4. RegistryInv /\ FreshInv /\ [Next]_vars => [Fresh]_vars
  <2> SUFFICES ASSUME RegistryInv, FreshInv, Next PROVE Fresh
    OBVIOUS
  <2>1. Grows
    BY <1>1, StepGrows
  <2>2. nextId \in Nat
    BY ScheduleAssumption DEF RegistryInv, TypeOK
  <2>3. QED
    BY <2>1, <2>2 DEF Grows, FreshInv
<1>5. QED
  BY <1>2, <1>3, <1>4, RegistryInvariant, PTL DEF Spec, JobStartsFresh

=============================================================================
