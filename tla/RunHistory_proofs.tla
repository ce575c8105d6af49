-------------------------- MODULE RunHistory_proofs --------------------------
(***************************************************************************)
(* What the run history says: that a status agrees with the database, and  *)
(* that an ended run stays ended, a success a success, a deleted row gone. *)
(* A row is kept in the file and, while a job is purged, in the copy its   *)
(* caller will write back; the invariants are stated of every version of a *)
(* row.                                                                    *)
(***************************************************************************)
EXTENDS RunSlots_proofs

Purging == {c \in Callers : call[c].pc = "purge"}

\* Row r in the file and in the copies of the file that may be written back.
Versions(r) == {row[r]} \cup {call[c].snap[r] : c \in Purging}

Is(x, status, note) == x.status = status /\ x.note = note

\* Caller c writes x as row r.
CallerWrites(c, r, x) ==
  /\ call[c].run = r
  /\ \/ CloseOrphan(c) /\ Is(x, "cancelled", "owner_gone") /\ Present(r)
     \/ Append(c) /\ Is(x, "running", "none")
     \/ FailFinish(c) /\ Is(x, "failed", "worker") /\ Present(r)
     \/ CancelForce(c) /\ Is(x, "cancelled", "context_gone") /\ Present(r)

\* The thread of run r goes from one point to another.
At(r, at, to) == work[r].pc = at /\ work'[r].pc = to
Keeps(r) == work'[r].out = work[r].out

\* The thread of run r writes x as its row.
WorkerWrites(r, x) ==
  /\ Present(r)
  /\ \/ At(r, "finish", "pop") /\ work'[r].out = "success" /\ Is(x, "success", "worker")
     \/ At(r, "errfin", "pop") /\ Keeps(r) /\ Is(x, work[r].out, "worker")
     \/ At(r, "recfin", "cleanup") /\ Keeps(r) /\ Is(x, work[r].out, "worker")

-----------------------------------------------------------------------------
(* The invariants.                                                          *)

Untouched == {"none", "plan", "query", "search", "progress", "raw"}
Closing == {"errget", "errfin", "pop", "recget", "recfin"}
Closed == {"pop", "resched", "recget", "recfin", "cleanup", "ended"}

\* What the database holds when the thread is at a point.
SavedSoFar == \A r \in RunId :
  /\ work[r].pc \in Untouched => saved[r] = "none"
  /\ work[r].pc = "curated" => saved[r] = "raw"
  /\ work[r].pc = "finish" => saved[r] = "curated"
  /\ work[r].pc \in Closing /\ work[r].out = "cancelled" => saved[r] = "none"
  /\ work[r].pc \in Closing \ {"pop"} => work[r].out # "success"

VersionsMatchStore == \A r \in RunId : \A x \in Versions(r) :
  /\ x.status = "success" => saved[r] = "curated"
  /\ x.status = "cancelled" /\ x.note = "worker" => saved[r] = "none" /\ work[r].pc \in Closed

StoreInv == IdInv /\ SavedSoFar /\ VersionsMatchStore

\* A run id that is not yet in the history has no row in any version of it.
Unwritten(r) == r > seq \/ \E c \in Callers : call[c].pc = "append" /\ call[c].run = r

UnwrittenIsAbsent == \A r \in RunId : Unwritten(r) =>
  info[r].owner = NoPid /\ \A x \in Versions(r) : x.status = "absent"

IdRowInv == IdInv /\ UnwrittenIsAbsent

NoPurge == Purging = {}
PurgesAlone == \A c, d \in Purging : c = d

\* A copy of the history holds no row that has been deleted since.
CopiesAreOld == \A r \in RunId : \A c \in Purging : call[c].snap[r].status # "absent" => Present(r)

DeletedInv == IdRowInv /\ CopiesAreOld

Succeeded == {"pop", "resched", "recget", "cleanup", "ended"}

SuccessIsLate == \A r \in RunId : \A x \in Versions(r) :
  x.status = "success" => work[r].pc \in Succeeded /\ row[r].status # "running"

FailureIsLate == \A r \in RunId : \A x \in Versions(r) :
  x.status = "failed" =>
    \/ work[r].pc \in Closed
    \/ work[r].pc = "none" /\ r <= seq /\ \A c \in Callers : call[c].pc \in HasId => call[c].run # r

\* No version of a row says that the run succeeded while another says it failed.
OneOutcome == \A r \in RunId : \A x, y \in Versions(r) :
  ~(x.status = "success" /\ y.status = "failed")

SuccessInv == StoreInv /\ SuccessIsLate /\ FailureIsLate /\ OneOutcome

-----------------------------------------------------------------------------
(* What a step of a caller does to its own record.                          *)

\* Where a caller goes on with the same run and the same rows.
Arrows == {<<"scan", "cancel">>, <<"orphan", "reread">>, <<"reread", "cancel">>, <<"scan", "acquire">>,
           <<"acquire", "alloc">>, <<"append", "register">>, <<"register", "launch">>,
           <<"launch", "failget">>, <<"failget", "failfin">>, <<"failget", "release">>,
           <<"failfin", "release">>, <<"cancel", "force">>}

CallerMove(c) ==
  \/ call'[c] = Idle
  \/ /\ <<call[c].pc, call'[c].pc>> \in Arrows
     /\ call'[c].run = call[c].run /\ call'[c].seen = call[c].seen
  \/ /\ call[c].pc \in {"scan", "reread"} /\ call'[c].pc = "scan"
     /\ call'[c].seen \subseteq call[c].seen
  \/ ScanOrphan(c) /\ call'[c].pc = "orphan" /\ call'[c].seen = call[c].seen
  \/ /\ Alloc(c) /\ call'[c].pc = "append"
     /\ call'[c].run = seq + 1 /\ call'[c].seen = call[c].seen
  \/ call[c].pc = "idle" /\ call'[c].pc \in {"scan", "alloc"} /\ call'[c].seen \subseteq Running
  \/ /\ call[c].pc = "idle" /\ call'[c].pc = "purge" /\ call'[c].seen = {}
     /\ \E j \in PurgeJobs : PurgeLoad(c, j)

LEMMA StepMove ==
  ASSUME TypeOK, NEW c \in Callers, NEW at, NEW to, Step(c, at, to)
  PROVE  /\ call[c].pc = at /\ call'[c].pc = to
         /\ call'[c].run = call[c].run /\ call'[c].seen = call[c].seen
<1>1. call[c] \in Call
  BY DEF TypeOK
<1>2. QED
  BY <1>1 DEF Step, TypeOK, Call

LEMMA ReturnMove ==
  ASSUME TypeOK, NEW c \in Callers, Return(c)
  PROVE  call'[c] = Idle
BY DEF Return, TypeOK

\* What a request puts into the record.
LEMMA BeginMove ==
  ASSUME TypeOK, NEW c \in Callers, NEW rec, Begin(c, rec)
  PROVE  call[c].pc = "idle" /\ call'[c] = rec
BY DEF Begin, TypeOK

LEMMA RequestMove ==
  ASSUME TypeOK, NEW c \in Callers, Request(c)
  PROVE  CallerMove(c)
<1>1. CASE Read(c)
  <2>1. PICK S \in SUBSET Running : Begin(c, [Idle EXCEPT !.pc = "scan", !.op = "read", !.seen = S])
    BY <1>1 DEF Read, ReadRows
  <2>2. call[c].pc = "idle" /\ call'[c] = [Idle EXCEPT !.pc = "scan", !.op = "read", !.seen = S]
    BY <2>1, BeginMove
  <2>3. call'[c].pc = "scan" /\ call'[c].seen = S
    BY <2>2 DEF Idle
  <2>4. QED
    BY <2>2, <2>3 DEF CallerMove
<1>2. CASE \E j \in Jobs : StartJob(c, j)
  <2>0. PICK j \in Jobs : StartJob(c, j)
    BY <1>2
  <2> DEFINE S == {r \in Running : info[r].job = j}
  <2>1. Begin(c, [Idle EXCEPT !.pc = "scan", !.op = "start", !.job = j, !.seen = S])
    BY <2>0 DEF StartJob
  <2>2. call[c].pc = "idle" /\ call'[c] = [Idle EXCEPT !.pc = "scan", !.op = "start", !.job = j, !.seen = S]
    BY <2>1, BeginMove
  <2>3. call'[c].pc = "scan" /\ call'[c].seen = S
    BY <2>2 DEF Idle
  <2>4. QED
    BY <2>2, <2>3 DEF CallerMove
<1>3. CASE \E r \in RunId : CancelRun(c, r)
  <2>1. PICK r \in Running :
          Begin(c, [Idle EXCEPT !.pc = "scan", !.op = "cancel", !.run = r, !.seen = {r}])
    BY <1>3 DEF CancelRun, Running
  <2>2. call[c].pc = "idle" /\ call'[c] = [Idle EXCEPT !.pc = "scan", !.op = "cancel", !.run = r, !.seen = {r}]
    BY <2>1, BeginMove
  <2>3. call'[c].pc = "scan" /\ call'[c].seen = {r}
    BY <2>2 DEF Idle
  <2>4. QED
    BY <2>2, <2>3 DEF CallerMove
<1>4. CASE StartManual(c)
  <2>1. call[c].pc = "idle" /\ call'[c] = [Idle EXCEPT !.pc = "alloc", !.op = "start"]
    BY <1>4, BeginMove DEF StartManual
  <2>2. call'[c].pc = "alloc" /\ call'[c].seen = {}
    BY <2>1 DEF Idle
  <2>3. QED
    BY <2>1, <2>2 DEF CallerMove
<1>5. CASE \E j \in PurgeJobs : PurgeLoad(c, j)
  <2>1. PICK j, sn : Begin(c, [Idle EXCEPT !.pc = "purge", !.op = "purge", !.job = j, !.snap = sn])
    BY <1>5 DEF PurgeLoad
  <2>2. call[c].pc = "idle" /\ call'[c] = [Idle EXCEPT !.pc = "purge", !.op = "purge", !.job = j, !.snap = sn]
    BY <2>1, BeginMove
  <2>3. call'[c].pc = "purge" /\ call'[c].seen = {}
    BY <2>2 DEF Idle
  <2>4. QED
    BY <1>5, <2>2, <2>3 DEF CallerMove
<1>6. QED
  BY <1>1, <1>2, <1>3, <1>4, <1>5 DEF Request

LEMMA CallerStepMove ==
  ASSUME TypeOK, NEW c \in Callers, CallerStep(c)
  PROVE  CallerMove(c)
<1>1. CASE \/ CloseOrphan(c) \/ Acquire(c) \/ Append(c) \/ Register(c)
           \/ LaunchRaises(c) \/ FailGet(c) \/ FailFinish(c) \/ CancelNoEvent(c)
  BY <1>1, StepMove DEF CloseOrphan, Acquire, Append, Register, LaunchRaises, FailGet,
     FailFinish, CancelNoEvent, CallerMove, Arrows
<1>2. CASE \/ CloseOrphanRaises(c) \/ RereadRaises(c) \/ TickRaises(c) \/ StartRefused(c)
           \/ CreateRaises(c) \/ Launch(c) \/ FailFinishRaises(c) \/ Release(c) \/ CancelSignal(c)
           \/ CancelForce(c) \/ CancelForceRaises(c) \/ PurgeSave(c)
  <2>1. Return(c)
    BY <1>2 DEF CloseOrphanRaises, RereadRaises, TickRaises, StartRefused, CreateRaises, Launch,
       FailFinishRaises, Release, CancelSignal, CancelForce, CancelForceRaises, PurgeSave, ReturnFrom
  <2>2. QED
    BY <2>1, ReturnMove DEF CallerMove
<1>3. CASE ScanDone(c)
  BY <1>3, StepMove, ReturnMove DEF ScanDone, ReturnFrom, CallerMove, Arrows
<1>4. CASE ScanAlive(c)
  <2>1. PICK r \in RunId : \/ Return(c) \/ Step(c, "scan", "cancel")
                           \/ call' = [call EXCEPT ![c].seen = @ \ {r}]
    BY <1>4 DEF ScanAlive
  <2>2. CASE call' = [call EXCEPT ![c].seen = @ \ {r}]
    <3>1. call'[c].pc = call[c].pc /\ call'[c].seen = call[c].seen \ {r}
      BY <2>2 DEF TypeOK, Call
    <3>2. QED
      BY <1>4, <3>1 DEF ScanAlive, CallerMove
  <2>3. QED
    BY <2>1, <2>2, StepMove, ReturnMove DEF CallerMove, Arrows
<1>5. CASE ScanOrphan(c)
  <2>1. call'[c].pc = "orphan" /\ call'[c].seen = call[c].seen
    BY <1>5 DEF ScanOrphan, TypeOK, Call
  <2>2. QED
    BY <1>5, <2>1 DEF CallerMove
<1>6. CASE Reread(c)
  <2> DEFINE r == call[c].run
  <2>1. \/ Return(c) \/ Step(c, "reread", "cancel")
        \/ call' = [call EXCEPT ![c].pc = "scan", ![c].seen = @ \ {r}, ![c].run = NoRun]
    BY <1>6 DEF Reread
  <2>2. CASE call' = [call EXCEPT ![c].pc = "scan", ![c].seen = @ \ {r}, ![c].run = NoRun]
    <3>1. call'[c].pc = "scan" /\ call'[c].seen = call[c].seen \ {r}
      BY <2>2 DEF TypeOK, Call
    <3>2. QED
      BY <1>6, <3>1 DEF Reread, CallerMove
  <2>3. QED
    BY <2>1, <2>2, StepMove, ReturnMove DEF CallerMove, Arrows
<1>7. CASE Alloc(c)
  <2>1. call'[c].pc = "append" /\ call'[c].run = seq + 1 /\ call'[c].seen = call[c].seen
    BY <1>7 DEF Alloc, TypeOK, Call
  <2>2. QED
    BY <1>7, <2>1 DEF CallerMove
<1>8. QED
  BY <1>1, <1>2, <1>3, <1>4, <1>5, <1>6, <1>7 DEF CallerStep

\* A caller that holds a fresh id appends its row or gives up.
LEMMA AppendStep ==
  ASSUME TypeOK, NEW c \in Callers, CallerStep(c) \/ Request(c), ~Append(c)
  PROVE  call[c].pc # "append" \/ call'[c] = Idle
BY ReturnMove DEF CallerStep, ScanAlive, ScanOrphan, CloseOrphan, CloseOrphanRaises, Reread,
   RereadRaises, TickRaises, ScanDone, Acquire, StartRefused, Alloc, CreateRaises, Register,
   Launch, LaunchRaises, FailGet, FailFinish, FailFinishRaises, Release, CancelSignal, CancelNoEvent,
   CancelForce, CancelForceRaises, PurgeSave, Request, Read, ReadRows, StartJob, StartManual, CancelRun,
   PurgeLoad, Begin, Step, ReturnFrom

\* What it leaves alone.
LEMMA CallerKeeps ==
  ASSUME TypeOK, NEW c \in Callers, CallerStep(c) \/ Request(c)
  PROVE  /\ UNCHANGED <<saved, pid, used>>
         /\ UNCHANGED info \/ Append(c)
         /\ UNCHANGED work \/ Launch(c)
         /\ UNCHANGED seq \/ Alloc(c)
         /\ UNCHANGED mode \/ TickRaises(c)
BY DEF files, process, CallerStep, ScanAlive, ScanOrphan, CloseOrphan, CloseOrphanRaises, Reread,
   RereadRaises, TickRaises, ScanDone, Acquire, StartRefused, Alloc, Append, CreateRaises, Register,
   Launch, LaunchRaises, FailGet, FailFinish, FailFinishRaises, Release, CancelSignal, CancelNoEvent,
   CancelForce, CancelForceRaises, PurgeSave, Request, Read, ReadRows, StartJob, StartManual, CancelRun,
   PurgeLoad

-----------------------------------------------------------------------------
(* The only versions of a row that a step adds.                             *)

LEMMA FinishWrites ==
  ASSUME TypeOK, NEW r \in RunId, NEW st, NEW nt, FinishRun(r, st, nt)
  PROVE  /\ Present(r) /\ Is(row'[r], st, nt)
         /\ \A s \in RunId : s # r => row'[s] = row[s]
<1>1. row[r] \in Row
  BY DEF TypeOK
<1>2. Is(row'[r], st, nt)
  BY <1>1 DEF FinishRun, TypeOK, Is, Row
<1>3. QED
  BY <1>2 DEF FinishRun, TypeOK, Present

LEMMA CallerRow ==
  ASSUME TypeOK, NEW c \in Callers, CallerStep(c) \/ Request(c), ~PurgeSave(c), NEW r \in RunId
  PROVE  row'[r] = row[r] \/ CallerWrites(c, r, row'[r])
<1>1. CASE Append(c)
  BY <1>1 DEF Append, CallerWrites, Is, TypeOK
<1>2. CASE CloseOrphan(c) \/ FailFinish(c) \/ CancelForce(c)
  <2>1. CASE call[c].run \in RunId
    BY <1>2, <2>1, FinishWrites DEF CloseOrphan, FailFinish, CancelForce, CallerWrites
  <2>2. CASE call[c].run \notin RunId
    BY <1>2, <2>2 DEF CloseOrphan, FailFinish, CancelForce, FinishRun, TypeOK
  <2>3. QED
    BY <2>1, <2>2
<1>3. CASE UNCHANGED row
  BY <1>3
<1>4. QED
  BY <1>1, <1>2, <1>3 DEF CallerStep, ScanAlive, ScanOrphan, CloseOrphanRaises, Reread, TickRaises,
     RereadRaises, ScanDone, Acquire, StartRefused, Alloc, CreateRaises, Register, Launch,
     LaunchRaises, FailGet, FailFinishRaises, Release, CancelSignal, CancelNoEvent,
     CancelForceRaises, Request, Read, ReadRows, StartJob, StartManual, CancelRun, PurgeLoad, files

\* The copies a step leaves to be written back, old ones and one just made.
LEMMA CallerCopies ==
  ASSUME TypeOK, NEW c \in Callers, CallerStep(c) \/ Request(c), OnlyCaller(c), NEW d \in Purging', NEW r \in RunId
  PROVE  \/ d # c /\ d \in Purging /\ call'[d].snap[r] = call[d].snap[r]
         \/ d = c /\ UNCHANGED row /\ call'[d].snap[r] \in {row[r], NoRow} /\ call[c].pc = "idle"
<1>1. CASE d # c
  BY <1>1 DEF OnlyCaller, Purging
<1>2. CASE d = c
  <2>1. call'[c].pc = "purge"
    BY <1>2 DEF Purging
  <2>2. PICK j \in PurgeJobs : PurgeLoad(c, j)
    BY <2>1, RequestMove, CallerStepMove DEF CallerMove, Arrows, Idle
  <2> DEFINE sn == [s \in RunId |-> IF info[s].job = j THEN NoRow ELSE row[s]]
  <2>3. call'[c] = [Idle EXCEPT !.pc = "purge", !.op = "purge", !.job = j, !.snap = sn] /\ call[c].pc = "idle"
    BY <2>2, BeginMove DEF PurgeLoad
  <2>4. call'[c].snap = sn
    <3> HIDE DEF sn
    <3> QED BY <2>3 DEF Idle
  <2>5. QED
    BY <1>2, <2>2, <2>3, <2>4 DEF PurgeLoad, files
<1>3. QED
  BY <1>1, <1>2

LEMMA CallerVersions ==
  ASSUME TypeOK, NEW c \in Callers, CallerStep(c) \/ Request(c), OnlyCaller(c), NEW r \in RunId,
         NEW x \in Versions(r)'
  PROVE  x \in Versions(r) \/ x = NoRow \/ CallerWrites(c, r, x)
<1>1. CASE x = row'[r]
  <2>1. CASE PurgeSave(c)
    BY <1>1, <2>1 DEF PurgeSave, ReturnFrom, Versions, Purging
  <2>2. CASE ~PurgeSave(c)
    BY <1>1, <2>2, CallerRow DEF Versions
  <2>3. QED
    BY <2>1, <2>2
<1>2. ASSUME NEW d \in Purging', x = call'[d].snap[r] PROVE x \in Versions(r) \cup {NoRow}
  BY <1>2, CallerCopies DEF Versions
<1>3. QED
  BY <1>1, <1>2 DEF Versions

-----------------------------------------------------------------------------
(* What a step of a background thread does to its row and the database.     *)

Querying == {"plan", "query", "search", "progress"}

WorkerQuiet(r) ==
  \/ work[r].pc \in Querying /\ work'[r].pc \in Querying
  \/ At(r, "query", "raw")
  \/ At(r, "plan", "recget") /\ work'[r].out = "failed"
  \/ /\ work[r].pc \in Querying \cup {"raw", "curated", "finish"} /\ work'[r].pc = "errget"
     /\ work'[r].out = "failed" \/ (work'[r].out = "cancelled" /\ work[r].pc \in Querying)
  \/ At(r, "errget", "errfin") /\ Keeps(r)
  \/ At(r, "errget", "pop") /\ work'[r].out = "failed"
  \/ At(r, "errfin", "pop") /\ work'[r].out = "failed"
  \/ At(r, "pop", "recget") /\ Keeps(r) /\ work[r].out # "success"
  \/ At(r, "pop", "resched") /\ Keeps(r) /\ work[r].out = "success"
  \/ At(r, "pop", "cleanup") /\ Keeps(r) /\ work[r].out = "success"
  \/ At(r, "resched", "cleanup")
  \/ At(r, "resched", "recget") /\ work'[r].out = "failed"
  \/ At(r, "recget", "recfin") /\ Keeps(r) /\ row[r].status = "running"
  \/ At(r, "recget", "cleanup") /\ (row[r].status # "running" \/ StoreFaults)
  \/ At(r, "recfin", "cleanup") /\ StoreRaises(r)
  \/ At(r, "cleanup", "ended")

WorkerMove(r) ==
  \/ WorkerQuiet(r) /\ UNCHANGED <<row, saved>>
  \/ At(r, "raw", "curated") /\ UNCHANGED row /\ saved' = [saved EXCEPT ![r] = "raw"]
  \/ At(r, "curated", "finish") /\ UNCHANGED row /\ saved' = [saved EXCEPT ![r] = "curated"]
  \/ /\ WorkerWrites(r, row'[r]) /\ UNCHANGED saved
     /\ \A s \in RunId : s # r => row'[s] = row[s]

LEMMA ThreadMove ==
  ASSUME TypeOK, NEW r \in RunId
  PROVE  /\ \A at, to : Goto(r, at, to) => At(r, at, to) /\ Keeps(r)
         /\ \A at, to, o : Raise(r, at, to, o) => At(r, at, to) /\ work'[r].out = o
<1>1. work[r] \in Work
  BY DEF TypeOK
<1>2. ASSUME NEW at, NEW to, Goto(r, at, to) PROVE At(r, at, to) /\ Keeps(r)
  BY <1>1, <1>2 DEF Goto, TypeOK, Work, At, Keeps
<1>3. ASSUME NEW at, NEW to, NEW o, Raise(r, at, to, o) PROVE At(r, at, to) /\ work'[r].out = o
  BY <1>1, <1>3 DEF Raise, TypeOK, Work, At
<1>4. QED
  BY <1>2, <1>3

LEMMA WorkerStepMove ==
  ASSUME TypeOK, NEW r \in RunId, WorkerStep(r)
  PROVE  WorkerMove(r) /\ UNCHANGED info
<1> USE DEF files
<1>1. CASE Plan(r) \/ Query(r) \/ Search(r) \/ QueriesDone(r)
  BY <1>1, ThreadMove DEF Plan, Query, Search, QueriesDone, WorkerMove, WorkerQuiet, Querying, At
<1>2. CASE Progress(r)
  <2>1. CASE Raise(r, "progress", "errget", "failed")
    BY <1>2, <2>1, ThreadMove DEF Progress, WorkerMove, WorkerQuiet, Querying, At
  <2>2. CASE ~Raise(r, "progress", "errget", "failed")
    <3>1. work' = [work EXCEPT ![r].pc = "query", ![r].done = @ + 1] /\ work[r].pc = "progress"
      BY <1>2, <2>2 DEF Progress
    <3>2. work'[r].pc = "query"
      BY <3>1 DEF TypeOK, Work
    <3>3. QED
      BY <1>2, <3>1, <3>2 DEF Progress, WorkerMove, WorkerQuiet, Querying
  <2>3. QED
    BY <2>1, <2>2
<1>3. CASE StoreRaw(r) \/ StoreCurated(r)
  BY <1>3, ThreadMove DEF StoreRaw, StoreCurated, WorkerMove, WorkerQuiet, Querying, At
<1>4. CASE ErrorGet(r) \/ Reschedule(r) \/ RecordGet(r)
  BY <1>4, ThreadMove DEF ErrorGet, Reschedule, RecordGet, WorkerMove, WorkerQuiet
<1>p. CASE PopEvent(r)
  <2>1. UNCHANGED <<row, info, saved>>
    BY <1>p DEF PopEvent
  <2>2. WorkerQuiet(r)
    BY <1>p, ThreadMove DEF PopEvent, WorkerQuiet
  <2>3. QED
    BY <2>1, <2>2 DEF WorkerMove
<1>5. CASE FinishSuccess(r)
  BY <1>5, ThreadMove, FinishWrites DEF FinishSuccess, WorkerMove, WorkerQuiet, WorkerWrites, Querying, At
<1>6. CASE ErrorFinish(r) \/ RecordFinish(r)
  BY <1>6, ThreadMove, FinishWrites DEF ErrorFinish, RecordFinish, WorkerMove, WorkerQuiet, WorkerWrites
<1>7. CASE Cleanup(r)
  <2>1. work'[r].pc = "ended"
    BY <1>7 DEF Cleanup, TypeOK, Ended, NoWork
  <2>2. QED
    BY <1>7, <2>1 DEF Cleanup, WorkerMove, WorkerQuiet, At
<1>8. QED
  BY <1>1, <1>2, <1>3, <1>4, <1>5, <1>6, <1>7, <1>p DEF WorkerStep

LEMMA WorkerVersions ==
  ASSUME TypeOK, NEW r \in RunId, WorkerStep(r), NEW s \in RunId, NEW x \in Versions(s)'
  PROVE  x \in Versions(s) \/ (s = r /\ x = row'[r] /\ WorkerWrites(r, x))
<1>1. UNCHANGED call /\ WorkerMove(r)
  BY WorkerStepEffect, WorkerStepMove DEF WorkerEffect
<1>2. QED
  BY <1>1 DEF WorkerMove, Versions, Purging

-----------------------------------------------------------------------------
(* What a step of a process does to callers and threads.                    *)

ProcessMove(p) ==
  /\ UNCHANGED files
  /\ \/ /\ mode[p] # "down" /\ mode' = [mode EXCEPT ![p] = "down"] /\ UNCHANGED <<pid, used>>
        /\ \A c \in Callers : call'[c] = IF Home[c] = p THEN Idle ELSE call[c]
        /\ \A r \in RunId : IF r \in Workers(p) THEN work'[r] = Ended ELSE work'[r] = work[r]
     \/ StartProcess(p) /\ UNCHANGED <<call, work>>
     \/ Shutdown(p) /\ UNCHANGED <<pid, used, call, work>>

LEMMA ProcessStepMove ==
  ASSUME TypeOK, NEW p \in Procs, ProcessStep(p)
  PROVE  ProcessMove(p)
<1>1. CASE Crash(p) \/ Exit(p)
  BY <1>1 DEF Crash, Exit, Vanish, ProcessMove, files
<1>2. CASE StartProcess(p)
  BY <1>2 DEF StartProcess, ProcessMove, files
<1>3. CASE Shutdown(p)
  BY <1>3 DEF Shutdown, EndLoop, ProcessMove, files
<1>4. QED
  BY <1>1, <1>2, <1>3 DEF ProcessStep

LEMMA ProcessVersions ==
  ASSUME NEW p \in Procs, ProcessMove(p), NEW r \in RunId, NEW x \in Versions(r)'
  PROVE  x \in Versions(r)
<1>1. row' = row /\ \A c \in Purging' : c \in Purging /\ call'[c] = call[c]
  BY DEF ProcessMove, StartProcess, Shutdown, Purging, Idle, files
<1>2. QED
  BY <1>1 DEF Versions

-----------------------------------------------------------------------------
(* The status of a run agrees with the database.                            *)

\* A caller with an id of its own has not started the thread of its run.
LEMMA LaunchOwn ==
  ASSUME IdInv, NEW c \in Callers, Launch(c)
  PROVE  LET r == call[c].run IN
         /\ r \in RunId /\ work[r].pc = "none"
         /\ work'[r].pc = "plan" /\ work'[r].proc = Home[c]
         /\ \A s \in RunId : s # r => work'[s] = work[s]
BY DEF Launch, ReturnFrom, IdInv, OwnId, HasId, TypeOK

LEMMA CallerStore ==
  ASSUME StoreInv, NEW c \in Callers, CallerStep(c) \/ Request(c)
  PROVE  SavedSoFar' /\ VersionsMatchStore'
<1>0. /\ IdInv /\ TypeOK /\ OnlyCaller(c)
      /\ UNCHANGED saved /\ (UNCHANGED work \/ Launch(c))
  BY CallerOnly, CallerKeeps DEF StoreInv, IdInv
<1>1. \A r \in RunId : work'[r] = work[r] \/ (work[r].pc = "none" /\ work'[r].pc = "plan")
  <2>1. ASSUME Launch(c), NEW r \in RunId PROVE work'[r] = work[r] \/ (work[r].pc = "none" /\ work'[r].pc = "plan")
    <3>1. CASE r = call[c].run
      BY <1>0, <2>1, <3>1, LaunchOwn
    <3>2. CASE r # call[c].run
      BY <1>0, <2>1, <3>2, LaunchOwn
    <3>3. QED
      BY <3>1, <3>2
  <2>2. QED
    BY <1>0, <2>1
<1>2. SavedSoFar'
  BY <1>0, <1>1 DEF StoreInv, SavedSoFar, Untouched, Closing
<1>3. ASSUME NEW r \in RunId, NEW x \in Versions(r)'
      PROVE  /\ x.status = "success" => saved'[r] = "curated"
             /\ x.status = "cancelled" /\ x.note = "worker" => saved'[r] = "none" /\ work'[r].pc \in Closed
  <2>1. x \in Versions(r) \/ x = NoRow \/ CallerWrites(c, r, x)
    BY <1>0, <1>3, CallerVersions
  <2>2. CASE x \in Versions(r)
    BY <1>0, <1>1, <2>2 DEF StoreInv, VersionsMatchStore, Closed
  <2>3. CASE x = NoRow \/ CallerWrites(c, r, x)
    BY <2>3 DEF NoRow, CallerWrites, Is
  <2>4. QED
    BY <2>1, <2>2, <2>3
<1>4. VersionsMatchStore'
  BY <1>3 DEF VersionsMatchStore
<1>5. QED
  BY <1>2, <1>4

LEMMA WorkerStore ==
  ASSUME StoreInv, NEW r \in RunId, WorkerStep(r)
  PROVE  SavedSoFar' /\ VersionsMatchStore'
<1>0. /\ TypeOK /\ WorkerMove(r)
      /\ \A s \in RunId : s # r => work'[s] = work[s] /\ saved'[s] = saved[s]
  <2>1. TypeOK /\ WorkerEffect(r) /\ WorkerMove(r)
    BY WorkerStepEffect, WorkerStepMove DEF StoreInv, IdInv
  <2>2. QED
    BY <2>1 DEF WorkerEffect, WorkerMove, TypeOK
<1>1. saved \in [RunId -> {"none", "raw", "curated"}]
  BY <1>0 DEF TypeOK
<1>2. SavedSoFar'
  <2>1. /\ work'[r].pc \in Untouched => saved'[r] = "none"
        /\ work'[r].pc = "curated" => saved'[r] = "raw"
        /\ work'[r].pc = "finish" => saved'[r] = "curated"
        /\ work'[r].pc \in Closing /\ work'[r].out = "cancelled" => saved'[r] = "none"
        /\ work'[r].pc \in Closing \ {"pop"} => work'[r].out # "success"
    <3>1. CASE WorkerQuiet(r) /\ UNCHANGED saved
      BY <3>1 DEF WorkerQuiet, At, Keeps, StoreInv, SavedSoFar, Untouched, Closing, Querying
    <3>2. CASE \/ At(r, "raw", "curated") /\ saved' = [saved EXCEPT ![r] = "raw"]
               \/ At(r, "curated", "finish") /\ saved' = [saved EXCEPT ![r] = "curated"]
      BY <1>1, <3>2 DEF At, Untouched, Closing
    <3>3. CASE WorkerWrites(r, row'[r]) /\ UNCHANGED saved
      BY <3>3 DEF WorkerWrites, At, Keeps, StoreInv, SavedSoFar, Untouched, Closing
    <3>4. QED
      BY <1>0, <3>1, <3>2, <3>3 DEF WorkerMove
  <2>2. QED
    BY <1>0, <2>1 DEF StoreInv, SavedSoFar
<1>3. ASSUME NEW s \in RunId, NEW x \in Versions(s)'
      PROVE  /\ x.status = "success" => saved'[s] = "curated"
             /\ x.status = "cancelled" /\ x.note = "worker" => saved'[s] = "none" /\ work'[s].pc \in Closed
  <2>1. CASE s = r /\ x = row'[r] /\ WorkerWrites(r, x)
    <3>1. UNCHANGED saved
      <4>1. work[r].pc \in {"finish", "errfin", "recfin"}
        BY <2>1 DEF WorkerWrites, At
      <4>2. QED
        BY <1>0, <4>1 DEF WorkerMove, At
    <3>2. QED
      BY <2>1, <3>1 DEF WorkerWrites, At, Is, StoreInv, SavedSoFar, Closing, Closed
  <2>2. CASE x \in Versions(s)
    <3>1. CASE s # r
      BY <1>0, <2>2, <3>1 DEF StoreInv, VersionsMatchStore
    <3>2. CASE s = r
      <4>1. work[r].pc \in Closed => work'[r].pc \in Closed /\ saved' = saved
        BY <1>0 DEF WorkerMove, WorkerQuiet, WorkerWrites, At, Closed, Querying
      <4>2. CASE saved' = saved
        BY <2>2, <3>2, <4>1, <4>2 DEF StoreInv, VersionsMatchStore
      <4>3. CASE saved' # saved
        <5>1. \/ work[r].pc = "raw" /\ saved[r] = "none"
              \/ work[r].pc = "curated" /\ saved[r] = "raw"
          BY <1>0, <4>3 DEF WorkerMove, At, StoreInv, SavedSoFar, Untouched
        <5>2. x.status # "success" /\ ~(x.status = "cancelled" /\ x.note = "worker")
          BY <2>2, <3>2, <5>1 DEF StoreInv, VersionsMatchStore, Closed
        <5>3. QED
          BY <5>2
      <4>4. QED
        BY <4>2, <4>3
    <3>3. QED
      BY <3>1, <3>2
  <2>3. QED
    BY <1>0, <1>3, <2>1, <2>2, WorkerVersions
<1>4. VersionsMatchStore'
  BY <1>3 DEF VersionsMatchStore
<1>5. QED
  BY <1>2, <1>4

LEMMA ProcessStore ==
  ASSUME StoreInv, NEW p \in Procs, ProcessStep(p)
  PROVE  SavedSoFar' /\ VersionsMatchStore'
<1>0. ProcessMove(p) /\ UNCHANGED saved
  BY ProcessStepMove DEF StoreInv, IdInv, ProcessMove, files
<1>1. \A r \in RunId : work'[r] = work[r] \/ work'[r].pc = "ended"
  BY <1>0 DEF ProcessMove, Ended, NoWork
<1>2. SavedSoFar'
  BY <1>0, <1>1 DEF StoreInv, SavedSoFar, Untouched, Closing
<1>3. VersionsMatchStore'
  BY <1>0, <1>1, ProcessVersions DEF StoreInv, VersionsMatchStore, Closed
<1>4. QED
  BY <1>2, <1>3

LEMMA InitStoreInv == Init => StoreInv
<1>1. Init => SavedSoFar /\ VersionsMatchStore
  BY DEF Init, SavedSoFar, VersionsMatchStore, Versions, Purging, Idle, NoWork, NoRow, Closing
<1>2. QED
  BY <1>1, InitIdInv DEF StoreInv

LEMMA NextStoreInv == StoreInv /\ [Next]_vars => StoreInv'
<1> SUFFICES ASSUME StoreInv, [Next]_vars PROVE SavedSoFar' /\ VersionsMatchStore'
  BY NextIdInv DEF StoreInv
<1>1. CASE UNCHANGED vars
  BY <1>1 DEF StoreInv, SavedSoFar, VersionsMatchStore, Versions, Purging, vars
<1>2. QED
  BY <1>1, CallerStore, WorkerStore, ProcessStore DEF Next

\* In every instance, whatever is purged meanwhile and whatever faults the store
\* has: a row that says "success" belongs to a run that has stored its raw and
\* its curated results, and one its own thread closed as "cancelled" to a run
\* that has stored nothing (_execute_manual_run tests the event before it stores).
THEOREM StatusAgrees == Spec => []StatusMatchesStore
<1>1. StoreInv => StatusMatchesStore
  BY DEF StoreInv, VersionsMatchStore, StatusMatchesStore, Versions
<1>2. QED
  BY InitStoreInv, NextStoreInv, <1>1, PTL DEF Spec

-----------------------------------------------------------------------------
(* An id that is not in the history, and a row that has been deleted.       *)

LEMMA AppendOwn ==
  ASSUME IdInv, NEW c \in Callers, Append(c)
  PROVE  LET r == call[c].run IN
         /\ call[c].pc = "append" /\ call'[c].pc = "register" /\ call'[c].run = r
         /\ r \in RunId /\ r <= seq /\ work[r].pc = "none" /\ UNCHANGED <<seq, work>>
         /\ info'[r].owner = pid[Home[c]] /\ \A s \in RunId : s # r => info'[s] = info[s]
         /\ \A d \in Callers : d # c /\ call[d].pc \in HasId => call[d].run # r
<1>1. TypeOK /\ call[c].pc = "append" /\ call'[c].pc = "register" /\ call'[c].run = call[c].run
  BY StepMove DEF Append, IdInv
<1>2. call[c].run \in RunId
  BY <1>1 DEF IdInv, OwnId, HasId
<1>3. info'[call[c].run].owner = pid[Home[c]] /\ \A s \in RunId : s # call[c].run => info'[s] = info[s]
  BY <1>1, <1>2 DEF Append, TypeOK
<1>4. QED
  BY <1>1, <1>2, <1>3 DEF Append, IdInv, OwnId, HasId

LEMMA CallerUnwritten ==
  ASSUME IdRowInv, NEW c \in Callers, CallerStep(c) \/ Request(c), NEW r \in RunId, Unwritten(r)'
  PROVE  Unwritten(r) /\ ~(Append(c) /\ call[c].run = r)
<1>0. /\ IdInv /\ TypeOK /\ OnlyCaller(c) /\ CallerMove(c) /\ (UNCHANGED seq \/ Alloc(c))
  BY CallerOnly, CallerKeeps, RequestMove, CallerStepMove DEF IdRowInv, IdInv
<1>a. seq \in Nat /\ r \in Nat
  BY <1>0, ConstantsAssumption DEF TypeOK, RunId
<1>b. seq' = seq \/ seq' = seq + 1
  BY <1>0 DEF Alloc
<1>c. Append(c) => call[c].run <= seq
  BY <1>0, AppendOwn
<1>1. CASE r > seq'
  <2>1. r > seq
    BY <1>a, <1>b, <1>1
  <2>2. QED
    BY <1>a, <1>c, <2>1 DEF Unwritten
<1>2. ASSUME NEW d \in Callers, call'[d].pc = "append", call'[d].run = r
      PROVE  Unwritten(r) /\ ~(Append(c) /\ call[c].run = r)
  <2>1. CASE d = c
    <3>1. Alloc(c) /\ r = seq + 1
      BY <1>0, <1>2, <2>1 DEF CallerMove, Arrows, Idle
    <3>2. r > seq
      BY <1>a, <3>1
    <3>3. QED
      BY <1>a, <1>c, <3>2 DEF Unwritten
  <2>2. CASE d # c
    <3>1. call[d].pc = "append" /\ call[d].run = r
      BY <1>0, <1>2, <2>2 DEF OnlyCaller
    <3>2. QED
      BY <1>0, <2>2, <3>1, AppendOwn DEF Unwritten, HasId
  <2>3. QED
    BY <2>1, <2>2
<1>3. QED
  BY <1>1, <1>2 DEF Unwritten

LEMMA CallerAbsent ==
  ASSUME IdRowInv, NEW c \in Callers, CallerStep(c) \/ Request(c)
  PROVE  UnwrittenIsAbsent'
<1>0. IdInv /\ TypeOK /\ OnlyCaller(c) /\ (UNCHANGED info \/ Append(c))
  BY CallerOnly, CallerKeeps DEF IdRowInv, IdInv
<1> SUFFICES ASSUME NEW r \in RunId, Unwritten(r)', NEW x \in Versions(r)'
             PROVE  info'[r].owner = NoPid /\ x.status = "absent"
  BY DEF UnwrittenIsAbsent, Versions
<1>1. Unwritten(r) /\ ~(Append(c) /\ call[c].run = r)
  BY CallerUnwritten
<1>2. info[r].owner = NoPid /\ ~Present(r) /\ \A y \in Versions(r) : y.status = "absent"
  BY <1>1 DEF IdRowInv, UnwrittenIsAbsent, Versions, Present
<1>3. info'[r].owner = NoPid
  BY <1>0, <1>1, <1>2, AppendOwn
<1>4. x.status = "absent"
  BY <1>0, <1>1, <1>2, CallerVersions DEF CallerWrites, NoRow
<1>5. QED
  BY <1>3, <1>4

LEMMA WorkerAbsent ==
  ASSUME IdRowInv, NEW r \in RunId, WorkerStep(r)
  PROVE  UnwrittenIsAbsent'
<1>0. TypeOK /\ UNCHANGED <<seq, call, info>>
  BY WorkerStepEffect, WorkerStepMove DEF IdRowInv, IdInv, WorkerEffect
<1> SUFFICES ASSUME NEW s \in RunId, Unwritten(s), NEW x \in Versions(s)'
             PROVE  info'[s].owner = NoPid /\ x.status = "absent"
  BY <1>0 DEF UnwrittenIsAbsent, Unwritten, Versions
<1>1. info[s].owner = NoPid /\ ~Present(s) /\ \A y \in Versions(s) : y.status = "absent"
  BY DEF IdRowInv, UnwrittenIsAbsent, Versions, Present
<1>2. QED
  BY <1>0, <1>1, WorkerVersions DEF WorkerWrites

LEMMA ProcessAbsent ==
  ASSUME IdRowInv, NEW p \in Procs, ProcessStep(p)
  PROVE  UnwrittenIsAbsent'
<1>0. ProcessMove(p) /\ UNCHANGED <<seq, info>>
  BY ProcessStepMove DEF IdRowInv, IdInv, ProcessMove, files
<1>1. ASSUME NEW r \in RunId, Unwritten(r)' PROVE Unwritten(r)
  BY <1>0, <1>1 DEF Unwritten, ProcessMove, StartProcess, Shutdown, Idle
<1>2. ASSUME NEW r \in RunId, Unwritten(r)', NEW x \in Versions(r)'
      PROVE  info'[r].owner = NoPid /\ x.status = "absent"
  BY <1>0, <1>1, <1>2, ProcessVersions DEF IdRowInv, UnwrittenIsAbsent
<1>3. QED
  BY <1>2 DEF UnwrittenIsAbsent, Versions

LEMMA InitIdRowInv == Init => IdRowInv
<1>1. Init => UnwrittenIsAbsent
  BY DEF Init, UnwrittenIsAbsent, Versions, Purging, Idle, NoRow
<1>2. QED
  BY <1>1, InitIdInv DEF IdRowInv

LEMMA NextIdRowInv == IdRowInv /\ [Next]_vars => IdRowInv'
<1> SUFFICES ASSUME IdRowInv, [Next]_vars PROVE UnwrittenIsAbsent'
  BY NextIdInv DEF IdRowInv
<1>1. CASE UNCHANGED vars
  BY <1>1 DEF IdRowInv, UnwrittenIsAbsent, Unwritten, Versions, Purging, vars
<1>2. QED
  BY <1>1, CallerAbsent, WorkerAbsent, ProcessAbsent DEF Next

-----------------------------------------------------------------------------
\* Who makes a row present is Append and PurgeSave; only PurgeSave removes one.
LEMMA RowChange ==
  ASSUME IdRowInv, [Next]_vars, NEW r \in RunId
  PROVE  \/ row'[r] = row[r]
         \/ Present(r) /\ row'[r].status \in Terminal
         \/ Unwritten(r) /\ row'[r].status = "running"
         \/ \E c \in Purging : PurgeSave(c) /\ row'[r] = call[c].snap[r]
<1>0. IdInv /\ TypeOK
  BY DEF IdRowInv, IdInv
<1>1. ASSUME NEW c \in Callers, CallerStep(c) \/ Request(c)
      PROVE  \/ row'[r] = row[r]
             \/ Present(r) /\ row'[r].status \in Terminal
             \/ Unwritten(r) /\ row'[r].status = "running"
             \/ c \in Purging /\ PurgeSave(c) /\ row'[r] = call[c].snap[r]
  <2>1. CASE PurgeSave(c)
    BY <2>1 DEF PurgeSave, ReturnFrom, Purging
  <2>2. CASE ~PurgeSave(c)
    <3>1. CASE Append(c) /\ call[c].run = r /\ Is(row'[r], "running", "none")
      BY <1>0, <3>1, AppendOwn DEF Unwritten, Is
    <3>2. QED
      BY <1>0, <1>1, <2>2, <3>1, CallerRow DEF CallerWrites, Is, Terminal
  <2>3. QED
    BY <2>1, <2>2
<1>2. ASSUME NEW s \in RunId, WorkerStep(s)
      PROVE  row'[r] = row[r] \/ (Present(r) /\ row'[r].status \in Terminal)
  <2>1. WorkerMove(s) /\ work[s].out \in Terminal
    BY <1>0, <1>2, WorkerStepMove DEF TypeOK, Work
  <2>2. QED
    BY <2>1 DEF WorkerMove, WorkerWrites, Is, Terminal
<1>3. ASSUME NEW p \in Procs, ProcessStep(p) PROVE row'[r] = row[r]
  BY <1>0, <1>3, ProcessStepMove DEF ProcessMove, files
<1>4. CASE UNCHANGED vars
  BY <1>4 DEF vars
<1>5. QED
  BY <1>1, <1>2, <1>3, <1>4 DEF Next

LEMMA InitNoPurge == Init => NoPurge
BY DEF Init, NoPurge, Purging, Idle

LEMMA NextNoPurge ==
  ASSUME PurgeJobs = {}, IdInv, NoPurge, [Next]_vars
  PROVE  NoPurge'
<1>0. TypeOK
  BY DEF IdInv
<1>1. ASSUME NEW c \in Callers, CallerStep(c) \/ Request(c) PROVE NoPurge'
  BY <1>0, <1>1, CallerOnly, RequestMove, CallerStepMove
  DEF NoPurge, Purging, CallerMove, Arrows, Idle, OnlyCaller
<1>2. ASSUME NEW s \in RunId, WorkerStep(s) PROVE NoPurge'
  BY <1>0, <1>2, WorkerStepEffect DEF WorkerEffect, NoPurge, Purging
<1>3. ASSUME NEW p \in Procs, ProcessStep(p) PROVE NoPurge'
  BY <1>0, <1>3, ProcessStepMove DEF ProcessMove, StartProcess, Shutdown, NoPurge, Purging, Idle
<1>4. CASE UNCHANGED vars
  BY <1>4 DEF vars, NoPurge, Purging
<1>5. QED
  BY <1>1, <1>2, <1>3, <1>4 DEF Next

\* While nobody purges a job: a run that has ended, however it was closed, never
\* counts as running again, whatever writes of its thread, of a cancellation or
\* of an orphan check are still under way.  (A purge may write back an older
\* copy of the whole history, see PurgeSave.)
THEOREM EndedStaysEnded ==
  ASSUME PurgeJobs = {}
  PROVE  Spec => NoResurrection
<1> DEFINE Inv == IdRowInv /\ NoPurge
<1>1. Init => Inv
  BY InitIdRowInv, InitNoPurge
<1>2. Inv /\ [Next]_vars => Inv'
  BY NextIdRowInv, NextNoPurge DEF IdRowInv
<1>3. Inv /\ [Next]_vars => [\A r \in RunId : row[r].status \in Terminal => row'[r].status # "running"]_vars
  <2> SUFFICES ASSUME Inv, [Next]_vars, NEW r \in RunId, row[r].status \in Terminal
               PROVE  row'[r].status # "running"
    OBVIOUS
  <2>1. row[r].status # "absent" /\ row[r].status # "running"
    BY DEF Terminal
  <2>2. ~Unwritten(r)
    BY <2>1 DEF IdRowInv, UnwrittenIsAbsent, Versions
  <2>3. QED
    BY <2>1, <2>2, RowChange DEF NoPurge, Terminal
<1>4. QED
  BY <1>1, <1>2, <1>3, PTL DEF Spec, NoResurrection

LEMMA NextDeletedInv == DeletedInv /\ PurgesAlone /\ [Next]_vars => DeletedInv'
<1> SUFFICES ASSUME DeletedInv, PurgesAlone, [Next]_vars PROVE CopiesAreOld'
  BY NextIdRowInv DEF DeletedInv
<1>0. IdRowInv /\ IdInv /\ TypeOK
  BY DEF DeletedInv, IdRowInv, IdInv
<1>1. ASSUME NEW d \in Purging, NEW r \in RunId, ~PurgeSave(d), call[d].snap[r].status # "absent"
      PROVE  row'[r].status # "absent"
  <2>1. Present(r)
    BY <1>1 DEF DeletedInv, CopiesAreOld
  <2>2. QED
    BY <1>0, <1>1, <2>1, RowChange DEF PurgesAlone, Terminal, Present
<1>2. ASSUME NEW c \in Callers, CallerStep(c) \/ Request(c), NEW d \in Purging', NEW r \in RunId,
             call'[d].snap[r].status # "absent"
      PROVE  row'[r].status # "absent"
  <2>0. OnlyCaller(c) /\ CallerMove(c)
    BY <1>0, <1>2, CallerOnly, RequestMove, CallerStepMove
  <2>1. CASE d # c /\ d \in Purging /\ call'[d].snap[r] = call[d].snap[r]
    <3>1. ~PurgeSave(d)
      <4>1. d \in Callers /\ call'[d].pc = "purge"
        BY <1>2 DEF Purging
      <4>2. QED
        BY <1>0, <4>1, ReturnMove DEF PurgeSave, ReturnFrom, Idle
    <3>2. QED
      BY <1>1, <1>2, <2>1, <3>1
  <2>2. CASE d = c /\ UNCHANGED row /\ call'[d].snap[r] \in {row[r], NoRow}
    BY <1>2, <2>2 DEF NoRow
  <2>3. QED
    BY <1>0, <1>2, <2>0, <2>1, <2>2, CallerCopies
<1>3. ASSUME NEW s \in RunId, WorkerStep(s) PROVE CopiesAreOld'
  <2>1. UNCHANGED call
    BY <1>0, <1>3, WorkerStepEffect DEF WorkerEffect
  <2>2. \A d \in Callers : ~PurgeSave(d) \/ d \notin Purging
    BY <1>0, <2>1, ReturnMove DEF PurgeSave, ReturnFrom, Idle, Purging
  <2>3. QED
    BY <1>1, <2>1, <2>2 DEF CopiesAreOld, Purging, Present
<1>4. ASSUME NEW p \in Procs, ProcessStep(p) PROVE CopiesAreOld'
  <2>1. UNCHANGED row /\ \A d \in Purging' : d \in Purging /\ call'[d] = call[d]
    BY <1>0, <1>4, ProcessStepMove DEF ProcessMove, StartProcess, Shutdown, Purging, Idle, files
  <2>2. QED
    BY <2>1 DEF DeletedInv, CopiesAreOld, Present
<1>5. CASE UNCHANGED vars
  BY <1>5 DEF DeletedInv, CopiesAreOld, Purging, Present, vars
<1>6. QED
  BY <1>2, <1>3, <1>4, <1>5 DEF Next, CopiesAreOld, Present

\* As long as no two jobs are purged at the same time: a row that has been
\* deleted stays deleted, though the thread of the run may still report
\* progress, results or a failure, and others may close it: none of these
\* writes the row anew (update_run_progress and finish_run raise KeyError).
THEOREM GoneStaysGone == Spec /\ []PurgesAlone => DeletedStaysDeleted
<1>1. Init => DeletedInv
  <2>1. Init => CopiesAreOld
    BY DEF Init, CopiesAreOld, Purging, Idle
  <2>2. QED
    BY <2>1, InitIdRowInv DEF DeletedInv
<1>2. DeletedInv /\ [Next]_vars =>
        [\A r \in RunId : info[r].owner # NoPid /\ row[r].status = "absent" => row'[r].status = "absent"]_vars
  <2> SUFFICES ASSUME DeletedInv, [Next]_vars, NEW r \in RunId, info[r].owner # NoPid, row[r].status = "absent"
               PROVE  row'[r].status = "absent"
    OBVIOUS
  <2>1. ~Unwritten(r) /\ ~Present(r)
    BY DEF DeletedInv, IdRowInv, UnwrittenIsAbsent, Present
  <2>2. \A c \in Purging : call[c].snap[r].status = "absent"
    BY <2>1 DEF DeletedInv, CopiesAreOld
  <2>3. QED
    BY <2>1, <2>2, RowChange DEF DeletedInv
<1>3. QED
  BY <1>1, <1>2, NextDeletedInv, PTL DEF Spec, DeletedStaysDeleted

-----------------------------------------------------------------------------
(* A success is the last thing a run's thread writes.                       *)

\* A caller that alone purges leaves only the file when it has written it.
LEMMA AloneSaves ==
  ASSUME TypeOK, PurgesAlone, NEW c \in Callers, PurgeSave(c), OnlyCaller(c), NEW r \in RunId
  PROVE  c \in Purging /\ Versions(r)' = {row'[r]}
<1>1. c \in Purging /\ call'[c] = Idle
  BY ReturnMove DEF PurgeSave, ReturnFrom, Purging
<1>2. Purging' = {}
  BY <1>1 DEF PurgesAlone, Purging, OnlyCaller, Idle
<1>3. QED
  BY <1>1, <1>2 DEF Versions

LEMMA CallerSuccess ==
  ASSUME SuccessInv, PurgesAlone, NEW c \in Callers, CallerStep(c) \/ Request(c)
  PROVE  SuccessIsLate' /\ FailureIsLate' /\ OneOutcome'
<1>0. IdInv /\ TypeOK /\ OnlyCaller(c) /\ IdEffect(c) /\ CallerMove(c)
  BY CallerOnly, CallerIdEffect, RequestMove, CallerStepMove DEF SuccessInv, StoreInv, IdInv
<1>a. ASSUME NEW r \in RunId, work[r].pc # "none" PROVE work'[r] = work[r]
  BY <1>0, <1>a, LaunchOwn DEF IdEffect
<1>b. ASSUME FailFinish(c), NEW r \in RunId, call[c].run = r
      PROVE  work[r].pc = "none" /\ work'[r].pc = "none" /\ r <= seq /\ seq' = seq
             /\ \A d \in Callers : call'[d].pc \in HasId => call'[d].run # r
  <2>1. call[c].pc = "failfin" /\ call'[c].pc = "release"
    BY <1>0, <1>b, StepMove DEF FailFinish
  <2>2. QED
    BY <1>0, <1>b, <2>1 DEF FailFinish, IdInv, OwnId, HasId, OnlyCaller
<1>c. ASSUME NEW r \in RunId, NEW x \in Versions(r)', x.status \in {"success", "failed"}
      PROVE  x \in Versions(r) \/ (FailFinish(c) /\ call[c].run = r /\ x.status = "failed")
  BY <1>0, <1>c, CallerVersions DEF CallerWrites, Is, NoRow
<1>1. SuccessIsLate'
  <2> SUFFICES ASSUME NEW r \in RunId, NEW x \in Versions(r)', x.status = "success"
               PROVE  work'[r].pc \in Succeeded /\ row'[r].status # "running"
    BY DEF SuccessIsLate, Versions
  <2>1. x \in Versions(r)
    BY <1>c
  <2>2. work[r].pc \in Succeeded /\ row[r].status # "running"
    BY <2>1 DEF SuccessInv, SuccessIsLate
  <2>3. work'[r].pc \in Succeeded
    BY <1>a, <2>2 DEF Succeeded
  <2>4. CASE PurgeSave(c)
    <3>1. Versions(r)' = {row'[r]}
      BY <1>0, <2>4, AloneSaves
    <3>2. QED
      BY <2>3, <3>1
  <2>5. CASE ~PurgeSave(c)
    <3>1. CASE Append(c) /\ call[c].run = r
      BY <1>0, <2>2, <3>1, AppendOwn DEF Succeeded
    <3>2. QED
      <4>1. row'[r] = row[r] \/ CallerWrites(c, r, row'[r])
        BY <1>0, <2>5, CallerRow
      <4>2. QED
        BY <2>2, <2>3, <3>1, <4>1 DEF CallerWrites, Is
  <2>6. QED
    BY <2>3, <2>4, <2>5
<1>2. FailureIsLate'
  <2> SUFFICES ASSUME NEW r \in RunId, NEW x \in Versions(r)', x.status = "failed"
               PROVE  \/ work'[r].pc \in Closed
                      \/ work'[r].pc = "none" /\ r <= seq' /\ \A d \in Callers : call'[d].pc \in HasId => call'[d].run # r
    BY DEF FailureIsLate, Versions
  <2>1. CASE x \in Versions(r)
    <3>1. CASE work[r].pc \in Closed
      BY <1>a, <3>1 DEF Closed
    <3>2. CASE work[r].pc \notin Closed
      <4>1. work[r].pc = "none" /\ r <= seq /\ \A d \in Callers : call[d].pc \in HasId => call[d].run # r
        BY <2>1, <3>2 DEF SuccessInv, FailureIsLate
      <4>2. work'[r].pc = "none"
        <5>1. CASE Launch(c)
          BY <1>0, <4>1, <5>1, LaunchOwn DEF Launch, ReturnFrom, HasId
        <5>2. QED
          BY <1>0, <4>1, <5>1 DEF IdEffect
      <4>3. r <= seq' /\ (call'[c].pc \in HasId => call'[c].run # r)
        <5>1. r \in Nat /\ seq \in Nat
          BY <1>0, ConstantsAssumption DEF TypeOK, RunId
        <5>2. CASE UNCHANGED seq /\ Launch(c)
          BY <1>0, <4>1, <5>2, StepMove, ReturnMove DEF Launch, ReturnFrom, Idle, HasId
        <5>3. CASE seq' = seq + 1 /\ call'[c].run = seq + 1
          BY <4>1, <5>1, <5>3
        <5>4. QED
          BY <1>0, <4>1, <5>2, <5>3 DEF IdEffect
      <4>4. QED
        BY <1>0, <4>1, <4>2, <4>3 DEF OnlyCaller
    <3>3. QED
      BY <3>1, <3>2
  <2>2. CASE FailFinish(c) /\ call[c].run = r
    BY <1>b, <2>2
  <2>3. QED
    BY <1>c, <2>1, <2>2
<1>3. OneOutcome'
  <2> SUFFICES ASSUME NEW r \in RunId, NEW x \in Versions(r)', NEW y \in Versions(r)',
                      x.status = "success", y.status = "failed"
               PROVE  FALSE
    BY DEF OneOutcome, Versions
  <2>1. x \in Versions(r)
    BY <1>c
  <2>2. CASE y \in Versions(r)
    BY <2>1, <2>2 DEF SuccessInv, OneOutcome
  <2>3. CASE FailFinish(c) /\ call[c].run = r
    BY <1>b, <2>1, <2>3 DEF SuccessInv, SuccessIsLate, Succeeded
  <2>4. QED
    BY <1>c, <2>2, <2>3
<1>4. QED
  BY <1>1, <1>2, <1>3

LEMMA WorkerSuccess ==
  ASSUME SuccessInv, NEW r \in RunId, WorkerStep(r)
  PROVE  SuccessIsLate' /\ FailureIsLate' /\ OneOutcome'
<1>0. /\ TypeOK /\ WorkerMove(r) /\ Live(r) /\ UNCHANGED <<seq, call>>
      /\ \A s \in RunId : s # r => work'[s] = work[s]
  BY WorkerStepEffect, WorkerStepMove DEF SuccessInv, StoreInv, IdInv, WorkerEffect
<1>1. work[r].out \in Terminal
  BY <1>0 DEF TypeOK, Work
<1>2. \A s \in RunId : s # r => row'[s] = row[s]
  BY <1>0 DEF WorkerMove
<1>3. row'[r] = row[r] \/ row'[r].status \in Terminal
  BY <1>0, <1>1 DEF WorkerMove, WorkerWrites, Is, Terminal
<1>4. work[r].pc \in Closed => work'[r].pc \in Closed
  BY <1>0 DEF WorkerMove, WorkerQuiet, WorkerWrites, At, Closed, Querying
<1>5. work[r].pc \in Succeeded /\ row[r].status # "running" => work'[r].pc \in Succeeded
  BY <1>0 DEF WorkerMove, WorkerQuiet, WorkerWrites, At, Succeeded, Querying
<1>6. ASSUME WorkerWrites(r, row'[r])
      PROVE  /\ work'[r].pc \in Succeeded \cap Closed
             /\ work[r].pc \in {"finish", "errfin", "recfin"}
             /\ row'[r].status = "success" => work[r].pc = "finish" \/ work[r].out = "success"
             /\ row'[r].status = "failed" => work[r].pc # "finish"
  BY <1>6 DEF WorkerWrites, At, Is, Succeeded, Closed
<1>7. SuccessIsLate'
  <2> SUFFICES ASSUME NEW s \in RunId, NEW x \in Versions(s)', x.status = "success"
               PROVE  work'[s].pc \in Succeeded /\ row'[s].status # "running"
    BY DEF SuccessIsLate, Versions
  <2>1. CASE x \in Versions(s)
    <3>1. work[s].pc \in Succeeded /\ row[s].status # "running"
      BY <2>1 DEF SuccessInv, SuccessIsLate
    <3>2. QED
      BY <1>0, <1>2, <1>3, <1>5, <3>1 DEF Terminal
  <2>2. CASE s = r /\ x = row'[r] /\ WorkerWrites(r, x)
    BY <1>6, <2>2
  <2>3. QED
    BY <1>0, <2>1, <2>2, WorkerVersions
<1>8. FailureIsLate'
  <2> SUFFICES ASSUME NEW s \in RunId, NEW x \in Versions(s)', x.status = "failed"
               PROVE  \/ work'[s].pc \in Closed
                      \/ work'[s].pc = "none" /\ s <= seq /\ \A d \in Callers : call[d].pc \in HasId => call[d].run # s
    BY <1>0 DEF FailureIsLate, Versions
  <2>1. CASE x \in Versions(s)
    BY <1>0, <1>4, <2>1 DEF SuccessInv, FailureIsLate, Live
  <2>2. CASE s = r /\ x = row'[r] /\ WorkerWrites(r, x)
    BY <1>6, <2>2
  <2>3. QED
    BY <1>0, <2>1, <2>2, WorkerVersions
<1>9. OneOutcome'
  <2> SUFFICES ASSUME NEW s \in RunId, NEW x \in Versions(s)', NEW y \in Versions(s)',
                      x.status = "success", y.status = "failed"
               PROVE  FALSE
    BY DEF OneOutcome, Versions
  <2>1. \/ x \in Versions(s)
        \/ s = r /\ x = row'[r] /\ WorkerWrites(r, x)
    BY <1>0, WorkerVersions
  <2>2. \/ y \in Versions(s)
        \/ s = r /\ y = row'[r] /\ WorkerWrites(r, y)
    BY <1>0, WorkerVersions
  <2>3. CASE x \in Versions(s) /\ y \in Versions(s)
    BY <2>3 DEF SuccessInv, OneOutcome
  <2>4. CASE x \in Versions(s) /\ s = r /\ y = row'[r] /\ WorkerWrites(r, y)
    <3>1. work[r].pc \in Succeeded
      BY <2>4 DEF SuccessInv, SuccessIsLate
    <3>2. QED
      BY <1>6, <2>4, <3>1 DEF Succeeded
  <2>5. CASE y \in Versions(s) /\ s = r /\ x = row'[r] /\ WorkerWrites(r, x)
    <3>1. work[r].pc \in Closed
      BY <1>0, <2>5 DEF SuccessInv, FailureIsLate, Live
    <3>2. work[r].pc = "recfin" /\ work[r].out = "success"
      BY <1>6, <2>5, <3>1 DEF Closed
    <3>3. QED
      BY <3>2 DEF SuccessInv, StoreInv, SavedSoFar, Closing
  <2>6. QED
    BY <2>1, <2>2, <2>3, <2>4, <2>5
<1>10. QED
  BY <1>7, <1>8, <1>9

LEMMA ProcessSuccess ==
  ASSUME SuccessInv, NEW p \in Procs, ProcessStep(p)
  PROVE  SuccessIsLate' /\ FailureIsLate' /\ OneOutcome'
<1>0. ProcessMove(p) /\ UNCHANGED <<row, seq>>
  BY ProcessStepMove DEF SuccessInv, StoreInv, IdInv, ProcessMove, files
<1>1. \A r \in RunId : \A x \in Versions(r)' : x \in Versions(r)
  BY <1>0, ProcessVersions
<1>2. \A r \in RunId : work'[r] = work[r] \/ work'[r].pc = "ended"
  BY <1>0 DEF ProcessMove, Ended, NoWork
<1>3. \A c \in Callers : call'[c] = call[c] \/ call'[c].pc = "idle"
  BY <1>0 DEF ProcessMove, StartProcess, Shutdown, Idle
<1>4. SuccessIsLate'
  BY <1>0, <1>1, <1>2 DEF SuccessInv, SuccessIsLate, Succeeded
<1>5. FailureIsLate'
  BY <1>0, <1>1, <1>2, <1>3 DEF SuccessInv, FailureIsLate, Closed, HasId
<1>6. OneOutcome'
  BY <1>1 DEF SuccessInv, OneOutcome
<1>7. QED
  BY <1>4, <1>5, <1>6

LEMMA InitSuccessInv == Init => SuccessInv
<1>1. Init => SuccessIsLate /\ FailureIsLate /\ OneOutcome
  BY DEF Init, SuccessIsLate, FailureIsLate, OneOutcome, Versions, Purging, Idle, NoRow
<1>2. QED
  BY <1>1, InitStoreInv DEF SuccessInv

LEMMA NextSuccessInv == SuccessInv /\ PurgesAlone /\ [Next]_vars => SuccessInv'
<1> SUFFICES ASSUME SuccessInv, PurgesAlone, [Next]_vars PROVE SuccessIsLate' /\ FailureIsLate' /\ OneOutcome'
  BY NextStoreInv DEF SuccessInv
<1>1. CASE UNCHANGED vars
  <2>1. \A r \in RunId : Versions(r)' = Versions(r)
    BY <1>1 DEF Versions, Purging, vars
  <2>2. QED
    BY <1>1, <2>1 DEF SuccessInv, SuccessIsLate, FailureIsLate, OneOutcome, vars
<1>2. QED
  BY <1>1, CallerSuccess, WorkerSuccess, ProcessSuccess DEF Next

\* As long as no two jobs are purged at the same time: once a run has been
\* recorded as a success it is never recorded as failed, though rescheduling its
\* job, popping its event and releasing its slot may still raise, and a caller
\* that could not start a thread records a failure of its own.
THEOREM SuccessStands == Spec /\ []PurgesAlone => SuccessNeverFails
<1>1. SuccessInv /\ [Next]_vars =>
        [\A r \in RunId : row[r].status = "success" => row'[r].status # "failed"]_vars
  <2> SUFFICES ASSUME SuccessInv, [Next]_vars, NEW r \in RunId, row[r].status = "success", row'[r].status = "failed"
               PROVE  FALSE
    OBVIOUS
  <2>0. IdInv /\ TypeOK /\ work[r].pc \in Succeeded
    BY DEF SuccessInv, StoreInv, IdInv, SuccessIsLate, Versions
  <2>1. ASSUME NEW c \in Callers, CallerStep(c) \/ Request(c) PROVE FALSE
    <3>1. CASE PurgeSave(c)
      <4>1. row'[r] \in Versions(r)
        BY <3>1 DEF PurgeSave, ReturnFrom, Versions, Purging
      <4>2. QED
        BY <4>1 DEF SuccessInv, OneOutcome, Versions
    <3>2. CASE ~PurgeSave(c)
      <4>1. FailFinish(c) /\ call[c].run = r
        BY <2>0, <2>1, <3>2, CallerRow DEF CallerWrites, Is
      <4>2. call[c].pc = "failfin"
        BY <2>0, <4>1, StepMove DEF FailFinish
      <4>3. QED
        BY <2>0, <4>1, <4>2 DEF IdInv, OwnId, HasId, Succeeded
    <3>3. QED
      BY <3>1, <3>2
  <2>2. ASSUME NEW s \in RunId, WorkerStep(s) PROVE FALSE
    <3>1. WorkerMove(s)
      BY <2>0, <2>2, WorkerStepMove
    <3>2. s = r /\ WorkerWrites(r, row'[r])
      BY <3>1 DEF WorkerMove
    <3>3. QED
      BY <2>0, <3>2 DEF WorkerWrites, At, Is, Succeeded
  <2>3. ASSUME NEW p \in Procs, ProcessStep(p) PROVE FALSE
    BY <2>0, <2>3, ProcessStepMove DEF ProcessMove, files
  <2>4. CASE UNCHANGED vars
    BY <2>4 DEF vars
  <2>5. QED
    BY <2>1, <2>2, <2>3, <2>4 DEF Next
<1>2. QED
  BY <1>1, InitSuccessInv, NextSuccessInv, PTL DEF Spec, SuccessNeverFails

-----------------------------------------------------------------------------
(* One running run per job, while starts of a job do not overlap.           *)

StartsJob(c) == call[c].op = "start" /\ call[c].job \in Jobs
StartsAlone == \A c, d \in Callers : StartsJob(c) /\ StartsJob(d) /\ call[c].job = call[d].job => c = d

JobRuns(j) == {r \in Running : info[r].job = j}

\* A caller that starts a job has read all its running rows, and goes on when
\* none of them is left.
Scanning == {"scan", "orphan", "reread"}
Settled == {"acquire", "alloc", "append"}
StarterKnows(c) ==
  /\ call[c].pc \in Scanning /\ StartsJob(c) => JobRuns(call[c].job) \subseteq call[c].seen
  /\ call[c].pc \in Settled => call[c].op = "start" /\ (StartsJob(c) => JobRuns(call[c].job) = {})

LoneInv == IdRowInv /\ NoPurge /\ OneRunPerJob /\ \A c \in Callers : StarterKnows(c)

\* What a step does to the caller's knowledge of its job.
StartMove(c) ==
  \/ call'[c].op # "start" /\ call'[c].pc \notin Settled
  \/ call'[c].pc \notin Scanning \cup Settled
  \/ /\ call'[c].op = "start" /\ call[c].op = "start" /\ call'[c].job = call[c].job
     /\ \/ call[c].pc \in Scanning /\ call'[c].pc \in Scanning /\ call'[c].seen = call[c].seen
        \/ /\ call[c].pc \in Scanning /\ call'[c].pc = "scan"
           /\ call'[c].seen = call[c].seen \ {call[c].run} /\ call[c].run \notin Running
        \/ call[c].pc = "scan" /\ call'[c].pc \in Settled /\ call[c].seen = {}
        \/ call[c].pc \in Settled /\ call'[c].pc \in Settled
  \/ /\ call'[c].pc = "scan" /\ call'[c].op = "start"
     /\ call'[c].seen = JobRuns(call'[c].job) /\ UNCHANGED <<row, info>>
  \/ call'[c].pc = "alloc" /\ call'[c].op = "start" /\ call'[c].job = Manual

LEMMA StepStart ==
  ASSUME TypeOK, NEW c \in Callers, NEW at, NEW to, Step(c, at, to)
  PROVE  /\ call[c].pc = at /\ call'[c].pc = to /\ call'[c].op = call[c].op
         /\ call'[c].job = call[c].job /\ call'[c].seen = call[c].seen
<1>1. call[c] \in Call
  BY DEF TypeOK
<1> QED  BY <1>1 DEF Step, TypeOK, Call

LEMMA ReturnStart ==
  ASSUME TypeOK, NEW c \in Callers, Return(c)
  PROVE  call'[c].pc = "idle" /\ call'[c].op = "none"
BY ReturnMove DEF Idle

LEMMA RequestStart ==
  ASSUME TypeOK, NEW c \in Callers, Request(c)
  PROVE  StartMove(c)
<1>1. CASE Read(c)
  <2>1. PICK S \in SUBSET Running : Begin(c, [Idle EXCEPT !.pc = "scan", !.op = "read", !.seen = S])
    BY <1>1 DEF Read, ReadRows
  <2>2. call'[c] = [Idle EXCEPT !.pc = "scan", !.op = "read", !.seen = S]
    BY <2>1, BeginMove
  <2>3. call'[c].pc = "scan" /\ call'[c].op = "read"
    BY <2>2 DEF Idle
  <2> QED  BY <2>3 DEF StartMove, Settled
<1>2. CASE \E j \in Jobs : StartJob(c, j)
  <2>0. PICK j \in Jobs : StartJob(c, j)
    BY <1>2
  <2> DEFINE S == JobRuns(j)
  <2>1. Begin(c, [Idle EXCEPT !.pc = "scan", !.op = "start", !.job = j, !.seen = S]) /\ UNCHANGED <<row, info>>
    BY <2>0 DEF StartJob, JobRuns, files
  <2>2. call'[c] = [Idle EXCEPT !.pc = "scan", !.op = "start", !.job = j, !.seen = S]
    BY <2>1, BeginMove
  <2> HIDE DEF S
  <2>3. call'[c].pc = "scan" /\ call'[c].op = "start" /\ call'[c].job = j /\ call'[c].seen = S
    BY <2>2 DEF Idle
  <2> QED  BY <2>1, <2>3 DEF StartMove, S
<1>3. CASE \E r \in RunId : CancelRun(c, r)
  <2>1. PICK r \in RunId : Begin(c, [Idle EXCEPT !.pc = "scan", !.op = "cancel", !.run = r, !.seen = {r}])
    BY <1>3 DEF CancelRun
  <2>2. call'[c] = [Idle EXCEPT !.pc = "scan", !.op = "cancel", !.run = r, !.seen = {r}]
    BY <2>1, BeginMove
  <2>3. call'[c].pc = "scan" /\ call'[c].op = "cancel"
    BY <2>2 DEF Idle
  <2> QED  BY <2>3 DEF StartMove, Settled
<1>4. CASE StartManual(c)
  <2>1. call'[c] = [Idle EXCEPT !.pc = "alloc", !.op = "start"]
    BY <1>4, BeginMove DEF StartManual
  <2>2. call'[c].pc = "alloc" /\ call'[c].op = "start" /\ call'[c].job = Manual
    BY <2>1 DEF Idle
  <2> QED  BY <2>2 DEF StartMove
<1>5. CASE \E j \in PurgeJobs : PurgeLoad(c, j)
  <2>1. PICK j, sn : Begin(c, [Idle EXCEPT !.pc = "purge", !.op = "purge", !.job = j, !.snap = sn])
    BY <1>5 DEF PurgeLoad
  <2>2. call'[c] = [Idle EXCEPT !.pc = "purge", !.op = "purge", !.job = j, !.snap = sn]
    BY <2>1, BeginMove
  <2>3. call'[c].pc = "purge"
    BY <2>2 DEF Idle
  <2> QED  BY <2>3 DEF StartMove, Scanning, Settled
<1> QED  BY <1>1, <1>2, <1>3, <1>4, <1>5 DEF Request

LEMMA CallerStart ==
  ASSUME TypeOK, NEW c \in Callers, CallerStep(c), call[c].pc \in Settled => call[c].op = "start"
  PROVE  StartMove(c)
<1> USE DEF StartMove, Scanning, Settled
<1>1. CASE \/ Register(c) \/ LaunchRaises(c) \/ FailGet(c) \/ FailFinish(c) \/ CancelNoEvent(c) \/ Append(c)
  BY <1>1, StepStart DEF Append, Register, LaunchRaises, FailGet, FailFinish, CancelNoEvent
<1>2. CASE \/ CloseOrphanRaises(c) \/ RereadRaises(c) \/ TickRaises(c) \/ StartRefused(c)
           \/ CreateRaises(c) \/ Launch(c) \/ FailFinishRaises(c) \/ Release(c) \/ CancelSignal(c)
           \/ CancelForce(c) \/ CancelForceRaises(c) \/ PurgeSave(c)
  <2>1. Return(c)
    BY <1>2 DEF CloseOrphanRaises, RereadRaises, TickRaises, StartRefused, CreateRaises, Launch,
       FailFinishRaises, Release, CancelSignal, CancelForce, CancelForceRaises, PurgeSave, ReturnFrom
  <2> QED  BY <2>1, ReturnStart
<1>3. CASE CloseOrphan(c)
  <2>1. Step(c, "orphan", "reread")
    BY <1>3 DEF CloseOrphan
  <2> QED  BY <2>1, StepStart
<1>4. CASE Acquire(c)
  <2>1. Step(c, "acquire", "alloc")
    BY <1>4 DEF Acquire
  <2> QED  BY <2>1, StepStart
<1>5. CASE ScanDone(c)
  <2>1. CASE Step(c, "scan", "acquire") /\ call[c].op = "start" /\ call[c].seen = {}
    BY <2>1, StepStart
  <2>2. CASE Return(c)
    BY <2>2, ReturnStart
  <2> QED  BY <1>5, <2>1, <2>2 DEF ScanDone, ReturnFrom
<1>6. CASE ScanAlive(c)
  <2>1. PICK r \in RunId : \/ Return(c) \/ (Step(c, "scan", "cancel"))
                           \/ call[c].op = "read" /\ call' = [call EXCEPT ![c].seen = @ \ {r}]
    BY <1>6 DEF ScanAlive
  <2>2. CASE call[c].op = "read" /\ call' = [call EXCEPT ![c].seen = @ \ {r}]
    <3>1. call'[c].pc = "scan" /\ call'[c].op = "read"
      BY <1>6, <2>2 DEF TypeOK, Call, ScanAlive
    <3> QED  BY <3>1
  <2> QED  BY <2>1, <2>2, StepStart, ReturnStart
<1>7. CASE ScanOrphan(c)
  <2>1. /\ call[c].pc = "scan" /\ call'[c].pc = "orphan" /\ call'[c].op = call[c].op
        /\ call'[c].job = call[c].job /\ call'[c].seen = call[c].seen
    BY <1>7 DEF ScanOrphan, TypeOK, Call
  <2> QED  BY <2>1
<1>8. CASE Reread(c)
  <2> DEFINE r == call[c].run
  <2>1. \/ Return(c) \/ (Step(c, "reread", "cancel"))
        \/ /\ call[c].op = "read" \/ row[r].status # "running"
           /\ call' = [call EXCEPT ![c].pc = "scan", ![c].seen = @ \ {r}, ![c].run = NoRun]
    BY <1>8 DEF Reread
  <2>2. CASE /\ call[c].op = "read" \/ row[r].status # "running"
             /\ call' = [call EXCEPT ![c].pc = "scan", ![c].seen = @ \ {r}, ![c].run = NoRun]
    <3>1. /\ call[c].pc = "reread" /\ call'[c].pc = "scan" /\ call'[c].op = call[c].op
          /\ call'[c].job = call[c].job /\ call'[c].seen = call[c].seen \ {r}
      BY <1>8, <2>2 DEF TypeOK, Call, Reread
    <3> QED  BY <2>2, <3>1 DEF Running
  <2> QED  BY <2>1, <2>2, StepStart, ReturnStart
<1>9. CASE Alloc(c)
  <2>1. /\ call[c].pc = "alloc" /\ call'[c].pc = "append" /\ call'[c].op = call[c].op
        /\ call'[c].job = call[c].job
    BY <1>9 DEF Alloc, TypeOK, Call
  <2> QED  BY <2>1
<1> QED  BY <1>1, <1>2, <1>3, <1>4, <1>5, <1>6, <1>7, <1>8, <1>9 DEF CallerStep

\* Only Append makes a row running, of the job its caller starts.
LEMMA CallerRuns ==
  ASSUME IdRowInv, NoPurge, NEW c \in Callers, CallerStep(c) \/ Request(c), NEW r \in RunId, row'[r].status = "running"
  PROVE  \/ row[r].status = "running" /\ info'[r] = info[r]
         \/ Append(c) /\ call[c].run = r /\ info'[r].job = call[c].job
<1>1. TypeOK /\ IdInv /\ (UNCHANGED info \/ Append(c)) /\ ~PurgeSave(c)
  BY CallerKeeps DEF IdRowInv, IdInv, NoPurge, Purging, PurgeSave, ReturnFrom
<1>2. row'[r] = row[r] \/ (Append(c) /\ call[c].run = r)
  BY <1>1, CallerRow DEF CallerWrites, Is
<1>3. CASE Append(c) /\ call[c].run = r
  BY <1>1, <1>3 DEF Append, TypeOK
<1>4. CASE ~(Append(c) /\ call[c].run = r)
  BY <1>1, <1>2, <1>4, AppendOwn
<1> QED  BY <1>3, <1>4

\* Without a new row nobody knows less than before.
LEMMA KnowledgeStays ==
  ASSUME \A c \in Callers : StarterKnows(c), OneRunPerJob,
         \A r \in RunId : row'[r].status = "running" => row[r].status = "running" /\ info'[r] = info[r]
  PROVE  OneRunPerJob' /\ \A c \in Callers : call'[c] = call[c] => StarterKnows(c)'
<1>1. \A r \in Running' : r \in Running /\ info'[r] = info[r]
  BY DEF Running
<1>2. \A j : JobRuns(j)' \subseteq JobRuns(j)
  BY <1>1 DEF JobRuns
<1> QED  BY <1>1, <1>2 DEF OneRunPerJob, StarterKnows, StartsJob

LEMMA CallerLone ==
  ASSUME LoneInv, StartsAlone, NEW c \in Callers, CallerStep(c) \/ Request(c)
  PROVE  OneRunPerJob' /\ \A d \in Callers : StarterKnows(d)'
<1>1. TypeOK /\ IdInv /\ OnlyCaller(c) /\ StarterKnows(c) /\ StartMove(c)
  BY CallerOnly, RequestStart, CallerStart DEF LoneInv, IdRowInv, IdInv, StarterKnows
<1>2. CASE Append(c)
  <2> DEFINE j == call[c].job
             n == call[c].run
  <2>1. call[c].pc = "append" /\ call'[c].pc = "register" /\ n \in RunId
    BY <1>1, <1>2, AppendOwn
  <2>2. \A r \in Running' : (r \in Running /\ info'[r] = info[r]) \/ (r = n /\ info'[r].job = j)
    BY CallerRuns DEF LoneInv, Running
  <2>3. call[c].op = "start" /\ (j \in Jobs => JobRuns(j) = {})
    BY <1>1, <2>1 DEF StarterKnows, StartsJob, Settled
  <2>4. OneRunPerJob'
    BY <2>2, <2>3 DEF LoneInv, OneRunPerJob, JobRuns
  <2>5. ASSUME NEW d \in Callers PROVE StarterKnows(d)'
    <3>1. CASE d = c
      BY <2>1, <3>1 DEF StarterKnows, Scanning, Settled
    <3>2. CASE d # c
      <4>1. call'[d] = call[d] /\ StarterKnows(d)
        BY <1>1, <3>2 DEF OnlyCaller, LoneInv
      <4>2. StartsJob(d) => call[d].job # j
        BY <2>3, <3>2 DEF StartsAlone, StartsJob
      <4>3. StartsJob(d) => JobRuns(call[d].job)' \subseteq JobRuns(call[d].job)
        BY <2>2, <4>1, <4>2 DEF JobRuns
      <4> QED  BY <4>1, <4>3 DEF StarterKnows, StartsJob
    <3> QED  BY <3>1, <3>2
  <2> QED  BY <2>4, <2>5
<1>3. CASE ~Append(c)
  <2>1. \A r \in RunId : row'[r].status = "running" => row[r].status = "running" /\ info'[r] = info[r]
    BY <1>3, CallerRuns DEF LoneInv
  <2>2. OneRunPerJob' /\ \A d \in Callers : call'[d] = call[d] => StarterKnows(d)'
    BY <2>1, KnowledgeStays DEF LoneInv
  <2>3. \A j : JobRuns(j)' \subseteq JobRuns(j)
    BY <2>1 DEF JobRuns, Running
  <2>4. UNCHANGED <<row, info>> => \A j : JobRuns(j)' = JobRuns(j)
    BY DEF JobRuns, Running
  <2>5. StarterKnows(c)'
    <3>1. CASE call'[c].op # "start" /\ call'[c].pc \notin Settled
      BY <3>1 DEF StarterKnows, StartsJob
    <3>2. CASE call'[c].pc \notin Scanning \cup Settled
      BY <3>2 DEF StarterKnows
    <3>3. CASE call[c].op = "start" /\ call'[c].op = "start" /\ call'[c].job = call[c].job
      <4> DEFINE j == call[c].job
                 S == JobRuns(j)
                 S1 == {r \in Running' : info'[r].job = j}
      <4>1. S1 \subseteq S /\ S \subseteq Running
        BY <2>1 DEF JobRuns, Running
      <4>2. UNCHANGED <<row, info>> => S1 = S
        BY DEF JobRuns, Running
      <4>3. JobRuns(call[c].job)' = S1
        BY <3>3 DEF JobRuns
      <4>4. CASE j \notin Jobs
        BY <3>3, <4>4 DEF StarterKnows, StartsJob
      <4>5. CASE j \in Jobs
        <5>1. /\ call[c].pc \in Scanning => S \subseteq call[c].seen
              /\ call[c].pc \in Settled => S = {}
          BY <1>1, <3>3, <4>5 DEF StarterKnows, StartsJob
        <5>2. CASE call[c].pc \in Scanning /\ call'[c].pc \in Scanning /\ call'[c].seen = call[c].seen
          <6> HIDE DEF S, S1, j
          <6>1. S1 \subseteq call'[c].seen /\ call'[c].pc \notin Settled
            BY <4>1, <5>1, <5>2 DEF Scanning, Settled
          <6> QED  BY <4>3, <6>1 DEF StarterKnows
        <5>3. CASE /\ call[c].pc \in Scanning /\ call'[c].pc = "scan"
                   /\ call'[c].seen = call[c].seen \ {call[c].run} /\ call[c].run \notin Running
          <6> HIDE DEF S, S1, j
          <6>1. S1 \subseteq call'[c].seen /\ call'[c].pc \notin Settled
            BY <4>1, <5>1, <5>3 DEF Scanning, Settled
          <6> QED  BY <4>3, <6>1 DEF StarterKnows
        <5>4. CASE \/ call[c].pc = "scan" /\ call'[c].pc \in Settled /\ call[c].seen = {}
                   \/ call[c].pc \in Settled /\ call'[c].pc \in Settled
          <6> HIDE DEF S, S1, j
          <6>1. S1 = {} /\ call'[c].pc \notin Scanning
            BY <4>1, <5>1, <5>4 DEF Scanning, Settled
          <6> QED  BY <3>3, <4>3, <6>1 DEF StarterKnows
        <5>5. CASE /\ call'[c].pc = "scan" /\ call'[c].op = "start"
                   /\ call'[c].seen = JobRuns(call'[c].job) /\ UNCHANGED <<row, info>>
          <6>1. call'[c].seen = S1 /\ call'[c].pc \notin Settled
            BY <3>3, <4>2, <5>5 DEF Settled
          <6> HIDE DEF S, S1, j
          <6> QED  BY <4>3, <6>1 DEF StarterKnows
        <5>6. CASE call'[c].job = Manual
          BY <5>6, ConstantsAssumption, <3>3, <4>5
        <5> QED  BY <1>1, <3>2, <3>3, <5>2, <5>3, <5>4, <5>5, <5>6 DEF StartMove
      <4> QED  BY <4>4, <4>5
    <3>4. CASE call'[c].pc = "scan" /\ call'[c].op = "start" /\ call'[c].seen = JobRuns(call'[c].job) /\ UNCHANGED <<row, info>>
      <4>1. JobRuns(call[c].job)' = JobRuns(call'[c].job)
        BY <3>4 DEF JobRuns, Running
      <4> QED  BY <3>4, <4>1 DEF StarterKnows, StartsJob, Settled
    <3>5. CASE call'[c].pc = "alloc" /\ call'[c].op = "start" /\ call'[c].job = Manual
      BY <3>5, ConstantsAssumption DEF StarterKnows, StartsJob, Scanning
    <3> QED  BY <1>1, <3>1, <3>2, <3>3, <3>4, <3>5 DEF StartMove
  <2> QED  BY <1>1, <2>2, <2>5 DEF OnlyCaller
<1> QED  BY <1>2, <1>3

LEMMA NextLoneInv ==
  ASSUME PurgeJobs = {}
  PROVE  LoneInv /\ StartsAlone /\ [Next]_vars => LoneInv'
<1> SUFFICES ASSUME LoneInv, StartsAlone, [Next]_vars PROVE LoneInv'
  OBVIOUS
<1>1. IdRowInv' /\ NoPurge' /\ TypeOK
  BY NextIdRowInv, NextNoPurge DEF LoneInv, IdRowInv, IdInv
<1>2. ASSUME NEW c \in Callers, CallerStep(c) \/ Request(c)
      PROVE  OneRunPerJob' /\ \A d \in Callers : StarterKnows(d)'
  BY <1>2, CallerLone
<1>3. ASSUME NEW s \in RunId, WorkerStep(s)
      PROVE  OneRunPerJob' /\ \A d \in Callers : StarterKnows(d)'
  <2>1. UNCHANGED <<call, info>> /\ WorkerMove(s) /\ work[s].out \in Terminal
    BY <1>1, <1>3, WorkerStepEffect, WorkerStepMove DEF WorkerEffect, TypeOK, Work
  <2>2. \A r \in RunId : row'[r].status = "running" => row[r].status = "running" /\ info'[r] = info[r]
    BY <2>1 DEF WorkerMove, WorkerWrites, Is, Terminal
  <2> QED  BY <2>1, <2>2, KnowledgeStays DEF LoneInv
<1>4. ASSUME NEW p \in Procs, ProcessStep(p)
      PROVE  OneRunPerJob' /\ \A d \in Callers : StarterKnows(d)'
  <2>1. UNCHANGED <<row, info>> /\ \A d \in Callers : call'[d] \in {Idle, call[d]}
    BY <1>1, <1>4, ProcessStepMove DEF ProcessMove, files
  <2>2. OneRunPerJob' /\ \A d \in Callers : call'[d] = call[d] => StarterKnows(d)'
    BY <2>1, KnowledgeStays DEF LoneInv
  <2>3. \A d \in Callers : call'[d] = Idle => StarterKnows(d)'
    BY DEF StarterKnows, Scanning, Settled, Idle
  <2> QED  BY <2>1, <2>2, <2>3
<1>5. CASE UNCHANGED vars
  <2>1. UNCHANGED <<row, info, call>>
    BY <1>5 DEF vars
  <2> QED  BY <1>1, <2>1, KnowledgeStays DEF LoneInv
<1> QED  BY <1>1, <1>2, <1>3, <1>4, <1>5 DEF Next, LoneInv

\* A job has one running run at most (OneRunPerJob) as long as no two callers
\* start it at the same time and nobody purges: that run_job_now reads the
\* running rows in one section and appends its own in another is the only way
\* to two, whatever is cancelled, closed as an orphan, restarted or fails.
THEOREM LoneStartsOneRun ==
  ASSUME PurgeJobs = {}
  PROVE  Spec /\ []StartsAlone => []OneRunPerJob
<1>1. Init => LoneInv
  <2>1. Init => OneRunPerJob /\ \A c \in Callers : StarterKnows(c)
    BY DEF Init, OneRunPerJob, Running, NoRow, StarterKnows, Scanning, Settled, Idle
  <2> QED  BY <2>1, InitIdRowInv, InitNoPurge DEF LoneInv
<1>2. LoneInv => OneRunPerJob
  BY DEF LoneInv
<1> QED  BY <1>1, <1>2, NextLoneInv, PTL DEF Spec
====
