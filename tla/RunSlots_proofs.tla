--------------------------- MODULE RunSlots_proofs ---------------------------
(***************************************************************************)
(* Theorems about RunLifecycle, for any processes, callers, jobs, number   *)
(* of slots, queries, runs and pids: the types of its variables, the       *)
(* accounting of the semaphore of background slots (SlotConservation) and  *)
(* the soundness of the table of cancel events (EventHasExecutor).         *)
(***************************************************************************)
EXTENDS RunLifecycle, FiniteSetTheorems, TLAPS

-----------------------------------------------------------------------------
(* Type correctness.                                                        *)

LEMMA IdleType == Idle \in Call
BY DEF Idle, Call, CallPc, Row, NoRow, Status, Note, RunId

LEMMA NoWorkType == NoWork \in Work /\ Ended \in Work
BY ConstantsAssumption DEF NoWork, Ended, Work, WorkPc, Terminal

LEMMA InitTypeOK == Init => TypeOK
BY IdleType, NoWorkType, ConstantsAssumption DEF Init, TypeOK, NoRow, Row, Status, Note, Info

\* What one field of a caller's record may become.
LEMMA CallPcType ==
  ASSUME NEW x \in Call, NEW to \in CallPc
  PROVE  [x EXCEPT !.pc = to] \in Call
BY DEF Call

LEMMA CallRunType ==
  ASSUME NEW x \in Call, NEW r \in RunId \cup {NoRun}
  PROVE  [x EXCEPT !.run = r] \in Call
BY DEF Call

LEMMA CallSeenType ==
  ASSUME NEW x \in Call, NEW S \in SUBSET RunId
  PROVE  [x EXCEPT !.seen = S] \in Call
BY DEF Call

LEMMA CallJobType ==
  ASSUME NEW x \in Call, NEW j \in Jobs \cup {Manual}
  PROVE  [x EXCEPT !.job = j] \in Call
BY DEF Call

LEMMA CallOpType ==
  ASSUME NEW x \in Call, NEW o \in {"none", "start", "read", "cancel", "purge"}
  PROVE  [x EXCEPT !.op = o] \in Call
BY DEF Call

LEMMA CallSnapType ==
  ASSUME NEW x \in Call, NEW s \in [RunId -> Row]
  PROVE  [x EXCEPT !.snap = s] \in Call
BY DEF Call

LEMMA CallUpdate ==
  ASSUME TypeOK, NEW c \in Callers, NEW rec \in Call, call' = [call EXCEPT ![c] = rec]
  PROVE  call' \in [Callers -> Call]
BY DEF TypeOK

LEMMA StepType ==
  ASSUME TypeOK, NEW c \in Callers, NEW at, NEW to \in CallPc, Step(c, at, to)
  PROVE  call' \in [Callers -> Call]
BY CallPcType DEF TypeOK, Step

LEMMA ReturnType ==
  ASSUME TypeOK, NEW c \in Callers, Return(c)
  PROVE  call' \in [Callers -> Call]
BY IdleType DEF TypeOK, Return

LEMMA WorkPcType ==
  ASSUME NEW x \in Work, NEW to \in WorkPc
  PROVE  [x EXCEPT !.pc = to] \in Work
BY DEF Work

LEMMA WorkDoneType ==
  ASSUME NEW x \in Work, NEW n \in Nat
  PROVE  [x EXCEPT !.done = n] \in Work
BY DEF Work

LEMMA GotoType ==
  ASSUME TypeOK, NEW r \in RunId, NEW at, NEW to \in WorkPc, Goto(r, at, to)
  PROVE  work' \in [RunId -> Work]
BY DEF TypeOK, Goto, Work

LEMMA RaiseType ==
  ASSUME TypeOK, NEW r \in RunId, NEW at, NEW to \in WorkPc, NEW o \in Terminal, Raise(r, at, to, o)
  PROVE  work' \in [RunId -> Work]
BY DEF TypeOK, Raise, Work

LEMMA FinishType ==
  ASSUME TypeOK, NEW r \in RunId, NEW s \in Status, NEW n \in Note, FinishRun(r, s, n)
  PROVE  row' \in [RunId -> Row]
BY DEF TypeOK, FinishRun, Row

LEMMA GiveBackType ==
  ASSUME TypeOK, NEW p, GiveBack(p)
  PROVE  slots' \in [Procs -> 0..Slots]
<1>1. CASE p \in Procs
  <2>1. slots[p] \in 0..Slots /\ Slots \in Nat
    BY <1>1, ConstantsAssumption DEF TypeOK
  <2>2. \E n \in 0..Slots : slots' = [slots EXCEPT ![p] = n]
    <3>1. CASE slots[p] < Slots
      <4>1. slots' = [slots EXCEPT ![p] = slots[p] + 1] /\ slots[p] + 1 \in 0..Slots
        BY <2>1, <3>1 DEF GiveBack
      <4>2. QED BY <4>1
    <3>2. CASE ~(slots[p] < Slots)
      BY <2>1, <3>2 DEF GiveBack
    <3>3. QED
      BY <3>1, <3>2
  <2>3. QED
    BY <2>2 DEF TypeOK
<1>2. CASE p \notin Procs
  BY <1>2 DEF GiveBack, TypeOK
<1>3. QED
  BY <1>1, <1>2

\* Fields of a caller's record.
LEMMA CallFields ==
  ASSUME TypeOK, NEW c \in Callers
  PROVE  /\ call[c] \in Call
         /\ call[c].pc \in CallPc
         /\ call[c].job \in Jobs \cup {Manual}
         /\ call[c].run \in RunId \cup {NoRun}
         /\ call[c].seen \in SUBSET RunId
         /\ call[c].snap \in [RunId -> Row]
BY DEF TypeOK, Call

\* TypeOK says the same of its parts as of the variables it lists.
LEMMA CallerTypeOK ==
  ASSUME TypeOK, NEW c \in Callers, CallerStep(c)
  PROVE  TypeOK'
<1> USE DEF files, process
<1>1. call' \in [Callers -> Call]
  <2> USE DEF CallPc
  <2>1. CASE ScanAlive(c)
    <3>1. PICK r \in RunId : \/ Return(c) \/ Step(c, "scan", "cancel")
                             \/ call' = [call EXCEPT ![c].seen = @ \ {r}]
      BY <2>1 DEF ScanAlive
    <3>2. [call[c] EXCEPT !.seen = call[c].seen \ {r}] \in Call
      BY CallFields, CallSeenType
    <3>3. CASE call' = [call EXCEPT ![c].seen = @ \ {r}]
      BY <3>2, <3>3, CallUpdate
    <3>4. QED
      BY <3>1, <3>3, StepType, ReturnType
  <2>2. CASE ScanOrphan(c)
    <3>1. PICK r \in RunId : call' = [call EXCEPT ![c].pc = "orphan", ![c].run = r]
      BY <2>2 DEF ScanOrphan
    <3>2. [[call[c] EXCEPT !.pc = "orphan"] EXCEPT !.run = r] \in Call
      BY CallFields, CallPcType, CallRunType
    <3>3. call' = [call EXCEPT ![c] = [[call[c] EXCEPT !.pc = "orphan"] EXCEPT !.run = r]]
      BY <3>1 DEF TypeOK
    <3>4. QED
      BY <3>2, <3>3, CallUpdate
  <2>3. CASE \/ CloseOrphan(c) \/ Acquire(c) \/ Append(c) \/ Register(c) \/ LaunchRaises(c)
             \/ FailGet(c) \/ FailFinish(c) \/ CancelNoEvent(c)
    BY <2>3, StepType DEF CloseOrphan, Acquire, Append, Register, LaunchRaises, FailGet,
       FailFinish, CancelNoEvent
  <2>4. CASE \/ CloseOrphanRaises(c) \/ RereadRaises(c) \/ StartRefused(c) \/ CancelForceRaises(c)
             \/ CreateRaises(c) \/ FailFinishRaises(c) \/ Launch(c) \/ Release(c)
             \/ CancelSignal(c) \/ CancelForce(c) \/ PurgeSave(c) \/ TickRaises(c)
    BY <2>4, ReturnType DEF TickRaises, CloseOrphanRaises, RereadRaises, StartRefused, CancelForceRaises,
       CreateRaises, FailFinishRaises, Launch, Release, CancelSignal, CancelForce, PurgeSave,
       ReturnFrom
  <2>5. CASE Reread(c)
    <3> DEFINE r == call[c].run
               B == [[[call[c] EXCEPT !.pc = "scan"] EXCEPT !.seen = call[c].seen \ {r}] EXCEPT !.run = NoRun]
    <3>1. B \in Call
      <4>1. [call[c] EXCEPT !.pc = "scan"] \in Call
        BY CallFields, CallPcType
      <4>2. [[call[c] EXCEPT !.pc = "scan"] EXCEPT !.seen = call[c].seen \ {r}] \in Call
        BY <4>1, CallFields, CallSeenType
      <4>3. QED
        BY <4>2, CallRunType
    <3>2. CASE call' = [call EXCEPT ![c].pc = "scan", ![c].seen = @ \ {r}, ![c].run = NoRun]
      <4>1. call' = [call EXCEPT ![c] = B]
        BY <3>2, CallFields DEF Call, TypeOK
      <4>2. QED
        BY <3>1, <4>1, CallUpdate
    <3>3. QED
      BY <2>5, <3>2, StepType, ReturnType DEF Reread
  <2>6. CASE ScanDone(c)
    BY <2>6, StepType, ReturnType DEF ScanDone, ReturnFrom
  <2>7. CASE Alloc(c)
    <3>1. seq + 1 \in RunId
      BY <2>7, ConstantsAssumption DEF Alloc, TypeOK, RunId
    <3>2. [[call[c] EXCEPT !.pc = "append"] EXCEPT !.run = seq + 1] \in Call
      BY <3>1, CallFields, CallPcType, CallRunType
    <3>3. call' = [call EXCEPT ![c] = [[call[c] EXCEPT !.pc = "append"] EXCEPT !.run = seq + 1]]
      BY <2>7 DEF Alloc, TypeOK
    <3>4. QED
      BY <3>2, <3>3, CallUpdate
  <2>8. QED
    BY <2>1, <2>2, <2>3, <2>4, <2>5, <2>6, <2>7 DEF CallerStep
<1>2. /\ seq' \in 0..MaxRuns
      /\ saved' \in [RunId -> {"none", "raw", "curated"}]
      /\ mode' \in [Procs -> {"down", "up", "stopping"}]
      /\ pid' \in [Procs -> Pids \cup {NoPid}]
      /\ used' \subseteq Pids
  <2>1. CASE TickRaises(c)
    BY <2>1, ConstantsAssumption DEF TickRaises, EndLoop, TypeOK
  <2>2. CASE ~TickRaises(c)
    BY <2>2, ConstantsAssumption DEF CallerStep, TypeOK, ScanAlive, ScanOrphan, CloseOrphan,
       CloseOrphanRaises, Reread, RereadRaises, ScanDone, Acquire, StartRefused, Alloc, Append,
       CreateRaises, Register, Launch, LaunchRaises, FailGet, FailFinish, FailFinishRaises, Release,
       CancelSignal, CancelNoEvent, CancelForce, CancelForceRaises, PurgeSave
  <2>3. QED
    BY <2>1, <2>2
<1>3. row' \in [RunId -> Row]
  <2>1. CASE CloseOrphan(c) \/ FailFinish(c) \/ CancelForce(c)
    <3>1. PICK s \in Status, n \in Note : FinishRun(call[c].run, s, n)
      BY <2>1 DEF CloseOrphan, FailFinish, CancelForce, Status, Note, Terminal
    <3>2. row' = [row EXCEPT ![call[c].run].status = s, ![call[c].run].note = n]
      BY <3>1 DEF FinishRun
    <3>3. CASE call[c].run \in RunId
      BY <3>1, <3>3, FinishType
    <3>4. CASE call[c].run \notin RunId
      BY <3>2, <3>4 DEF TypeOK
    <3>5. QED
      BY <3>3, <3>4
  <2>2. CASE Append(c)
    BY <2>2 DEF Append, TypeOK, Row, Status, Note
  <2>3. CASE PurgeSave(c)
    BY <2>3, CallFields DEF PurgeSave, TypeOK
  <2>4. CASE UNCHANGED row
    BY <2>4 DEF TypeOK
  <2>5. QED
    BY <2>1, <2>2, <2>3, <2>4 DEF CallerStep, TickRaises, ScanAlive, ScanOrphan, CloseOrphanRaises, Reread,
       RereadRaises, ScanDone, Acquire, StartRefused, Alloc, CreateRaises, Register, Launch,
       LaunchRaises, FailGet, FailFinishRaises, Release, CancelSignal, CancelNoEvent,
       CancelForceRaises
<1>4. info' \in [RunId -> Info]
  <2>1. CASE Append(c)
    BY <2>1, CallFields, ConstantsAssumption DEF Append, TypeOK, Info
  <2>2. CASE UNCHANGED info
    BY <2>2 DEF TypeOK
  <2>3. QED
    BY <2>1, <2>2 DEF CallerStep, TickRaises, ScanAlive, ScanOrphan, CloseOrphan, CloseOrphanRaises, Reread,
       RereadRaises, ScanDone, Acquire, StartRefused, Alloc, CreateRaises, Register, Launch,
       LaunchRaises, FailGet, FailFinish, FailFinishRaises, Release, CancelSignal, CancelNoEvent,
       CancelForce, CancelForceRaises, PurgeSave
<1>5. slots' \in [Procs -> 0..Slots] /\ leaked' \in [Procs -> Nat]
  <2>1. CASE Acquire(c)
    BY <2>1, ConstantsAssumption DEF Acquire, Take, TypeOK
  <2>2. CASE Release(c)
    BY <2>2, GiveBackType DEF Release, TypeOK
  <2>3. CASE CreateRaises(c) \/ FailFinishRaises(c)
    <3>1. leaked' = [leaked EXCEPT ![Home[c]] = leaked[Home[c]] + 1] /\ slots' = slots
      BY <2>3 DEF CreateRaises, FailFinishRaises
    <3>2. leaked[Home[c]] + 1 \in Nat
      BY ConstantsAssumption DEF TypeOK
    <3>3. QED
      BY <3>1, <3>2 DEF TypeOK
  <2>4. CASE UNCHANGED <<slots, leaked>>
    BY <2>4 DEF TypeOK
  <2>5. QED
    BY <2>1, <2>2, <2>3, <2>4 DEF CallerStep, TickRaises, ScanAlive, ScanOrphan, CloseOrphan, CloseOrphanRaises,
       Reread, RereadRaises, ScanDone, StartRefused, Alloc, Append, Register, Launch, LaunchRaises,
       FailGet, FailFinish, CancelSignal, CancelNoEvent, CancelForce, CancelForceRaises, PurgeSave
<1>6. event' \in [Procs -> [RunId -> {"none", "clear", "set"}]]
  <2>1. CASE Register(c)
    BY <2>1, ConstantsAssumption DEF Register, TypeOK
  <2>2. CASE CancelSignal(c)
    BY <2>2, ConstantsAssumption DEF CancelSignal, TypeOK
  <2>3. CASE TickRaises(c)
    BY <2>3, ConstantsAssumption DEF TickRaises, EndLoop, TypeOK
  <2>4. CASE UNCHANGED event
    BY <2>4 DEF TypeOK
  <2>5. QED
    BY <2>1, <2>2, <2>3, <2>4 DEF CallerStep, ScanAlive, ScanOrphan, CloseOrphan, CloseOrphanRaises, Reread,
       RereadRaises, ScanDone, Acquire, StartRefused, Alloc, Append, CreateRaises, Launch,
       LaunchRaises, FailGet, FailFinish, FailFinishRaises, Release, CancelNoEvent, CancelForce,
       CancelForceRaises, PurgeSave
<1>7. work' \in [RunId -> Work]
  <2>1. CASE Launch(c)
    BY <2>1, ConstantsAssumption DEF Launch, TypeOK, Work, WorkPc, Terminal
  <2>2. CASE UNCHANGED work
    BY <2>2 DEF TypeOK
  <2>3. QED
    BY <2>1, <2>2 DEF CallerStep, TickRaises, ScanAlive, ScanOrphan, CloseOrphan, CloseOrphanRaises, Reread,
       RereadRaises, ScanDone, Acquire, StartRefused, Alloc, Append, CreateRaises, Register,
       LaunchRaises, FailGet, FailFinish, FailFinishRaises, Release, CancelSignal, CancelNoEvent,
       CancelForce, CancelForceRaises, PurgeSave
<1>8. QED
  BY <1>1, <1>2, <1>3, <1>4, <1>5, <1>6, <1>7 DEF TypeOK

LEMMA RequestTypeOK ==
  ASSUME TypeOK, NEW c \in Callers, Request(c)
  PROVE  TypeOK'
<1> DEFINE Same == UNCHANGED <<files, process, leaked, event, work>>
<1> USE DEF files, process
<1>1. ASSUME NEW S \in SUBSET RunId, NEW o \in {"read", "start", "cancel"}, NEW j \in Jobs \cup {Manual},
             NEW r \in RunId \cup {NoRun}, NEW at \in {"scan", "alloc"}
      PROVE  [Idle EXCEPT !.pc = at, !.op = o, !.job = j, !.run = r, !.seen = S] \in Call
  BY <1>1, IdleType DEF Call, CallPc
<1>2. Same /\ slots' \in [Procs -> 0..Slots]
  <2>1. CASE StartManual(c)
    BY <2>1, ConstantsAssumption DEF StartManual, Take, TypeOK
  <2>2. CASE UNCHANGED <<files, process, slots, leaked, event, work>>
    BY <2>2 DEF TypeOK
  <2>3. QED
    BY <2>1, <2>2 DEF Request, Read, ReadRows, StartJob, CancelRun, PurgeLoad
<1>3. PICK rec : call' = [call EXCEPT ![c] = rec] /\ rec \in Call
  <2>1. CASE Read(c)
    <3>1. PICK S \in SUBSET Running : call' = [call EXCEPT ![c] = [Idle EXCEPT !.pc = "scan", !.op = "read", !.seen = S]]
      BY <2>1 DEF Read, ReadRows, Begin
    <3>2. [Idle EXCEPT !.pc = "scan", !.op = "read", !.seen = S] \in Call
      BY IdleType DEF Call, CallPc, Running
    <3>3. QED
      BY <3>1, <3>2
  <2>2. ASSUME NEW j \in Jobs, StartJob(c, j) PROVE \E rec \in Call : call' = [call EXCEPT ![c] = rec]
    <3>1. [Idle EXCEPT !.pc = "scan", !.op = "start", !.job = j, !.seen = {r \in Running : info[r].job = j}] \in Call
      BY IdleType DEF Call, CallPc, Running
    <3>2. QED
      BY <2>2, <3>1 DEF StartJob, Begin
  <2>3. CASE StartManual(c)
    <3>1. [Idle EXCEPT !.pc = "alloc", !.op = "start"] \in Call
      BY IdleType DEF Call, CallPc
    <3>2. QED
      BY <2>3, <3>1 DEF StartManual, Begin
  <2>4. ASSUME NEW r \in RunId, CancelRun(c, r) PROVE \E rec \in Call : call' = [call EXCEPT ![c] = rec]
    <3>1. [Idle EXCEPT !.pc = "scan", !.op = "cancel", !.run = r, !.seen = {r}] \in Call
      BY IdleType DEF Call, CallPc
    <3>2. QED
      BY <2>4, <3>1 DEF CancelRun, Begin
  <2>5. ASSUME NEW j \in PurgeJobs, PurgeLoad(c, j) PROVE \E rec \in Call : call' = [call EXCEPT ![c] = rec]
    <3> DEFINE s == [r \in RunId |-> IF info[r].job = j THEN NoRow ELSE row[r]]
    <3>1. s \in [RunId -> Row]
      BY DEF TypeOK, NoRow, Row, Status, Note
    <3>2. [Idle EXCEPT !.pc = "purge", !.op = "purge", !.job = j, !.snap = s] \in Call
      <4> HIDE DEF s
      <4> QED BY <3>1, IdleType, ConstantsAssumption DEF Call, CallPc
    <3>3. QED
      BY <2>5, <3>2 DEF PurgeLoad, Begin
  <2>6. QED
    BY <2>1, <2>2, <2>3, <2>4, <2>5 DEF Request
<1>4. QED
  BY <1>2, <1>3, CallUpdate DEF TypeOK

LEMMA WorkerTypeOK ==
  ASSUME TypeOK, NEW r \in RunId, WorkerStep(r)
  PROVE  TypeOK'
<1> USE DEF files, process, WorkPc, Status, Note, Terminal
<1>1. CASE Plan(r) \/ Query(r) \/ Search(r) \/ QueriesDone(r) \/ ErrorGet(r) \/ Reschedule(r) \/ RecordGet(r)
  <2>1. work' \in [RunId -> Work]
    BY <1>1, GotoType, RaiseType DEF Plan, Query, Search, QueriesDone, ErrorGet, Reschedule, RecordGet
  <2>2. UNCHANGED <<files, process, slots, leaked, event, call>>
    BY <1>1 DEF Plan, Query, Search, QueriesDone, ErrorGet, Reschedule, RecordGet
  <2>3. QED
    BY <2>1, <2>2 DEF TypeOK
<1>2. CASE Progress(r)
  <2>1. CASE Raise(r, "progress", "errget", "failed")
    BY <1>2, <2>1, RaiseType DEF Progress, TypeOK
  <2>2. CASE ~Raise(r, "progress", "errget", "failed")
    <3>1. work' = [work EXCEPT ![r].pc = "query", ![r].done = @ + 1]
      BY <1>2, <2>2 DEF Progress
    <3>2. work' \in [RunId -> Work]
      <4> DEFINE y == [[work[r] EXCEPT !.pc = "query"] EXCEPT !.done = work[r].done + 1]
      <4>1. work[r] \in Work /\ work[r].done + 1 \in Nat
        BY DEF TypeOK, Work
      <4>2. y \in Work
        BY <4>1, WorkPcType, WorkDoneType
      <4>3. work' = [work EXCEPT ![r] = y]
        BY <3>1, <4>1 DEF TypeOK
      <4> HIDE DEF y
      <4>4. QED
        BY <4>2, <4>3 DEF TypeOK
    <3>3. QED
      BY <1>2, <3>2 DEF Progress, TypeOK
  <2>3. QED
    BY <2>1, <2>2
<1>3. CASE StoreRaw(r) \/ StoreCurated(r)
  <2>1. work' \in [RunId -> Work]
    BY <1>3, GotoType, RaiseType DEF StoreRaw, StoreCurated
  <2>2. saved' \in [RunId -> {"none", "raw", "curated"}]
    BY <1>3 DEF StoreRaw, StoreCurated, TypeOK
  <2>3. QED
    BY <1>3, <2>1, <2>2 DEF StoreRaw, StoreCurated, TypeOK
<1>4. CASE FinishSuccess(r)
  <2>1. work' \in [RunId -> Work] /\ row' \in [RunId -> Row]
    BY <1>4, FinishType, RaiseType DEF FinishSuccess, TypeOK
  <2>2. QED
    BY <1>4, <2>1 DEF FinishSuccess, TypeOK
<1>5. CASE ErrorFinish(r) \/ RecordFinish(r)
  <2>1. work[r].out \in Status
    BY DEF TypeOK, Work
  <2>2. work' \in [RunId -> Work] /\ row' \in [RunId -> Row]
    BY <1>5, <2>1, FinishType, GotoType, RaiseType DEF ErrorFinish, RecordFinish, TypeOK
  <2>3. QED
    BY <1>5, <2>2 DEF ErrorFinish, RecordFinish, TypeOK
<1>6. CASE PopEvent(r)
  <2>1. work' \in [RunId -> Work]
    BY <1>6, GotoType DEF PopEvent
  <2>2. QED
    BY <1>6, <2>1 DEF PopEvent, TypeOK
<1>7. CASE Cleanup(r)
  <2>1. work' \in [RunId -> Work]
    BY <1>7, NoWorkType DEF Cleanup, TypeOK
  <2>2. slots' \in [Procs -> 0..Slots]
    BY <1>7, GiveBackType DEF Cleanup
  <2>3. QED
    BY <1>7, <2>1, <2>2 DEF Cleanup, TypeOK
<1>8. QED
  BY <1>1, <1>2, <1>3, <1>4, <1>5, <1>6, <1>7 DEF WorkerStep

LEMMA ProcessTypeOK ==
  ASSUME TypeOK, NEW p \in Procs, ProcessStep(p)
  PROVE  TypeOK'
<1> USE DEF files, process
<1>1. CASE Crash(p) \/ Exit(p)
  <2>1. Vanish(p)
    BY <1>1 DEF Crash, Exit
  <2>2. QED
    BY <2>1, IdleType, NoWorkType DEF Vanish, TypeOK
<1>2. CASE StartProcess(p)
  BY <1>2, ConstantsAssumption DEF StartProcess, TypeOK
<1>3. CASE Shutdown(p)
  BY <1>3 DEF Shutdown, EndLoop, TypeOK
<1>4. QED
  BY <1>1, <1>2, <1>3 DEF ProcessStep

LEMMA StutterTypeOK == TypeOK /\ UNCHANGED vars => TypeOK'
BY DEF TypeOK, vars

LEMMA NextTypeOK == TypeOK /\ [Next]_vars => TypeOK'
BY CallerTypeOK, RequestTypeOK, WorkerTypeOK, ProcessTypeOK, StutterTypeOK DEF Next

\* Every variable keeps its type, in every reachable state of any instance: in
\* particular the semaphore of a process never goes below zero or above its limit.
THEOREM TypeCorrect == Spec => []TypeOK
BY InitTypeOK, NextTypeOK, PTL DEF Spec

-----------------------------------------------------------------------------
(* Slots, run ids and cancel events.                                        *)

\* A caller that has a run id of its own and has not started its thread, or
\* could not.
HasId == {"append", "register", "launch", "failget", "failfin"}

\* Run ids above the sequence have never had a thread.
FreshIds == \A r \in RunId : r > seq => work[r].pc = "none"

\* A run id belongs to one caller until its thread is started.
OwnId == \A c \in Callers : call[c].pc \in HasId =>
  /\ call[c].run \in RunId /\ call[c].run <= seq /\ work[call[c].run].pc = "none"
  /\ \A d \in Callers : d # c /\ call[d].pc \in HasId => call[d].run # call[c].run

\* A process that is down runs nothing.
DownIsIdle == \A p \in Procs : mode[p] = "down" =>
  /\ \A c \in Callers : Home[c] = p => call[c].pc = "idle"
  /\ \A r \in RunId : work[r].proc = p => ~Live(r)

IdInv == TypeOK /\ FreshIds /\ OwnId /\ DownIsIdle

SlotInv == IdInv /\ SlotConservation

-----------------------------------------------------------------------------
(* What a step of a caller does to slots and threads.                       *)

OnlyCaller(c) == \A d \in Callers : d # c => call'[d] = call[d]

Enters(c) == call[c].pc \notin Holding /\ call'[c].pc \in Holding
Leaves(c) == call[c].pc \in Holding /\ call'[c].pc \notin Holding
Stays(c)  == call[c].pc \in Holding <=> call'[c].pc \in Holding

Loses(c) == leaked' = [leaked EXCEPT ![Home[c]] = leaked[Home[c]] + 1]

SlotEffect(c) ==
  \/ Stays(c) /\ UNCHANGED <<slots, leaked, work>>
  \/ Enters(c) /\ Take(Home[c]) /\ UNCHANGED <<leaked, work>>
  \/ Leaves(c) /\ Loses(c) /\ UNCHANGED <<slots, work>>
  \/ Leaves(c) /\ GiveBack(Home[c]) /\ UNCHANGED <<leaked, work>>
  \/ Leaves(c) /\ Launch(c)

LEMMA CallerOnly ==
  ASSUME IdInv, NEW c \in Callers, CallerStep(c) \/ Request(c)
  PROVE  OnlyCaller(c) /\ \A p \in Procs : mode'[p] = "down" <=> mode[p] = "down"
<1>0. TypeOK
  BY DEF IdInv
<1>1. ASSUME NEW rec, call' = [call EXCEPT ![c] = rec] PROVE OnlyCaller(c)
  BY <1>0, <1>1 DEF OnlyCaller, TypeOK
<1>2. ASSUME NEW at, NEW to, Step(c, at, to) PROVE OnlyCaller(c)
  BY <1>0, <1>2 DEF Step, OnlyCaller, TypeOK
<1>3. CASE Request(c)
  BY <1>3, <1>1 DEF Request, Read, ReadRows, StartJob, StartManual, CancelRun, PurgeLoad, Begin, process
<1>4. CASE \/ ScanAlive(c) \/ ScanOrphan(c) \/ Reread(c) \/ Alloc(c)
  BY <1>0, <1>4 DEF ScanAlive, ScanOrphan, Reread, Alloc, Step, ReturnFrom, Return, OnlyCaller, TypeOK, process
<1>5. CASE TickRaises(c)
  <2>1. mode[Home[c]] # "down"
    BY <1>5, ConstantsAssumption DEF TickRaises, DownIsIdle, IdInv
  <2>2. QED
    BY <1>0, <1>1, <1>5, <2>1, ConstantsAssumption DEF TickRaises, Return, EndLoop, TypeOK
<1>6. CASE CallerStep(c) /\ ~(ScanAlive(c) \/ ScanOrphan(c) \/ Reread(c) \/ Alloc(c) \/ TickRaises(c))
  BY <1>1, <1>2, <1>6 DEF CallerStep, CloseOrphan, CloseOrphanRaises, RereadRaises, ScanDone, Acquire,
     StartRefused, Append, CreateRaises, Register, Launch, LaunchRaises, FailGet, FailFinish,
     FailFinishRaises, Release, CancelSignal, CancelNoEvent, CancelForce, CancelForceRaises,
     PurgeSave, ReturnFrom, Return, process
<1>7. QED
  BY <1>3, <1>4, <1>5, <1>6

\* The position of the caller before and after the steps that only move it.
LEMMA CallerPc ==
  ASSUME TypeOK, NEW c \in Callers
  PROVE  /\ \A at, to : Step(c, at, to) => call[c].pc = at /\ call'[c].pc = to /\ call'[c].run = call[c].run
         /\ \A at : ReturnFrom(c, at) => call[c].pc = at /\ call'[c].pc = "idle"
         /\ \A rec : Begin(c, rec) => call[c].pc = "idle" /\ call'[c] = rec /\ mode[Home[c]] = "up"
<1>1. call[c] \in Call
  BY DEF TypeOK
<1>2. ASSUME NEW at, NEW to, Step(c, at, to)
      PROVE  call[c].pc = at /\ call'[c].pc = to /\ call'[c].run = call[c].run
  BY <1>1, <1>2 DEF Step, TypeOK, Call
<1>3. ASSUME NEW at, ReturnFrom(c, at) PROVE call[c].pc = at /\ call'[c].pc = "idle"
  BY <1>3 DEF ReturnFrom, Return, TypeOK, Idle
<1>4. ASSUME NEW rec, Begin(c, rec) PROVE call[c].pc = "idle" /\ call'[c] = rec /\ mode[Home[c]] = "up"
  BY <1>4 DEF Begin, TypeOK
<1>5. QED
  BY <1>2, <1>3, <1>4

LEMMA CallerEffect ==
  ASSUME TypeOK, NEW c \in Callers, CallerStep(c) \/ Request(c)
  PROVE  SlotEffect(c)
<1> USE DEF Holding, Stays, Enters, Leaves
<1>1. CASE \/ CloseOrphan(c) \/ Append(c) \/ Register(c) \/ LaunchRaises(c) \/ FailGet(c)
           \/ FailFinish(c) \/ CancelNoEvent(c)
  BY <1>1, CallerPc DEF CloseOrphan, Append, Register, LaunchRaises, FailGet, FailFinish,
     CancelNoEvent, SlotEffect
<1>2. CASE \/ CloseOrphanRaises(c) \/ RereadRaises(c) \/ StartRefused(c) \/ CancelSignal(c)
           \/ CancelForce(c) \/ CancelForceRaises(c) \/ PurgeSave(c) \/ ScanDone(c)
  BY <1>2, CallerPc DEF CloseOrphanRaises, RereadRaises, StartRefused, CancelSignal, CancelForce,
     CancelForceRaises, PurgeSave, ScanDone, SlotEffect
<1>3. CASE ScanAlive(c)
  <2>1. PICK r \in RunId : \/ Return(c) \/ Step(c, "scan", "cancel")
                           \/ call' = [call EXCEPT ![c].seen = @ \ {r}]
    BY <1>3 DEF ScanAlive
  <2>2. call[c].pc = "scan"
    BY <1>3 DEF ScanAlive
  <2>3. CASE call' = [call EXCEPT ![c].seen = @ \ {r}]
    BY <1>3, <2>2, <2>3 DEF ScanAlive, SlotEffect, TypeOK, Call
  <2>4. CASE Return(c) \/ Step(c, "scan", "cancel")
    <3>1. ReturnFrom(c, "scan") \/ Step(c, "scan", "cancel")
      BY <2>2, <2>4 DEF ReturnFrom
    <3>2. call'[c].pc \in {"idle", "cancel"}
      BY <3>1, CallerPc
    <3>3. QED
      BY <1>3, <2>2, <3>2 DEF ScanAlive, SlotEffect
  <2>5. QED
    BY <2>1, <2>3, <2>4
<1>4. CASE ScanOrphan(c)
  <2>1. call'[c].pc = "orphan" /\ call[c].pc = "scan"
    BY <1>4 DEF ScanOrphan, TypeOK, Call
  <2>2. QED
    BY <1>4, <2>1 DEF ScanOrphan, SlotEffect
<1>5. CASE Reread(c)
  <2>1. PICK r : \/ Return(c) \/ Step(c, "reread", "cancel")
                 \/ call' = [call EXCEPT ![c].pc = "scan", ![c].seen = @ \ {r}, ![c].run = NoRun]
    BY <1>5 DEF Reread
  <2>2. call[c].pc = "reread"
    BY <1>5 DEF Reread
  <2>3. CASE call' = [call EXCEPT ![c].pc = "scan", ![c].seen = @ \ {r}, ![c].run = NoRun]
    <3>1. call'[c].pc = "scan"
      BY <2>3 DEF TypeOK, Call
    <3>2. QED
      BY <1>5, <2>2, <3>1 DEF Reread, SlotEffect
  <2>4. CASE Return(c) \/ Step(c, "reread", "cancel")
    <3>1. ReturnFrom(c, "reread") \/ Step(c, "reread", "cancel")
      BY <2>2, <2>4 DEF ReturnFrom
    <3>2. call'[c].pc \in {"idle", "cancel"}
      BY <3>1, CallerPc
    <3>3. QED
      BY <1>5, <2>2, <3>2 DEF Reread, SlotEffect
  <2>5. QED
    BY <2>1, <2>3, <2>4
<1>6. CASE Acquire(c)
  BY <1>6, CallerPc DEF Acquire, SlotEffect
<1>7. CASE Alloc(c)
  <2>1. call'[c].pc = "append" /\ call[c].pc = "alloc"
    BY <1>7 DEF Alloc, TypeOK, Call
  <2>2. QED
    BY <1>7, <2>1 DEF Alloc, SlotEffect
<1>t. CASE TickRaises(c)
  <2>1. ReturnFrom(c, call[c].pc) /\ call[c].pc \in {"scan", "orphan", "reread"}
    BY <1>t DEF TickRaises, ReturnFrom
  <2>2. call'[c].pc = "idle"
    BY <2>1, CallerPc
  <2>3. QED
    BY <1>t, <2>1, <2>2 DEF TickRaises, SlotEffect
<1>8. CASE CreateRaises(c) \/ FailFinishRaises(c)
  <2>1. call[c].pc \in {"alloc", "append", "failfin"} /\ Return(c)
    BY <1>8 DEF CreateRaises, FailFinishRaises, ReturnFrom
  <2>2. call'[c].pc = "idle"
    BY <2>1, CallerPc DEF ReturnFrom
  <2>3. QED
    BY <1>8, <2>1, <2>2 DEF CreateRaises, FailFinishRaises, SlotEffect, Loses
<1>9. CASE Release(c)
  BY <1>9, CallerPc DEF Release, SlotEffect
<1>10. CASE Launch(c)
  BY <1>10, CallerPc DEF Launch, SlotEffect
<1>11. CASE StartManual(c)
  <2>1. call[c].pc = "idle" /\ call'[c] = [Idle EXCEPT !.pc = "alloc", !.op = "start"]
    BY <1>11, CallerPc DEF StartManual
  <2>2. call'[c].pc = "alloc"
    BY <2>1 DEF Idle
  <2>3. QED
    BY <1>11, <2>1, <2>2 DEF StartManual, SlotEffect
<1>12. CASE Request(c) /\ ~StartManual(c)
  <2>1. \E rec : Begin(c, rec) /\ rec.pc \in {"scan", "purge"}
    <3>1. CASE Read(c)
      <4>1. PICK S : Begin(c, [Idle EXCEPT !.pc = "scan", !.op = "read", !.seen = S])
        BY <3>1 DEF Read, ReadRows
      <4>2. [Idle EXCEPT !.pc = "scan", !.op = "read", !.seen = S].pc \in {"scan", "purge"}
        BY DEF Idle
      <4>3. QED
        BY <4>1, <4>2
    <3>2. CASE \E j \in Jobs : StartJob(c, j)
      <4>1. PICK j, S : Begin(c, [Idle EXCEPT !.pc = "scan", !.op = "start", !.job = j, !.seen = S])
        BY <3>2 DEF StartJob
      <4>2. [Idle EXCEPT !.pc = "scan", !.op = "start", !.job = j, !.seen = S].pc \in {"scan", "purge"}
        BY DEF Idle
      <4>3. QED
        BY <4>1, <4>2
    <3>3. CASE \E r \in RunId : CancelRun(c, r)
      <4>1. PICK r : Begin(c, [Idle EXCEPT !.pc = "scan", !.op = "cancel", !.run = r, !.seen = {r}])
        BY <3>3 DEF CancelRun
      <4>2. [Idle EXCEPT !.pc = "scan", !.op = "cancel", !.run = r, !.seen = {r}].pc \in {"scan", "purge"}
        BY DEF Idle
      <4>3. QED
        BY <4>1, <4>2
    <3>4. CASE \E j \in PurgeJobs : PurgeLoad(c, j)
      <4>1. PICK j, sn : Begin(c, [Idle EXCEPT !.pc = "purge", !.op = "purge", !.job = j, !.snap = sn])
        BY <3>4 DEF PurgeLoad
      <4>2. [Idle EXCEPT !.pc = "purge", !.op = "purge", !.job = j, !.snap = sn].pc \in {"scan", "purge"}
        BY DEF Idle
      <4>3. QED
        BY <4>1, <4>2
    <3>5. QED
      BY <1>12, <3>1, <3>2, <3>3, <3>4 DEF Request
  <2>2. call[c].pc = "idle" /\ call'[c].pc \in {"scan", "purge"}
    BY <2>1, CallerPc
  <2>3. QED
    BY <1>12, <2>2 DEF Request, Read, ReadRows, StartJob, CancelRun, PurgeLoad, SlotEffect
<1>13. QED
  BY <1>1, <1>2, <1>3, <1>4, <1>5, <1>6, <1>7, <1>8, <1>9, <1>10, <1>11, <1>12, <1>t DEF CallerStep

-----------------------------------------------------------------------------
(* What a step of a background thread does to slots, events and threads.    *)

EventCleared(r) == event' = [event EXCEPT ![work[r].proc][r] = "none"]

WorkerEffect(r) ==
  /\ Live(r)
  /\ \A s \in RunId : s # r => work'[s] = work[s]
  /\ UNCHANGED <<seq, mode, pid, used, leaked, call>>
  /\ \/ /\ Live(r)' /\ work'[r].proc = work[r].proc
        /\ UNCHANGED slots
        /\ UNCHANGED event \/ EventCleared(r)
     \/ Cleanup(r)

LEMMA WorkerPc ==
  ASSUME TypeOK, NEW r \in RunId
  PROVE  /\ \A at, to : Goto(r, at, to) =>
              /\ work[r].pc = at /\ work'[r].pc = to /\ work'[r].proc = work[r].proc
              /\ \A s \in RunId : s # r => work'[s] = work[s]
         /\ \A at, to, o : Raise(r, at, to, o) =>
              /\ work[r].pc = at /\ work'[r].pc = to /\ work'[r].proc = work[r].proc
              /\ \A s \in RunId : s # r => work'[s] = work[s]
<1>1. work[r] \in Work
  BY DEF TypeOK
<1>2. ASSUME NEW at, NEW to, Goto(r, at, to)
      PROVE  /\ work[r].pc = at /\ work'[r].pc = to /\ work'[r].proc = work[r].proc
             /\ \A s \in RunId : s # r => work'[s] = work[s]
  BY <1>1, <1>2 DEF Goto, TypeOK, Work
<1>3. ASSUME NEW at, NEW to, NEW o, Raise(r, at, to, o)
      PROVE  /\ work[r].pc = at /\ work'[r].pc = to /\ work'[r].proc = work[r].proc
             /\ \A s \in RunId : s # r => work'[s] = work[s]
  BY <1>1, <1>3 DEF Raise, TypeOK, Work
<1>4. QED
  BY <1>2, <1>3

LEMMA WorkerStepEffect ==
  ASSUME TypeOK, NEW r \in RunId, WorkerStep(r)
  PROVE  WorkerEffect(r)
<1> USE DEF files, process, Live, WorkerEffect
<1>1. CASE Plan(r) \/ Query(r) \/ Search(r) \/ QueriesDone(r)
  BY <1>1, WorkerPc DEF Plan, Query, Search, QueriesDone
<1>2. CASE Progress(r)
  <2>1. CASE Raise(r, "progress", "errget", "failed")
    BY <1>2, <2>1, WorkerPc DEF Progress
  <2>2. CASE /\ work[r].pc = "progress"
             /\ work' = [work EXCEPT ![r].pc = "query", ![r].done = @ + 1]
    <3>1. /\ work'[r].pc = "query" /\ work'[r].proc = work[r].proc
          /\ \A s \in RunId : s # r => work'[s] = work[s]
      BY <2>2 DEF TypeOK, Work
    <3>2. QED
      BY <1>2, <2>2, <3>1 DEF Progress
  <2>3. QED
    BY <1>2, <2>1, <2>2 DEF Progress
<1>3. CASE StoreRaw(r) \/ StoreCurated(r) \/ FinishSuccess(r)
  BY <1>3, WorkerPc DEF StoreRaw, StoreCurated, FinishSuccess
<1>4. CASE ErrorGet(r) \/ ErrorFinish(r) \/ Reschedule(r) \/ RecordGet(r) \/ RecordFinish(r)
  BY <1>4, WorkerPc DEF ErrorGet, ErrorFinish, Reschedule, RecordGet, RecordFinish
<1>5. CASE PopEvent(r)
  BY <1>5, WorkerPc DEF PopEvent, EventCleared
<1>6. CASE Cleanup(r)
  BY <1>6 DEF Cleanup, TypeOK
<1>7. QED
  BY <1>1, <1>2, <1>3, <1>4, <1>5, <1>6 DEF WorkerStep

-----------------------------------------------------------------------------
(* A run id belongs to one caller, and processes that are down run nothing. *)

\* What a step of a caller does to the ids: nothing new, one more, or a thread.
IdEffect(c) ==
  \/ /\ UNCHANGED <<seq, work>>
     /\ call'[c].pc \in HasId => call[c].pc \in HasId /\ call'[c].run = call[c].run
  \/ /\ seq' = seq + 1 /\ UNCHANGED work
     /\ call'[c].run = seq + 1
  \/ /\ UNCHANGED seq /\ Launch(c)

LEMMA CallerIdEffect ==
  ASSUME TypeOK, NEW c \in Callers, CallerStep(c) \/ Request(c)
  PROVE  IdEffect(c)
<1> USE DEF files, HasId, IdEffect
<1>1. CASE Alloc(c)
  BY <1>1 DEF Alloc, TypeOK, Call
<1>2. CASE Launch(c)
  BY <1>2 DEF Launch
<1>3. CASE Append(c) \/ Register(c)
  BY <1>3, CallerPc DEF Append, Register
<1>4. CASE \/ CloseOrphan(c) \/ LaunchRaises(c) \/ FailGet(c) \/ FailFinish(c) \/ CancelNoEvent(c)
           \/ Acquire(c) \/ ScanDone(c)
  BY <1>4, CallerPc DEF CloseOrphan, LaunchRaises, FailGet, FailFinish, CancelNoEvent, Acquire, ScanDone
<1>5. CASE \/ CloseOrphanRaises(c) \/ RereadRaises(c) \/ StartRefused(c) \/ CancelSignal(c)
           \/ CancelForce(c) \/ CancelForceRaises(c) \/ PurgeSave(c) \/ Release(c) \/ FailFinishRaises(c)
  BY <1>5, CallerPc DEF CloseOrphanRaises, RereadRaises, StartRefused, CancelSignal, CancelForce,
     CancelForceRaises, PurgeSave, Release, FailFinishRaises
<1>6. CASE CreateRaises(c)
  <2>1. call'[c].pc = "idle"
    BY <1>6, CallerPc DEF CreateRaises, ReturnFrom
  <2>2. QED
    BY <1>6, <2>1 DEF CreateRaises
<1>t. CASE TickRaises(c)
  <2>1. ReturnFrom(c, call[c].pc)
    BY <1>t DEF TickRaises, ReturnFrom
  <2>2. call'[c].pc = "idle"
    BY <2>1, CallerPc
  <2>3. QED
    BY <1>t, <2>2 DEF TickRaises
<1>7. CASE ScanAlive(c) \/ ScanOrphan(c) \/ Reread(c) \/ Request(c)
  <2>1. call[c].pc \notin Holding
    BY <1>7, CallerPc DEF ScanAlive, ScanOrphan, Reread, Request, Read, ReadRows, StartJob,
       StartManual, CancelRun, PurgeLoad, Holding
  <2>2. call'[c].pc \notin HasId
    <3>1. CASE StartManual(c)
      <4>1. call'[c] = [Idle EXCEPT !.pc = "alloc", !.op = "start"]
        BY <3>1, CallerPc DEF StartManual
      <4>2. QED
        BY <4>1 DEF Idle
    <3>2. CASE ~StartManual(c)
      <4>1. UNCHANGED slots
        BY <1>7, <3>2 DEF ScanAlive, ScanOrphan, Reread, Request, Read, ReadRows, StartJob,
           CancelRun, PurgeLoad
      <4>2. ~Take(Home[c])
        BY <4>1, ConstantsAssumption DEF Take, TypeOK
      <4>3. call'[c].pc \notin Holding
        BY <2>1, <4>2, CallerEffect DEF SlotEffect, Stays, Leaves, Enters
      <4>4. QED
        BY <4>3 DEF Holding
    <3>3. QED
      BY <3>1, <3>2
  <2>3. UNCHANGED <<seq, work>>
    BY <1>7 DEF ScanAlive, ScanOrphan, Reread, Request, Read, ReadRows, StartJob, StartManual,
       CancelRun, PurgeLoad
  <2>4. QED
    BY <2>2, <2>3
<1>8. QED
  BY <1>1, <1>2, <1>3, <1>4, <1>5, <1>6, <1>7, <1>t DEF CallerStep

LEMMA InitIdInv == Init => IdInv
<1> SUFFICES ASSUME Init PROVE IdInv
  OBVIOUS
<1>1. TypeOK
  BY InitTypeOK
<1>2. FreshIds /\ OwnId /\ DownIsIdle
  BY DEF Init, FreshIds, OwnId, DownIsIdle, HasId, Idle, NoWork, Live
<1>3. QED
  BY <1>1, <1>2 DEF IdInv

\* A caller that acts belongs to a process that is not down.
LEMMA CallerIsUp ==
  ASSUME IdInv, NEW c \in Callers, CallerStep(c) \/ Request(c)
  PROVE  mode[Home[c]] # "down"
<1>0. TypeOK
  BY DEF IdInv
<1>1. CASE Request(c)
  BY <1>0, <1>1, CallerPc DEF Request, Read, ReadRows, StartJob, StartManual, CancelRun, PurgeLoad
<1>2. CASE CallerStep(c)
  <2>1. call[c].pc # "idle"
    BY <1>2 DEF CallerStep, Step, ReturnFrom, TickRaises, ScanAlive, ScanOrphan, CloseOrphan, CloseOrphanRaises,
       Reread, RereadRaises, ScanDone, Acquire, StartRefused, Alloc, Append, CreateRaises, Register,
       Launch, LaunchRaises, FailGet, FailFinish, FailFinishRaises, Release, CancelSignal,
       CancelNoEvent, CancelForce, CancelForceRaises, PurgeSave
  <2>2. QED
    BY <2>1, ConstantsAssumption DEF IdInv, DownIsIdle
<1>3. QED
  BY <1>1, <1>2

LEMMA CallerIdInv ==
  ASSUME IdInv, NEW c \in Callers, CallerStep(c) \/ Request(c)
  PROVE  IdInv'
<1>0. /\ TypeOK /\ OnlyCaller(c) /\ IdEffect(c) /\ mode[Home[c]] # "down"
      /\ \A p \in Procs : mode'[p] = "down" <=> mode[p] = "down"
  BY CallerOnly, CallerIdEffect, CallerIsUp DEF IdInv
<1>1. TypeOK'
  BY CallerTypeOK, RequestTypeOK DEF IdInv
<1>a. seq \in Nat /\ MaxRuns \in Nat /\ \A d \in Callers : call[d].pc \in HasId => call[d].run \in Nat
  BY ConstantsAssumption DEF IdInv, TypeOK, OwnId, RunId
<1>2. CASE /\ UNCHANGED <<seq, work>>
           /\ call'[c].pc \in HasId => call[c].pc \in HasId /\ call'[c].run = call[c].run
  <2>1. FreshIds' /\ OwnId'
    BY <1>0, <1>2 DEF IdInv, FreshIds, OwnId, OnlyCaller
  <2>2. DownIsIdle'
    BY <1>0, <1>2 DEF IdInv, DownIsIdle, OnlyCaller, Live
  <2>3. QED
    BY <1>1, <2>1, <2>2 DEF IdInv
<1>3. CASE seq' = seq + 1 /\ UNCHANGED work /\ call'[c].run = seq + 1
  <2>1. seq + 1 \in RunId
    BY <1>1, <1>a, <1>3, ConstantsAssumption DEF TypeOK, RunId
  <2>2. FreshIds'
    BY <1>3, <1>a DEF IdInv, FreshIds, RunId
  <2>3. OwnId'
    BY <1>0, <1>a, <1>3, <2>1 DEF IdInv, FreshIds, OwnId, OnlyCaller
  <2>4. DownIsIdle'
    BY <1>0, <1>3 DEF IdInv, DownIsIdle, OnlyCaller, Live
  <2>5. QED
    BY <1>1, <2>2, <2>3, <2>4 DEF IdInv
<1>4. CASE UNCHANGED seq /\ Launch(c)
  <2> DEFINE r == call[c].run
  <2>1. call[c].pc = "launch" /\ call'[c].pc = "idle"
    BY <1>0, <1>4, CallerPc DEF Launch
  <2>2. r \in RunId /\ r <= seq
    BY <2>1 DEF IdInv, OwnId, HasId
  <2>3. /\ work'[r] = [pc |-> "plan", proc |-> Home[c], out |-> "success", done |-> 0]
        /\ \A s \in RunId : s # r => work'[s] = work[s]
    BY <1>0, <1>4, <2>2 DEF Launch, TypeOK
  <2>4. FreshIds'
    BY <1>4, <1>a, <2>2, <2>3 DEF IdInv, FreshIds, RunId
  <2>5. OwnId'
    BY <1>0, <1>4, <2>1, <2>2, <2>3 DEF IdInv, OwnId, OnlyCaller, HasId
  <2>6. DownIsIdle'
    BY <1>0, <2>1, <2>2, <2>3 DEF IdInv, DownIsIdle, OnlyCaller, Live
  <2>7. QED
    BY <1>1, <2>4, <2>5, <2>6 DEF IdInv
<1>5. QED
  BY <1>0, <1>2, <1>3, <1>4 DEF IdEffect

LEMMA WorkerIdInv ==
  ASSUME IdInv, NEW r \in RunId, WorkerStep(r)
  PROVE  IdInv'
<1>0. TypeOK /\ TypeOK' /\ WorkerEffect(r)
  BY WorkerTypeOK, WorkerStepEffect DEF IdInv
<1>1. work'[r].pc # "none" /\ (Live(r)' => work'[r].proc = work[r].proc)
  <2>1. CASE Cleanup(r)
    BY <1>0, <2>1 DEF Cleanup, TypeOK, Ended, NoWork, Live
  <2>2. QED
    BY <1>0, <2>1 DEF WorkerEffect, Live
<1>2. FreshIds'
  BY <1>0, <1>1 DEF IdInv, FreshIds, WorkerEffect, Live
<1>3. OwnId'
  BY <1>0, <1>1 DEF IdInv, OwnId, WorkerEffect, Live
<1>4. DownIsIdle'
  BY <1>0, <1>1 DEF IdInv, DownIsIdle, WorkerEffect, Live
<1>5. QED
  BY <1>0, <1>2, <1>3, <1>4 DEF IdInv

LEMMA ProcessIdInv ==
  ASSUME IdInv, NEW p \in Procs, ProcessStep(p)
  PROVE  IdInv'
<1>0. TypeOK /\ TypeOK'
  BY ProcessTypeOK DEF IdInv
<1>1. CASE Vanish(p)
  <2>1. UNCHANGED seq /\ \A c \in Callers : call'[c] = call[c] \/ call'[c].pc = "idle"
    BY <1>1 DEF Vanish, files, Idle
  <2>2. \A r \in RunId : work'[r] = work[r] \/ (work'[r] = Ended /\ Live(r))
    BY <1>1 DEF Vanish, Workers
  <2>3. FreshIds'
    BY <2>1, <2>2 DEF IdInv, FreshIds, Live
  <2>4. OwnId'
    BY <2>1, <2>2 DEF IdInv, OwnId, HasId, Live
  <2>5. DownIsIdle'
    <3>1. ASSUME NEW q \in Procs, mode'[q] = "down"
          PROVE  /\ \A c \in Callers : Home[c] = q => call'[c].pc = "idle"
                 /\ \A r \in RunId : work'[r].proc = q => ~Live(r)'
      <4>1. q = p \/ mode[q] = "down"
        BY <1>1, <3>1 DEF Vanish, IdInv, TypeOK
      <4>2. ASSUME NEW r \in RunId, work'[r].proc = q, Live(r)' PROVE FALSE
        <5>1. work'[r] = work[r] /\ Live(r)
          BY <2>2, <4>2 DEF Live, Ended, NoWork
        <5>2. mode[q] # "down"
          BY <4>2, <5>1 DEF IdInv, DownIsIdle
        <5>3. r \in Workers(p)
          BY <4>1, <4>2, <5>1, <5>2 DEF Workers
        <5>4. QED
          BY <1>1, <4>2, <5>3 DEF Vanish, Ended, NoWork, Live
      <4>3. ASSUME NEW c \in Callers, Home[c] = q PROVE call'[c].pc = "idle"
        BY <1>1, <4>1, <4>3 DEF Vanish, IdInv, DownIsIdle, Idle
      <4>4. QED
        BY <4>2, <4>3
    <3>2. QED
      BY <3>1 DEF DownIsIdle, Live
  <2>6. QED
    BY <1>0, <2>3, <2>4, <2>5 DEF IdInv
<1>2. CASE StartProcess(p) \/ Shutdown(p)
  <2>1. /\ UNCHANGED <<seq, call, work>>
        /\ \A q \in Procs : mode'[q] = "down" => mode[q] = "down"
    BY <1>0, <1>2 DEF StartProcess, Shutdown, EndLoop, files, TypeOK
  <2>2. QED
    BY <1>0, <2>1 DEF IdInv, FreshIds, OwnId, DownIsIdle, Live
<1>3. QED
  BY <1>1, <1>2 DEF ProcessStep, Crash, Exit

LEMMA NextIdInv == IdInv /\ [Next]_vars => IdInv'
<1>1. ASSUME IdInv, UNCHANGED vars PROVE IdInv'
  <2>1. TypeOK'
    BY <1>1, StutterTypeOK DEF IdInv
  <2>2. QED
    BY <1>1, <2>1 DEF IdInv, vars, FreshIds, OwnId, DownIsIdle, Live
<1>2. QED
  BY <1>1, CallerIdInv, WorkerIdInv, ProcessIdInv DEF Next

-----------------------------------------------------------------------------
(* Counting the permits.                                                    *)

LEMMA Finite ==
  ASSUME NEW p
  PROVE  /\ IsFiniteSet(Holders(p)) /\ Cardinality(Holders(p)) \in Nat
         /\ IsFiniteSet(Workers(p)) /\ Cardinality(Workers(p)) \in Nat
<1>1. IsFiniteSet(Callers) /\ Holders(p) \in SUBSET Callers
  BY ConstantsAssumption DEF Holders
<1>2. IsFiniteSet(RunId) /\ Workers(p) \in SUBSET RunId
  BY ConstantsAssumption, FS_Interval DEF RunId, Workers
<1>3. QED
  BY <1>1, <1>2, FS_Subset, FS_CardinalityType

LEMMA HoldersChange ==
  ASSUME NEW c \in Callers, OnlyCaller(c), NEW p \in Procs
  PROVE  /\ Stays(c) \/ Home[c] # p => Holders(p)' = Holders(p)
         /\ Enters(c) /\ Home[c] = p =>
              Cardinality(Holders(p)') = Cardinality(Holders(p)) + 1
         /\ Leaves(c) /\ Home[c] = p =>
              /\ Cardinality(Holders(p)') = Cardinality(Holders(p)) - 1
              /\ Cardinality(Holders(p)) > 0
<1>1. ASSUME Stays(c) \/ Home[c] # p PROVE Holders(p)' = Holders(p)
  BY <1>1 DEF Holders, OnlyCaller, Stays
<1>2. ASSUME Enters(c), Home[c] = p
      PROVE  Cardinality(Holders(p)') = Cardinality(Holders(p)) + 1
  <2>1. Holders(p)' = Holders(p) \cup {c} /\ c \notin Holders(p)
    BY <1>2 DEF Holders, OnlyCaller, Enters
  <2>2. QED
    BY <2>1, Finite, FS_AddElement
<1>3. ASSUME Leaves(c), Home[c] = p
      PROVE  /\ Cardinality(Holders(p)') = Cardinality(Holders(p)) - 1
             /\ Cardinality(Holders(p)) > 0
  <2>1. Holders(p)' = Holders(p) \ {c} /\ c \in Holders(p)
    BY <1>3 DEF Holders, OnlyCaller, Leaves
  <2>2. Cardinality(Holders(p)) # 0
    BY <2>1, Finite, FS_EmptySet
  <2>3. Cardinality(Holders(p)') = Cardinality(Holders(p)) - 1
    BY <2>1, Finite, FS_RemoveElement
  <2>4. Cardinality(Holders(p)) \in Nat
    BY Finite
  <2>5. QED
    BY <2>2, <2>3, <2>4
<1>4. QED
  BY <1>1, <1>2, <1>3

LEMMA CallerConserves ==
  ASSUME SlotInv, NEW c \in Callers, CallerStep(c) \/ Request(c)
  PROVE  SlotConservation'
<1> DEFINE h == Home[c]
<1>0. /\ TypeOK /\ OnlyCaller(c) /\ SlotEffect(c) /\ h \in Procs
      /\ \A p \in Procs : mode'[p] = "down" <=> mode[p] = "down"
  BY CallerOnly, CallerEffect, ConstantsAssumption DEF SlotInv, IdInv
<1> SUFFICES ASSUME NEW p \in Procs, mode[p] # "down"
             PROVE  slots'[p] + Cardinality(Holders(p)') + Cardinality(Workers(p)') + leaked'[p] = Slots
  BY <1>0 DEF SlotConservation
<1>1. slots[p] + Cardinality(Holders(p)) + Cardinality(Workers(p)) + leaked[p] = Slots
  BY DEF SlotInv, SlotConservation
<1>2. /\ slots[p] \in Nat /\ leaked[p] \in Nat /\ Slots \in Nat
      /\ Cardinality(Holders(p)) \in Nat /\ Cardinality(Workers(p)) \in Nat
  BY <1>0, Finite, ConstantsAssumption DEF TypeOK
<1>3. UNCHANGED work => Workers(p)' = Workers(p)
  BY DEF Workers, Live
<1>4. CASE Stays(c) /\ UNCHANGED <<slots, leaked, work>>
  BY <1>0, <1>1, <1>3, <1>4, HoldersChange
<1>5. CASE Enters(c) /\ Take(h) /\ UNCHANGED <<leaked, work>>
  <2>1. CASE p = h
    <3>1. slots'[p] = slots[p] - 1
      BY <1>0, <1>5, <2>1 DEF Take, TypeOK
    <3>2. QED
      BY <1>0, <1>1, <1>2, <1>3, <1>5, <2>1, <3>1, HoldersChange
  <2>2. CASE p # h
    <3>1. slots'[p] = slots[p]
      BY <1>0, <1>5, <2>2 DEF Take, TypeOK
    <3>2. QED
      BY <1>0, <1>1, <1>3, <1>5, <2>2, <3>1, HoldersChange
  <2>3. QED
    BY <2>1, <2>2
<1>6. CASE Leaves(c) /\ Loses(c) /\ UNCHANGED <<slots, work>>
  <2>1. CASE p = h
    <3>1. leaked'[p] = leaked[p] + 1
      BY <1>0, <1>6, <2>1 DEF Loses, TypeOK
    <3>2. QED
      BY <1>0, <1>1, <1>2, <1>3, <1>6, <2>1, <3>1, HoldersChange
  <2>2. CASE p # h
    BY <1>0, <1>1, <1>3, <1>6, <2>2, HoldersChange DEF Loses, TypeOK
  <2>3. QED
    BY <2>1, <2>2
<1>7. CASE Leaves(c) /\ GiveBack(h) /\ UNCHANGED <<leaked, work>>
  <2>1. CASE p = h
    <3>1. /\ Cardinality(Holders(p)') = Cardinality(Holders(p)) - 1
          /\ Cardinality(Holders(p)) > 0
      BY <1>0, <1>7, <2>1, HoldersChange
    <3>2. slots[p] < Slots
      BY <1>1, <1>2, <3>1
    <3>3. slots'[p] = slots[p] + 1
      BY <1>0, <1>7, <2>1, <3>2 DEF GiveBack, TypeOK
    <3>4. QED
      BY <1>1, <1>2, <1>3, <1>7, <3>1, <3>3
  <2>2. CASE p # h
    BY <1>0, <1>1, <1>3, <1>7, <2>2, HoldersChange DEF GiveBack, TypeOK
  <2>3. QED
    BY <2>1, <2>2
<1>8. CASE Leaves(c) /\ Launch(c)
  <2> DEFINE r == call[c].run
  <2>1. r \in RunId /\ work[r].pc = "none"
    BY <1>8 DEF SlotInv, IdInv, OwnId, HasId, Launch, ReturnFrom
  <2>2. /\ work'[r].pc = "plan" /\ work'[r].proc = h
        /\ \A s \in RunId : s # r => work'[s] = work[s]
    BY <1>0, <1>8, <2>1 DEF Launch, TypeOK
  <2>3. slots' = slots /\ leaked' = leaked
    BY <1>8 DEF Launch
  <2>4. CASE p = h
    <3>1. Workers(p)' = Workers(p) \cup {r} /\ r \notin Workers(p)
      BY <2>1, <2>2, <2>4 DEF Workers, Live
    <3>2. Cardinality(Workers(p)') = Cardinality(Workers(p)) + 1
      BY <3>1, Finite, FS_AddElement
    <3>3. QED
      BY <1>0, <1>1, <1>2, <1>8, <2>3, <2>4, <3>2, HoldersChange
  <2>5. CASE p # h
    <3>1. Workers(p)' = Workers(p)
      BY <2>1, <2>2, <2>5 DEF Workers, Live
    <3>2. QED
      BY <1>0, <1>1, <2>3, <2>5, <3>1, HoldersChange
  <2>6. QED
    BY <2>4, <2>5
<1>9. QED
  BY <1>0, <1>4, <1>5, <1>6, <1>7, <1>8 DEF SlotEffect

LEMMA WorkerConserves ==
  ASSUME SlotInv, NEW r \in RunId, WorkerStep(r)
  PROVE  SlotConservation'
<1>0. TypeOK /\ WorkerEffect(r)
  BY WorkerStepEffect DEF SlotInv, IdInv
<1> SUFFICES ASSUME NEW p \in Procs, mode[p] # "down"
             PROVE  slots'[p] + Cardinality(Holders(p)') + Cardinality(Workers(p)') + leaked'[p] = Slots
  BY <1>0 DEF SlotConservation, WorkerEffect
<1>1. slots[p] + Cardinality(Holders(p)) + Cardinality(Workers(p)) + leaked[p] = Slots
  BY DEF SlotInv, SlotConservation
<1>2. /\ slots[p] \in Nat /\ leaked[p] \in Nat /\ Slots \in Nat
      /\ Cardinality(Holders(p)) \in Nat /\ Cardinality(Workers(p)) \in Nat
  BY <1>0, Finite, ConstantsAssumption DEF TypeOK
<1>3. Holders(p)' = Holders(p) /\ leaked' = leaked
  BY <1>0 DEF WorkerEffect, Holders
<1>4. CASE Live(r)' /\ work'[r].proc = work[r].proc /\ UNCHANGED slots
  <2>1. Workers(p)' = Workers(p)
    BY <1>0, <1>4 DEF WorkerEffect, Workers, Live
  <2>2. QED
    BY <1>1, <1>3, <1>4, <2>1
<1>5. CASE Cleanup(r)
  <2>1. ~Live(r)' /\ GiveBack(work[r].proc)
    BY <1>0, <1>5 DEF Cleanup, TypeOK, Ended, NoWork, Live
  <2>2. CASE p = work[r].proc
    <3>1. Workers(p)' = Workers(p) \ {r} /\ r \in Workers(p)
      BY <1>0, <2>1, <2>2 DEF WorkerEffect, Workers, Live
    <3>2. Cardinality(Workers(p)) # 0
      BY <3>1, Finite, FS_EmptySet
    <3>3. Cardinality(Workers(p)') = Cardinality(Workers(p)) - 1
      BY <3>1, Finite, FS_RemoveElement
    <3>4. slots[p] < Slots
      BY <1>1, <1>2, <3>2
    <3>5. slots'[p] = slots[p] + 1
      BY <1>0, <2>1, <2>2, <3>4 DEF GiveBack, TypeOK
    <3>6. QED
      BY <1>1, <1>2, <1>3, <3>3, <3>5
  <2>3. CASE p # work[r].proc
    <3>1. Workers(p)' = Workers(p)
      BY <1>0, <2>1, <2>3 DEF WorkerEffect, Workers, Live
    <3>2. slots'[p] = slots[p]
      BY <1>0, <2>1, <2>3 DEF GiveBack, TypeOK
    <3>3. QED
      BY <1>1, <1>3, <3>1, <3>2
  <2>4. QED
    BY <2>2, <2>3
<1>6. QED
  BY <1>0, <1>4, <1>5 DEF WorkerEffect

LEMMA ProcessConserves ==
  ASSUME SlotInv, NEW q \in Procs, ProcessStep(q)
  PROVE  SlotConservation'
<1>0. TypeOK
  BY DEF SlotInv, IdInv
<1> SUFFICES ASSUME NEW p \in Procs, mode'[p] # "down"
             PROVE  slots'[p] + Cardinality(Holders(p)') + Cardinality(Workers(p)') + leaked'[p] = Slots
  BY DEF SlotConservation
<1>1. mode[p] # "down" =>
        slots[p] + Cardinality(Holders(p)) + Cardinality(Workers(p)) + leaked[p] = Slots
  BY DEF SlotInv, SlotConservation
<1>2. CASE Vanish(q)
  <2>1. p # q /\ mode[p] # "down" /\ slots' = slots /\ leaked' = leaked
    BY <1>0, <1>2 DEF Vanish, TypeOK
  <2>2. Holders(p)' = Holders(p)
    BY <1>2, <2>1 DEF Vanish, Holders
  <2>3. Workers(p)' = Workers(p)
    <3>1. ASSUME NEW r \in RunId PROVE r \in Workers(p) <=> work'[r].proc = p /\ Live(r)'
      <4>1. CASE r \in Workers(q)
        <5>1. work'[r] = Ended
          BY <1>2, <4>1 DEF Vanish
        <5>2. QED
          BY <2>1, <4>1, <5>1 DEF Workers, Live, Ended, NoWork
      <4>2. CASE r \notin Workers(q)
        BY <1>2, <4>2 DEF Vanish, Workers, Live
      <4>3. QED
        BY <4>1, <4>2
    <3>2. QED
      BY <3>1 DEF Workers, Live
  <2>4. QED
    BY <1>1, <2>1, <2>2, <2>3
<1>3. CASE StartProcess(q)
  <2>1. UNCHANGED <<call, work>> /\ Holders(p)' = Holders(p) /\ Workers(p)' = Workers(p)
    BY <1>3 DEF StartProcess, Holders, Workers, Live
  <2>2. CASE p = q
    <3>1. Holders(p) = {} /\ Workers(p) = {}
      BY <1>3, <2>2 DEF SlotInv, IdInv, DownIsIdle, StartProcess, Holders, Workers, Holding
    <3>2. slots'[p] = Slots /\ leaked'[p] = 0
      BY <1>0, <1>3, <2>2 DEF StartProcess, TypeOK
    <3>3. QED
      BY <2>1, <3>1, <3>2, FS_EmptySet, ConstantsAssumption
  <2>3. CASE p # q
    BY <1>0, <1>1, <1>3, <2>1, <2>3 DEF StartProcess, TypeOK
  <2>4. QED
    BY <2>2, <2>3
<1>4. CASE Shutdown(q)
  <2>1. mode[p] # "down" /\ UNCHANGED <<slots, leaked, call, work>>
    BY <1>0, <1>4 DEF Shutdown, EndLoop, TypeOK
  <2>2. Holders(p)' = Holders(p) /\ Workers(p)' = Workers(p)
    BY <2>1 DEF Holders, Workers, Live
  <2>3. QED
    BY <1>1, <2>1, <2>2
<1>5. QED
  BY <1>2, <1>3, <1>4 DEF ProcessStep, Crash, Exit

LEMMA InitSlotInv == Init => SlotInv
<1> SUFFICES ASSUME Init PROVE SlotConservation
  BY InitIdInv DEF SlotInv
<1>1. ASSUME NEW p \in Procs, mode[p] # "down" PROVE FALSE
  BY <1>1 DEF Init
<1>2. QED
  BY <1>1 DEF SlotConservation

LEMMA NextSlotInv == SlotInv /\ [Next]_vars => SlotInv'
<1> SUFFICES ASSUME SlotInv, [Next]_vars PROVE SlotConservation'
  BY NextIdInv DEF SlotInv
<1>1. CASE UNCHANGED vars
  BY <1>1 DEF SlotInv, SlotConservation, vars, Holders, Workers, Live
<1>2. QED
  BY <1>1, CallerConserves, WorkerConserves, ProcessConserves DEF Next

\* In every instance and every state, each permit of a running process's
\* semaphore (_run_slot_limit) is free, held by one caller that is starting a
\* run, held by one live background thread, or lost on an error path: nothing is
\* released twice, and what is lost is exactly what the two error paths lose.
THEOREM SlotsConserved == Spec => []SlotConservation
<1>1. SlotInv => SlotConservation
  BY DEF SlotInv
<1>2. QED
  BY InitSlotInv, NextSlotInv, <1>1, PTL DEF Spec

\* So a process never has more than MAX_BACKGROUND_RUNS live background threads.
Bounded == \A p \in Procs : mode[p] # "down" => Cardinality(Workers(p)) <= Slots

THEOREM SlotsBound == Spec => []Bounded
<1>1. SlotInv => Bounded
  <2>1. ASSUME SlotInv, NEW p \in Procs, mode[p] # "down" PROVE Cardinality(Workers(p)) <= Slots
    <3>1. slots[p] + Cardinality(Holders(p)) + Cardinality(Workers(p)) + leaked[p] = Slots
      BY <2>1 DEF SlotInv, SlotConservation
    <3>2. /\ slots[p] \in Nat /\ leaked[p] \in Nat /\ Slots \in Nat
          /\ Cardinality(Holders(p)) \in Nat /\ Cardinality(Workers(p)) \in Nat
      BY <2>1, Finite, ConstantsAssumption DEF SlotInv, IdInv, TypeOK
    <3>3. QED
      BY <3>1, <3>2
  <2>2. QED
    BY <2>1 DEF Bounded
<1>2. QED
  BY InitSlotInv, NextSlotInv, <1>1, PTL DEF Spec

-----------------------------------------------------------------------------
(* Cancel events belong to a thread, as long as threads can be started.     *)

EventInv == IdInv /\ EventHasExecutor

\* A step of a caller makes an event only in Register.
LEMMA CallerEventEffect ==
  ASSUME TypeOK, NEW c \in Callers, CallerStep(c) \/ Request(c), ~Register(c)
  PROVE  \A p \in Procs, r \in RunId : event'[p][r] # "none" => event[p][r] # "none"
<1>1. CASE CancelSignal(c)
  BY <1>1, ConstantsAssumption DEF CancelSignal, TypeOK
<1>2. CASE TickRaises(c)
  BY <1>2, ConstantsAssumption DEF TickRaises, EndLoop, TypeOK
<1>3. CASE UNCHANGED event
  BY <1>3
<1>4. QED
  BY <1>1, <1>2, <1>3 DEF CallerStep, ScanAlive, ScanOrphan, CloseOrphan, CloseOrphanRaises, Reread,
     RereadRaises, ScanDone, Acquire, StartRefused, Alloc, Append, CreateRaises, Launch,
     LaunchRaises, FailGet, FailFinish, FailFinishRaises, Release, CancelNoEvent, CancelForce,
     CancelForceRaises, PurgeSave, Request, Read, ReadRows, StartJob, StartManual, CancelRun, PurgeLoad

\* A caller that has registered its event can only start the thread.
LEMMA LaunchOnly ==
  ASSUME TypeOK, ThreadFaults = FALSE, NEW c \in Callers, call[c].pc = "launch", CallerStep(c) \/ Request(c)
  PROVE  Launch(c)
BY DEF CallerStep, ScanAlive, ScanOrphan, CloseOrphan, CloseOrphanRaises, Reread, TickRaises,
   RereadRaises, ScanDone, Acquire, StartRefused, Alloc, Append, CreateRaises, Register, Launch,
   LaunchRaises, FailGet, FailFinish, FailFinishRaises, Release, CancelSignal, CancelNoEvent,
   CancelForce, CancelForceRaises, PurgeSave, Request, Read, ReadRows, StartJob, StartManual,
   CancelRun, PurgeLoad, Begin, Step, ReturnFrom

LEMMA CallerEvents ==
  ASSUME EventInv, ThreadFaults = FALSE, NEW c \in Callers, CallerStep(c) \/ Request(c)
  PROVE  EventHasExecutor'
<1>0. IdInv /\ TypeOK /\ OnlyCaller(c) /\ IdEffect(c)
  BY CallerOnly, CallerIdEffect DEF EventInv, IdInv
<1>a. ASSUME Launch(c)
      PROVE  LET r == call[c].run IN
             /\ r \in RunId /\ call[c].pc = "launch" /\ work[r].pc = "none"
             /\ work'[r].pc = "plan" /\ work'[r].proc = Home[c]
             /\ \A s \in RunId : s # r => work'[s] = work[s]
  BY <1>0, <1>a DEF Launch, ReturnFrom, IdInv, OwnId, HasId, TypeOK
<1>b. UNCHANGED work \/ Launch(c)
  BY <1>0 DEF IdEffect
<1> SUFFICES ASSUME NEW p \in Procs, NEW r \in RunId, event'[p][r] # "none"
             PROVE  \/ r \in Workers(p)'
                    \/ \E d \in Callers : Home[d] = p /\ call'[d].pc = "launch" /\ call'[d].run = r
  BY DEF EventHasExecutor, Workers, Live
<1>1. CASE Register(c) /\ p = Home[c] /\ r = call[c].run
  <2>1. call'[c].pc = "launch" /\ call'[c].run = r
    BY <1>0, <1>1, CallerPc DEF Register
  <2>2. QED
    BY <1>1, <2>1
<1>2. CASE ~(Register(c) /\ p = Home[c] /\ r = call[c].run)
  <2>1. event[p][r] # "none"
    <3>1. CASE Register(c)
      BY <1>0, <1>2, <3>1, ConstantsAssumption DEF Register, TypeOK
    <3>2. CASE ~Register(c)
      BY <1>0, <3>2, CallerEventEffect
    <3>3. QED
      BY <3>1, <3>2
  <2>2. CASE r \in Workers(p)
    BY <1>a, <1>b, <2>2 DEF Workers, Live
  <2>3. CASE \E d \in Callers : Home[d] = p /\ call[d].pc = "launch" /\ call[d].run = r
    <3>1. PICK d \in Callers : Home[d] = p /\ call[d].pc = "launch" /\ call[d].run = r
      BY <2>3
    <3>2. CASE d = c
      <4>1. Launch(c)
        BY <1>0, <3>1, <3>2, LaunchOnly
      <4>2. QED
        BY <1>a, <3>1, <3>2, <4>1 DEF Workers, Live
    <3>3. CASE d # c
      BY <1>0, <3>1, <3>3 DEF OnlyCaller
    <3>4. QED
      BY <3>2, <3>3
  <2>4. QED
    BY <2>1, <2>2, <2>3 DEF EventInv, EventHasExecutor
<1>3. QED
  BY <1>1, <1>2

LEMMA WorkerEvents ==
  ASSUME EventInv, NEW r \in RunId, WorkerStep(r)
  PROVE  EventHasExecutor'
<1>0. TypeOK /\ WorkerEffect(r)
  BY WorkerStepEffect DEF EventInv, IdInv
<1>1. EventCleared(r) \/ UNCHANGED event
  BY <1>0 DEF WorkerEffect, Cleanup, EventCleared
<1> SUFFICES ASSUME NEW p \in Procs, NEW s \in RunId, event'[p][s] # "none"
             PROVE  \/ s \in Workers(p)'
                    \/ \E d \in Callers : Home[d] = p /\ call'[d].pc = "launch" /\ call'[d].run = s
  BY DEF EventHasExecutor, Workers, Live
<1>2. event[p][s] # "none"
  <2>0. event \in [Procs -> [RunId -> {"none", "clear", "set"}]]
    BY <1>0 DEF TypeOK
  <2>1. CASE EventCleared(r)
    <3>1. CASE p = work[r].proc /\ s = r
      BY <2>0, <2>1, <3>1 DEF EventCleared
    <3>2. CASE p = work[r].proc /\ s # r
      BY <2>0, <2>1, <3>2 DEF EventCleared
    <3>3. CASE p # work[r].proc
      BY <2>0, <2>1, <3>3 DEF EventCleared
    <3>4. QED
      BY <3>1, <3>2, <3>3
  <2>2. QED
    BY <1>1, <2>1
<1>3. CASE s \in Workers(p)
  <2>1. CASE s # r
    BY <1>0, <1>3, <2>1 DEF WorkerEffect, Workers, Live
  <2>2. CASE s = r /\ ~Cleanup(r)
    BY <1>0, <1>3, <2>2 DEF WorkerEffect, Workers, Live
  <2>3. CASE s = r /\ Cleanup(r)
    <3>1. work[r].proc = p
      BY <1>3, <2>3 DEF Workers
    <3>2. event'[p][s] = "none"
      BY <1>0, <2>3, <3>1 DEF Cleanup, TypeOK
    <3>3. QED
      BY <3>2
  <2>4. QED
    BY <2>1, <2>2, <2>3
<1>4. CASE \E d \in Callers : Home[d] = p /\ call[d].pc = "launch" /\ call[d].run = s
  BY <1>0, <1>4 DEF WorkerEffect
<1>5. QED
  BY <1>2, <1>3, <1>4 DEF EventInv, EventHasExecutor

LEMMA ProcessEvents ==
  ASSUME EventInv, NEW q \in Procs, ProcessStep(q)
  PROVE  EventHasExecutor'
<1>0. TypeOK
  BY DEF EventInv, IdInv
<1> SUFFICES ASSUME NEW p \in Procs, NEW s \in RunId, event'[p][s] # "none"
             PROVE  \/ s \in Workers(p)'
                    \/ \E d \in Callers : Home[d] = p /\ call'[d].pc = "launch" /\ call'[d].run = s
  BY DEF EventHasExecutor, Workers, Live
<1>1. CASE Vanish(q)
  <2>1. p # q /\ event[p][s] # "none"
    BY <1>0, <1>1 DEF Vanish, TypeOK
  <2>2. s \in Workers(p) => s \in Workers(p)'
    BY <1>1, <2>1 DEF Vanish, Workers, Live
  <2>3. \A d \in Callers : Home[d] = p => call'[d] = call[d]
    BY <1>1, <2>1 DEF Vanish
  <2>4. QED
    BY <2>1, <2>2, <2>3 DEF EventInv, EventHasExecutor
<1>2. CASE StartProcess(q) \/ Shutdown(q)
  <2>1. UNCHANGED <<call, work>> /\ event[p][s] # "none"
    BY <1>0, <1>2 DEF StartProcess, Shutdown, EndLoop, TypeOK
  <2>2. QED
    BY <2>1 DEF EventInv, EventHasExecutor, Workers, Live
<1>3. QED
  BY <1>1, <1>2 DEF ProcessStep, Crash, Exit

\* As long as Thread.start does not fail, a cancel event that can be found
\* belongs to a run whose thread is live or just about to be started, so that
\* cancel_run never answers "cancelling" for a run that nobody executes.
THEOREM EventsSound ==
  ASSUME ThreadFaults = FALSE
  PROVE  Spec => []EventHasExecutor
<1>1. Init => EventInv
  <2>1. Init => EventHasExecutor
    BY DEF Init, EventHasExecutor
  <2>2. QED
    BY <2>1, InitIdInv DEF EventInv
<1>2. EventInv /\ [Next]_vars => EventInv'
  <2> SUFFICES ASSUME EventInv, [Next]_vars PROVE EventHasExecutor'
    BY NextIdInv DEF EventInv
  <2>1. CASE UNCHANGED vars
    BY <2>1 DEF EventInv, EventHasExecutor, vars, Workers, Live
  <2>2. QED
    BY <2>1, CallerEvents, WorkerEvents, ProcessEvents DEF Next
<1>3. EventInv => EventHasExecutor
  BY DEF EventInv
<1>4. QED
  BY <1>1, <1>2, <1>3, PTL DEF Spec
=============================================================================
