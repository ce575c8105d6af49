-------------------------- MODULE RunOwners_proofs --------------------------
(***************************************************************************)
(* Which process owns a run: a row is closed as an orphan only when its    *)
(* thread has ended, and a scheduler that stops on a signal leaves no run  *)
(* behind.  A row carries the pid of its owner (owner_pid).  A pid that is *)
(* handed out twice can hide an orphan, but makes none: only the second    *)
(* theorem rests on pids being fresh.                                      *)
(***************************************************************************)
EXTENDS RunHistory_proofs

\* Run r has a row, no thread, and no caller that is about to start one.
Gone(r) ==
  /\ info[r].owner # NoPid /\ ~Live(r)
  /\ \A c \in Callers : call[c].pc \in {"register", "launch"} => call[c].run # r

\* A caller whose run has a row that no thread of its own writes yet.
Owning == {"register", "launch", "failget", "failfin"}

UpHasPid == \A p \in Procs : mode[p] # "down" => pid[p] \in used

OwnersUsed == \A r \in RunId :
  /\ info[r].owner \in used \cup {NoPid}
  /\ \A x \in Versions(r) : x.status # "absent" => info[r].owner \in used
  /\ \A c \in Callers : r \in call[c].seen => info[r].owner \in used

\* A live thread, and a caller about to start one, belong to the owner of the run.
ThreadsOwned == \A r \in RunId : Live(r) =>
  /\ work[r].proc \in Procs /\ mode[work[r].proc] # "down"
  /\ info[r].owner = pid[work[r].proc]

CallersOwn == \A c \in Callers : call[c].pc \in Owning => info[call[c].run].owner = pid[Home[c]]

OwnerInv == IdRowInv /\ UpHasPid /\ OwnersUsed /\ ThreadsOwned /\ CallersOwn

OrphansGone ==
  /\ \A c \in Callers : call[c].pc = "orphan" => \E r \in RunId : call[c].run = r /\ Gone(r)
  /\ \A r \in RunId : \A x \in Versions(r) : x.note = "owner_gone" => Gone(r)

OrphanInv == OwnerInv /\ OrphansGone

-----------------------------------------------------------------------------
(* Owners.                                                                  *)

LEMMA CallerOwners ==
  ASSUME OwnerInv, NEW c \in Callers, CallerStep(c) \/ Request(c)
  PROVE  UpHasPid' /\ OwnersUsed' /\ ThreadsOwned' /\ CallersOwn'
<1>0. /\ IdInv /\ TypeOK /\ OnlyCaller(c) /\ CallerMove(c) /\ mode[Home[c]] # "down"
      /\ \A p \in Procs : mode'[p] = "down" <=> mode[p] = "down"
      /\ UNCHANGED <<pid, used>>
      /\ UNCHANGED info \/ Append(c)
      /\ UNCHANGED work \/ Launch(c)
  BY CallerOnly, CallerKeeps, CallerIsUp, RequestMove, CallerStepMove DEF OwnerInv, IdRowInv, IdInv
<1>a. Home[c] \in Procs /\ pid[Home[c]] \in used
  BY <1>0, ConstantsAssumption DEF OwnerInv, UpHasPid
<1>b. \A r \in RunId : \/ info'[r] = info[r] /\ ~(Append(c) /\ call[c].run = r)
                       \/ Append(c) /\ call[c].run = r /\ info'[r].owner = pid[Home[c]]
  BY <1>0, AppendOwn
<1>1. UpHasPid'
  BY <1>0 DEF OwnerInv, UpHasPid
<1>2. OwnersUsed'
  <2> SUFFICES ASSUME NEW r \in RunId
               PROVE  /\ info'[r].owner \in used \cup {NoPid}
                      /\ \A x \in Versions(r)' : x.status # "absent" => info'[r].owner \in used
                      /\ \A d \in Callers : r \in call'[d].seen => info'[r].owner \in used
    BY <1>0 DEF OwnersUsed, Versions
  <2>1. CASE Append(c) /\ info'[r].owner = pid[Home[c]]
    BY <1>a, <2>1
  <2>2. CASE info'[r] = info[r] /\ ~(Append(c) /\ call[c].run = r)
    <3>1. ASSUME NEW x \in Versions(r)', x.status # "absent" PROVE info[r].owner \in used
      <4>1. x \in Versions(r) \/ Present(r)
        BY <1>0, <2>2, <3>1, CallerVersions DEF CallerWrites, NoRow
      <4>2. QED
        BY <3>1, <4>1 DEF OwnerInv, OwnersUsed, Versions, Present
    <3>2. ASSUME NEW d \in Callers, r \in call'[d].seen PROVE info[r].owner \in used
      <4>1. r \in call[d].seen \/ r \in Running
        BY <1>0, <3>2 DEF OnlyCaller, CallerMove, Idle
      <4>2. QED
        BY <4>1 DEF OwnerInv, OwnersUsed, Versions, Running
    <3>3. QED
      BY <2>2, <3>1, <3>2 DEF OwnerInv, OwnersUsed
  <2>3. QED
    BY <1>b, <2>1, <2>2
<1>3. ThreadsOwned'
  <2> SUFFICES ASSUME NEW r \in RunId, Live(r)'
               PROVE  /\ work'[r].proc \in Procs /\ mode[work'[r].proc] # "down"
                      /\ info'[r].owner = pid[work'[r].proc]
    BY <1>0 DEF ThreadsOwned
  <2>1. CASE UNCHANGED work
    <3>1. ~(Append(c) /\ call[c].run = r)
      BY <1>0, <2>1, AppendOwn DEF Live
    <3>2. QED
      BY <1>b, <2>1, <3>1 DEF OwnerInv, ThreadsOwned, Live
  <2>2. CASE Launch(c)
    <3>1. info' = info /\ call[c].pc = "launch"
      BY <2>2 DEF Launch, ReturnFrom, files
    <3>2. CASE call[c].run = r
      BY <1>0, <1>a, <2>2, <3>1, <3>2, LaunchOwn DEF OwnerInv, CallersOwn, Owning
    <3>3. CASE call[c].run # r
      BY <1>0, <2>2, <3>1, <3>3, LaunchOwn DEF OwnerInv, ThreadsOwned, Live
    <3>4. QED
      BY <3>2, <3>3
  <2>3. QED
    BY <1>0, <2>1, <2>2
<1>4. CallersOwn'
  <2> SUFFICES ASSUME NEW d \in Callers, call'[d].pc \in Owning
               PROVE  info'[call'[d].run].owner = pid[Home[d]]
    BY <1>0 DEF CallersOwn
  <2>1. CASE d = c /\ Append(c)
    BY <1>0, <2>1, AppendOwn
  <2>2. CASE d # c \/ ~Append(c)
    <3>1. call[d].pc \in Owning /\ call'[d].run = call[d].run
      <4>1. CASE d # c
        BY <1>0, <4>1 DEF OnlyCaller
      <4>2. CASE d = c /\ ~Append(c)
        <5>1. call[c].pc # "append" \/ call'[c] = Idle
          BY <1>0, <4>2, <2>2, AppendStep
        <5>2. QED
          BY <1>0, <4>2, <5>1 DEF CallerMove, Arrows, Idle, Owning
      <4>3. QED
        BY <2>2, <4>1, <4>2
    <3>2. call[d].run \in RunId /\ ~(Append(c) /\ call[c].run = call[d].run)
      <4>1. call[d].pc \in HasId
        BY <3>1 DEF Owning, HasId
      <4>2. QED
        BY <1>0, <2>2, <4>1, AppendOwn DEF IdInv, OwnId
    <3>3. QED
      BY <1>b, <3>1, <3>2 DEF OwnerInv, CallersOwn
  <2>3. QED
    BY <2>1, <2>2
<1>5. QED
  BY <1>1, <1>2, <1>3, <1>4

LEMMA WorkerOwners ==
  ASSUME OwnerInv, NEW r \in RunId, WorkerStep(r)
  PROVE  UpHasPid' /\ OwnersUsed' /\ ThreadsOwned' /\ CallersOwn'
<1>0. /\ TypeOK /\ UNCHANGED <<mode, pid, used, call, info>>
      /\ \A s \in RunId : Live(s)' => Live(s) /\ work'[s].proc = work[s].proc
  <2>1. TypeOK /\ WorkerEffect(r) /\ UNCHANGED info
    BY WorkerStepEffect, WorkerStepMove DEF OwnerInv, IdRowInv, IdInv
  <2>2. CASE Cleanup(r)
    <3>1. ~Live(r)'
      BY <2>1, <2>2 DEF Cleanup, TypeOK, Ended, NoWork, Live
    <3>2. QED
      BY <2>1, <3>1 DEF WorkerEffect, Live
  <2>3. QED
    BY <2>1, <2>2 DEF WorkerEffect, Live
<1>1. UpHasPid' /\ ThreadsOwned' /\ CallersOwn'
  BY <1>0 DEF OwnerInv, UpHasPid, ThreadsOwned, CallersOwn
<1>2. ASSUME NEW s \in RunId, NEW x \in Versions(s)', x.status # "absent" PROVE info[s].owner \in used
  <2>1. x \in Versions(s) \/ Present(s)
    BY <1>0, <1>2, WorkerVersions DEF WorkerWrites
  <2>2. QED
    BY <1>2, <2>1 DEF OwnerInv, OwnersUsed, Versions, Present
<1>3. OwnersUsed'
  BY <1>0, <1>2 DEF OwnerInv, OwnersUsed, Versions
<1>4. QED
  BY <1>1, <1>3

LEMMA ProcessOwners ==
  ASSUME OwnerInv, NEW p \in Procs, ProcessStep(p)
  PROVE  UpHasPid' /\ OwnersUsed' /\ ThreadsOwned' /\ CallersOwn'
<1>0. TypeOK /\ IdInv /\ ProcessMove(p) /\ UNCHANGED info
  BY ProcessStepMove DEF OwnerInv, IdRowInv, IdInv, ProcessMove, files
<1>1. /\ \A q \in Procs : q # p => mode'[q] = mode[q] /\ pid'[q] = pid[q]
      /\ used \subseteq used' /\ (mode'[p] # "down" => pid'[p] \in used')
  <2>1. CASE StartProcess(p)
    BY <1>0, <2>1 DEF StartProcess, TypeOK
  <2>2. CASE Shutdown(p)
    BY <1>0, <2>2 DEF Shutdown, EndLoop, TypeOK, OwnerInv, UpHasPid
  <2>3. CASE mode' = [mode EXCEPT ![p] = "down"] /\ UNCHANGED <<pid, used>>
    BY <1>0, <2>3 DEF TypeOK
  <2>4. QED
    BY <1>0, <2>1, <2>2, <2>3 DEF ProcessMove
<1>2. \A c \in Callers : call'[c] = call[c] \/ (call'[c] = Idle)
  BY <1>0 DEF ProcessMove, StartProcess, Shutdown
<1>3. UpHasPid'
  BY <1>1 DEF OwnerInv, UpHasPid
<1>4. OwnersUsed'
  BY <1>0, <1>1, <1>2, ProcessVersions DEF OwnerInv, OwnersUsed, Idle
<1>5. ThreadsOwned'
  <2> SUFFICES ASSUME NEW r \in RunId, Live(r)'
               PROVE  /\ work'[r].proc \in Procs /\ mode'[work'[r].proc] # "down"
                      /\ info[r].owner = pid'[work'[r].proc]
    BY <1>0 DEF ThreadsOwned
  <2>1. work'[r] = work[r] /\ Live(r)
    BY <1>0 DEF ProcessMove, StartProcess, Shutdown, Live, Ended, NoWork
  <2>2. /\ work[r].proc \in Procs /\ mode[work[r].proc] # "down" /\ info[r].owner = pid[work[r].proc]
    BY <2>1 DEF OwnerInv, ThreadsOwned
  <2>3. CASE work[r].proc # p
    BY <1>1, <2>1, <2>2, <2>3
  <2>4. CASE work[r].proc = p
    <3>1. r \in Workers(p) /\ ~StartProcess(p)
      BY <2>1, <2>2, <2>4 DEF Workers, StartProcess
    <3>2. Shutdown(p) /\ pid' = pid
      BY <1>0, <2>1, <3>1 DEF ProcessMove, Live, Ended, NoWork
    <3>3. mode'[p] # "down"
      BY <1>0, <3>2 DEF Shutdown, EndLoop, TypeOK
    <3>4. QED
      BY <2>1, <2>2, <2>4, <3>2, <3>3
  <2>5. QED
    BY <2>3, <2>4
<1>6. CallersOwn'
  <2> SUFFICES ASSUME NEW c \in Callers, call'[c].pc \in Owning
               PROVE  info[call'[c].run].owner = pid'[Home[c]]
    BY <1>0 DEF CallersOwn
  <2>1. call'[c] = call[c] /\ Home[c] \in Procs
    BY <1>2, ConstantsAssumption DEF Owning, Idle
  <2>2. pid'[Home[c]] = pid[Home[c]]
    <3>1. CASE Home[c] = p
      <4>1. ~StartProcess(p)
        BY <1>0, <2>1, <3>1 DEF IdInv, DownIsIdle, StartProcess, Owning
      <4>2. QED
        BY <1>0, <4>1 DEF ProcessMove
    <3>2. QED
      BY <1>1, <2>1, <3>1
  <2>3. QED
    BY <2>1, <2>2 DEF OwnerInv, CallersOwn
<1>7. QED
  BY <1>3, <1>4, <1>5, <1>6

LEMMA InitOwnerInv == Init => OwnerInv
<1>1. Init => UpHasPid /\ OwnersUsed /\ ThreadsOwned /\ CallersOwn
  BY DEF Init, UpHasPid, OwnersUsed, ThreadsOwned, CallersOwn, Versions, Purging, Idle, NoRow, NoWork, Live, Owning
<1>2. QED
  BY <1>1, InitIdRowInv DEF OwnerInv

LEMMA NextOwnerInv == OwnerInv /\ [Next]_vars => OwnerInv'
<1> SUFFICES ASSUME OwnerInv, [Next]_vars PROVE UpHasPid' /\ OwnersUsed' /\ ThreadsOwned' /\ CallersOwn'
  BY NextIdRowInv DEF OwnerInv
<1>1. CASE UNCHANGED vars
  BY <1>1 DEF OwnerInv, UpHasPid, OwnersUsed, ThreadsOwned, CallersOwn, Versions, Purging, Live, vars
<1>2. QED
  BY <1>1, CallerOwners, WorkerOwners, ProcessOwners DEF Next

-----------------------------------------------------------------------------
(* Orphans.                                                                 *)

\* A run is gone for good.
LEMMA GoneStays ==
  ASSUME OwnerInv, [Next]_vars, NEW r \in RunId, Gone(r)
  PROVE  Gone(r)'
<1>0. IdRowInv /\ IdInv /\ TypeOK
  BY DEF OwnerInv, IdRowInv, IdInv
<1>a. ASSUME NEW c \in Callers PROVE ~(call[c].pc = "append" /\ call[c].run = r)
  BY <1>0 DEF IdRowInv, UnwrittenIsAbsent, Unwritten, Gone
<1>1. ASSUME info'[r] = info[r], Live(r)' => Live(r),
             \A c \in Callers : call'[c] = call[c] \/ call'[c] = Idle
      PROVE  Gone(r)'
  BY <1>1 DEF Gone, Live, Idle
<1>2. ASSUME NEW c \in Callers, CallerStep(c) \/ Request(c) PROVE Gone(r)'
  <2>0. /\ OnlyCaller(c) /\ CallerMove(c)
        /\ UNCHANGED info \/ Append(c)
        /\ UNCHANGED work \/ Launch(c)
    BY <1>0, <1>2, CallerOnly, CallerKeeps, RequestMove, CallerStepMove
  <2>1. info'[r] = info[r]
    <3>1. ~(Append(c) /\ call[c].run = r)
      BY <1>0, <1>a, AppendOwn
    <3>2. QED
      BY <1>0, <2>0, <3>1, AppendOwn
  <2>2. ~Live(r)'
    <3>1. CASE Launch(c)
      <4>1. call[c].pc = "launch"
        BY <3>1 DEF Launch, ReturnFrom
      <4>2. call[c].run # r
        BY <4>1 DEF Gone
      <4>3. work'[r] = work[r]
        BY <1>0, <3>1, <4>2, LaunchOwn
      <4>4. QED
        BY <4>3 DEF Gone, Live
    <3>2. CASE UNCHANGED work
      BY <3>2 DEF Gone, Live
    <3>3. QED
      BY <2>0, <3>1, <3>2
  <2>3. ASSUME NEW d \in Callers, call'[d].pc \in {"register", "launch"} PROVE call'[d].run # r
    <3>1. CASE d # c
      BY <2>0, <2>3, <3>1 DEF OnlyCaller, Gone
    <3>2. CASE d = c
      <4>1. call[c].pc \in {"append", "register", "launch"} /\ call'[c].run = call[c].run
        BY <2>0, <2>3, <3>2 DEF CallerMove, Arrows, Idle
      <4>2. QED
        BY <1>a, <3>2, <4>1 DEF Gone
    <3>3. QED
      BY <3>1, <3>2
  <2>4. QED
    BY <2>1, <2>2, <2>3 DEF Gone, Live
<1>3. ASSUME NEW s \in RunId, WorkerStep(s) PROVE Gone(r)'
  <2>1. UNCHANGED <<call, info>> /\ WorkerEffect(s)
    BY <1>0, <1>3, WorkerStepEffect, WorkerStepMove DEF WorkerEffect
  <2>2. Live(r)' => Live(r)
    <3>1. CASE Cleanup(s)
      <4>1. ~Live(s)'
        BY <1>0, <3>1 DEF Cleanup, TypeOK, Ended, NoWork, Live
      <4>2. QED
        BY <2>1, <4>1 DEF WorkerEffect, Live
    <3>2. CASE ~Cleanup(s)
      BY <2>1, <3>2 DEF WorkerEffect, Live
    <3>3. QED
      BY <3>1, <3>2
  <2>3. QED
    BY <1>1, <2>1, <2>2
<1>4. ASSUME NEW p \in Procs, ProcessStep(p) PROVE Gone(r)'
  <2>1. ProcessMove(p) /\ UNCHANGED info
    BY <1>0, <1>4, ProcessStepMove DEF ProcessMove, files
  <2>2. Live(r)' => Live(r)
    BY <2>1 DEF ProcessMove, StartProcess, Shutdown, Live, Ended, NoWork
  <2>3. \A c \in Callers : call'[c] = call[c] \/ call'[c] = Idle
    BY <2>1 DEF ProcessMove, StartProcess, Shutdown
  <2>4. QED
    BY <1>1, <2>1, <2>2, <2>3
<1>5. CASE UNCHANGED vars
  BY <1>5 DEF vars, Gone, Live
<1>6. QED
  BY <1>2, <1>3, <1>4, <1>5 DEF Next

\* What a caller judges an orphan is gone, however old the row is that it read:
\* a thread, and a caller about to start one, would keep the pid in use.
LEMMA JudgedIsGone ==
  ASSUME OwnerInv, NEW c \in Callers, NEW r \in call[c].seen, r \in RunId, ~PidAlive(info[r].owner)
  PROVE  Gone(r)
<1>0. IdInv /\ TypeOK
  BY DEF OwnerInv, IdRowInv, IdInv
<1>1. info[r].owner # NoPid
  BY <1>0, ConstantsAssumption DEF OwnerInv, OwnersUsed, TypeOK
<1>2. ~Live(r)
  BY DEF OwnerInv, ThreadsOwned, PidAlive
<1>3. ASSUME NEW d \in Callers, call[d].pc \in {"register", "launch"} PROVE call[d].run # r
  <2>1. mode[Home[d]] # "down" /\ Home[d] \in Procs
    BY <1>0, <1>3, ConstantsAssumption DEF IdInv, DownIsIdle
  <2>2. info[call[d].run].owner = pid[Home[d]]
    BY <1>3 DEF OwnerInv, CallersOwn, Owning
  <2>3. QED
    BY <2>1, <2>2 DEF PidAlive
<1>4. QED
  BY <1>1, <1>2, <1>3 DEF Gone

LEMMA CallerOrphans ==
  ASSUME OrphanInv, NEW c \in Callers, CallerStep(c) \/ Request(c)
  PROVE  OrphansGone'
<1>0. /\ OwnerInv /\ IdInv /\ TypeOK /\ OnlyCaller(c) /\ CallerMove(c)
  BY CallerOnly, RequestMove, CallerStepMove DEF OrphanInv, OwnerInv, IdRowInv, IdInv
<1>a. [Next]_vars
  BY DEF Next
<1>1. ASSUME NEW d \in Callers, call'[d].pc = "orphan"
      PROVE  \E r \in RunId : call'[d].run = r /\ Gone(r)'
  <2>1. CASE d # c
    <3>1. call'[d] = call[d]
      BY <1>0, <2>1 DEF OnlyCaller
    <3>2. PICK r \in RunId : call[d].run = r /\ Gone(r)
      BY <1>1, <3>1 DEF OrphanInv, OrphansGone
    <3>3. QED
      BY <1>0, <1>a, <3>1, <3>2, GoneStays
  <2>2. CASE d = c
    <3>1. ScanOrphan(c)
      BY <1>0, <1>1, <2>2 DEF CallerMove, Arrows, Idle
    <3>2. PICK r \in RunId : /\ r \in call[c].seen /\ ~PidAlive(info[r].owner)
                             /\ call' = [call EXCEPT ![c].pc = "orphan", ![c].run = r]
      BY <3>1 DEF ScanOrphan, Newest
    <3>3. call'[c].run = r
      BY <1>0, <3>2 DEF TypeOK, Call
    <3>4. Gone(r)
      BY <1>0, <3>2, JudgedIsGone
    <3>5. Gone(r)'
      BY <1>0, <1>a, <3>4, GoneStays
    <3>6. QED
      BY <2>2, <3>3, <3>5
  <2>3. QED
    BY <2>1, <2>2
<1>2. ASSUME NEW r \in RunId, NEW x \in Versions(r)', x.note = "owner_gone"
      PROVE  Gone(r)'
  <2>1. x \in Versions(r) \/ (CloseOrphan(c) /\ call[c].run = r)
    BY <1>0, <1>2, CallerVersions DEF CallerWrites, Is, NoRow
  <2>2. Gone(r)
    BY <1>0, <1>2, <2>1, StepMove DEF CloseOrphan, OrphanInv, OrphansGone
  <2>3. QED
    BY <1>0, <1>a, <2>2, GoneStays
<1>3. QED
  BY <1>1, <1>2 DEF OrphansGone, Versions

LEMMA NextOrphanInv == OrphanInv /\ [Next]_vars => OrphanInv'
<1> SUFFICES ASSUME OrphanInv, [Next]_vars PROVE OrphansGone'
  BY NextOwnerInv DEF OrphanInv
<1>0. OwnerInv /\ IdInv /\ TypeOK
  BY DEF OrphanInv, OwnerInv, IdRowInv, IdInv
<1>1. ASSUME NEW r \in RunId, Gone(r) PROVE Gone(r)'
  BY <1>0, <1>1, GoneStays
<1>2. ASSUME \A c \in Callers : call'[c] = call[c] \/ call'[c] = Idle,
             \A r \in RunId : \A x \in Versions(r)' : x \in Versions(r) \/ x.note # "owner_gone"
      PROVE  OrphansGone'
  <2>1. ASSUME NEW c \in Callers, call'[c].pc = "orphan"
        PROVE  \E r \in RunId : call'[c].run = r /\ Gone(r)'
    <3>1. call'[c] = call[c]
      BY <1>2, <2>1 DEF Idle
    <3>2. PICK r \in RunId : call[c].run = r /\ Gone(r)
      BY <2>1, <3>1 DEF OrphanInv, OrphansGone
    <3>3. QED
      BY <1>1, <3>1, <3>2
  <2>2. ASSUME NEW r \in RunId, NEW x \in Versions(r)', x.note = "owner_gone" PROVE Gone(r)'
    <3>1. x \in Versions(r)
      BY <1>2, <2>2
    <3>2. Gone(r)
      BY <2>2, <3>1 DEF OrphanInv, OrphansGone
    <3>3. QED
      BY <1>1, <3>2
  <2>3. QED
    BY <2>1, <2>2 DEF OrphansGone, Versions
<1>3. ASSUME NEW s \in RunId, WorkerStep(s) PROVE OrphansGone'
  <2>1. UNCHANGED call
    BY <1>0, <1>3, WorkerStepEffect DEF WorkerEffect
  <2>2. \A r \in RunId : \A x \in Versions(r)' : x \in Versions(r) \/ x.note # "owner_gone"
    BY <1>0, <1>3, WorkerVersions DEF WorkerWrites, Is
  <2>3. QED
    BY <1>2, <2>1, <2>2
<1>4. ASSUME NEW p \in Procs, ProcessStep(p) PROVE OrphansGone'
  <2>1. ProcessMove(p)
    BY <1>0, <1>4, ProcessStepMove
  <2>2. \A c \in Callers : call'[c] = call[c] \/ call'[c] = Idle
    BY <2>1 DEF ProcessMove, StartProcess, Shutdown
  <2>3. QED
    BY <1>2, <2>1, <2>2, ProcessVersions
<1>5. CASE UNCHANGED vars
  <2>1. \A r \in RunId : Versions(r)' = Versions(r)
    BY <1>5 DEF Versions, Purging, vars
  <2>2. QED
    BY <1>2, <1>5, <2>1 DEF vars
<1>6. QED
  BY <1>3, <1>4, <1>5, CallerOrphans DEF Next

\* A run that was closed with "the owner process is no longer running" has no
\* live thread, in this state and for ever, however old the row was that
\* _reconcile_orphaned_run judged, also when a purge writes an older copy of that
\* row back, and also when pids are handed out again.
THEOREM OrphansSound == Spec => []OrphanClosureSound
<1>1. Init => OrphanInv
  <2>1. Init => OrphansGone
    BY DEF Init, OrphansGone, Versions, Purging, Idle, NoRow
  <2>2. QED
    BY <2>1, InitOwnerInv DEF OrphanInv
<1>2. OrphanInv => OrphanClosureSound
  <2> SUFFICES ASSUME OrphanInv, NEW r \in RunId, row[r].note = "owner_gone", Live(r) PROVE FALSE
    BY DEF OrphanClosureSound
  <2>1. Gone(r)
    BY DEF OrphanInv, OrphansGone, Versions
  <2>2. QED
    BY <2>1 DEF Gone
<1>3. QED
  BY <1>1, <1>2, NextOrphanInv, PTL DEF Spec

-----------------------------------------------------------------------------
(* What a scheduler leaves behind.                                          *)

PidsDistinct == \A p, q \in Procs : p # q /\ mode[p] # "down" /\ mode[q] # "down" => pid[p] # pid[q]

\* The rows a caller has read are still in the file.
ReadRowsPresent == \A c \in Callers :
  /\ \A r \in call[c].seen : Present(r)
  /\ call[c].pc \in {"orphan", "reread"} => \E r \in RunId : call[c].run = r /\ Present(r)

\* A loop ends between two ticks.
LoopsStop == \A p \in Loops, c \in Callers : mode[p] = "stopping" /\ Home[c] = p => call[c].pc = "idle"

\* A thread that is past its last write has closed its row.
EndsClosed == \A r \in RunId :
  work[r].pc \in {"cleanup", "resched"} \/ (work[r].pc = "pop" /\ work[r].out = "success") =>
    row[r].status # "running"

\* A running row of a process that lives has a thread there, or a caller that
\* is about to start the thread or to close the row.
RunsAreHeld == \A p \in Procs, r \in RunId :
  mode[p] # "down" /\ row[r].status = "running" /\ info[r].owner = pid[p] =>
    \/ r \in Workers(p)
    \/ \E c \in Callers : Home[c] = p /\ call[c].pc \in Owning /\ call[c].run = r

ExitInv ==
  /\ OwnerInv /\ NoPurge
  /\ PidsDistinct /\ ReadRowsPresent /\ LoopsStop /\ EndsClosed /\ RunsAreHeld

LEMMA PresentStays ==
  ASSUME IdRowInv, NoPurge, [Next]_vars, NEW r \in RunId, Present(r)
  PROVE  Present(r)'
BY RowChange DEF NoPurge, Present, Terminal

LEMMA NotYetRunning ==
  ASSUME IdRowInv, NoPurge, [Next]_vars, NEW r \in RunId, work[r].pc # "none", row[r].status # "running"
  PROVE  row'[r].status # "running"
<1>1. ~Unwritten(r)
  BY DEF IdRowInv, IdInv, FreshIds, OwnId, HasId, Unwritten
<1>2. QED
  BY <1>1, RowChange DEF NoPurge, Terminal

\* How a caller that owns a run without a thread lets it go.
LEMMA OwningStep ==
  ASSUME TypeOK, StoreFaults = FALSE, NEW c \in Callers, call[c].pc \in Owning, CallerStep(c) \/ Request(c)
  PROVE  \/ call'[c].pc \in Owning /\ call'[c].run = call[c].run
         \/ Launch(c) \/ FailFinish(c)
         \/ row[call[c].run].status # "running"
<1>1. CASE Register(c) \/ LaunchRaises(c)
  BY <1>1, StepMove DEF Register, LaunchRaises, Owning
<1>2. CASE FailGet(c)
  BY <1>2, StepMove DEF FailGet, Owning
<1>3. CASE FailFinishRaises(c)
  BY <1>3 DEF FailFinishRaises, StoreRaises
<1>4. CASE ~(Register(c) \/ LaunchRaises(c) \/ FailGet(c) \/ FailFinishRaises(c))
  BY <1>4 DEF Owning, CallerStep, ScanAlive, ScanOrphan, CloseOrphan, CloseOrphanRaises, Reread,
     RereadRaises, TickRaises, ScanDone, Acquire, StartRefused, Alloc, Append, CreateRaises, Release,
     CancelSignal, CancelNoEvent, CancelForce, CancelForceRaises, PurgeSave, Request, Read, ReadRows,
     StartJob, StartManual, CancelRun, PurgeLoad, Begin, Step, ReturnFrom
<1>5. QED
  BY <1>1, <1>2, <1>3, <1>4

\* The scheduler's tick cannot fail on a row that is there.
LEMMA NoTickRaises ==
  ASSUME ExitInv, StoreFaults = FALSE, NEW c \in Callers
  PROVE  ~TickRaises(c)
BY DEF TickRaises, StoreRaises, ExitInv, ReadRowsPresent, Present

LEMMA CallerExit ==
  ASSUME ExitInv, StoreFaults = FALSE, NEW c \in Callers, CallerStep(c) \/ Request(c)
  PROVE  PidsDistinct' /\ ReadRowsPresent' /\ LoopsStop' /\ EndsClosed' /\ RunsAreHeld'
<1>0. /\ OwnerInv /\ IdRowInv /\ IdInv /\ TypeOK /\ OnlyCaller(c) /\ CallerMove(c) /\ [Next]_vars
      /\ mode[Home[c]] # "down" /\ Home[c] \in Procs
  BY CallerOnly, CallerIsUp, RequestMove, CallerStepMove, ConstantsAssumption
  DEF ExitInv, OwnerInv, IdRowInv, IdInv, Next
<1>a. /\ UNCHANGED <<mode, pid>>
      /\ UNCHANGED info \/ Append(c)
      /\ UNCHANGED work \/ Launch(c)
  BY <1>0, CallerKeeps, NoTickRaises
<1>1. PidsDistinct'
  BY <1>a DEF ExitInv, PidsDistinct
<1>2. ReadRowsPresent'
  <2>1. \A r \in RunId : Present(r) => Present(r)'
    BY <1>0, PresentStays DEF ExitInv
  <2>2. \A d \in Callers : call[d].seen \subseteq RunId
    BY <1>0 DEF TypeOK, Call
  <2>3. ASSUME NEW d \in Callers, NEW r \in call'[d].seen PROVE Present(r)'
    <3>1. r \in call[d].seen \/ r \in Running
      BY <1>0, <2>3 DEF OnlyCaller, CallerMove, Idle
    <3>2. QED
      BY <2>1, <2>2, <3>1 DEF ExitInv, ReadRowsPresent, Running, Present
  <2>4. ASSUME NEW d \in Callers, call'[d].pc \in {"orphan", "reread"}
        PROVE  \E r \in RunId : call'[d].run = r /\ Present(r)'
    <3>1. CASE call[d].pc \in {"orphan", "reread"} /\ call'[d].run = call[d].run
      <4>1. PICK r \in RunId : call[d].run = r /\ Present(r)
        BY <3>1 DEF ExitInv, ReadRowsPresent
      <4>2. QED
        BY <2>1, <3>1, <4>1
    <3>2. CASE d = c /\ ScanOrphan(c)
      <4>1. PICK r \in RunId : /\ r \in call[c].seen
                               /\ call' = [call EXCEPT ![c].pc = "orphan", ![c].run = r]
        BY <3>2 DEF ScanOrphan, Newest
      <4>2. call'[c].run = r
        BY <1>0, <4>1 DEF TypeOK, Call
      <4>3. QED
        BY <2>1, <3>2, <4>1, <4>2 DEF ExitInv, ReadRowsPresent
    <3>3. QED
      BY <1>0, <2>4, <3>1, <3>2 DEF OnlyCaller, CallerMove, Arrows, Idle
  <2>5. QED
    BY <2>3, <2>4 DEF ReadRowsPresent, Present
<1>3. LoopsStop'
  <2>1. ASSUME NEW p \in Loops, mode[p] = "stopping", Home[c] = p PROVE FALSE
    <3>1. call[c].pc = "idle" /\ Request(c)
      <4>1. call[c].pc = "idle"
        BY <2>1 DEF ExitInv, LoopsStop
      <4>2. QED
        BY <4>1 DEF CallerStep, ScanAlive, ScanOrphan, CloseOrphan, CloseOrphanRaises, Reread,
           RereadRaises, TickRaises, ScanDone, Acquire, StartRefused, Alloc, Append, CreateRaises,
           Register, Launch, LaunchRaises, FailGet, FailFinish, FailFinishRaises, Release,
           CancelSignal, CancelNoEvent, CancelForce, CancelForceRaises, PurgeSave, Step, ReturnFrom
    <3>2. mode[Home[c]] = "up"
      BY <3>1 DEF Request, Read, ReadRows, StartJob, StartManual, CancelRun, PurgeLoad, Begin
    <3>3. QED
      BY <2>1, <3>2
  <2>2. QED
    BY <1>0, <1>a, <2>1 DEF ExitInv, LoopsStop, OnlyCaller
<1>4. EndsClosed'
  <2> SUFFICES ASSUME NEW r \in RunId,
                      work'[r].pc \in {"cleanup", "resched"} \/ (work'[r].pc = "pop" /\ work'[r].out = "success")
               PROVE  row'[r].status # "running"
    BY DEF EndsClosed
  <2>1. work'[r] = work[r]
    BY <1>0, <1>a, LaunchOwn
  <2>2. row[r].status # "running" /\ work[r].pc # "none"
    BY <2>1 DEF ExitInv, EndsClosed
  <2>3. QED
    BY <1>0, <2>2, NotYetRunning DEF ExitInv
<1>5. RunsAreHeld'
  <2> SUFFICES ASSUME NEW p \in Procs, NEW r \in RunId, mode[p] # "down",
                      row'[r].status = "running", info'[r].owner = pid[p]
               PROVE  \/ r \in Workers(p)'
                      \/ \E d \in Callers : Home[d] = p /\ call'[d].pc \in Owning /\ call'[d].run = r
    BY <1>a DEF RunsAreHeld
  <2>1. CASE Append(c) /\ call[c].run = r
    <3>1. /\ pid[p] = pid[Home[c]] /\ call'[c].pc \in Owning /\ call'[c].run = r
      BY <1>0, <2>1, AppendOwn DEF Owning
    <3>2. p = Home[c]
      BY <1>0, <3>1 DEF ExitInv, PidsDistinct
    <3>3. QED
      BY <3>1, <3>2
  <2>2. CASE ~(Append(c) /\ call[c].run = r)
    <3>1. info[r].owner = pid[p]
      BY <1>0, <1>a, <2>2, AppendOwn
    <3>2. row[r].status = "running" /\ ~(FailFinish(c) /\ call[c].run = r)
      <4>1. ~PurgeSave(c)
        BY DEF ExitInv, NoPurge, Purging, PurgeSave, ReturnFrom
      <4>2. row'[r] = row[r] \/ CallerWrites(c, r, row'[r])
        BY <1>0, <4>1, CallerRow
      <4>3. row[r].status = "running"
        BY <2>2, <4>2 DEF CallerWrites, Is
      <4>4. FailFinish(c) /\ call[c].run = r => row'[r].status = "failed"
        BY <1>0, FinishWrites DEF FailFinish, Is
      <4>5. QED
        BY <4>3, <4>4
    <3>3. CASE r \in Workers(p)
      <4>1. work'[r] = work[r]
        BY <1>0, <1>a, <3>3, LaunchOwn DEF Workers, Live
      <4>2. QED
        BY <3>3, <4>1 DEF Workers, Live
    <3>4. ASSUME NEW d \in Callers, Home[d] = p, call[d].pc \in Owning, call[d].run = r
          PROVE  \/ r \in Workers(p)'
                 \/ \E e \in Callers : Home[e] = p /\ call'[e].pc \in Owning /\ call'[e].run = r
      <4>1. CASE d # c
        BY <1>0, <3>4, <4>1 DEF OnlyCaller
      <4>2. CASE d = c /\ Launch(c)
        BY <1>0, <3>4, <4>2, LaunchOwn DEF Workers, Live
      <4>3. CASE d = c /\ ~Launch(c)
        BY <1>0, <3>2, <3>4, <4>3, OwningStep
      <4>4. QED
        BY <4>1, <4>2, <4>3
    <3>5. QED
      BY <3>1, <3>2, <3>3, <3>4 DEF ExitInv, RunsAreHeld
  <2>3. QED
    BY <2>1, <2>2
<1>6. QED
  BY <1>1, <1>2, <1>3, <1>4, <1>5

LEMMA WorkerExit ==
  ASSUME ExitInv, StoreFaults = FALSE, NEW r \in RunId, WorkerStep(r)
  PROVE  PidsDistinct' /\ ReadRowsPresent' /\ LoopsStop' /\ EndsClosed' /\ RunsAreHeld'
<1>0. /\ IdRowInv /\ TypeOK /\ [Next]_vars /\ WorkerMove(r) /\ Live(r)
      /\ UNCHANGED <<mode, pid, call, info>>
      /\ \A s \in RunId : s # r => work'[s] = work[s]
  BY WorkerStepEffect, WorkerStepMove
  DEF ExitInv, OwnerInv, IdRowInv, IdInv, WorkerEffect, Next
<1>1. work[r].out \in Terminal
  BY <1>0 DEF TypeOK, Work
<1>2. PidsDistinct' /\ LoopsStop'
  BY <1>0 DEF ExitInv, PidsDistinct, LoopsStop
<1>3. ReadRowsPresent'
  <2>1. \A s \in RunId : Present(s) => Present(s)'
    BY <1>0, PresentStays DEF ExitInv
  <2>2. \A d \in Callers : call[d].seen \subseteq RunId
    BY <1>0 DEF TypeOK, Call
  <2>3. QED
    BY <1>0, <2>1, <2>2 DEF ExitInv, ReadRowsPresent
<1>4. EndsClosed'
  <2> SUFFICES ASSUME NEW s \in RunId,
                      work'[s].pc \in {"cleanup", "resched"} \/ (work'[s].pc = "pop" /\ work'[s].out = "success")
               PROVE  row'[s].status # "running"
    BY DEF EndsClosed
  <2>1. CASE s # r
    BY <1>0, <2>1, NotYetRunning DEF ExitInv, EndsClosed
  <2>2. CASE s = r /\ WorkerQuiet(r) /\ UNCHANGED row
    BY <2>2 DEF WorkerQuiet, At, Keeps, Querying, StoreRaises, ExitInv, EndsClosed
  <2>3. CASE s = r /\ WorkerWrites(r, row'[r])
    BY <1>1, <2>3 DEF WorkerWrites, Is, Terminal
  <2>4. QED
    BY <1>0, <2>1, <2>2, <2>3 DEF WorkerMove, At
<1>5. RunsAreHeld'
  <2> SUFFICES ASSUME NEW p \in Procs, NEW s \in RunId, mode[p] # "down",
                      row'[s].status = "running", info[s].owner = pid[p]
               PROVE  \/ s \in Workers(p)'
                      \/ \E d \in Callers : Home[d] = p /\ call[d].pc \in Owning /\ call[d].run = s
    BY <1>0 DEF RunsAreHeld
  <2>1. row'[s] = row[s]
    BY <1>0, <1>1 DEF WorkerMove, WorkerWrites, Is, Terminal
  <2>2. CASE s \in Workers(p)
    <3>1. CASE s # r
      BY <1>0, <2>2, <3>1 DEF Workers, Live
    <3>2. CASE s = r
      <4>1. work[r].pc # "cleanup"
        BY <2>1, <3>2 DEF ExitInv, EndsClosed
      <4>2. Live(r)' /\ work'[r].proc = work[r].proc
        BY <1>0, <4>1, WorkerStepEffect DEF WorkerEffect, Cleanup
      <4>3. QED
        BY <2>2, <3>2, <4>2 DEF Workers, Live
    <3>3. QED
      BY <3>1, <3>2
  <2>3. QED
    BY <2>1, <2>2 DEF ExitInv, RunsAreHeld
<1>6. QED
  BY <1>2, <1>3, <1>4, <1>5

LEMMA ProcessExit ==
  ASSUME ExitInv, FreshPids = TRUE, NEW q \in Procs, ProcessStep(q)
  PROVE  PidsDistinct' /\ ReadRowsPresent' /\ LoopsStop' /\ EndsClosed' /\ RunsAreHeld'
<1>0. TypeOK /\ ProcessMove(q) /\ UNCHANGED <<row, info>>
  BY ProcessStepMove DEF ExitInv, OwnerInv, IdRowInv, IdInv, ProcessMove, files
<1>1. \A c \in Callers : call'[c] = call[c] \/ call'[c] = Idle
  BY <1>0 DEF ProcessMove, StartProcess, Shutdown
<1>2. \A r \in RunId : work'[r] = work[r] \/ work'[r].pc = "ended"
  BY <1>0 DEF ProcessMove, StartProcess, Shutdown, Ended, NoWork
<1>3. \A p \in Procs : p # q => mode'[p] = mode[p] /\ pid'[p] = pid[p]
  <2>1. CASE StartProcess(q)
    BY <1>0, <2>1 DEF StartProcess, TypeOK
  <2>2. CASE Shutdown(q)
    BY <1>0, <2>2 DEF Shutdown, EndLoop, TypeOK
  <2>3. QED
    BY <1>0, <2>1, <2>2 DEF ProcessMove, TypeOK
<1>4. ReadRowsPresent' /\ EndsClosed'
  BY <1>0, <1>1, <1>2 DEF ExitInv, ReadRowsPresent, EndsClosed, Present, Idle
<1>5. CASE StartProcess(q)
  <2>1. mode'[q] = "up" /\ pid'[q] \notin used /\ UNCHANGED <<call, work>>
    BY <1>0, <1>5 DEF StartProcess, TypeOK
  <2>2. PidsDistinct'
    BY <1>3, <2>1 DEF ExitInv, OwnerInv, UpHasPid, PidsDistinct
  <2>3. LoopsStop'
    BY <1>3, <2>1, ConstantsAssumption DEF ExitInv, LoopsStop
  <2>4. RunsAreHeld'
    <3> SUFFICES ASSUME NEW p \in Procs, NEW r \in RunId, mode'[p] # "down",
                        row[r].status = "running", info[r].owner = pid'[p]
                 PROVE  \/ r \in Workers(p)
                        \/ \E c \in Callers : Home[c] = p /\ call[c].pc \in Owning /\ call[c].run = r
      BY <1>0, <2>1 DEF RunsAreHeld, Workers, Live
    <3>1. info[r].owner \in used
      BY DEF ExitInv, OwnerInv, OwnersUsed, Versions
    <3>2. p # q /\ mode[p] # "down" /\ info[r].owner = pid[p]
      BY <1>3, <2>1, <3>1
    <3>3. QED
      BY <3>2 DEF ExitInv, RunsAreHeld
  <2>5. QED
    BY <1>4, <2>2, <2>3, <2>4
<1>6. CASE ~StartProcess(q)
  <2>1. UNCHANGED <<pid>> /\ \A p \in Procs : mode'[p] # "down" => mode[p] # "down"
    BY <1>0, <1>6 DEF ProcessMove, Shutdown, EndLoop, TypeOK
  <2>2. PidsDistinct'
    BY <2>1 DEF ExitInv, PidsDistinct
  <2>3. LoopsStop'
    <3> SUFFICES ASSUME NEW p \in Loops, NEW c \in Callers, mode'[p] = "stopping", Home[c] = p
                 PROVE  call'[c].pc = "idle"
      BY DEF LoopsStop
    <3>1. CASE mode[p] = "stopping"
      BY <1>1, <3>1 DEF ExitInv, LoopsStop, Idle
    <3>2. CASE mode[p] # "stopping"
      <4>1. p = q /\ Shutdown(q)
        BY <1>0, <1>3, <1>6, <3>2, ConstantsAssumption DEF ProcessMove, TypeOK
      <4>2. QED
        BY <1>1, <4>1 DEF Shutdown, Idle
    <3>3. QED
      BY <3>1, <3>2
  <2>4. RunsAreHeld'
    <3> SUFFICES ASSUME NEW p \in Procs, NEW r \in RunId, mode'[p] # "down",
                        row[r].status = "running", info[r].owner = pid[p]
                 PROVE  \/ r \in Workers(p)'
                        \/ \E c \in Callers : Home[c] = p /\ call'[c].pc \in Owning /\ call'[c].run = r
      BY <1>0, <2>1 DEF RunsAreHeld
    <3>1. \/ r \in Workers(p)
          \/ \E c \in Callers : Home[c] = p /\ call[c].pc \in Owning /\ call[c].run = r
      BY <2>1 DEF ExitInv, RunsAreHeld
    <3>2. p # q \/ UNCHANGED <<call, work>>
      BY <1>0, <1>6 DEF ProcessMove, TypeOK
    <3>3. r \in Workers(p) => r \in Workers(p)'
      BY <1>0, <1>6, <3>2 DEF ProcessMove, Workers, Live
    <3>4. \A c \in Callers : Home[c] = p => call'[c] = call[c]
      BY <1>0, <1>6, <3>2 DEF ProcessMove
    <3>5. QED
      BY <3>1, <3>3, <3>4
  <2>5. QED
    BY <1>4, <2>2, <2>3, <2>4
<1>7. QED
  BY <1>5, <1>6

\* If no pid is handed out twice, the history can be read and written, and
\* nobody purges a job: when a scheduler that got a signal exits by itself, no run
\* that it owns reads "running".  Its loop has finished its tick, and the interpreter
\* has waited for its threads, each of which closed its row before it ended.
THEOREM SchedulersExitClean ==
  ASSUME FreshPids = TRUE, StoreFaults = FALSE, PurgeJobs = {}
  PROVE  Spec => GracefulExit
<1>1. Init => ExitInv
  <2>1. Init => PidsDistinct /\ ReadRowsPresent /\ LoopsStop /\ EndsClosed /\ RunsAreHeld
    BY ConstantsAssumption DEF Init, PidsDistinct, ReadRowsPresent, LoopsStop, EndsClosed, RunsAreHeld,
       Idle, NoRow, NoWork
  <2>2. QED
    BY <2>1, InitOwnerInv, InitNoPurge DEF ExitInv
<1>2. ExitInv /\ [Next]_vars => ExitInv'
  <2> SUFFICES ASSUME ExitInv, [Next]_vars
               PROVE  PidsDistinct' /\ ReadRowsPresent' /\ LoopsStop' /\ EndsClosed' /\ RunsAreHeld'
    BY NextOwnerInv, NextNoPurge DEF ExitInv, OwnerInv, IdRowInv
  <2>1. CASE UNCHANGED vars
    BY <2>1 DEF ExitInv, PidsDistinct, ReadRowsPresent, LoopsStop, EndsClosed, RunsAreHeld, Present,
       Workers, Live, vars
  <2>2. QED
    BY <2>1, CallerExit, WorkerExit, ProcessExit DEF Next
<1>3. ExitInv /\ [Next]_vars =>
        [\A p \in Loops : Exit(p) =>
           \A r \in RunId : row[r].status = "running" => info[r].owner # pid[p]]_vars
  <2> SUFFICES ASSUME ExitInv, NEW p \in Loops, Exit(p), NEW r \in RunId,
                      row[r].status = "running", info[r].owner = pid[p]
               PROVE  FALSE
    OBVIOUS
  <2>1. mode[p] = "stopping" /\ Workers(p) = {} /\ p \in Procs
    BY ConstantsAssumption DEF Exit
  <2>2. PICK c \in Callers : Home[c] = p /\ call[c].pc \in Owning
    BY <2>1 DEF ExitInv, RunsAreHeld
  <2>3. QED
    BY <2>1, <2>2 DEF ExitInv, LoopsStop, Owning
<1>4. QED
  BY <1>1, <1>2, <1>3, PTL DEF Spec, GracefulExit
=============================================================================
