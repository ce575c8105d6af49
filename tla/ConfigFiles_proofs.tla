-------------------------- MODULE ConfigFiles_proofs --------------------------
(***************************************************************************)
(* ConfigFiles implements Configuration, for any number of processes,      *)
(* callers, jobs, packs and rule sets.                                     *)
(***************************************************************************)
EXTENDS ConfigFiles, TLAPS

-----------------------------------------------------------------------------
(* What the operations do to a registry and its packs.                      *)

Present(w, p) == \A j \in JobId : Registered(w, j) => Exists(p, JobPack(j))

LEMMA AbsentIsNoContent == Absent \notin Content /\ (\A c \in Content : c.text \in Texts)
BY ConfigurationAssumption DEF Absent, Content, NoJob

LEMMA NoPacksType == NoJobs \in Registry /\ NoPacks \in Packs
BY ConfigurationAssumption DEF NoJobs, NoPacks, Registry, Packs, NoJob

LEMMA JobPackIsName == \A j \in JobId : JobPack(j) \in Name /\ JobPack(j)[1] = "job"
BY DEF JobPack, Name

LEMMA SavedType ==
  ASSUME NEW p \in Packs, NEW n \in Name, NEW c \in Content
  PROVE  /\ Saved(p, n, c) \in Packs
         /\ Exists(Saved(p, n, c), n)
         /\ \A m \in Name : Exists(p, m) => Exists(Saved(p, n, c), m)
BY AbsentIsNoContent DEF Saved, Packs, Exists

LEMMA RemovedType ==
  ASSUME NEW p \in Packs, NEW n \in Name
  PROVE  /\ Removed(p, n) \in Packs
         /\ \A m \in Name \ {n} : Exists(p, m) => Exists(Removed(p, n), m)
BY DEF Removed, Packs, Exists

\* An outcome is well-formed; a pack that a registered job needs is there
\* whether or not the registry has been written already.
Sound(w, p, o) ==
  /\ o \in Outcome
  /\ ~o.both => o.registry = w
  /\ Present(w, p) => Present(w, o.packs) /\ Present(o.registry, o.packs)

LEMMA SameRegistry ==
  ASSUME NEW w \in Registry, NEW p \in Packs, NEW q \in Packs, NEW b \in BOOLEAN,
         Present(w, p) => Present(w, q)
  PROVE  Sound(w, p, [registry |-> w, packs |-> q, both |-> b])
BY DEF Sound, Outcome

\* Saving a pack takes none away.
LEMMA SavedPresent ==
  ASSUME NEW w \in Registry, NEW p \in Packs, NEW n \in Name, NEW c \in Content, Present(w, p)
  PROVE  Present(w, Saved(p, n, c))
BY SavedType, JobPackIsName DEF Present

LEMMA EntryType ==
  ASSUME NEW w \in Registry, NEW j \in JobId, NEW t \in Texts \cup {NoJob}
  PROVE  /\ [w EXCEPT !.job[j] = t] \in Registry
         /\ \A i \in JobId \ {j} : [w EXCEPT !.job[j] = t].job[i] = w.job[i]
         /\ [w EXCEPT !.job[j] = t].job[j] = t
BY DEF Registry

LEMMA CreateJobSound ==
  ASSUME NEW w \in Registry, NEW p \in Packs, NEW c \in Content, NEW o \in CreateJob(w, p, c)
  PROVE  Sound(w, p, o)
<1>1. PICK j \in JobId : j = w.next /\ o = Both([w EXCEPT !.job[j] = c.text, !.next = j + 1], Saved(p, JobPack(j), c))
  BY DEF CreateJob
<1> DEFINE v == [w EXCEPT !.job[j] = c.text, !.next = j + 1]
<1>2. v \in Registry /\ \A i \in JobId \ {j} : v.job[i] = w.job[i]
  <2> DEFINE u == [w EXCEPT !.job[j] = c.text]
  <2>1. u \in Registry /\ \A i \in JobId \ {j} : u.job[i] = w.job[i]
    BY AbsentIsNoContent, EntryType
  <2>2. j + 1 \in 1..(MaxJobs + 1)
    BY ConfigurationAssumption DEF JobId
  <2>3. v = [u EXCEPT !.next = j + 1]
    OBVIOUS
  <2> HIDE DEF u
  <2>4. [u EXCEPT !.next = j + 1] \in Registry /\ [u EXCEPT !.next = j + 1].job = u.job
    BY <2>1, <2>2 DEF Registry
  <2>5. QED
    BY <2>1, <2>3, <2>4
<1>3. Saved(p, JobPack(j), c) \in Packs /\ Exists(Saved(p, JobPack(j), c), JobPack(j))
  BY SavedType, JobPackIsName
<1>4. Present(w, p) => Present(w, Saved(p, JobPack(j), c)) /\ Present(v, Saved(p, JobPack(j), c))
  BY <1>2, <1>3, SavedPresent, JobPackIsName DEF Present, Registered
<1>5. QED
  BY <1>1, <1>2, <1>3, <1>4 DEF Sound, Both, Outcome

LEMMA UpdateJobSound ==
  ASSUME NEW w \in Registry, NEW p \in Packs, NEW c \in Content, NEW o \in UpdateJob(w, p, c)
  PROVE  Sound(w, p, o)
<1>1. PICK j \in JobId : o = Both([w EXCEPT !.job[j] = c.text], Saved(p, JobPack(j), c))
  BY DEF UpdateJob
<1> DEFINE v == [w EXCEPT !.job[j] = c.text]
<1>2. v \in Registry /\ \A i \in JobId \ {j} : v.job[i] = w.job[i]
  BY AbsentIsNoContent, EntryType
<1>3. Saved(p, JobPack(j), c) \in Packs /\ Exists(Saved(p, JobPack(j), c), JobPack(j))
  BY SavedType, JobPackIsName
<1>4. Present(w, p) => Present(w, Saved(p, JobPack(j), c)) /\ Present(v, Saved(p, JobPack(j), c))
  BY <1>2, <1>3, SavedPresent, JobPackIsName DEF Present, Registered
<1>5. QED
  BY <1>1, <1>2, <1>3, <1>4 DEF Sound, Both, Outcome

\* An entry is changed or purged; the packs stay.
LEMMA EntrySound ==
  ASSUME NEW w \in Registry, NEW p \in Packs, NEW t \in Texts,
         NEW o \in EditJob(w, p, t) \cup PurgeJob(w, p)
  PROVE  Sound(w, p, o)
<1>1. PICK j \in JobId, u \in Texts \cup {NoJob} :
        Registered(w, j) /\ o = Both([w EXCEPT !.job[j] = u], p)
  BY DEF EditJob, PurgeJob
<1> DEFINE v == [w EXCEPT !.job[j] = u]
<1>2. v \in Registry /\ \A i \in JobId \ {j} : v.job[i] = w.job[i]
  BY EntryType
<1>3. Present(w, p) => Present(v, p)
  BY <1>1, <1>2 DEF Present, Registered
<1>4. QED
  BY <1>1, <1>2, <1>3 DEF Sound, Both, Outcome

LEMMA PackSound ==
  ASSUME NEW w \in Registry, NEW p \in Packs, NEW c \in Content,
         NEW o \in CreatePack(w, p, c) \cup UpdatePack(w, p, c)
  PROVE  Sound(w, p, o)
<1>1. PICK n \in Name : o = PackOnly(w, Saved(p, n, c))
  BY DEF CreatePack, UpdatePack
<1>2. QED
  BY <1>1, SavedType, SavedPresent, SameRegistry DEF PackOnly

LEMMA DeletePackSound ==
  ASSUME NEW w \in Registry, NEW p \in Packs, NEW o \in DeletePack(w, p)
  PROVE  Sound(w, p, o)
<1>1. PICK n \in Name : ~Referenced(w, n) /\ o = Both(w, Removed(p, n))
  BY DEF DeletePack
<1>2. Present(w, p) => Present(w, Removed(p, n))
  BY <1>1, RemovedType, JobPackIsName DEF Present, Referenced
<1>3. QED
  BY <1>1, <1>2, RemovedType, SameRegistry DEF Both

\* Own packs are no packs of jobs.
LEMMA OwnPackName ==
  ASSUME NEW p \in Packs, NEW r, NEW n \in OwnPack(p, r)
  PROVE  n \in Name /\ \A j \in JobId : JobPack(j) # n
BY JobPackIsName DEF OwnPack, Holders

LEMMA RuleSetSound ==
  ASSUME NEW w \in Registry, NEW p \in Packs, NEW r \in RuleId, NEW t \in Texts,
         NEW o \in CreateRuleSet(w, p, t) \cup UpdateRuleSet(w, p, r, t)
  PROVE  Sound(w, p, o)
<1>1. PICK n \in Name, s \in RuleId : o = Both(w, Saved(p, n, [rule |-> s, text |-> t]))
  BY OwnPackName DEF CreateRuleSet, UpdateRuleSet, Name, NewRuleId
<1>2. [rule |-> s, text |-> t] \in Content
  BY DEF Content
<1>3. QED
  BY <1>1, <1>2, SavedType, SavedPresent, SameRegistry DEF Both

LEMMA DeleteRuleSetSound ==
  ASSUME NEW w \in Registry, NEW p \in Packs, NEW o \in DeleteRuleSet(w, p)
  PROVE  Sound(w, p, o)
<1>1. PICK r \in RuleId, n \in Name : n \in OwnPack(p, r) /\ o = Both(w, Removed(p, n))
  BY OwnPackName DEF DeleteRuleSet
<1>2. n \in Name /\ \A j \in JobId : JobPack(j) # n
  BY <1>1, OwnPackName
<1>3. Present(w, p) => Present(w, Removed(p, n))
  BY <1>2, RemovedType, JobPackIsName DEF Present
<1>4. QED
  BY <1>1, <1>2, <1>3, RemovedType, SameRegistry DEF Both

LEMMA OutcomesSound ==
  ASSUME NEW w \in Registry, NEW p \in Packs, NEW o \in Outcomes(w, p)
  PROVE  Sound(w, p, o)
<1>1. CASE \E c \in Content : o \in CreateJob(w, p, c) \cup UpdateJob(w, p, c)
  BY <1>1, CreateJobSound, UpdateJobSound
<1>2. CASE \E c \in Content : o \in CreatePack(w, p, c) \cup UpdatePack(w, p, c)
  BY <1>2, PackSound
<1>3. CASE \E t \in Texts : o \in EditJob(w, p, t)
  BY <1>3, EntrySound
<1>4. CASE \E t \in Texts : o \in CreateRuleSet(w, p, t)
  BY <1>4, RuleSetSound, ConfigurationAssumption DEF RuleId
<1>5. CASE \E r \in RuleId, t \in Texts : o \in UpdateRuleSet(w, p, r, t)
  BY <1>5, RuleSetSound
<1>6. CASE o \in PurgeJob(w, p)
  <2>1. CASE Texts = {}
    BY <1>6, <2>1 DEF PurgeJob, Registered, Registry
  <2>2. CASE Texts # {}
    BY <1>6, <2>2, EntrySound
  <2>3. QED
    BY <2>1, <2>2
<1>7. CASE o \in DeletePack(w, p)
  BY <1>7, DeletePackSound
<1>8. CASE o \in DeleteRuleSet(w, p)
  BY <1>8, DeleteRuleSetSound
<1>9. QED
  BY <1>1, <1>2, <1>3, <1>4, <1>5, <1>6, <1>7, <1>8 DEF Outcomes

-----------------------------------------------------------------------------
(* The inductive invariant: the lock protects everything a caller has read, *)
(* until it gives the lock back.                                            *)

Busy(c) == txn[c].pc # "idle"

\* What a caller that holds the lock works with is what the files held when it
\* took the lock, but for what it has written itself.
HolderOK(c) ==
  /\ lock = c
  /\ txn[c].target \in Outcomes(registry, txn[c].base)
  /\ Present(registry, txn[c].base)
  /\ txn[c].pc = "pack" => packs = txn[c].base
  /\ txn[c].pc \in {"registry", "undo"} => txn[c].target.both /\ packs = txn[c].target.packs

FilesInv ==
  /\ FilesTypeOK
  /\ \A c \in Callers : Busy(c) => HolderOK(c)
  /\ Present(registry, packs)

LEMMA IdleType == Idle \in Txn /\ Idle.pc = "idle"
BY NoPacksType DEF Idle, Txn, NoTarget, Both, Outcome

\* The lock is free: nobody is in the middle of anything.
LEMMA FreeLock == ASSUME FilesInv, lock = Nobody PROVE \A c \in Callers : ~Busy(c)
BY FilesAssumption DEF FilesInv, HolderOK

LEMMA OnlyHolder == ASSUME FilesInv, NEW c \in Callers, Busy(c) PROVE \A d \in Callers \ {c} : ~Busy(d)
BY DEF FilesInv, HolderOK

LEMMA TargetSound ==
  ASSUME FilesInv, NEW c \in Callers, Busy(c)
  PROVE  Sound(registry, txn[c].base, txn[c].target)
BY OutcomesSound DEF FilesInv, HolderOK, FilesTypeOK, TypeOK, Txn

LEMMA InitFiles == FilesInit => FilesInv
BY IdleType, NoPacksType, ConfigurationAssumption, FilesAssumption
   DEF FilesInit, Init, FilesInv, FilesTypeOK, TypeOK, Busy, Present, Registered, NoJobs

\* A step after which its caller is idle, and the lock is free.
LEMMA DoneInv ==
  ASSUME FilesInv, NEW c \in Callers, Busy(c), Done(c),
         registry' \in Registry, packs' \in Packs, torn' \in 0..MaxTorn,
         cache' \in [Procs -> Registry \cup {NoCache}], Present(registry', packs')
  PROVE  FilesInv'
<1>1. txn' \in [Callers -> Txn] /\ lock' = Nobody /\ \A d \in Callers : txn'[d].pc = "idle"
  BY IdleType, OnlyHolder DEF FilesInv, FilesTypeOK, Done, Busy
<1>2. QED
  BY <1>1 DEF FilesInv, FilesTypeOK, TypeOK, Busy

\* A step by which a caller goes on, and the registry stays.
LEMMA GoesOnInv ==
  ASSUME FilesInv, NEW c \in Callers, NEW pc \in {"registry", "undo"},
         Busy(c), txn' = [txn EXCEPT ![c].pc = pc], UNCHANGED <<registry, torn, lock, cache>>,
         txn[c].target.both, packs' = txn[c].target.packs
  PROVE  FilesInv'
<1>1. Sound(registry, txn[c].base, txn[c].target)
  BY TargetSound
<1>2. /\ txn' \in [Callers -> Txn]
      /\ txn'[c].pc = pc /\ txn'[c].target = txn[c].target /\ txn'[c].base = txn[c].base
      /\ \A d \in Callers \ {c} : txn'[d] = txn[d]
  BY DEF FilesInv, FilesTypeOK, Txn
<1>3. packs' \in Packs /\ Present(registry, packs')
  BY <1>1 DEF Sound, FilesInv, HolderOK, Outcome
<1>4. \A d \in Callers \ {c} : ~Busy(d)
  BY OnlyHolder
<1>5. \A d \in Callers : Busy(d)' => HolderOK(d)'
  BY <1>2, <1>4 DEF Busy, HolderOK, FilesInv
<1>6. QED
  BY <1>2, <1>3, <1>5 DEF FilesInv, FilesTypeOK, TypeOK

LEMMA StepFiles == FilesInv /\ [FilesNext]_all => FilesInv'
<1> SUFFICES ASSUME FilesInv, [FilesNext]_all PROVE FilesInv'
  OBVIOUS
<1>0. TypeOK /\ registry \in Registry /\ packs \in Packs /\ torn \in 0..MaxTorn
      /\ txn \in [Callers -> Txn] /\ cache \in [Procs -> Registry \cup {NoCache}]
  BY DEF FilesInv, FilesTypeOK, TypeOK
<1>1. ASSUME NEW c \in Callers, GetWorkspace(c) PROVE FilesInv'
  <2>1. cache' \in [Procs -> Registry \cup {NoCache}]
    BY <1>0, <1>1, FilesAssumption DEF GetWorkspace
  <2>2. UNCHANGED <<registry, packs, torn, lock, txn>>
    BY <1>1 DEF GetWorkspace, files
  <2>3. QED
    BY <2>1, <2>2 DEF FilesInv, FilesTypeOK, TypeOK, Busy, HolderOK
<1>2. ASSUME NEW c \in Callers, Acquire(c) PROVE FilesInv'
  <2>1. PICK o \in Outcomes(registry, packs) :
          txn' = [txn EXCEPT ![c] = [pc |-> IF o.packs = packs /\ o.both THEN "registry" ELSE "pack",
                                     target |-> o, base |-> packs]]
    BY <1>2 DEF Acquire, Loaded
  <2>2. Sound(registry, packs, o)
    BY <1>0, OutcomesSound
  <2>3. txn' \in [Callers -> Txn] /\ \A d \in Callers \ {c} : txn'[d] = txn[d]
    BY <1>0, <2>1, <2>2 DEF Txn, Sound
  <2>4. UNCHANGED <<registry, packs, torn, cache>> /\ lock' = c /\ lock = Nobody
    BY <1>2 DEF Acquire, files
  <2>5. \A d \in Callers : Busy(d)' => d = c
    BY <2>3, <2>4, FreeLock DEF Busy
  <2>6. HolderOK(c)'
    BY <1>0, <2>1, <2>4 DEF HolderOK, FilesInv
  <2>7. QED
    BY <1>0, <2>3, <2>4, <2>5, <2>6 DEF FilesInv, FilesTypeOK, TypeOK
<1>3. ASSUME NEW c \in Callers, WritePack(c) PROVE FilesInv'
  <2>1. Busy(c) /\ Sound(registry, txn[c].base, txn[c].target) /\ Present(registry, txn[c].base)
    BY <1>3, TargetSound DEF Busy, WritePack, FilesInv, HolderOK
  <2>2. packs' = txn[c].target.packs /\ UNCHANGED <<registry, torn, cache>>
    BY <1>3 DEF WritePack
  <2>3. CASE txn[c].target.both /\ txn' = [txn EXCEPT ![c].pc = "registry"] /\ UNCHANGED lock
    BY <2>1, <2>2, <2>3, GoesOnInv
  <2>4. CASE Done(c)
    <3>1. packs' \in Packs /\ Present(registry', packs')
      BY <2>1, <2>2 DEF Sound, Outcome
    <3>2. QED
      BY <1>0, <2>1, <2>2, <2>4, <3>1, DoneInv
  <2>5. QED
    BY <1>3, <2>3, <2>4 DEF WritePack
<1>4. ASSUME NEW c \in Callers, WriteRegistry(c) PROVE FilesInv'
  <2>1. Busy(c) /\ Sound(registry, txn[c].base, txn[c].target) /\ Present(registry, txn[c].base)
    BY <1>4, TargetSound DEF Busy, WriteRegistry, FilesInv, HolderOK
  <2>2. packs = txn[c].target.packs
    BY <1>4, <2>1 DEF WriteRegistry, FilesInv, HolderOK
  <2>3. /\ registry' = txn[c].target.registry /\ UNCHANGED <<packs, torn>>
        /\ Done(c) /\ Cached(Home[c], txn[c].target.registry)
    BY <1>4 DEF WriteRegistry
  <2>4. registry' \in Registry /\ Present(registry', packs')
    BY <2>1, <2>2, <2>3 DEF Sound, Outcome
  <2>5. cache' \in [Procs -> Registry \cup {NoCache}]
    BY <1>0, <2>3, <2>4 DEF Cached
  <2>6. QED
    BY <1>0, <2>1, <2>3, <2>4, <2>5, DoneInv
<1>5. ASSUME NEW c \in Callers, WriteRaises(c) PROVE FilesInv'
  <2>1. Busy(c) /\ UNCHANGED <<registry, packs, torn, cache>>
    BY <1>5 DEF Busy, WriteRaises, files
  <2>2. CASE Done(c)
    BY <1>0, <2>1, <2>2, DoneInv DEF FilesInv, Present, Registered, Exists
  <2>3. CASE txn[c].pc = "registry" /\ txn' = [txn EXCEPT ![c].pc = "undo"] /\ UNCHANGED lock
    <3>1. txn[c].target.both /\ packs' = txn[c].target.packs
      BY <2>1, <2>3 DEF FilesInv, HolderOK
    <3>2. QED
      BY <2>1, <2>3, <3>1, GoesOnInv
  <2>4. QED
    BY <1>5, <2>2, <2>3 DEF WriteRaises
<1>6. ASSUME NEW c \in Callers, Rollback(c) PROVE FilesInv'
  <2>1. Busy(c) /\ Done(c) /\ packs' = txn[c].base /\ UNCHANGED <<registry, torn, cache>>
    BY <1>6 DEF Busy, Rollback
  <2>2. packs' \in Packs /\ Present(registry', packs')
    BY <1>0, <2>1 DEF FilesInv, HolderOK, Txn, Present, Registered, Exists
  <2>3. QED
    BY <1>0, <2>1, <2>2, DoneInv
<1>7. ASSUME NEW c \in Callers, RollbackRaises(c) PROVE FilesInv'
  <2>1. Busy(c) /\ Done(c) /\ UNCHANGED <<registry, packs, cache>> /\ torn' \in 0..MaxTorn
    BY <1>0, <1>7, ConfigurationAssumption DEF Busy, RollbackRaises
  <2>2. QED
    BY <1>0, <2>1, DoneInv DEF FilesInv, Present, Registered, Exists
<1>8. ASSUME NEW p \in Procs, Crash(p) PROVE FilesInv'
  <2>1. UNCHANGED <<registry, packs>> /\ torn' \in 0..MaxTorn
    BY <1>0, <1>8, ConfigurationAssumption DEF Crash
  <2>2. cache' \in [Procs -> Registry \cup {NoCache}] /\ txn' \in [Callers -> Txn]
        /\ lock' \in Callers \cup {Nobody}
    BY <1>0, <1>8, IdleType DEF Crash, FilesInv, FilesTypeOK
  <2>3. \A c \in Callers : Busy(c)' => txn'[c] = txn[c] /\ Home[c] # p /\ Busy(c)
    BY <1>8, IdleType DEF Crash, Busy
  <2>4. \A c \in Callers : Busy(c)' => HolderOK(c)'
    <3> SUFFICES ASSUME NEW c \in Callers, Busy(c)' PROVE HolderOK(c)'
      OBVIOUS
    <3>1. txn'[c] = txn[c] /\ Home[c] # p /\ HolderOK(c)
      BY <2>3 DEF FilesInv
    <3>2. lock' = c
      BY <1>8, <3>1 DEF Crash, HolderOK
    <3>3. QED
      BY <2>1, <3>1, <3>2 DEF HolderOK, Present, Registered, Exists
  <2>5. QED
    BY <1>0, <2>1, <2>2, <2>4 DEF FilesInv, FilesTypeOK, TypeOK, Present, Registered, Exists
<1>9. CASE UNCHANGED all
  BY <1>9 DEF all, FilesInv, FilesTypeOK, TypeOK, Busy, HolderOK, Present, Registered, Exists
<1>10. QED
  BY <1>1, <1>2, <1>3, <1>4, <1>5, <1>6, <1>7, <1>8, <1>9 DEF FilesNext

LEMMA FilesInvariant == FilesSpec => []FilesInv
BY InitFiles, StepFiles, PTL DEF FilesSpec

-----------------------------------------------------------------------------
\* Files, lock, transactions and caches keep their types (workspace_store.py):
\* in particular next_job_id stays in its range.
THEOREM FilesTypeCorrect == FilesSpec => []FilesTypeOK
<1>1. FilesInv => FilesTypeOK
  BY DEF FilesInv
<1>2. QED
  BY <1>1, FilesInvariant, PTL

\* A registered job never lacks its pack, whoever reads the files at whatever
\* moment: create_job and update_job write the pack first, delete_task_pack
\* looks at the registry under the same lock.
THEOREM PacksPresent == FilesSpec => []FilesHavePacks
<1>1. FilesInv => FilesHavePacks
  BY DEF FilesInv, FilesHavePacks, JobsHavePacks, Present
<1>2. QED
  BY <1>1, FilesInvariant, PTL

-----------------------------------------------------------------------------
(* Every step of the files is a step of the configuration, or a stutter.    *)

\* The operations do not depend on the state, and mean the same in both.
LEMMA SameOperations ==
  ASSUME NEW w, NEW p
  PROVE  Abstract!Outcomes(w, p) = Outcomes(w, p)
BY DEF Abstract!Outcomes, Outcomes,
  Abstract!CreateJob, CreateJob, Abstract!UpdateJob, UpdateJob, Abstract!EditJob, EditJob,
  Abstract!PurgeJob, PurgeJob, Abstract!CreatePack, CreatePack, Abstract!UpdatePack, UpdatePack,
  Abstract!DeletePack, DeletePack, Abstract!CreateRuleSet, CreateRuleSet,
  Abstract!UpdateRuleSet, UpdateRuleSet, Abstract!DeleteRuleSet, DeleteRuleSet,
  Abstract!Both, Both, Abstract!PackOnly, PackOnly, Abstract!Saved, Saved, Abstract!Removed, Removed,
  Abstract!Exists, Exists, Abstract!Registered, Registered, Abstract!Referenced, Referenced,
  Abstract!OwnPack, OwnPack, Abstract!Holders, Holders, Abstract!InUse, InUse,
  Abstract!InCatalog, InCatalog, Abstract!NewRuleId, NewRuleId,
  Abstract!JobPack, JobPack, Abstract!RulePack, RulePack, Abstract!Name, Name,
  Abstract!Content, Content, Abstract!Absent, Absent, Abstract!JobId, JobId, Abstract!RuleId, RuleId,
  Abstract!NoJob, NoJob

\* While a caller is busy, what is agreed is what it found; else the files are.
LEMMA AgreedBusy ==
  FilesInv => \A c \in Callers : Busy(c) => Agreed = txn[c].base
<1> SUFFICES ASSUME FilesInv, NEW c \in Callers, Busy(c)
             PROVE  Agreed = txn[c].base
  OBVIOUS
<1>1. \A d \in Callers \ {c} : ~Half(d)
  BY OnlyHolder DEF Half, Busy
<1>2. CASE Half(c)
  <2>1. (CHOOSE d \in Callers : Half(d)) = c
    BY <1>1, <1>2
  <2>2. QED
    BY <1>2, <2>1 DEF Agreed
<1>3. CASE ~Half(c)
  <2>1. Agreed = packs
    BY <1>1, <1>3 DEF Agreed
  <2>2. packs = txn[c].base
    BY <1>3 DEF Half, FilesInv, HolderOK, Busy, FilesTypeOK, Txn
  <2>3. QED
    BY <2>1, <2>2
<1>4. QED
  BY <1>2, <1>3

LEMMA AgreedIdle == (\A c \in Callers : ~Busy(c)) => Agreed = packs
BY DEF Agreed, Half, Busy

\* A caller that is done leaves nobody busy.
LEMMA DoneIdle ==
  ASSUME FilesInv, NEW c \in Callers, Busy(c), Done(c)
  PROVE  \A d \in Callers : ~Busy(d)'
BY OnlyHolder, IdleType DEF FilesInv, FilesTypeOK, Done, Busy

LEMMA StepImplements ==
  FilesInv /\ FilesInv' /\ [FilesNext]_all => Abstract!Next \/ UNCHANGED <<registry, Agreed, torn>>
<1>a. /\ FilesInv => \A c \in Callers : Busy(c) => Agreed = txn[c].base
      /\ (\A c \in Callers : ~Busy(c)) => Agreed = packs
  BY AgreedBusy, AgreedIdle
<1>b. /\ FilesInv' => \A c \in Callers : Busy(c)' => Agreed' = txn'[c].base
      /\ (\A c \in Callers : ~Busy(c)') => Agreed' = packs'
  <2>1. (FilesInv => \A c \in Callers : Busy(c) => Agreed = txn[c].base)'
    BY AgreedBusy, PTL
  <2>2. ((\A c \in Callers : ~Busy(c)) => Agreed = packs)'
    BY AgreedIdle, PTL
  <2>3. QED
    BY <2>1, <2>2
<1> SUFFICES ASSUME FilesInv, FilesInv', [FilesNext]_all
             PROVE  Abstract!Next \/ UNCHANGED <<registry, Agreed, torn>>
  OBVIOUS
<1>0. txn \in [Callers -> Txn]
  BY DEF FilesInv, FilesTypeOK
\* A caller that is busy before and after, with the same base.
<1>c. ASSUME NEW c \in Callers, Busy(c), Busy(c)', txn'[c].base = txn[c].base,
             UNCHANGED <<registry, torn>>
      PROVE  UNCHANGED <<registry, Agreed, torn>>
  BY <1>a, <1>b, <1>c
\* A caller that ends with what it found, or with all it wanted, or with the pack alone.
<1>d. ASSUME NEW c \in Callers, Busy(c), \A d \in Callers : ~Busy(d)',
             \/ UNCHANGED <<registry, torn>> /\ packs' = txn[c].base
             \/ /\ registry' = txn[c].target.registry /\ packs' = txn[c].target.packs
                /\ UNCHANGED torn
             \/ /\ UNCHANGED registry /\ packs' = txn[c].target.packs /\ txn[c].target.both
                /\ torn < MaxTorn /\ torn' = torn + 1
      PROVE  Abstract!Next \/ UNCHANGED <<registry, Agreed, torn>>
  <2>1. Agreed = txn[c].base /\ Agreed' = packs'
    BY <1>a, <1>b, <1>d
  <2>2. txn[c].target \in Abstract!Outcomes(registry, Agreed)
    BY <1>d, <2>1, SameOperations DEF FilesInv, HolderOK
  <2>3. QED
    BY <1>d, <2>1, <2>2 DEF Abstract!Next, Abstract!Operate, Abstract!Tear
<1>1. ASSUME NEW c \in Callers, GetWorkspace(c)
      PROVE  Abstract!Next \/ UNCHANGED <<registry, Agreed, torn>>
  BY <1>1 DEF GetWorkspace, files, Agreed, Half
<1>2. ASSUME NEW c \in Callers, Acquire(c)
      PROVE  Abstract!Next \/ UNCHANGED <<registry, Agreed, torn>>
  <2>1. \A d \in Callers : ~Busy(d)
    BY <1>2, FreeLock DEF Acquire
  <2>2. Busy(c)' /\ txn'[c].base = packs /\ UNCHANGED <<registry, packs, torn>>
    BY <1>0, <1>2 DEF Acquire, Busy, files
  <2>3. QED
    BY <1>a, <1>b, <2>1, <2>2
<1>3. ASSUME NEW c \in Callers, WritePack(c)
      PROVE  Abstract!Next \/ UNCHANGED <<registry, Agreed, torn>>
  <2>1. Busy(c) /\ packs' = txn[c].target.packs /\ UNCHANGED <<registry, torn>>
    BY <1>3 DEF WritePack, Busy
  <2>2. CASE txn' = [txn EXCEPT ![c].pc = "registry"]
    <3>1. Busy(c)' /\ txn'[c].base = txn[c].base
      BY <1>0, <2>2 DEF Busy, Txn
    <3>2. QED
      BY <1>c, <2>1, <3>1
  <2>3. CASE ~txn[c].target.both /\ Done(c)
    <3>1. registry = txn[c].target.registry
      BY <2>1, <2>3, TargetSound DEF Sound
    <3>2. \A d \in Callers : ~Busy(d)'
      BY <2>1, <2>3, DoneIdle
    <3>3. QED
      BY <1>d, <2>1, <3>1, <3>2
  <2>4. QED
    BY <1>3, <2>2, <2>3 DEF WritePack
<1>4. ASSUME NEW c \in Callers, WriteRegistry(c)
      PROVE  Abstract!Next \/ UNCHANGED <<registry, Agreed, torn>>
  <2>1. Busy(c) /\ registry' = txn[c].target.registry /\ Done(c) /\ UNCHANGED <<packs, torn>>
    BY <1>4 DEF WriteRegistry, Busy
  <2>2. packs' = txn[c].target.packs
    BY <1>4, <2>1 DEF WriteRegistry, FilesInv, HolderOK
  <2>3. QED
    BY <1>d, <2>1, <2>2, DoneIdle
<1>5. ASSUME NEW c \in Callers, WriteRaises(c)
      PROVE  Abstract!Next \/ UNCHANGED <<registry, Agreed, torn>>
  <2>1. Busy(c) /\ UNCHANGED <<registry, packs, torn>>
    BY <1>5 DEF WriteRaises, Busy, files
  <2>2. CASE txn[c].pc = "pack" /\ Done(c)
    <3>1. packs' = txn[c].base
      BY <2>1, <2>2 DEF FilesInv, HolderOK
    <3>2. QED
      BY <1>d, <2>1, <2>2, <3>1, DoneIdle
  <2>3. CASE txn' = [txn EXCEPT ![c].pc = "undo"]
    <3>1. Busy(c)' /\ txn'[c].base = txn[c].base
      BY <1>0, <2>3 DEF Busy, Txn
    <3>2. QED
      BY <1>c, <2>1, <3>1
  <2>4. QED
    BY <1>5, <2>2, <2>3 DEF WriteRaises
<1>6. ASSUME NEW c \in Callers, Rollback(c)
      PROVE  Abstract!Next \/ UNCHANGED <<registry, Agreed, torn>>
  <2>1. Busy(c) /\ Done(c) /\ packs' = txn[c].base /\ UNCHANGED <<registry, torn>>
    BY <1>6 DEF Rollback, Busy
  <2>2. QED
    BY <1>d, <2>1, DoneIdle
\* The transaction of c ends half-done, or with what it found.
<1>e. ASSUME NEW c \in Callers, txn[c].pc \in {"registry", "undo"}, UNCHANGED <<registry, packs>>,
             \A d \in Callers : ~Busy(d)',
             IF Half(c) THEN torn < MaxTorn /\ torn' = torn + 1 ELSE UNCHANGED torn
      PROVE  Abstract!Next \/ UNCHANGED <<registry, Agreed, torn>>
  <2>1. Busy(c) /\ packs' = txn[c].target.packs /\ txn[c].target.both
    BY <1>e DEF Busy, FilesInv, HolderOK
  <2>2. ~Half(c) => packs' = txn[c].base
    BY <1>e DEF Half
  <2>3. QED
    BY <1>d, <1>e, <2>1, <2>2
<1>7. ASSUME NEW c \in Callers, RollbackRaises(c)
      PROVE  Abstract!Next \/ UNCHANGED <<registry, Agreed, torn>>
  BY <1>7, <1>e, DoneIdle DEF RollbackRaises, Busy
<1>8. ASSUME NEW p \in Procs, Crash(p)
      PROVE  Abstract!Next \/ UNCHANGED <<registry, Agreed, torn>>
  <2>1. UNCHANGED <<registry, packs>>
    BY <1>8 DEF Crash
  <2>2. CASE \E c \in Callers : Home[c] = p /\ txn[c].pc \in {"registry", "undo"}
    <3>1. PICK c \in Callers : Home[c] = p /\ txn[c].pc \in {"registry", "undo"}
      BY <2>2
    <3>2. \A d \in Callers \ {c} : ~Busy(d)
      BY <3>1, OnlyHolder DEF Busy
    <3>3. \A d \in Callers : ~Busy(d)'
      BY <1>8, <3>1, <3>2, IdleType DEF Crash, Busy
    <3>4. IF Half(c) THEN torn < MaxTorn /\ torn' = torn + 1 ELSE UNCHANGED torn
      BY <1>8, <3>1, <3>2 DEF Crash, Half, Busy
    <3>5. QED
      BY <1>e, <2>1, <3>1, <3>3, <3>4
  <2>3. CASE \A c \in Callers : Home[c] = p => txn[c].pc \notin {"registry", "undo"}
    <3>1. UNCHANGED torn
      BY <1>8, <2>3 DEF Crash, Half
    <3>2. \A c \in Callers : Half(c)' <=> Half(c)
      BY <1>8, <2>1, <2>3, IdleType DEF Crash, Half
    <3>3. \A c \in Callers : Half(c) => txn'[c] = txn[c]
      BY <1>8, <2>3 DEF Crash, Half
    <3>4. Agreed' = Agreed
      <4>1. CASE \E c \in Callers : Half(c)
        <5>1. PICK c \in Callers : Half(c)
          BY <4>1
        <5>2. Busy(c) /\ Busy(c)' /\ txn'[c].base = txn[c].base
          BY <3>3, <5>1 DEF Half, Busy
        <5>3. QED
          BY <1>a, <1>b, <5>1, <5>2
      <4>2. CASE ~\E c \in Callers : Half(c)
        BY <2>1, <3>2, <4>2 DEF Agreed
      <4>3. QED
        BY <4>1, <4>2
    <3>5. QED
      BY <2>1, <3>1, <3>4
  <2>4. QED
    BY <2>2, <2>3
<1>9. CASE UNCHANGED all
  BY <1>9 DEF all, Agreed, Half
<1>10. QED
  BY <1>1, <1>2, <1>3, <1>4, <1>5, <1>6, <1>7, <1>8, <1>9 DEF FilesNext

LEMMA InitImplements == FilesInit => Abstract!Init
<1> SUFFICES ASSUME FilesInit PROVE Abstract!Init
  OBVIOUS
<1>1. Agreed = packs
  BY IdleType, AgreedIdle DEF FilesInit, Busy
<1>2. QED
  BY <1>1 DEF FilesInit, Init, Abstract!Init, NoJobs, Abstract!NoJobs, NoPacks, Abstract!NoPacks,
    Abstract!Name, Name, Abstract!JobPack, JobPack, Abstract!RulePack, RulePack,
    Abstract!JobId, JobId, Abstract!RuleId, RuleId, Abstract!Absent, Absent, Abstract!NoJob, NoJob

\* Processes that share the files, in whatever order they write, raise, roll
\* back, crash and cache, change the configuration by whole operations, and by
\* halves only where a process died, or failed to roll back, in the middle.
THEOREM FilesImplementConfiguration == FilesSpec => Implements
<1>1. FilesInv /\ FilesInv' /\ [FilesNext]_all => [Abstract!Next]_<<registry, Agreed, torn>>
  BY StepImplements
<1>2. QED
  BY <1>1, InitImplements, FilesInvariant, PTL DEF FilesSpec, Implements, Abstract!Spec, Abstract!vars

-----------------------------------------------------------------------------
\* An operation whose process lives to its end has written all its files or
\* none: what _FileTransaction is for.
THEOREM AllOrNothingHolds == FilesSpec => AllOrNothing
<1> DEFINE Whole(c) == txn[c].pc # "idle" /\ txn'[c].pc = "idle" /\ torn' = torn =>
                         \/ registry' = registry /\ packs' = txn[c].base
                         \/ registry' = txn[c].target.registry /\ packs' = txn[c].target.packs
<1>1. FilesInv /\ [FilesNext]_all => [\A c \in Callers : Whole(c)]_all
  <2> SUFFICES ASSUME FilesInv, FilesNext, NEW c \in Callers,
                      txn[c].pc # "idle", txn'[c].pc = "idle", torn' = torn
               PROVE  \/ registry' = registry /\ packs' = txn[c].base
                      \/ registry' = txn[c].target.registry /\ packs' = txn[c].target.packs
    OBVIOUS
  <2>0. HolderOK(c) /\ txn[c].pc \in {"pack", "registry", "undo"} /\ torn \in Nat /\ lock # Nobody
    BY FilesAssumption DEF FilesInv, FilesTypeOK, TypeOK, Txn, Busy, HolderOK
  <2>1. \A d \in Callers \ {c} : txn[d].pc = "idle"
    BY OnlyHolder DEF Busy
  <2>2. CASE ~Half(c) /\ UNCHANGED <<registry, packs>>
    BY <2>0, <2>2 DEF Half, HolderOK
  <2>3. ~\E d \in Callers : GetWorkspace(d) \/ Acquire(d)
    BY <2>0 DEF GetWorkspace, Acquire
  <2>4. ASSUME NEW d \in Callers, WritePack(d) \/ WriteRegistry(d) \/ WriteRaises(d) \/ Rollback(d) \/ RollbackRaises(d)
        PROVE  d = c
    BY <2>1, <2>4 DEF WritePack, WriteRegistry, WriteRaises, Rollback, RollbackRaises
  <2>5. CASE WritePack(c)
    <3>1. ~txn[c].target.both
      BY <2>5 DEF WritePack, FilesInv, FilesTypeOK, Txn
    <3>2. registry = txn[c].target.registry
      BY <3>1, TargetSound DEF Sound, Busy
    <3>3. QED
      BY <2>5, <3>2 DEF WritePack
  <2>6. CASE WriteRegistry(c)
    BY <2>0, <2>6 DEF WriteRegistry, HolderOK
  <2>7. CASE WriteRaises(c)
    <3>1. txn[c].pc = "pack"
      BY <2>7 DEF WriteRaises, FilesInv, FilesTypeOK, Txn
    <3>2. QED
      BY <2>0, <2>7, <3>1 DEF WriteRaises, HolderOK, files
  <2>8. CASE Rollback(c)
    BY <2>8 DEF Rollback
  <2>9. CASE RollbackRaises(c)
    BY <2>0, <2>2, <2>9 DEF RollbackRaises
  <2>10. CASE \E p \in Procs : Crash(p)
    <3>1. PICK p \in Procs : Crash(p)
      BY <2>10
    <3>2. Home[c] = p
      BY <3>1 DEF Crash
    <3>3. ~Half(c)
      BY <2>0, <3>1, <3>2 DEF Crash
    <3>4. QED
      BY <2>2, <3>1, <3>3 DEF Crash
  <2>11. QED
    BY <2>3, <2>4, <2>5, <2>6, <2>7, <2>8, <2>9, <2>10 DEF FilesNext
<1>2. QED
  BY <1>1, FilesInvariant, PTL DEF FilesSpec, AllOrNothing

=============================================================================
