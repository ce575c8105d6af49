----------------------------- MODULE ConfigFiles -----------------------------
(***************************************************************************)
(* The configuration as files: config/workspace.json and config/packs/,    *)
(* under the one lock they share (backend/workspace_store.py).             *)
(*                                                                         *)
(* A process takes the lock, loads the workspace from the file, works the  *)
(* change out, and writes the pack and then the workspace, each by an      *)
(* atomic replace.  An error in between is rolled back; a process that is  *)
(* killed rolls nothing back, and the lock goes with it.  A caller that    *)
(* times out waiting for the lock has changed nothing, and takes no step.  *)
(***************************************************************************)
EXTENDS Configuration, FiniteSets

CONSTANTS
  Procs,   \* processes, each with one store
  Callers, \* threads that work with it
  Home,    \* Home[c]: the process of a caller
  Nobody,  \* no holder of the lock
  NoCache  \* nothing cached that the file's signature would confirm

ASSUME FilesAssumption ==
  Home \in [Callers -> Procs] /\ Nobody \notin Callers /\ NoCache \notin Registry

VARIABLES
  lock,  \* workspace.json.lock: its holder
  txn,   \* what each caller is writing
  cache  \* cache[p]: the workspace of WorkspaceStore._cache, while its signature is the file's

files == <<registry, packs, torn>>
all == <<registry, packs, torn, lock, txn, cache>>

NoTarget == Both(NoJobs, NoPacks)
\* base: the packs as _FileTransaction has recorded them.
Txn == [pc: {"idle", "pack", "registry", "undo"}, target: Outcome, base: Packs]
Idle == [pc |-> "idle", target |-> NoTarget, base |-> NoPacks]

FilesTypeOK ==
  /\ TypeOK
  /\ lock \in Callers \cup {Nobody}
  /\ txn \in [Callers -> Txn]
  /\ cache \in [Procs -> Registry \cup {NoCache}]

FilesInit ==
  /\ Init
  /\ lock = Nobody
  /\ txn = [c \in Callers |-> Idle]
  /\ cache = [p \in Procs |-> NoCache]

-----------------------------------------------------------------------------
\* A new workspace.json has a new signature, which tells every other process
\* that its cache is out of date; unless size and time are the same, for
\* replacements within one tick of the file system's clock.
Cached(p, w) ==
  \E same \in SUBSET (Procs \ {p}) :
    cache' = [q \in Procs |-> IF q = p THEN w ELSE IF q \in same THEN cache[q] ELSE NoCache]

\* (mutant of Loaded) the change is worked out on what is cached
LoadedFromCache(p) == IF cache[p] = NoCache THEN registry ELSE cache[p]

\* mutate_workspace does not trust the cache.
Loaded(p) == registry

\* get_workspace does.
GetWorkspace(c) ==
  /\ lock = Nobody
  /\ cache[Home[c]] = NoCache
  /\ cache' = [cache EXCEPT ![Home[c]] = registry]
  /\ UNCHANGED <<files, lock, txn>>

\* The lock is taken, the files are read, and the outcome is worked out; where
\* there is none the operation raises and nothing has been written.
Acquire(c) ==
  /\ lock = Nobody
  /\ \E o \in Outcomes(Loaded(Home[c]), packs) :
       txn' = [txn EXCEPT ![c] = [pc |-> IF o.packs = packs /\ o.both THEN "registry" ELSE "pack",
                                  target |-> o, base |-> packs]]
  /\ lock' = c
  /\ UNCHANGED <<files, cache>>

Done(c) == txn' = [txn EXCEPT ![c] = Idle] /\ lock' = Nobody

WritePack(c) ==
  /\ txn[c].pc = "pack"
  /\ packs' = txn[c].target.packs
  /\ \/ txn[c].target.both /\ txn' = [txn EXCEPT ![c].pc = "registry"] /\ UNCHANGED lock
     \/ ~txn[c].target.both /\ Done(c)
  /\ UNCHANGED <<registry, torn, cache>>

WriteRegistry(c) ==
  /\ txn[c].pc = "registry"
  /\ registry' = txn[c].target.registry
  /\ Cached(Home[c], txn[c].target.registry)
  /\ Done(c)
  /\ UNCHANGED <<packs, torn>>

\* Writing the temporary file, or anything before the replace, raises.
WriteRaises(c) ==
  /\ \/ txn[c].pc = "pack" /\ Done(c)
     \/ txn[c].pc = "registry" /\ txn' = [txn EXCEPT ![c].pc = "undo"] /\ UNCHANGED lock
  /\ UNCHANGED <<files, cache>>

\* (mutant of Rollback) a file that did not exist before is kept
RollbackKeepsNew(c) ==
  /\ txn[c].pc = "undo"
  /\ packs' = IF \E n \in Name : Exists(packs, n) /\ ~Exists(txn[c].base, n) THEN packs ELSE txn[c].base
  /\ Done(c)
  /\ UNCHANGED <<registry, torn, cache>>

Rollback(c) ==
  /\ txn[c].pc = "undo"
  /\ packs' = txn[c].base
  /\ Done(c)
  /\ UNCHANGED <<registry, torn, cache>>

\* A transaction whose pack is written and whose registry is not.
Half(c) == txn[c].pc \in {"registry", "undo"} /\ packs # txn[c].base

\* Restoring a file raises as well: as if the process had died.
RollbackRaises(c) ==
  /\ txn[c].pc = "undo"
  /\ IF Half(c) THEN torn < MaxTorn /\ torn' = torn + 1 ELSE UNCHANGED torn
  /\ Done(c)
  /\ UNCHANGED <<registry, packs, cache>>

\* The process is killed, and started again with empty hands.
Crash(p) ==
  /\ IF \E c \in Callers : Home[c] = p /\ Half(c)
     THEN torn < MaxTorn /\ torn' = torn + 1 ELSE UNCHANGED torn
  /\ lock' = IF \E c \in Callers : Home[c] = p /\ lock = c THEN Nobody ELSE lock
  /\ txn' = [c \in Callers |-> IF Home[c] = p THEN Idle ELSE txn[c]]
  /\ cache' = [cache EXCEPT ![p] = NoCache]
  /\ UNCHANGED <<registry, packs>>

FilesNext ==
  \/ \E c \in Callers : \/ GetWorkspace(c) \/ Acquire(c) \/ WritePack(c) \/ WriteRegistry(c)
                        \/ WriteRaises(c) \/ Rollback(c) \/ RollbackRaises(c)
  \/ \E p \in Procs : Crash(p)

FilesSpec == FilesInit /\ [][FilesNext]_all

-----------------------------------------------------------------------------
\* What has been agreed: a pack counts from the moment the registry that goes
\* with it is written.
Agreed == IF \E c \in Callers : Half(c)
          THEN txn[CHOOSE c \in Callers : Half(c)].base ELSE packs

Abstract == INSTANCE Configuration WITH packs <- Agreed

\* Callers and processes that write, fail, roll back, crash and cache at any
\* point change the configuration by whole operations; only where a process
\* died in the middle, or could not roll back, the pack alone is left.
Implements == Abstract!Spec

\* An operation whose process lives to the end of it, well or not, has written
\* all its files or none of them.
AllOrNothing ==
  [][\A c \in Callers : txn[c].pc # "idle" /\ txn'[c].pc = "idle" /\ torn' = torn =>
       \/ registry' = registry /\ packs' = txn[c].base
       \/ registry' = txn[c].target.registry /\ packs' = txn[c].target.packs]_all

\* A job that readers of the files find registered has its pack, at every
\* moment, also between two writes, after a failure and after a crash.
FilesHavePacks == JobsHavePacks

=============================================================================
