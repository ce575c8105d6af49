----------------------------- MODULE JobWorkspace -----------------------------
(***************************************************************************)
(* The workspace of the jobs page of the web UI: the job that is open and  *)
(* the draft of its definition.  openJob, openCreate, refreshJobs and      *)
(* resetForm of pages/jobs/useJobsPageState.tsx, the handlers of           *)
(* useJobsActions.ts and useJobsTaskPacks.ts, and the buttons of           *)
(* JobWorkspace.tsx and JobsPageLayout.tsx as far as they enable them.     *)
(*                                                                         *)
(* A handler runs up to an await in one step and goes on in another; a     *)
(* request that changes something takes effect at the server in a step of  *)
(* its own in between.  The handler works with the selected job and the    *)
(* draft of the render it was made in: its task keeps what it will use of  *)
(* them.  A job is an id, whether it is deleted, and the task pack it is   *)
(* bound to; of the draft, only the pack it is bound to and whom it is of. *)
(* Left out: the rows of the list (see JobSelection), runs (JobRuns), the  *)
(* select of packs (any pack may be picked), fields and their editors, and *)
(* the difference of the modes view and edit, which no handler makes.      *)
(***************************************************************************)
EXTENDS Naturals, FiniteSets

CONSTANTS
  MaxJobs,     \* bound: jobs that ever exist
  FirstJobs,   \* those that exist at first
  Packs,       \* names of task packs
  NoPack,
  Bound,       \* the pack each job is bound to
  MaxWaits     \* bound: handlers that wait for an answer

JobIds == 1..MaxJobs
NoJob == 0
Foreign == MaxJobs + 1   \* whom a draft is of that took a change meant for another

ASSUME WorkspaceAssumption ==
  /\ MaxJobs \in Nat /\ FirstJobs \in 0..MaxJobs /\ MaxWaits \in Nat \ {0}
  /\ NoPack \notin Packs /\ Bound \in [JobIds -> Packs \cup {NoPack}]

VARIABLES
  jobs,      \* the jobs at the server: none, live, deleted or purged
  packs,     \* the task packs there
  selected,  \* selectedJob: its id and whether it was deleted
  creating,  \* drawerMode = "create"
  open,      \* drawerOpen
  pack,      \* currentTaskPack
  formPack,  \* form.pack_name
  draftOf,   \* history: the job the form was last filled from (NoJob: a new one)
  waits,     \* the handlers at an await (two that do the same are one)
  calm,      \* history: no handler was started while another one waited
  unsure     \* history: while it was calm and since the selection was last set, a change
             \* of that job was reported as failed although the server had made it

workVars == <<jobs, packs, selected, creating, open, pack, formPack, draftOf, waits, calm, unsure>>
backend == <<jobs, packs>>
form == <<pack, formPack, draftOf>>
drawer == <<selected, creating, open, unsure>>

NoSelection == [id |-> NoJob, deleted |-> FALSE]
AsServer(j) == [id |-> j, deleted |-> jobs[j] = "deleted"]

\* A handler at an await: what it does and what it waits for, whether the
\* server has done it, the job, the pack, and the job and draft it knows.
Task(does, at) == [does |-> does, at |-> at, served |-> FALSE, job |-> NoJob, pack |-> NoPack,
                   sel |-> NoJob, draft |-> NoJob]

WorkInit ==
  /\ jobs = [j \in JobIds |-> IF j <= FirstJobs THEN "live" ELSE "none"] /\ packs = Packs
  /\ selected = NoSelection /\ creating = TRUE /\ open = FALSE
  /\ pack = NoPack /\ formPack = NoPack /\ draftOf = NoJob
  /\ waits = {} /\ calm = TRUE /\ unsure = FALSE

-----------------------------------------------------------------------------
Start(task) ==
  /\ Cardinality(waits) < MaxWaits
  /\ waits' = waits \cup {task}
  /\ calm' = (calm /\ waits = {})

Done(w) == waits' = waits \ {w}
Go(w, task) == waits' = (waits \ {w}) \cup {task}

\* refreshJobs(keepDrawer, reloadSelected): first the list; sel is the selected
\* job to load again after it.  Whose refresh it is matters only to who is busy.
Refresh(does, sel) == [Task(does, "list") EXCEPT !.sel = sel]
DropDrawer == Task("reload", "list, drop")

\* setSelectedJob: what an answer brings, or none.
Select(s) == selected' = s /\ unsure' = FALSE

\* resetForm
ResetForm == pack' = NoPack /\ formPack' = NoPack /\ draftOf' = NoJob

\* A setForm of a handler that began on draft d: it may hit another one.
Touched(d) == draftOf' = IF draftOf = d THEN draftOf ELSE Foreign

DrawerDisabled == selected.deleted /\ ~creating
Busy(does) == \E w \in waits : w.does \in does   \* saving, savingPack, deletingPack
SavingPack == Busy({"savepack", "overwrite", "filepack"})

-----------------------------------------------------------------------------
(* What the user does. *)

\* A row is clicked, whether its job is deleted or not.
OpenJob ==
  /\ \E j \in JobIds : jobs[j] # "none" /\ Start([Task("open", "job") EXCEPT !.job = j])
  /\ UNCHANGED <<backend, drawer, form>>

OpenCreate ==
  /\ Select(NoSelection) /\ creating' = TRUE /\ open' = TRUE /\ ResetForm
  /\ calm' = (calm /\ waits = {})
  /\ UNCHANGED <<backend, waits>>

Close ==
  /\ open
  /\ Select(NoSelection) /\ creating' = TRUE /\ open' = FALSE /\ ResetForm
  /\ calm' = (calm /\ waits = {})
  /\ UNCHANGED <<backend, waits>>

\* The button is there without a job and with one that is not deleted, and
\* disabled while a draft is saved; a draft without a name or a query is refused.
HandleSave ==
  /\ open /\ ~selected.deleted /\ ~Busy({"create", "update"})
  /\ IF creating THEN Start([Task("create", "save") EXCEPT !.draft = draftOf])
     ELSE selected # NoSelection /\ Start([Task("update", "save") EXCEPT !.job = selected.id, !.draft = draftOf])
  /\ UNCHANGED <<backend, drawer, form>>

\* The other buttons of the workspace are about its job.
HandleJob ==
  /\ open /\ selected # NoSelection
  /\ \E does \in IF selected.deleted THEN {"restore", "purge"} ELSE {"toggle", "delete"} :
       Start([Task(does, "change") EXCEPT !.job = selected.id, !.sel = selected.id])
  /\ UNCHANGED <<backend, drawer, form>>

\* A batch action on jobs of the list.
HandleBatch ==
  /\ \E j \in JobIds : jobs[j] \in {"live", "deleted"} /\ Start([Task("batch", "change") EXCEPT !.job = j])
  /\ UNCHANGED <<backend, drawer, form>>

\* The list is loaded again: by the user, after a stop, or by the poll of a run
\* (see JobRuns); the empty workspace does it without keeping the drawer.
Reload ==
  /\ \/ Start(Refresh("reload", selected.id))
     \/ ~open /\ Start(DropDrawer)
  /\ UNCHANGED <<backend, drawer, form>>

\* The pack buttons: load a pack or a file into the draft; "overwrite" is for
\* the pack of the draft, else the user types a name, which the server refuses
\* when there is such a pack; delete the pack in hand.
HandlePack ==
  /\ open /\ ~DrawerDisabled
  /\ \E p \in Packs, does \in {"import", "filepack", "savepack", "overwrite", "droppack"} :
       /\ does \in {"filepack", "savepack", "overwrite"} => ~SavingPack
       /\ does = "overwrite" => formPack = p
       /\ does = "droppack" => pack = p /\ ~Busy({"droppack"})
       /\ Start([Task(does, "pack") EXCEPT !.pack = p, !.draft = draftOf,
                                           !.sel = IF does \in {"savepack", "overwrite"} THEN selected.id ELSE NoJob])
  /\ UNCHANGED <<backend, drawer, form>>

HandleImportPackFile ==
  /\ open /\ ~DrawerDisabled
  /\ Start([Task("file", "pack") EXCEPT !.draft = draftOf])
  /\ UNCHANGED <<backend, drawer, form>>

-----------------------------------------------------------------------------
(* The server does what a request asks for (see JobSchedule, Configuration). *)

JobChange ==
  [toggle |-> {<<"live", "live">>}, delete |-> {<<"live", "deleted">>}, restore |-> {<<"deleted", "live">>},
   purge |-> {<<"deleted", "purged">>},
   batch |-> {<<"live", "deleted">>, <<"deleted", "live">>, <<"deleted", "purged">>}]

ServeSave(w) ==
  \/ /\ w.does = "create"
     /\ \E j \in JobIds :
          /\ jobs[j] = "none" /\ \A i \in JobIds : jobs[i] = "none" => j <= i
          /\ jobs' = [jobs EXCEPT ![j] = "live"]
          /\ Go(w, [w EXCEPT !.served = TRUE, !.job = j])
  \/ /\ w.does = "update" /\ jobs[w.job] = "live"
     /\ Go(w, [w EXCEPT !.served = TRUE])
     /\ UNCHANGED jobs

ServeChange(w) ==
  /\ \E c \in JobChange[w.does] : jobs[w.job] = c[1] /\ jobs' = [jobs EXCEPT ![w.job] = c[2]]
  /\ Go(w, [w EXCEPT !.served = TRUE])

ServePack(w) ==
  /\ \/ /\ w.does \in {"savepack", "filepack"} /\ w.pack \notin packs /\ packs' = packs \cup {w.pack}
     \/ /\ w.does \in {"import", "overwrite"} /\ w.pack \in packs /\ UNCHANGED packs
     \/ /\ w.does = "file" /\ UNCHANGED packs
     \/ /\ w.does = "droppack" /\ w.pack \in packs /\ packs' = packs \ {w.pack}
        /\ \A j \in JobIds : jobs[j] \in {"live", "deleted"} => Bound[j] # w.pack
  /\ Go(w, [w EXCEPT !.served = TRUE])

Serve(w) ==
  /\ ~w.served
  /\ \/ w.at = "save" /\ ServeSave(w) /\ UNCHANGED packs
     \/ w.at = "change" /\ ServeChange(w) /\ UNCHANGED packs
     \/ w.at = "pack" /\ ServePack(w) /\ UNCHANGED jobs
  /\ UNCHANGED <<drawer, form, calm>>

-----------------------------------------------------------------------------
(* The handlers go on. *)

\* (mutant of FillForm) the pack that was in hand stays
FillFormOnly(j, loaded) ==
  /\ pack' = IF loaded THEN Bound[j] ELSE pack
  /\ formPack' = Bound[j] /\ draftOf' = j

\* The draft of a job that is opened; its pack may not have been loaded.
FillForm(j, loaded) ==
  /\ pack' = IF loaded THEN Bound[j] ELSE NoPack
  /\ formPack' = Bound[j] /\ draftOf' = j

\* openJob: the job is selected before its pack is asked for, the form is
\* filled after, whether the pack could be loaded or not.
OpenJobLands(w) ==
  \/ /\ w.at = "job" /\ jobs[w.job] \in {"live", "deleted"}
     /\ Select(AsServer(w.job)) /\ creating' = FALSE
     /\ IF Bound[w.job] = NoPack
        THEN open' = TRUE /\ FillForm(w.job, FALSE) /\ Done(w)
        ELSE Go(w, [w EXCEPT !.at = "job's pack"]) /\ UNCHANGED <<open, form>>
  \/ /\ w.at = "job's pack"
     /\ \E loaded \in {Bound[w.job] \in packs, FALSE} : FillForm(w.job, loaded)
     /\ open' = TRUE /\ Done(w) /\ UNCHANGED <<selected, unsure, creating>>

\* (mutant of DrawerDropped) the form of the job stays
DrawerDroppedOnly == Select(NoSelection) /\ creating' = TRUE /\ UNCHANGED <<open, form>>

\* keepDrawer is FALSE: whatever is open makes way for a new job.
DrawerDropped == Select(NoSelection) /\ creating' = TRUE /\ ResetForm /\ UNCHANGED open

\* refreshJobs: the list has come or failed; then the job that was selected
\* when it began is loaded again.
RefreshLands(w) ==
  \/ w.at = "list, drop" /\ DrawerDropped /\ Done(w)
  \/ /\ w.at = "list"
     /\ IF w.sel = NoJob THEN Done(w) ELSE Go(w, [w EXCEPT !.at = "selected"])
     /\ UNCHANGED <<drawer, form>>
  \/ /\ w.at = "selected"
     /\ \/ jobs[w.sel] \in {"live", "deleted"} /\ Select(AsServer(w.sel))
        \/ UNCHANGED <<selected, unsure>>
     /\ Done(w) /\ UNCHANGED <<creating, open, form>>

\* handleSave; the draft of a new job is now that job's.
SaveLands(w) ==
  /\ w.at = "save" /\ w.served
  /\ Select([id |-> w.job, deleted |-> FALSE]) /\ creating' = FALSE /\ open' = TRUE
  /\ draftOf' = IF w.does = "create" /\ draftOf = NoJob THEN w.job ELSE draftOf
  /\ Go(w, Refresh(w.does, IF w.does = "update" THEN w.job ELSE NoJob))
  /\ UNCHANGED <<pack, formPack>>

\* handleDelete, handleRestore and handlePurge; the job was the selected one of
\* the render its button was in, so selectedJob?.id === job.id holds there.
RemovalLands(w) ==
  \/ /\ w.does \in {"delete", "purge"}
     /\ Select(NoSelection) /\ open' = FALSE /\ Go(w, DropDrawer) /\ UNCHANGED creating
  \/ /\ w.does = "restore"
     /\ Select([id |-> w.job, deleted |-> FALSE]) /\ creating' = FALSE /\ open' = TRUE
     /\ Go(w, Refresh("reload", NoJob))

\* handleToggle
ToggleLands(w) ==
  /\ w.does = "toggle"
  /\ Select([id |-> w.job, deleted |-> FALSE])
  /\ Go(w, Refresh("reload", NoJob)) /\ UNCHANGED <<creating, open>>

ChangeLands(w) ==
  /\ w.at = "change" /\ w.served
  /\ \/ RemovalLands(w)
     \/ ToggleLands(w)
     \/ w.does = "batch" /\ Go(w, DropDrawer) /\ UNCHANGED drawer
  /\ UNCHANGED form

\* handleImportPack, handleImportPackFile, handleImportAndSavePackFile,
\* handleSavePack, handleDeleteCurrentPack
PackLands(w) ==
  /\ w.at = "pack" /\ w.served
  /\ pack' = IF w.does \in {"file", "droppack"} THEN NoPack ELSE w.pack
  /\ formPack' = pack' /\ Touched(w.draft)
  /\ IF w.does \in {"savepack", "overwrite"} THEN Go(w, Refresh(w.does, w.sel)) ELSE Done(w)
  /\ UNCHANGED drawer

\* A request that failed: the handler says so and ends.  The server may have
\* done what was asked for: purge_job removes the job before the deletion of its
\* runs raises, other operations read their answer after they have written, and
\* an answer may be lost.
RequestFails(w) ==
  /\ w.at \in {"job", "save", "change", "pack"}
  /\ unsure' = (unsure \/ (calm /\ w.at = "change" /\ w.served /\ w.job = selected.id))
  /\ Done(w) /\ UNCHANGED <<selected, creating, open, form>>

Lands(w) ==
  /\ \/ OpenJobLands(w) \/ RefreshLands(w) \/ SaveLands(w) \/ ChangeLands(w) \/ PackLands(w)
     \/ RequestFails(w)
  /\ UNCHANGED <<backend, calm>>

WorkNext ==
  \/ OpenJob \/ OpenCreate \/ Close \/ HandleSave \/ HandleJob \/ HandleBatch \/ Reload
  \/ HandlePack \/ HandleImportPackFile
  \/ \E w \in waits : Serve(w) \/ Lands(w)

-----------------------------------------------------------------------------
(* Properties *)

\* The pack in hand is the one the draft is bound to, however the answers of
\* openings, imports and saves overlap: "save to the current pack" writes the
\* pack that "delete the current pack" deletes (useJobsTaskPacks.ts).
OnePackInHand == pack # NoPack => formPack = pack

\* When no handler was started while another one waited, an open workspace is of
\* one job, whatever requests failed: the selected job with the draft filled from
\* it, or no job and the draft of a new one.  The job is as the server has it,
\* unless a change of it was reported as failed although it was made: then a
\* purged job stays open, and reloading does not tell (handlePurge, refreshJobs).
WorkspaceAgrees ==
  calm /\ waits = {} /\ open =>
    IF creating THEN selected = NoSelection /\ draftOf = NoJob
    ELSE /\ selected # NoSelection /\ draftOf = selected.id
         /\ selected = AsServer(selected.id) \/ unsure

\* A job is only ever updated with the draft of that job: "the basic settings
\* of the current job" (useJobsPageState.tsx, currentTaskHeroDescription).
SaveWritesOwnJob ==
  \A w \in waits : w.does = "update" /\ w.at = "save" => w.draft = w.job

===============================================================================
