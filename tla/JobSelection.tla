----------------------------- MODULE JobSelection -----------------------------
(***************************************************************************)
(* The list of the jobs page of the web UI and the jobs ticked in it:      *)
(* pages/jobs/useJobsSelection.ts, loadJobs and refreshJobs of             *)
(* useJobsPageState.tsx, handleBatchAction and the list's part of the      *)
(* other handlers of useJobsActions.ts, jobSelectionState of               *)
(* jobsTableConfig.tsx, the controls of JobsListPane.tsx, JobsTable.tsx    *)
(* and JobsPageLayout.tsx as far as they enable them, and the part of      *)
(* backend/collector_service_parts/jobs.py that answers.                   *)
(*                                                                         *)
(* A handler goes on after an answer with the ticks, the page and the      *)
(* status of the render it was made in.  Left out: the text query (all     *)
(* jobs match), a batch that fails for some of its jobs, and the actions   *)
(* that delete or restore nothing are one, "touch".                        *)
(***************************************************************************)
EXTENDS Integers, FiniteSets, FiniteSetsExt

CONSTANTS
  MaxListed,    \* bound: jobs that ever exist
  FirstListed,  \* those that exist at first
  RowsPerPage,
  MaxPending,   \* bound: handlers that wait for an answer
  Impatient     \* TRUE: the user also acts while a handler waits

Listed == 1..MaxListed
Statuses == {"active", "all", "deleted"}
Flags == {"unknown", "live", "deleted"}

ASSUME SelectionAssumption ==
  /\ MaxListed \in Nat /\ FirstListed \in 0..MaxListed /\ RowsPerPage \in Nat \ {0} /\ MaxPending \in Nat \ {0}
  /\ Impatient \in BOOLEAN

VARIABLES
  store,         \* the jobs at the server: none, live, deleted or purged
  status, listPage, listRows, listTotal, loading,
  selectedIds, allMatchingSelected,
  deletedById,   \* selectedDeletedById
  lastShown,     \* history: how the list last showed each job
  pending        \* the handlers at an await (two that do the same are one)

listVars == <<store, status, listPage, listRows, listTotal, loading, selectedIds, allMatchingSelected,
              deletedById, lastShown, pending>>
list == <<status, listPage, listRows, listTotal, loading, lastShown>>
ticks == <<selectedIds, allMatchingSelected, deletedById>>

NoRows == [j \in {} |-> "live"]
OnList == DOMAIN listRows

\* A handler at an await: its request and what it knows.
Wait(does, pg, st) ==
  [does |-> does, page |-> pg, status |-> st, silent |-> FALSE, fallback |-> FALSE, known |-> {},
   ids |-> {}, all |-> FALSE, served |-> FALSE, done |-> FALSE]
Load(pg, st, fallback) == [Wait("load", pg, st) EXCEPT !.fallback = fallback, !.known = selectedIds]

ListInit ==
  /\ store = [j \in Listed |-> IF j <= FirstListed THEN "live" ELSE "none"]
  /\ status = "active" /\ listPage = 1 /\ listRows = NoRows /\ listTotal = 0 /\ loading = TRUE
  /\ selectedIds = {} /\ allMatchingSelected = FALSE /\ deletedById = [j \in Listed |-> "unknown"]
  /\ lastShown = [j \in Listed |-> "unknown"]
  /\ pending = {Wait("load", 1, "active")}

-----------------------------------------------------------------------------
(* The server: list_jobs and batch_jobs. *)

Matches(j, st) ==
  \/ store[j] = "live" /\ st # "deleted"
  \/ store[j] = "deleted" /\ st # "active"
Matching(st) == {j \in Listed : Matches(j, st)}

\* Deleted jobs are listed after the others; among those of a kind the last
\* change decides, which may be anything: every page that fits is possible.
InPage(pg, n) == Max({0, Min({n, pg * RowsPerPage}) - (pg - 1) * RowsPerPage})
Live(js) == {j \in js : store[j] = "live"}
Pages(pg, st) ==
  {P \in SUBSET Matching(st) : /\ Cardinality(P) = InPage(pg, Cardinality(Matching(st)))
                               /\ Cardinality(Live(P)) = InPage(pg, Cardinality(Live(Matching(st))))}

\* A batch is refused when its jobs are of two kinds or of the wrong one.
Requires(action) == IF action \in {"restore", "purge"} THEN "deleted" ELSE "live"
Effect == [touch |-> "live", delete |-> "deleted", restore |-> "live", purge |-> "purged"]
Targets(w) == IF w.all THEN Matching(w.status) ELSE {j \in w.ids : store[j] \in {"live", "deleted"}}

ServeBatch(w) ==
  /\ w.does \in DOMAIN Effect /\ ~w.served
  /\ \/ /\ Targets(w) # {} /\ \A j \in Targets(w) : store[j] = Requires(w.does)
        /\ store' = [j \in Listed |-> IF j \in Targets(w) THEN Effect[w.does] ELSE store[j]]
        /\ pending' = (pending \ {w}) \cup {[w EXCEPT !.served = TRUE, !.done = TRUE]}
     \/ /\ pending' = (pending \ {w}) \cup {[w EXCEPT !.served = TRUE]}
        /\ UNCHANGED store
  /\ UNCHANGED <<list, ticks>>

-----------------------------------------------------------------------------
(* The list. *)

Begin(w) ==
  /\ Cardinality(pending) < MaxPending
  /\ pending' = pending \cup {w}
  /\ loading' = (loading \/ (w.does = "load" /\ ~w.silent))
Acts == Impatient \/ pending = {}

\* (mutant of SyncSelectedDeleted) a job that has a flag keeps it
SyncOnlyNew(w, items) ==
  deletedById' = [j \in Listed |-> IF j \in w.known /\ j \in DOMAIN items /\ deletedById[j] = "unknown"
                                   THEN items[j] ELSE deletedById[j]]

\* syncSelectedDeletedFromJobs, with the ticks of the render of the load.
SyncSelectedDeleted(w, items) ==
  deletedById' = [j \in Listed |-> IF j \in w.known /\ j \in DOMAIN items THEN items[j] ELSE deletedById[j]]

Show(w, page) ==
  LET items == [j \in page |-> store[j]] IN
  /\ listRows' = items /\ listTotal' = Cardinality(Matching(w.status)) /\ listPage' = w.page
  /\ lastShown' = [j \in Listed |-> IF j \in page THEN items[j] ELSE lastShown[j]]
  /\ SyncSelectedDeleted(w, items)

\* An empty page beyond the first one although there are jobs.
FallsBack(w) ==
  w.fallback /\ w.page > 1 /\ InPage(w.page, Cardinality(Matching(w.status))) = 0 /\ Matching(w.status) # {}

\* loadJobs: the answer is shown, or the first page is asked for instead; a
\* failure empties the list.
ListLands(w) ==
  /\ w.does = "load"
  /\ \/ /\ FallsBack(w)
        /\ pending' = (pending \ {w}) \cup {[w EXCEPT !.page = 1, !.fallback = FALSE]}
        /\ UNCHANGED <<listRows, listTotal, listPage, lastShown, deletedById, loading>>
     \/ /\ ~FallsBack(w)
        /\ \E page \in Pages(w.page, w.status) : Show(w, page)
        /\ pending' = pending \ {w} /\ loading' = (loading /\ w.silent)
     \/ /\ listRows' = NoRows /\ listTotal' = 0
        /\ pending' = pending \ {w} /\ loading' = (loading /\ w.silent)
        /\ UNCHANGED <<listPage, lastShown, deletedById>>
  /\ UNCHANGED <<store, status, selectedIds, allMatchingSelected>>

ClearSelection ==
  selectedIds' = {} /\ allMatchingSelected' = FALSE /\ deletedById' = [j \in Listed |-> "unknown"]

TotalPages == Max({1, (listTotal + RowsPerPage - 1) \div RowsPerPage})

\* The search button, the select of a status, and the pages.
SubmitQuery ==
  /\ ClearSelection /\ Begin(Load(1, status, TRUE)) /\ Acts
  /\ UNCHANGED <<store, status, listPage, listRows, listTotal, lastShown>>

StatusChange ==
  \E st \in Statuses \ {status} :
    /\ status' = st /\ ClearSelection /\ Begin(Load(1, st, TRUE)) /\ Acts
    /\ UNCHANGED <<store, listPage, listRows, listTotal, lastShown>>

PageChange ==
  \E pg \in {listPage - 1, listPage + 1} \cap 1..TotalPages :
    /\ Begin(Load(pg, status, TRUE)) /\ Acts
    /\ UNCHANGED <<store, status, listPage, listRows, listTotal, lastShown, ticks>>

\* The poll of a run refreshes the list (see JobRuns); the table stays.
SilentRefresh ==
  /\ Begin([Load(listPage, status, TRUE) EXCEPT !.silent = TRUE]) /\ Acts
  /\ UNCHANGED <<store, status, listPage, listRows, listTotal, lastShown, ticks>>

-----------------------------------------------------------------------------
(* The ticks; a list that is loading shows none. *)

SelectedOnPage == IF allMatchingSelected THEN OnList ELSE OnList \cap selectedIds
AllPageSelected == OnList # {} /\ SelectedOnPage = OnList

ToggleRowSelection ==
  /\ ~loading /\ Acts
  /\ \E j \in OnList :
       IF allMatchingSelected THEN ClearSelection
       ELSE /\ selectedIds' = IF j \in selectedIds THEN selectedIds \ {j} ELSE selectedIds \cup {j}
            /\ deletedById' = [deletedById EXCEPT ![j] = IF j \in selectedIds THEN "unknown" ELSE listRows[j]]
            /\ UNCHANGED allMatchingSelected
  /\ UNCHANGED <<store, list, pending>>

TogglePageSelection ==
  /\ ~loading /\ Acts
  /\ IF allMatchingSelected \/ AllPageSelected THEN ClearSelection
     ELSE /\ selectedIds' = selectedIds \cup OnList
          /\ deletedById' = [j \in Listed |-> IF j \in OnList THEN listRows[j] ELSE deletedById[j]]
          /\ UNCHANGED allMatchingSelected
  /\ UNCHANGED <<store, list, pending>>

SelectAllMatchingJobs ==
  /\ ~allMatchingSelected /\ AllPageSelected /\ listTotal > Cardinality(OnList) /\ Acts
  /\ allMatchingSelected' = TRUE /\ selectedIds' = {} /\ UNCHANGED deletedById
  /\ UNCHANGED <<store, list, pending>>

ClearButton ==
  /\ allMatchingSelected \/ selectedIds # {}
  /\ ClearSelection /\ Acts /\ UNCHANGED <<store, list, pending>>

-----------------------------------------------------------------------------
(* Batch actions, and the workspace's handlers on one job. *)

SelectionState ==
  IF allMatchingSelected THEN [active |-> "live", deleted |-> "deleted", all |-> "mixed"][status]
  ELSE IF selectedIds = {} THEN "none"
  ELSE LET kinds == {deletedById[j] = "deleted" : j \in selectedIds} IN
       IF Cardinality(kinds) > 1 THEN "mixed" ELSE IF TRUE \in kinds THEN "deleted" ELSE "live"

SelectedCount == IF allMatchingSelected THEN listTotal ELSE Cardinality(selectedIds)

BatchSpecs == [active |-> {"touch", "delete"}, deleted |-> {"restore", "purge"}, all |-> DOMAIN Effect]

IsBatchActionEnabled(action) == SelectedCount # 0 /\ SelectionState = Requires(action)

HandleBatchAction ==
  /\ \E action \in BatchSpecs[status] :
       /\ IsBatchActionEnabled(action)
       /\ Begin([Wait(action, listPage, status) EXCEPT
                  !.known = selectedIds, !.all = allMatchingSelected, !.ids = selectedIds])
  /\ Acts
  /\ UNCHANGED <<store, status, listPage, listRows, listTotal, lastShown, ticks>>

\* A batch that is done clears the ticks; restored jobs are shown with all others.
BatchLands(w) ==
  LET switch == w.does = "restore" /\ w.status = "deleted"
      next == [Load(IF switch THEN 1 ELSE w.page, IF switch THEN "all" ELSE w.status, TRUE)
                 EXCEPT !.known = w.known]
  IN
  /\ w.does \in DOMAIN Effect /\ w.served
  /\ IF w.done
     THEN /\ ClearSelection /\ pending' = (pending \ {w}) \cup {next} /\ loading' = TRUE
          /\ status' = IF switch THEN "all" ELSE status
     ELSE pending' = pending \ {w} /\ UNCHANGED <<ticks, loading, status>>
  /\ UNCHANGED <<store, listPage, listRows, listTotal, lastShown>>

\* Delete, purge, restore, create and the other handlers of the workspace, with
\* the refresh each makes: their requests are part of JobWorkspace.
WorkspaceChanges ==
  /\ \/ \E j \in Listed :
          /\ store[j] \in {"live", "deleted"}
          /\ \/ /\ store' = [store EXCEPT ![j] = IF store[j] = "live" THEN "deleted" ELSE "purged"]
                /\ Begin(Load(listPage, status, TRUE)) /\ UNCHANGED status
             \/ /\ store[j] = "deleted" /\ store' = [store EXCEPT ![j] = "live"]
                /\ status' = IF status = "deleted" THEN "active" ELSE status
                /\ Begin(Load(1, status', TRUE))
     \/ \E j \in Listed :
          /\ store[j] = "none" /\ \A i \in Listed : store[i] = "none" => j <= i
          /\ store' = [store EXCEPT ![j] = "live"]
          /\ Begin(Load(1, "active", TRUE)) /\ UNCHANGED status
  /\ Acts
  /\ UNCHANGED <<listPage, listRows, listTotal, lastShown, ticks>>

ListNext ==
  \/ SubmitQuery \/ StatusChange \/ PageChange \/ SilentRefresh
  \/ ToggleRowSelection \/ TogglePageSelection \/ SelectAllMatchingJobs \/ ClearButton
  \/ HandleBatchAction \/ WorkspaceChanges
  \/ \E w \in pending : ServeBatch(w) \/ ListLands(w) \/ BatchLands(w)

-----------------------------------------------------------------------------
(* Properties *)

\* The page judges a ticked job deleted or not as the list last showed it, also
\* when the job is on another page by now: that is what "mixed" and the batch
\* actions are decided by (useJobsSelection.ts).  Of a user who is patient.
FlagsAsLastShown == \A j \in selectedIds : deletedById[j] = lastShown[j]

\* A batch action that changes anything changes the rows that are shown ticked:
\* "all N matching results" are those of the list the user looks at
\* (JobsListPane.tsx, showSelectAllMatching).
BatchHitsTickedRows ==
  \A w \in pending :
    w.does \in DOMAIN Effect /\ ~w.served /\ Targets(w) # {} => SelectedOnPage \subseteq Targets(w)

===============================================================================
