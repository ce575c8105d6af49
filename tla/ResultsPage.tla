----------------------------- MODULE ResultsPage -----------------------------
(***************************************************************************)
(* The results page of the web UI: pages/results/useResultsPageState.tsx   *)
(* and useResultsSelection.ts, the controls of ResultsControlLayer,        *)
(* ResultsDataTable, ResultsTableManager and ResultsWorkspace as far as    *)
(* they enable a handler, the requests of api.ts they send, and the part   *)
(* of items.py (ItemMixin) that answers them.                              *)
(*                                                                         *)
(* A handler runs up to its first await in one step.  The answer of a      *)
(* request is made at the server in a second step and reaches the page in  *)
(* a third; in between the user goes on and runs store rows.  A handler    *)
(* that continues after an await works on the state of the render it       *)
(* belongs to: that closure is kept in the request.                        *)
(*                                                                         *)
(* Left out: wording, the layout, and the columns (see TableColumns).      *)
(***************************************************************************)
EXTENDS Naturals, Sequences, FiniteSets, SequencesExt

CONSTANTS
  Tables, Raw,     \* the item tables, and the one the page opens with
  MaxId, MaxRows,  \* bounds: rows any table ever has, and each one
  FirstRows,       \* rows each table has at first
  PageSize,
  Keywords, NoKeyword, KeywordHits,  \* the rows a keyword matches
  Drafts, Trees, NoTree, TreeHits,   \* drafts of filter trees; those that are submitted
  Clean,           \* sanitizeFilterTreeForSubmit: see FilterTree
  Sortable, Score, \* the sort fields of each table; the values of field "score"
  SameItem,        \* SameItem[id]: the deduplication key of a row
  MaxLoads,        \* bound: list requests of the page
  Hasty            \* TRUE: the user also uses the page while it works on an answer or a deletion

Ids == 1..MaxId
Fields == {"id", "score"}

ASSUME ResultsAssumption ==
  /\ Raw \in Tables /\ MaxId \in Nat /\ PageSize \in Nat \ {0}
  /\ MaxRows \in [Tables -> 0..MaxId] /\ FirstRows \in [Tables -> 0..MaxId]
  /\ \A t \in Tables : FirstRows[t] <= MaxRows[t]
  /\ NoKeyword \in Keywords /\ KeywordHits \in [Keywords -> SUBSET Ids] /\ KeywordHits[NoKeyword] = Ids
  /\ NoTree \in Trees /\ TreeHits \in [Trees -> SUBSET Ids] /\ TreeHits[NoTree] = Ids
  /\ Trees \subseteq Drafts /\ Clean \in [Drafts -> Trees] /\ \A t \in Trees : Clean[t] = t
  /\ Sortable \in [Tables -> SUBSET Fields] /\ \A t \in Tables : "id" \in Sortable[t]
  /\ Score \in [Ids -> Nat] /\ IsInjective(Score) /\ MaxLoads \in Nat /\ Hasty \in BOOLEAN

VARIABLES
  db,        \* the rows of each table (external: SQLite)
  lastId,    \* AUTOINCREMENT of each table
  table, page, sortBy, sortDir,
  filter,    \* filterStateByTable, also in localStorage
  items, total, activeRow,
  selectedIds, allMatching,
  loading, error,
  latest,    \* loadRequestIdRef
  loads,     \* the list requests in flight, by their number; history: the rows a fallback was counted on
  mutation,  \* the deletion or deduplication in flight
  view       \* history: the query whose answer is shown

vars == <<db, lastId, table, page, sortBy, sortDir, filter, items, total, activeRow,
          selectedIds, allMatching, loading, error, latest, loads, mutation, view>>
shown == <<items, total, page, activeRow, view>>
selection == <<selectedIds, allMatching>>
server == <<db, lastId>>

NoRow == 0
Idle == [kind |-> "none"]
NoView == [table |-> "none"]
Waiting == [kind |-> "waiting"]
Failed == [kind |-> "failed"]

\* createDefaultResultsFilterState
NoFilter == [input |-> NoKeyword, keyword |-> NoKeyword, draft |-> NoTree, tree |-> NoTree]
Current == filter[table]
\* filterTreeHasConditions of the applied tree
HasAdvancedFilter == Current.tree # NoTree
\* What a request asks for, as the page stands.
Query(p, field, dir) == [table |-> table, page |-> p, keyword |-> Current.keyword,
                         tree |-> Current.tree, sortBy |-> field, sortDir |-> dir]
\* The rows a query is about, whatever their order and the page.
Scope(q) == <<q.table, q.keyword, q.tree>>
Mutating == mutation # Idle /\ mutation.mounted
Busy == loading \/ Mutating
TotalPages == IF total = 0 THEN 1 ELSE (total + PageSize - 1) \div PageSize

-----------------------------------------------------------------------------
\* The server.

Matching(q) == {id \in db[q.table] : id \in KeywordHits[q.keyword] /\ id \in TreeHits[q.tree]}

\* The row at place i is the one with i - 1 rows before it.
Answer(q) ==
  LET rank(id) == IF q.sortBy = "id" THEN id ELSE Score[id]
      before(a, b) == IF q.sortDir = "asc" THEN rank(a) < rank(b) ELSE rank(b) < rank(a)
      hits == Matching(q)
      count == Cardinality(hits)
      rows == [i \in 1..count |-> CHOOSE id \in hits : Cardinality({x \in hits : before(x, id)}) = i - 1]
      last == IF q.page * PageSize < count THEN q.page * PageSize ELSE count
  IN [kind |-> "rows", rows |-> SubSeq(rows, (q.page - 1) * PageSize + 1, last),
      total |-> count, page |-> q.page]

\* Runs and imports store rows at any time.
RowStored(t) ==
  /\ lastId[t] < MaxRows[t]
  /\ lastId' = [lastId EXCEPT ![t] = @ + 1]
  /\ db' = [db EXCEPT ![t] = @ \cup {lastId[t] + 1}]
  /\ UNCHANGED <<table, sortBy, sortDir, filter, shown, selection, loading, error, latest, loads, mutation>>

ListServed(k) ==
  /\ k \in DOMAIN loads /\ loads[k].reply = Waiting
  /\ loads' = [loads EXCEPT ![k].reply = Answer(loads[k].query)]
  /\ UNCHANGED <<server, table, sortBy, sortDir, filter, shown, selection, loading, error, latest, mutation>>

\* The request is refused, cannot be sent, or ends with the abort.
ListFails(k) ==
  /\ k \in DOMAIN loads /\ loads[k].reply = Waiting
  /\ loads' = [loads EXCEPT ![k].reply = Failed]
  /\ UNCHANGED <<server, table, sortBy, sortDir, filter, shown, selection, loading, error, latest, mutation>>

\* One row of every group of duplicates stays, which one depends on its date.
Deduplicated(rows, left) ==
  /\ left \subseteq rows
  /\ \A id \in rows : Cardinality({k \in left : SameItem[k] = SameItem[id]}) = 1

\* The rows a deletion leaves; deleting one row that is gone is an error.
Leaves(m, left) ==
  LET rows == db[m.query.table]
  IN CASE m.kind = "one" -> m.ids \subseteq rows /\ left = rows \ m.ids
       [] m.kind = "ids" -> left = rows \ m.ids
       [] m.kind = "matching" -> left = rows \ Matching(m.query)
       [] m.kind = "dedupe" -> Deduplicated(rows, left)

\* The answer, which a page that is gone does not get; an error may come in its place.
MutationAnswered(phase) ==
  mutation' = IF mutation.mounted THEN [mutation EXCEPT !.phase = phase] ELSE Idle

MutationServed ==
  /\ mutation # Idle /\ mutation.phase = "sent"
  /\ \E left \in SUBSET db[mutation.query.table] :
       /\ Leaves(mutation, left)
       /\ db' = [db EXCEPT ![mutation.query.table] = left]
  /\ \E phase \in {"done", "failed"} : MutationAnswered(phase)
  /\ UNCHANGED <<lastId, table, sortBy, sortDir, filter, shown, selection, loading, error, latest, loads>>

MutationRefused ==
  /\ mutation # Idle /\ mutation.phase = "sent"
  /\ MutationAnswered("failed")
  /\ UNCHANGED <<server, table, sortBy, sortDir, filter, shown, selection, loading, error, latest, loads>>

-----------------------------------------------------------------------------
\* load: up to its request.

NewLoad(q, fallback, clear) ==
  [query |-> q, fallback |-> fallback, clear |-> clear, reply |-> Waiting, aborted |-> FALSE, counted |-> 0]

Load(q, fallback, clear) ==
  /\ latest < MaxLoads
  /\ latest' = latest + 1
  /\ loads' = [k \in DOMAIN loads \cup {latest + 1} |->
                 IF k \in DOMAIN loads THEN [loads[k] EXCEPT !.aborted = TRUE]
                 ELSE NewLoad(q, fallback, clear)]
  /\ loading' = TRUE /\ error' = FALSE

\* load: the answer of request k.

Answered(k) == k \in DOMAIN loads /\ loads[k].reply # Waiting
\* (mutant of Stale) the latest answer to arrive is shown, whoever asked
NeverStale(k) == FALSE

Stale(k) == loads[k].aborted \/ k # latest
\* The finally block.
Finally(k) ==
  /\ loading' = (loading /\ k # latest)
  /\ loads' = [j \in DOMAIN loads \ {k} |-> loads[j]]

IgnoreStale(k) ==
  /\ Answered(k) /\ Stale(k)
  /\ Finally(k)
  /\ UNCHANGED <<server, table, sortBy, sortDir, filter, shown, selection, error, latest, mutation>>

FallbackPage(reply) ==
  LET last == (reply.total + PageSize - 1) \div PageSize
  IN IF last < reply.page - 1 THEN last ELSE reply.page - 1

\* (mutant of NeedsFallback) the page is shown as it comes
NoFallback(k) == FALSE

\* The page is empty although there are rows: a smaller page is asked for, once.
NeedsFallback(k) ==
  /\ loads[k].fallback /\ loads[k].reply # Failed
  /\ loads[k].reply.page > 1 /\ loads[k].reply.rows = <<>> /\ loads[k].reply.total > 0

FallBack(k) ==
  /\ Answered(k) /\ ~Stale(k) /\ NeedsFallback(k)
  /\ loads' = [loads EXCEPT ![k].query.page = FallbackPage(loads[k].reply),
                            ![k].fallback = FALSE, ![k].counted = loads[k].reply.total, ![k].reply = Waiting]
  /\ UNCHANGED <<server, table, sortBy, sortDir, filter, shown, selection, loading, error, latest, mutation>>

\* (mutant of ShowAnswer) the selection stays what it was
ShowAnswerKeepsTicks(k) ==
  /\ Answered(k) /\ ~Stale(k) /\ ~NeedsFallback(k) /\ loads[k].reply # Failed
  /\ items' = loads[k].reply.rows /\ total' = loads[k].reply.total /\ page' = loads[k].reply.page
  /\ activeRow' = activeRow /\ view' = loads[k].query
  /\ Finally(k)
  /\ UNCHANGED <<server, table, sortBy, sortDir, filter, selection, error, latest, mutation>>

ShowAnswer(k) ==
  /\ Answered(k) /\ ~Stale(k) /\ ~NeedsFallback(k) /\ loads[k].reply # Failed
  /\ LET reply == loads[k].reply
         rows == ToSet(reply.rows)
     IN /\ items' = reply.rows /\ total' = reply.total /\ page' = reply.page
        /\ activeRow' = IF activeRow \in rows THEN activeRow
                        ELSE IF rows = {} THEN NoRow ELSE Head(reply.rows)
        /\ selectedIds' = IF loads[k].clear THEN {} ELSE selectedIds \cap rows
        /\ allMatching' = (allMatching /\ ~loads[k].clear)
        /\ view' = loads[k].query
  /\ Finally(k)
  /\ UNCHANGED <<server, table, sortBy, sortDir, filter, error, latest, mutation>>

\* (mutant of ShowFailure) the loading state ends with an answer only
ShowFailureWaits(k) ==
  /\ Answered(k) /\ ~Stale(k) /\ loads[k].reply = Failed
  /\ loads' = [j \in DOMAIN loads \ {k} |-> loads[j]] /\ error' = TRUE
  /\ UNCHANGED <<server, table, sortBy, sortDir, filter, shown, selection, loading, latest, mutation>>

ShowFailure(k) ==
  /\ Answered(k) /\ ~Stale(k) /\ loads[k].reply = Failed
  /\ items' = <<>> /\ total' = 0 /\ page' = 1 /\ view' = NoView
  /\ selectedIds' = {} /\ allMatching' = FALSE /\ error' = TRUE
  /\ Finally(k)
  /\ UNCHANGED <<server, table, sortBy, sortDir, filter, activeRow, latest, mutation>>

-----------------------------------------------------------------------------
\* Filters, sorting and pages.

\* The user waits for deletions to end before the query changes, unless hasty, and types while
\* the page rests.
Calm == Hasty \/ ~Mutating

TypeKeyword(w) ==
  /\ Hasty \/ ~Busy
  /\ w # Current.input /\ filter' = [filter EXCEPT ![table].input = w]
  /\ UNCHANGED <<server, table, sortBy, sortDir, shown, selection, loading, error, latest, loads, mutation>>

EditTree(d) ==
  /\ Hasty \/ ~Busy
  /\ d # Current.draft /\ filter' = [filter EXCEPT ![table].draft = d]
  /\ UNCHANGED <<server, table, sortBy, sortDir, shown, selection, loading, error, latest, loads, mutation>>

\* The sort buttons stay enabled while the page loads.
Sort(field, dir) ==
  /\ Hasty \/ ~Busy
  /\ field \in Sortable[table]
  /\ sortBy' = field /\ sortDir' = dir
  /\ Load(Query(page, field, dir), FALSE, FALSE)
  /\ UNCHANGED <<server, table, filter, shown, selection, mutation>>

ChangePage(p) ==
  /\ Calm /\ ~loading /\ total > 0
  /\ p \in {page - 1, page + 1} /\ (p < page => page > 1) /\ (p > page => page < TotalPages)
  /\ Load(Query(p, sortBy, sortDir), FALSE, FALSE)
  /\ UNCHANGED <<server, table, sortBy, sortDir, filter, shown, selection, mutation>>

\* (mutant of Refresh) a new filter does not clear the selection
RefreshKeepsSelection ==
  /\ Calm /\ ~loading
  /\ filter' = [filter EXCEPT ![table].keyword = Current.input, ![table].tree = Clean[Current.draft]]
  /\ Load([Query(1, sortBy, sortDir) EXCEPT !.keyword = Current.input, !.tree = Clean[Current.draft]],
          FALSE, FALSE)
  /\ UNCHANGED <<server, table, sortBy, sortDir, shown, selection, mutation>>

Refresh ==
  /\ Calm /\ ~loading
  /\ LET tree == Clean[Current.draft]
         changed == Current.input # Current.keyword \/ tree # Current.tree
     IN /\ filter' = [filter EXCEPT ![table].keyword = Current.input, ![table].tree = tree]
        /\ Load([Query(IF changed THEN 1 ELSE page, sortBy, sortDir)
                   EXCEPT !.keyword = Current.input, !.tree = tree], FALSE, changed)
  /\ UNCHANGED <<server, table, sortBy, sortDir, shown, selection, mutation>>

ResetFilters ==
  /\ Calm /\ ~loading
  /\ filter' = [filter EXCEPT ![table] = NoFilter]
  /\ Load([Query(1, sortBy, sortDir) EXCEPT !.keyword = NoKeyword, !.tree = NoTree], FALSE, TRUE)
  /\ UNCHANGED <<server, table, sortBy, sortDir, shown, selection, mutation>>

\* The tabs stay enabled while the page loads.
SwitchTable(t) ==
  /\ Calm /\ t # table
  /\ LET keep == sortBy \in Sortable[t]
         field == IF keep THEN sortBy ELSE "id"
         dir == IF keep THEN sortDir ELSE "desc"
     IN /\ table' = t /\ sortBy' = field /\ sortDir' = dir
        /\ Load([Query(page, field, dir) EXCEPT !.table = t, !.keyword = filter[t].keyword,
                                                !.tree = filter[t].tree], TRUE, TRUE)
  /\ selectedIds' = {} /\ allMatching' = FALSE
  /\ UNCHANGED <<server, filter, shown, mutation>>

\* The window is loaded again: its requests are aborted, but a deletion that was sent goes on.
Reopen ==
  /\ latest < MaxLoads
  /\ table' = Raw /\ sortBy' = "id" /\ sortDir' = "desc"
  /\ filter' = [t \in Tables |-> [filter[t] EXCEPT !.tree = Clean[filter[t].tree]]]
  /\ items' = <<>> /\ total' = 0 /\ page' = 1 /\ activeRow' = NoRow /\ view' = NoView
  /\ selectedIds' = {} /\ allMatching' = FALSE
  /\ loading' = TRUE /\ error' = FALSE /\ latest' = latest + 1
  /\ loads' = [k \in {latest + 1} |->
                 NewLoad([table |-> Raw, page |-> 1, keyword |-> filter[Raw].keyword,
                          tree |-> Clean[filter[Raw].tree], sortBy |-> "id", sortDir |-> "desc"],
                         FALSE, FALSE)]
  /\ mutation' = IF mutation # Idle /\ mutation.phase = "sent" THEN [mutation EXCEPT !.mounted = FALSE] ELSE Idle
  /\ UNCHANGED server

-----------------------------------------------------------------------------
\* Rows: the active one and the selection.

SelectedOnPage == IF allMatching THEN ToSet(items) ELSE selectedIds \cap ToSet(items)
SelectedCount == IF allMatching THEN total ELSE Cardinality(selectedIds)
AllSelectedOnPage == items # <<>> /\ SelectedOnPage = ToSet(items)
ShowSelectAllMatching ==
  ~HasAdvancedFilter /\ ~allMatching /\ AllSelectedOnPage /\ total > Len(items)

ActivateRow(id) ==
  /\ id \in ToSet(items) /\ id # activeRow /\ activeRow' = id
  /\ UNCHANGED <<server, table, sortBy, sortDir, filter, items, total, page, view, selection,
                 loading, error, latest, loads, mutation>>

\* A tick also activates the row; with all matching rows selected it clears the selection.
ToggleSelected(id) ==
  /\ id \in ToSet(items) /\ activeRow' = id
  /\ selectedIds' = IF allMatching THEN {}
                    ELSE IF id \in selectedIds THEN selectedIds \ {id} ELSE selectedIds \cup {id}
  /\ allMatching' = FALSE
  /\ UNCHANGED <<server, table, sortBy, sortDir, filter, items, total, page, view,
                 loading, error, latest, loads, mutation>>

ToggleSelectAll ==
  /\ selectedIds' = IF allMatching THEN {}
                    ELSE IF AllSelectedOnPage THEN selectedIds \ ToSet(items)
                    ELSE selectedIds \cup ToSet(items)
  /\ allMatching' = FALSE
  /\ UNCHANGED <<server, table, sortBy, sortDir, filter, shown, loading, error, latest, loads, mutation>>

SelectAllMatching ==
  /\ ShowSelectAllMatching
  /\ allMatching' = TRUE
  /\ UNCHANGED <<server, table, sortBy, sortDir, filter, shown, selectedIds, loading, error, latest, loads, mutation>>

ClearSelection ==
  /\ SelectedCount > 0 \/ allMatching
  /\ selectedIds' = {} /\ allMatching' = FALSE
  /\ UNCHANGED <<server, table, sortBy, sortDir, filter, shown, loading, error, latest, loads, mutation>>

-----------------------------------------------------------------------------
\* Deletions.  The page does not load while one is under way.  Bound: one at a time, also one
\* that a page sent which is gone.

\* (mutant of Send) the controls of a deletion are enabled while the page loads
SendWhileLoading(kind, ids, clear) ==
  /\ mutation = Idle /\ latest < MaxLoads
  /\ mutation' = [kind |-> kind, ids |-> ids, query |-> Query(page, sortBy, sortDir),
                  clear |-> clear, phase |-> "sent", mounted |-> TRUE]
  /\ error' = FALSE
  /\ UNCHANGED <<server, table, sortBy, sortDir, filter, shown, selection, loading, latest, loads>>

Send(kind, ids, clear) ==
  /\ mutation = Idle /\ ~loading /\ latest < MaxLoads
  /\ mutation' = [kind |-> kind, ids |-> ids, query |-> Query(page, sortBy, sortDir),
                  clear |-> clear, phase |-> "sent", mounted |-> TRUE]
  /\ error' = FALSE
  /\ UNCHANGED <<server, table, sortBy, sortDir, filter, shown, selection, loading, latest, loads>>

DeleteOne == activeRow \in ToSet(items) /\ Send("one", {activeRow}, allMatching)

BatchDelete ==
  /\ SelectedCount > 0 \/ (HasAdvancedFilter /\ total > 0)
  /\ HasAdvancedFilter => total > 0
  /\ IF HasAdvancedFilter \/ allMatching THEN Send("matching", {}, TRUE)
     ELSE Send("ids", selectedIds, TRUE)

Dedupe == Send("dedupe", {}, TRUE)

\* The handler goes on: it reloads the table of its own render.
MutationDone ==
  /\ mutation # Idle /\ mutation.phase = "done"
  /\ selectedIds' = IF mutation.kind = "one" THEN selectedIds \ mutation.ids ELSE selectedIds
  /\ allMatching' = (allMatching /\ ~(mutation.kind = "one" /\ mutation.clear))
  /\ Load(mutation.query, TRUE, mutation.clear)
  /\ mutation' = Idle
  /\ UNCHANGED <<server, table, sortBy, sortDir, filter, shown>>

MutationFailed ==
  /\ mutation # Idle /\ mutation.phase = "failed"
  /\ error' = TRUE /\ mutation' = Idle
  /\ UNCHANGED <<server, table, sortBy, sortDir, filter, shown, selection, loading, latest, loads>>

-----------------------------------------------------------------------------
\* useResultsPageState and its first load.
Init ==
  /\ db = [t \in Tables |-> 1..FirstRows[t]] /\ lastId = FirstRows
  /\ table = Raw /\ page = 1 /\ sortBy = "id" /\ sortDir = "desc"
  /\ filter = [t \in Tables |-> NoFilter]
  /\ items = <<>> /\ total = 0 /\ activeRow = NoRow /\ view = NoView
  /\ selectedIds = {} /\ allMatching = FALSE
  /\ loading = TRUE /\ error = FALSE /\ latest = 1
  /\ loads = [k \in {1} |-> NewLoad(Query(1, "id", "desc"), FALSE, FALSE)]
  /\ mutation = Idle

Next ==
  \/ \E t \in Tables : RowStored(t) \/ SwitchTable(t)
  \/ \E k \in 1..MaxLoads :
       \/ ListServed(k) \/ ListFails(k)
       \/ IgnoreStale(k) \/ FallBack(k) \/ ShowAnswer(k) \/ ShowFailure(k)
  \/ \E w \in Keywords : TypeKeyword(w)
  \/ \E d \in Drafts : EditTree(d)
  \/ \E field \in Fields, dir \in {"asc", "desc"} : Sort(field, dir)
  \/ \E p \in 1..(MaxId + 1) : ChangePage(p)
  \/ \E id \in Ids : ActivateRow(id) \/ ToggleSelected(id)
  \/ Refresh \/ ResetFilters \/ Reopen
  \/ ToggleSelectAll \/ SelectAllMatching \/ ClearSelection
  \/ DeleteOne \/ BatchDelete \/ Dedupe
  \/ MutationServed \/ MutationRefused \/ MutationDone \/ MutationFailed

Spec == Init /\ [][Next]_vars

\* Requests are answered or fail, and the page handles what has arrived.
FairSpec ==
  /\ Spec
  /\ \A k \in 1..MaxLoads :
       /\ WF_vars(ListServed(k) \/ ListFails(k))
       /\ WF_vars(IgnoreStale(k) \/ FallBack(k) \/ ShowAnswer(k) \/ ShowFailure(k))
  /\ WF_vars(MutationServed \/ MutationRefused)
  /\ WF_vars(MutationDone \/ MutationFailed)

-----------------------------------------------------------------------------
\* Once nothing loads, the rows on the screen answer the query the page states: its table,
\* applied keyword and filter, and sort order.  Answers of replaced requests, and reloads after
\* a deletion, do not break this (load, handleTableSwitch).
ViewIsCurrent ==
  ~loading /\ view # NoView => view = Query(page, sortBy, sortDir)

\* Once nothing loads, only rows on the screen are selected, and "all matching" is never
\* selected together with an advanced filter (useResultsSelection, load).
SelectionOnPage ==
  ~loading => selectedIds \subseteq ToSet(items) /\ ~(allMatching /\ HasAdvancedFilter)

\* A selection is dropped when rows of another table, keyword or filter are shown: what is
\* selected was chosen among the rows of the query it stands for (clearSelection).
SelectionKeepsItsScope ==
  [][view # NoView /\ view' # NoView /\ Scope(view') # Scope(view) => selectedIds' = {} /\ ~allMatching']_vars

\* A deletion that is sent concerns the rows the user looks at: ids on the screen, or the very
\* query whose rows are on the screen (handleDeleteOne, handleBatchDelete).
DeletesWhatIsShown ==
  [][mutation = Idle /\ mutation' # Idle /\ view # NoView =>
       /\ mutation'.ids \subseteq ToSet(items)
       /\ Scope(mutation'.query) = Scope(view)
       /\ mutation'.kind = "matching" => total > 0]_vars

\* After a deletion or a change of the table, keyword or filter the page shows rows if there are
\* any (the page fallback of load).  The fallback asks once: only if rows it counted on went before
\* its second answer may the page be empty.
FallbackFindsRows ==
  [][\A k \in DOMAIN loads :
       /\ k \notin DOMAIN loads' /\ ~Stale(k) /\ view' = loads[k].query
       /\ loads[k].fallback \/ loads[k].counted > 0 \/ loads[k].clear
       /\ total' > 0 /\ total' >= loads[k].counted
       => items' # <<>>]_vars

\* The page does not stay in its loading state, in which its controls are disabled.
LoadingEnds == loading ~> ~loading
==============================================================================
