-------------------------- MODULE ResultsPage_proofs --------------------------
(***************************************************************************)
(* The results page shows and deletes what its controls say, for any       *)
(* tables, rows and filters and any number of requests, of a user who      *)
(* waits for the page (Hasty = FALSE).  The invariant says what the last   *)
(* request asks for while the page loads, and that a deletion of this page *)
(* was sent for the query on the screen, which rests until it is answered. *)
(* That an empty page falls back to one with rows holds of a hasty user as *)
(* well: it has an invariant of its own, FetchInv, at the end.             *)
(***************************************************************************)
EXTENDS ResultsPage, FiniteSetTheorems, SequenceTheorems, TLAPS

Latest == loads[latest]

FilterStates == [input: Keywords, keyword: Keywords, draft: Drafts, tree: Trees]

TypeInv ==
  /\ table \in Tables /\ latest \in Nat /\ loading \in BOOLEAN /\ allMatching \in BOOLEAN
  /\ filter \in [Tables -> FilterStates]

\* The page loads while its last request has not been handled.
LoadingInv ==
  /\ \A k \in DOMAIN loads : k \in Nat /\ k <= latest
  /\ loading <=> latest \in DOMAIN loads

\* The last request asks for what the page states. If rows of another scope
\* are shown, or all rows of an advanced filter are selected, its answer
\* clears the selection.
AskedInv ==
  loading =>
    /\ DOMAIN Latest = {"query", "fallback", "clear", "reply", "aborted", "counted"}
    /\ Latest.clear \in BOOLEAN /\ ~Latest.aborted
    /\ Latest.query = Query(Latest.query.page, sortBy, sortDir)
    /\ Latest.reply \in {Waiting, Failed} \/ Latest.reply.page = Latest.query.page
    /\ allMatching /\ HasAdvancedFilter => Latest.clear
    /\ view # NoView => Latest.clear \/ Scope(Latest.query) = Scope(view)

\* A deletion under way is for the query on the screen, unless the page that
\* sent it is gone.
MutationInv ==
  mutation # Idle =>
    /\ DOMAIN mutation = {"kind", "ids", "query", "clear", "phase", "mounted"}
    /\ mutation.clear \in BOOLEAN
    /\ mutation.phase # "sent" => mutation.mounted
    /\ mutation.mounted => ~loading /\ mutation.query = Query(page, sortBy, sortDir)

PageInv == TypeInv /\ LoadingInv /\ AskedInv /\ MutationInv /\ ViewIsCurrent /\ SelectionOnPage

USE ResultsAssumption

\* What a query is, for a table, the filters and an order.
QueryOf(t, filters, p, field, dir) ==
  [table |-> t, page |-> p, keyword |-> filters[t].keyword, tree |-> filters[t].tree,
   sortBy |-> field, sortDir |-> dir]

LEMMA QueryIsOf ==
  /\ \A p, field, dir : Query(p, field, dir) = QueryOf(table, filter, p, field, dir)
  /\ \A p, field, dir : Query(p, field, dir)' = QueryOf(table', filter', p, field, dir)
BY DEF Query, QueryOf, Current

QueryParts == {"table", "page", "keyword", "tree", "sortBy", "sortDir"}

LEMMA IsQuery ==
  ASSUME NEW q, q = [x \in QueryParts |-> q[x]], NEW filters,
         q.keyword = filters[q.table].keyword, q.tree = filters[q.table].tree
  PROVE  q = QueryOf(q.table, filters, q.page, q.sortBy, q.sortDir)
BY DEF QueryParts, QueryOf

-----------------------------------------------------------------------------
(* Beginning a request *)

LEMMA InitInv == Init => PageInv
<1> SUFFICES ASSUME Init PROVE PageInv
  OBVIOUS
<1> USE DEF Init
<1>1. TypeInv
  BY DEF TypeInv, FilterStates, NoFilter
<1>2. LoadingInv
  BY DEF LoadingInv
<1>3. /\ Latest = NewLoad(Query(1, "id", "desc"), FALSE, FALSE)
      /\ DOMAIN Latest = {"query", "fallback", "clear", "reply", "aborted", "counted"}
  BY DEF Latest, NewLoad
<1>4. AskedInv
  BY <1>3 DEF AskedInv, Query, NewLoad, Current, Scope
<1>5. MutationInv /\ ViewIsCurrent /\ SelectionOnPage
  BY DEF MutationInv, ViewIsCurrent, SelectionOnPage
<1> QED
  BY <1>1, <1>2, <1>4, <1>5 DEF PageInv

\* load, up to its request: what its caller has to see to.
LEMMA BeginsInv ==
  ASSUME PageInv, NEW q, NEW fallback \in BOOLEAN, NEW clear \in BOOLEAN, Load(q, fallback, clear),
         TypeInv', MutationInv', UNCHANGED view,
         q = QueryOf(table', filter', q.page, sortBy', sortDir'),
         allMatching' /\ filter'[table'].tree # NoTree => clear,
         view # NoView => clear \/ Scope(q) = Scope(view)
  PROVE  PageInv'
<1>1. LoadingInv'
  BY DEF PageInv, LoadingInv, TypeInv, Load
<1>2. loading' /\ latest' = latest + 1 /\ latest \in Nat
  BY DEF Load, PageInv, TypeInv
<1>3. latest + 1 \notin DOMAIN loads
  BY <1>2 DEF PageInv, LoadingInv
<1>4. Latest' = NewLoad(q, fallback, clear)
  BY <1>2, <1>3 DEF Load, Latest
<1>5. /\ DOMAIN Latest' = {"query", "fallback", "clear", "reply", "aborted", "counted"}
      /\ Latest'.clear = clear /\ Latest'.aborted = FALSE /\ Latest'.query = q /\ Latest'.reply = Waiting
  BY <1>4 DEF NewLoad
<1>6. AskedInv'
  BY <1>5 DEF AskedInv, QueryOf, Query, Current, HasAdvancedFilter
<1>7. ViewIsCurrent' /\ SelectionOnPage'
  BY <1>2 DEF ViewIsCurrent, SelectionOnPage
<1> QED
  BY <1>1, <1>6, <1>7 DEF PageInv

LEMMA ScopeOfQuery ==
  ASSUME NEW p, NEW field, NEW dir
  PROVE  /\ Scope(Query(p, field, dir)) = <<table, Current.keyword, Current.tree>>
         /\ Query(p, field, dir).page = p
BY DEF Scope, Query

\* Once nothing loads, a request for any page and order is within the scope of
\* what is shown.
LEMMA ShownScope ==
  ASSUME PageInv, ~loading, view # NoView, NEW p, NEW field, NEW dir
  PROVE  Scope(Query(p, field, dir)) = Scope(view)
<1>1. view = Query(page, sortBy, sortDir)
  BY DEF PageInv, ViewIsCurrent
<1> QED
  BY <1>1, ScopeOfQuery

LEMMA SortInv ==
  ASSUME PageInv, Hasty = FALSE, NEW field \in Fields, NEW dir \in {"asc", "desc"}, Sort(field, dir)
  PROVE  PageInv'
<1> DEFINE q == Query(page, field, dir)
<1>1. ~loading /\ ~Mutating /\ loading' = TRUE /\ UNCHANGED <<table, filter, page, allMatching, view, mutation>>
  BY DEF Sort, Busy, Load, shown, selection
<1>2. TypeInv' /\ MutationInv'
  BY <1>1 DEF PageInv, TypeInv, MutationInv, Mutating, Sort, Load
<1>3. q = QueryOf(table', filter', q.page, sortBy', sortDir')
  BY <1>1 DEF Query, Current, Sort, QueryOf
<1>4. ~(allMatching' /\ filter'[table'].tree # NoTree)
  BY <1>1 DEF PageInv, SelectionOnPage, HasAdvancedFilter, Current
<1>5. view # NoView => Scope(q) = Scope(view)
  BY <1>1, ShownScope
<1> QED
  BY <1>1, <1>2, <1>3, <1>4, <1>5, BeginsInv DEF Sort

LEMMA ChangePageInv ==
  ASSUME PageInv, Hasty = FALSE, NEW p, ChangePage(p)
  PROVE  PageInv'
<1> DEFINE q == Query(p, sortBy, sortDir)
<1>1. /\ ~loading /\ ~Mutating /\ loading' = TRUE
      /\ UNCHANGED <<table, filter, sortBy, sortDir, page, allMatching, view, mutation>>
  BY DEF ChangePage, Calm, Load, shown, selection
<1>2. TypeInv' /\ MutationInv'
  BY <1>1 DEF PageInv, TypeInv, MutationInv, Mutating, ChangePage, Load
<1>3. q = QueryOf(table', filter', q.page, sortBy', sortDir')
  BY <1>1 DEF Query, Current, QueryOf
<1>4. ~(allMatching' /\ filter'[table'].tree # NoTree)
  BY <1>1 DEF PageInv, SelectionOnPage, HasAdvancedFilter, Current
<1>5. view # NoView => Scope(q) = Scope(view)
  BY <1>1, ShownScope
<1> QED
  BY <1>1, <1>2, <1>3, <1>4, <1>5, BeginsInv DEF ChangePage

\* A changed filter clears the selection; without a change the scope stays.
LEMMA RefreshInv ==
  ASSUME PageInv, Hasty = FALSE, Refresh
  PROVE  PageInv'
<1> DEFINE tree == Clean[Current.draft]
           changed == Current.input # Current.keyword \/ tree # Current.tree
           q == [Query(IF changed THEN 1 ELSE page, sortBy, sortDir)
                   EXCEPT !.keyword = Current.input, !.tree = tree]
<1>1. /\ ~loading /\ ~Mutating /\ loading' = TRUE /\ Load(q, FALSE, changed)
      /\ UNCHANGED <<table, sortBy, sortDir, page, allMatching, view, mutation>>
      /\ filter' = [filter EXCEPT ![table].keyword = Current.input, ![table].tree = tree]
  BY DEF Refresh, Calm, Load, shown, selection
<1>2. Current \in FilterStates /\ tree \in Trees
  BY DEF PageInv, TypeInv, Current, FilterStates
<1>3. /\ filter' \in [Tables -> FilterStates]
      /\ Current'.keyword = Current.input /\ Current'.tree = tree
  BY <1>1, <1>2 DEF PageInv, TypeInv, FilterStates, Current
<1>4. TypeInv' /\ MutationInv'
  BY <1>1, <1>3 DEF PageInv, TypeInv, MutationInv, Mutating, Load
<1>5. /\ q = [x \in QueryParts |-> q[x]]
      /\ q.table = table /\ q.keyword = Current.input /\ q.tree = tree
      /\ q.sortBy = sortBy /\ q.sortDir = sortDir
  <2> HIDE DEF changed, tree
  <2> QED  BY DEF Query, QueryParts
<1>6. q = QueryOf(table', filter', q.page, sortBy', sortDir')
  <2> HIDE DEF q, changed, tree
  <2>1. q.keyword = filter'[q.table].keyword /\ q.tree = filter'[q.table].tree
    BY <1>1, <1>3, <1>5 DEF Current
  <2>2. q = QueryOf(q.table, filter', q.page, q.sortBy, q.sortDir)
    BY <1>5, <2>1, IsQuery
  <2> QED  BY <1>1, <1>5, <2>2
<1>7. allMatching' /\ filter'[table'].tree # NoTree => changed
  BY <1>1, <1>3 DEF PageInv, SelectionOnPage, HasAdvancedFilter, Current
<1>8. view # NoView => changed \/ Scope(q) = Scope(view)
  <2> SUFFICES ASSUME view # NoView, ~changed PROVE Scope(q) = Scope(view)
    OBVIOUS
  <2>1. Scope(q) = <<table, Current.input, tree>>
    BY <1>5 DEF Scope
  <2>2. Scope(view) = <<table, Current.keyword, Current.tree>>
    BY <1>1, ShownScope, ScopeOfQuery
  <2> QED  BY <2>1, <2>2
<1>9. changed \in BOOLEAN
  OBVIOUS
<1> HIDE DEF q, changed
<1> QED
  BY <1>1, <1>4, <1>6, <1>7, <1>8, <1>9, BeginsInv

LEMMA ResetFiltersInv ==
  ASSUME PageInv, Hasty = FALSE, ResetFilters
  PROVE  PageInv'
<1> DEFINE q == [Query(1, sortBy, sortDir) EXCEPT !.keyword = NoKeyword, !.tree = NoTree]
<1>1. /\ ~loading /\ ~Mutating /\ loading' = TRUE /\ Load(q, FALSE, TRUE)
      /\ UNCHANGED <<table, sortBy, sortDir, page, allMatching, view, mutation>>
      /\ filter' = [filter EXCEPT ![table] = NoFilter]
  BY DEF ResetFilters, Calm, Load, shown, selection
<1>2. NoFilter \in FilterStates /\ NoFilter.keyword = NoKeyword /\ NoFilter.tree = NoTree
  BY DEF NoFilter, FilterStates
<1>3. filter' \in [Tables -> FilterStates] /\ filter'[table] = NoFilter
  BY <1>1, <1>2 DEF PageInv, TypeInv
<1>4. TypeInv' /\ MutationInv'
  BY <1>1, <1>3 DEF PageInv, TypeInv, MutationInv, Mutating, Load
<1>5. /\ q = [x \in QueryParts |-> q[x]]
      /\ q.table = table /\ q.keyword = NoKeyword /\ q.tree = NoTree
      /\ q.sortBy = sortBy /\ q.sortDir = sortDir
  BY DEF Query, QueryParts
<1> HIDE DEF q
<1>6. q = QueryOf(table', filter', q.page, sortBy', sortDir')
  <2>1. q.keyword = filter'[q.table].keyword /\ q.tree = filter'[q.table].tree
    BY <1>2, <1>3, <1>5
  <2>2. q = QueryOf(q.table, filter', q.page, q.sortBy, q.sortDir)
    BY <1>5, <2>1, IsQuery
  <2> QED  BY <1>1, <1>5, <2>2
<1> QED
  BY <1>1, <1>4, <1>6, BeginsInv

LEMMA SwitchTableInv ==
  ASSUME PageInv, Hasty = FALSE, NEW t \in Tables, SwitchTable(t)
  PROVE  PageInv'
<1> DEFINE keep == sortBy \in Sortable[t]
           field == IF keep THEN sortBy ELSE "id"
           dir == IF keep THEN sortDir ELSE "desc"
           q == [Query(page, field, dir) EXCEPT !.table = t, !.keyword = filter[t].keyword, !.tree = filter[t].tree]
<1>1. /\ ~Mutating /\ loading' = TRUE /\ latest' = latest + 1 /\ Load(q, TRUE, TRUE)
      /\ table' = t /\ sortBy' = field /\ sortDir' = dir /\ allMatching' = FALSE
      /\ UNCHANGED <<filter, page, view, mutation>>
  BY DEF SwitchTable, Calm, Load, shown, selection
<1>2. TypeInv' /\ MutationInv'
  <2> HIDE DEF q, field, dir, keep
  <2>1. loading' \in BOOLEAN /\ allMatching' \in BOOLEAN
    BY <1>1
  <2>2. table' \in Tables /\ latest' \in Nat /\ filter' \in [Tables -> FilterStates]
    BY <1>1 DEF PageInv, TypeInv
  <2>3. MutationInv'
    BY <1>1 DEF PageInv, MutationInv, Mutating
  <2> QED  BY <2>1, <2>2, <2>3 DEF TypeInv
<1>3. /\ q = [x \in QueryParts |-> q[x]]
      /\ q.table = t /\ q.keyword = filter[t].keyword /\ q.tree = filter[t].tree
      /\ q.sortBy = field /\ q.sortDir = dir
  <2> HIDE DEF field, dir
  <2> QED  BY DEF Query, QueryParts
<1> HIDE DEF q, field, dir, keep
<1>4. q = QueryOf(table', filter', q.page, sortBy', sortDir')
  <2>1. q = QueryOf(q.table, filter, q.page, q.sortBy, q.sortDir)
    BY <1>3, IsQuery
  <2> QED  BY <1>1, <1>3, <2>1
<1> QED
  BY <1>1, <1>2, <1>4, BeginsInv

\* The page did not load while the deletion was under way.
LEMMA MutationDoneInv ==
  ASSUME PageInv, MutationDone
  PROVE  PageInv'
<1> DEFINE q == mutation.query
<1>1. /\ mutation # Idle /\ mutation.phase = "done" /\ loading' = TRUE /\ mutation' = Idle
      /\ Load(q, TRUE, mutation.clear)
      /\ allMatching' = (allMatching /\ ~(mutation.kind = "one" /\ mutation.clear))
      /\ UNCHANGED <<table, sortBy, sortDir, filter, page, view>>
  BY DEF MutationDone, Load, shown
<1>2. mutation.clear \in BOOLEAN /\ ~loading /\ q = Query(page, sortBy, sortDir)
  BY <1>1 DEF PageInv, MutationInv
<1>3. TypeInv' /\ MutationInv'
  BY <1>1 DEF PageInv, TypeInv, MutationInv, Load
<1>4. q = QueryOf(table', filter', q.page, sortBy', sortDir')
  BY <1>1, <1>2 DEF Query, Current, QueryOf
<1>5. ~(allMatching' /\ filter'[table'].tree # NoTree)
  BY <1>1, <1>2 DEF PageInv, SelectionOnPage, HasAdvancedFilter, Current
<1>6. view # NoView => Scope(q) = Scope(view)
  BY <1>2, ShownScope
<1> QED
  BY <1>1, <1>2, <1>3, <1>4, <1>5, <1>6, BeginsInv

-----------------------------------------------------------------------------
(* Answers *)

\* A request that is not the last one does not matter.
LEMMA ServedInv ==
  ASSUME PageInv, NEW k \in Nat, ListServed(k) \/ ListFails(k)
  PROVE  PageInv'
<1>1. /\ k \in DOMAIN loads /\ DOMAIN loads' = DOMAIN loads
      /\ \A j \in DOMAIN loads : j # k => loads'[j] = loads[j]
      /\ UNCHANGED <<table, sortBy, sortDir, filter, items, page, view, selectedIds, allMatching, loading, latest, mutation>>
  BY DEF ListServed, ListFails, shown, selection
<1>2. LoadingInv'
  BY <1>1 DEF PageInv, LoadingInv
<1>3. TypeInv' /\ MutationInv' /\ ViewIsCurrent' /\ SelectionOnPage'
  BY <1>1 DEF PageInv, TypeInv, MutationInv, ViewIsCurrent, SelectionOnPage, Query, Current, HasAdvancedFilter
<1>4. ASSUME loading, k = latest
      PROVE  /\ DOMAIN Latest' = {"query", "fallback", "clear", "reply", "aborted", "counted"}
             /\ Latest'.query = Latest.query /\ Latest'.clear = Latest.clear /\ Latest'.aborted = Latest.aborted
             /\ Latest'.reply = Failed \/ Latest'.reply = Answer(Latest.query)
  BY <1>1, <1>4 DEF PageInv, AskedInv, Latest, ListServed, ListFails
<1>5. Answer(Latest.query).page = Latest.query.page
  BY DEF Answer
<1>6. AskedInv'
  <2> SUFFICES ASSUME loading PROVE AskedInv'
    BY <1>1 DEF AskedInv
  <2>1. CASE k = latest
    BY <1>1, <1>4, <1>5, <2>1 DEF PageInv, AskedInv, Query, Current, HasAdvancedFilter
  <2>2. CASE k # latest
    <3>1. Latest' = Latest
      BY <1>1, <2>2 DEF PageInv, LoadingInv, Latest
    <3> QED  BY <1>1, <3>1 DEF PageInv, AskedInv, Query, Current, HasAdvancedFilter
  <2> QED  BY <2>1, <2>2
<1> QED
  BY <1>2, <1>3, <1>6 DEF PageInv

LEMMA IgnoreStaleInv ==
  ASSUME PageInv, NEW k \in Nat, IgnoreStale(k)
  PROVE  PageInv'
<1>1. k # latest
  BY DEF IgnoreStale, Answered, Stale, PageInv, LoadingInv, AskedInv, Latest
<1>2. /\ k \in DOMAIN loads /\ loads' = [j \in DOMAIN loads \ {k} |-> loads[j]] /\ loading' = loading
      /\ UNCHANGED <<table, sortBy, sortDir, filter, items, page, view, selectedIds, allMatching, latest, mutation>>
  BY <1>1 DEF IgnoreStale, Answered, Finally, shown, selection, PageInv, TypeInv
<1>3. LoadingInv'
  BY <1>1, <1>2 DEF PageInv, LoadingInv
<1>4. loading => Latest' = Latest
  BY <1>1, <1>2 DEF PageInv, LoadingInv, Latest
<1> QED
  BY <1>2, <1>3, <1>4 DEF PageInv, TypeInv, AskedInv, MutationInv, ViewIsCurrent, SelectionOnPage,
                          Query, Current, HasAdvancedFilter

\* The last request is asked again, for another page.
LEMMA FallBackInv ==
  ASSUME PageInv, NEW k \in Nat, FallBack(k)
  PROVE  PageInv'
<1>1. /\ k = latest /\ k \in DOMAIN loads /\ ~Latest.aborted
      /\ UNCHANGED <<table, sortBy, sortDir, filter, items, page, view, selectedIds, allMatching, loading, latest, mutation>>
  BY DEF FallBack, Answered, Stale, shown, selection, Latest
<1>2. loading
  BY <1>1 DEF PageInv, LoadingInv
<1> DEFINE l == Latest
           p == FallbackPage(loads[k].reply)
           m == [l EXCEPT !.query = [l.query EXCEPT !.page = p], !.fallback = FALSE,
                         !.counted = l.reply.total, !.reply = Waiting]
<1>3. loads' = [loads EXCEPT ![k] = m]
  BY <1>1 DEF FallBack, Latest
<1> HIDE DEF p
<1>4. DOMAIN l = {"query", "fallback", "clear", "reply", "aborted", "counted"}
  BY <1>2 DEF PageInv, AskedInv
<1>5. /\ DOMAIN m = {"query", "fallback", "clear", "reply", "aborted", "counted"}
      /\ m.query = [l.query EXCEPT !.page = p] /\ m.reply = Waiting
      /\ m.clear = l.clear /\ m.aborted = l.aborted
  <2> HIDE DEF l
  <2> QED  BY <1>4
<1> HIDE DEF m
<1>6. DOMAIN loads' = DOMAIN loads /\ Latest' = m
  BY <1>1, <1>3 DEF Latest
<1>7. l.query = Query(l.query.page, sortBy, sortDir)
  BY <1>2 DEF PageInv, AskedInv
<1>8. m.query = Query(p, sortBy, sortDir)
  <2> DEFINE o == l.query.page
  <2> HIDE DEF o, l
  <2>1. [Query(o, sortBy, sortDir) EXCEPT !.page = p] = Query(p, sortBy, sortDir)
    BY DEF Query
  <2> QED  BY <1>5, <1>7, <2>1 DEF o
<1>9. Scope(m.query) = Scope(l.query) /\ m.query.page = p
  BY <1>7, <1>8, ScopeOfQuery
<1>10. LoadingInv' /\ TypeInv' /\ MutationInv' /\ ViewIsCurrent' /\ SelectionOnPage'
  BY <1>1, <1>6 DEF PageInv, LoadingInv, TypeInv, MutationInv, ViewIsCurrent, SelectionOnPage,
                    Query, Current, HasAdvancedFilter
<1>11. AskedInv'
  BY <1>1, <1>2, <1>5, <1>6, <1>8, <1>9 DEF PageInv, AskedInv, HasAdvancedFilter, Query, Current
<1> QED
  BY <1>10, <1>11 DEF PageInv

\* The answer of the last request: nothing loads any more.
LEMMA LastLands ==
  ASSUME PageInv, NEW k \in Nat, ~Stale(k), Answered(k), Finally(k)
  PROVE  /\ k = latest /\ loading /\ loading' = FALSE
         /\ latest' = latest => LoadingInv'
<1>1. k = latest /\ k \in DOMAIN loads
  BY DEF Stale, Answered
<1>2. loading /\ loading' = FALSE
  BY <1>1 DEF Finally, PageInv, LoadingInv
<1>3. ASSUME latest' = latest PROVE LoadingInv'
  BY <1>1, <1>2, <1>3 DEF Finally, PageInv, LoadingInv
<1> QED
  BY <1>1, <1>2, <1>3

LEMMA ShowAnswerInv ==
  ASSUME PageInv, NEW k \in Nat, ShowAnswer(k)
  PROVE  PageInv'
<1>1. /\ ~Stale(k) /\ Answered(k) /\ Finally(k) /\ loads[k].reply \notin {Waiting, Failed}
      /\ page' = loads[k].reply.page /\ view' = loads[k].query /\ items' = loads[k].reply.rows
      /\ selectedIds' = (IF loads[k].clear THEN {} ELSE selectedIds \cap ToSet(loads[k].reply.rows))
      /\ allMatching' = (allMatching /\ ~loads[k].clear)
      /\ UNCHANGED <<table, sortBy, sortDir, filter, latest, mutation>>
  BY DEF ShowAnswer, Answered
<1>2. k = latest /\ loading /\ loading' = FALSE /\ LoadingInv' /\ Latest = loads[k]
  BY <1>1, LastLands DEF Latest
<1>3. /\ Latest.query = Query(Latest.query.page, sortBy, sortDir) /\ Latest.reply.page = Latest.query.page
      /\ Latest.clear \in BOOLEAN /\ (allMatching /\ HasAdvancedFilter => Latest.clear)
  BY <1>1, <1>2 DEF PageInv, AskedInv
<1>4. TypeInv' /\ AskedInv'
  BY <1>1, <1>2 DEF PageInv, TypeInv, AskedInv
<1>5. ViewIsCurrent'
  BY <1>1, <1>2, <1>3 DEF ViewIsCurrent, Query, Current
<1>6. SelectionOnPage'
  BY <1>1, <1>2, <1>3 DEF SelectionOnPage, HasAdvancedFilter, Current
<1>7. MutationInv'
  BY <1>1, <1>2 DEF PageInv, MutationInv
<1> QED
  BY <1>2, <1>4, <1>5, <1>6, <1>7 DEF PageInv

LEMMA ShowFailureInv ==
  ASSUME PageInv, NEW k \in Nat, ShowFailure(k)
  PROVE  PageInv'
<1>1. /\ ~Stale(k) /\ Answered(k) /\ Finally(k)
      /\ view' = NoView /\ selectedIds' = {} /\ allMatching' = FALSE
      /\ UNCHANGED <<table, sortBy, sortDir, filter, latest, mutation>>
  BY DEF ShowFailure
<1>2. loading /\ loading' = FALSE /\ LoadingInv'
  BY <1>1, LastLands
<1>3. TypeInv' /\ AskedInv' /\ ViewIsCurrent' /\ SelectionOnPage'
  BY <1>1, <1>2 DEF PageInv, TypeInv, AskedInv, ViewIsCurrent, SelectionOnPage
<1>4. MutationInv'
  BY <1>1, <1>2 DEF PageInv, MutationInv
<1> QED
  BY <1>2, <1>3, <1>4 DEF PageInv

-----------------------------------------------------------------------------
(* The rest *)

\* What leaves the query, the rows and the requests alone.
LEMMA RestsInv ==
  ASSUME PageInv, MutationInv', allMatching' \in BOOLEAN,
         UNCHANGED <<table, sortBy, sortDir, filter, page, items, view, loading, latest, loads>>,
         allMatching' => allMatching \/ ~HasAdvancedFilter,
         ~loading => selectedIds' \subseteq ToSet(items)
  PROVE  PageInv'
<1>1. TypeInv' /\ LoadingInv' /\ ViewIsCurrent' /\ SelectionOnPage'
  BY DEF PageInv, TypeInv, LoadingInv, ViewIsCurrent, SelectionOnPage, Query, Current, HasAdvancedFilter
<1>2. AskedInv'
  BY DEF PageInv, AskedInv, Latest, Query, Current, HasAdvancedFilter
<1> QED
  BY <1>1, <1>2 DEF PageInv

\* What is typed is not applied yet.
LEMMA TypingInv ==
  ASSUME PageInv, NEW w \in Keywords, NEW d \in Drafts, Hasty = FALSE, TypeKeyword(w) \/ EditTree(d)
  PROVE  PageInv'
<1>1. /\ UNCHANGED <<table, sortBy, sortDir, page, items, view, selectedIds, allMatching, loading, latest, loads, mutation>>
      /\ ~loading
  BY DEF TypeKeyword, EditTree, shown, selection, Busy
<1>2. /\ filter' \in [Tables -> FilterStates]
      /\ filter'[table].keyword = filter[table].keyword /\ filter'[table].tree = filter[table].tree
  <2>1. CASE TypeKeyword(w)
    BY <2>1 DEF TypeKeyword, PageInv, TypeInv, FilterStates
  <2>2. CASE EditTree(d)
    BY <2>2 DEF EditTree, PageInv, TypeInv, FilterStates
  <2> QED  BY <2>1, <2>2
<1> QED
  BY <1>1, <1>2 DEF PageInv, TypeInv, LoadingInv, AskedInv, MutationInv, ViewIsCurrent, SelectionOnPage,
                    Query, Current, HasAdvancedFilter

LEMMA ReopenInv ==
  ASSUME PageInv, Reopen
  PROVE  PageInv'
<1> DEFINE q == [table |-> Raw, page |-> 1, keyword |-> filter[Raw].keyword, tree |-> Clean[filter[Raw].tree],
                 sortBy |-> "id", sortDir |-> "desc"]
<1>1. /\ table' = Raw /\ sortBy' = "id" /\ sortDir' = "desc" /\ view' = NoView /\ allMatching' = FALSE
      /\ filter' = [t \in Tables |-> [filter[t] EXCEPT !.tree = Clean[filter[t].tree]]]
      /\ loading' = TRUE /\ latest' = latest + 1 /\ latest \in Nat
      /\ loads' = [k \in {latest + 1} |-> NewLoad(q, FALSE, FALSE)]
      /\ mutation' = IF mutation # Idle /\ mutation.phase = "sent" THEN [mutation EXCEPT !.mounted = FALSE] ELSE Idle
  BY DEF Reopen, PageInv, TypeInv
<1>2. \A t \in Tables : filter[t] \in FilterStates /\ filter[t].tree \in Trees
  BY DEF PageInv, TypeInv, FilterStates
<1>3. /\ filter' \in [Tables -> FilterStates]
      /\ filter'[Raw].keyword = filter[Raw].keyword /\ filter'[Raw].tree = Clean[filter[Raw].tree]
  BY <1>1, <1>2 DEF FilterStates
<1>4. TypeInv'
  <2> HIDE DEF q
  <2>1. loading' \in BOOLEAN /\ allMatching' \in BOOLEAN
    BY <1>1
  <2>2. table' \in Tables /\ latest' \in Nat
    BY <1>1
  <2> QED  BY <1>3, <2>1, <2>2 DEF TypeInv
<1>5. LoadingInv'
  BY <1>1 DEF LoadingInv
<1>6. Latest' = NewLoad(q, FALSE, FALSE)
  BY <1>1 DEF Latest
<1>7. /\ DOMAIN Latest' = {"query", "fallback", "clear", "reply", "aborted", "counted"}
      /\ Latest'.clear = FALSE /\ Latest'.aborted = FALSE /\ Latest'.query = q /\ Latest'.reply = Waiting
  <2> HIDE DEF q
  <2> QED  BY <1>6 DEF NewLoad
<1>8. q = QueryOf(table', filter', q.page, sortBy', sortDir')
  BY <1>1, <1>3 DEF QueryOf
<1>9. AskedInv'
  <2> HIDE DEF q
  <2> QED  BY <1>1, <1>7, <1>8 DEF AskedInv, QueryOf, Query, Current
<1>10. MutationInv'
  BY <1>1 DEF PageInv, MutationInv
<1>11. ViewIsCurrent' /\ SelectionOnPage'
  BY <1>1 DEF ViewIsCurrent, SelectionOnPage
<1> QED
  BY <1>4, <1>5, <1>9, <1>10, <1>11 DEF PageInv

LEMMA SelectingInv ==
  ASSUME PageInv, NEW id,
         ActivateRow(id) \/ ToggleSelected(id) \/ ToggleSelectAll \/ SelectAllMatching \/ ClearSelection
  PROVE  PageInv'
<1>1. /\ UNCHANGED <<table, sortBy, sortDir, filter, page, items, view, loading, latest, loads, mutation>>
      /\ allMatching' \in BOOLEAN
      /\ allMatching' => allMatching \/ ~HasAdvancedFilter
      /\ ~loading => selectedIds' \subseteq ToSet(items)
  <2>1. ~loading => selectedIds \subseteq ToSet(items)
    BY DEF PageInv, SelectionOnPage
  <2>2. CASE ActivateRow(id)
    BY <2>1, <2>2 DEF ActivateRow, PageInv, TypeInv, selection
  <2>3. CASE ToggleSelected(id)
    BY <2>1, <2>3 DEF ToggleSelected
  <2>4. CASE ToggleSelectAll
    BY <2>1, <2>4 DEF ToggleSelectAll, shown
  <2>5. CASE SelectAllMatching
    BY <2>1, <2>5 DEF SelectAllMatching, ShowSelectAllMatching, shown
  <2>6. CASE ClearSelection
    BY <2>6 DEF ClearSelection, shown
  <2> QED  BY <2>2, <2>3, <2>4, <2>5, <2>6
<1>2. MutationInv'
  BY <1>1 DEF PageInv, MutationInv, Query, Current
<1> QED
  BY <1>1, <1>2, RestsInv

\* A deletion is for the query of the page.
LEMMA SendInv ==
  ASSUME PageInv, NEW kind, NEW ids, NEW clear \in BOOLEAN, Send(kind, ids, clear)
  PROVE  PageInv'
<1>1. /\ UNCHANGED <<table, sortBy, sortDir, filter, page, items, view, selectedIds, allMatching, loading, latest, loads>>
      /\ ~loading
      /\ mutation' = [kind |-> kind, ids |-> ids, query |-> Query(page, sortBy, sortDir),
                      clear |-> clear, phase |-> "sent", mounted |-> TRUE]
  BY DEF Send, shown, selection
<1>2. MutationInv'
  <2>1. Query(page, sortBy, sortDir)' = Query(page, sortBy, sortDir)
    BY <1>1 DEF Query, Current
  <2> QED  BY <1>1, <2>1 DEF MutationInv
<1>3. allMatching \in BOOLEAN /\ (~loading => selectedIds \subseteq ToSet(items))
  BY DEF PageInv, TypeInv, SelectionOnPage
<1> QED
  BY <1>1, <1>2, <1>3, RestsInv

LEMMA DeletingInv ==
  ASSUME PageInv, DeleteOne \/ BatchDelete \/ Dedupe
  PROVE  PageInv'
<1>1. allMatching \in BOOLEAN
  BY DEF PageInv, TypeInv
<1>2. CASE DeleteOne
  BY <1>1, <1>2, SendInv DEF DeleteOne
<1>3. CASE BatchDelete
  BY <1>3, SendInv DEF BatchDelete
<1>4. CASE Dedupe
  BY <1>4, SendInv DEF Dedupe
<1> QED
  BY <1>2, <1>3, <1>4

\* What others do, and the answers of a deletion.
LEMMA OutsideInv ==
  ASSUME PageInv, NEW t \in Tables, RowStored(t) \/ MutationServed \/ MutationRefused \/ MutationFailed
  PROVE  PageInv'
<1>1. UNCHANGED <<table, sortBy, sortDir, filter, page, items, view, selectedIds, allMatching, loading, latest, loads>>
  BY DEF RowStored, MutationServed, MutationRefused, MutationFailed, shown, selection
<1>2. Query(page, sortBy, sortDir)' = Query(page, sortBy, sortDir)
  BY <1>1 DEF Query, Current
<1>3. MutationInv'
  <2>1. CASE RowStored(t)
    BY <1>1, <1>2, <2>1 DEF RowStored, PageInv, MutationInv
  <2>2. CASE MutationServed \/ MutationRefused
    <3>1. mutation # Idle /\ \E phase : MutationAnswered(phase)
      BY <2>2 DEF MutationServed, MutationRefused
    <3>2. PICK phase : mutation' = IF mutation.mounted THEN [mutation EXCEPT !.phase = phase] ELSE Idle
      BY <3>1 DEF MutationAnswered
    <3> QED  BY <1>1, <1>2, <3>1, <3>2 DEF PageInv, MutationInv
  <2>3. CASE MutationFailed
    BY <2>3 DEF MutationFailed, MutationInv
  <2> QED  BY <2>1, <2>2, <2>3
<1>4. allMatching \in BOOLEAN /\ (~loading => selectedIds \subseteq ToSet(items))
  BY DEF PageInv, TypeInv, SelectionOnPage
<1> QED
  BY <1>1, <1>3, <1>4, RestsInv

LEMMA StutterInv == ASSUME PageInv, UNCHANGED vars PROVE PageInv'
<1>1. /\ UNCHANGED <<table, sortBy, sortDir, filter, page, items, view, selectedIds, allMatching, loading, latest, loads>>
      /\ UNCHANGED mutation
  BY DEF vars
<1>2. MutationInv'
  BY <1>1 DEF PageInv, MutationInv, Query, Current
<1>3. allMatching \in BOOLEAN /\ (~loading => selectedIds \subseteq ToSet(items))
  BY DEF PageInv, TypeInv, SelectionOnPage
<1> QED
  BY <1>1, <1>2, <1>3, RestsInv

LEMMA NextInv ==
  ASSUME PageInv, Hasty = FALSE, [Next]_vars
  PROVE  PageInv'
<1>1. ASSUME NEW t \in Tables, RowStored(t) \/ SwitchTable(t) PROVE PageInv'
  BY <1>1, OutsideInv, SwitchTableInv
<1>2. ASSUME NEW k \in 1..MaxLoads,
             ListServed(k) \/ ListFails(k) \/ IgnoreStale(k) \/ FallBack(k) \/ ShowAnswer(k) \/ ShowFailure(k)
      PROVE  PageInv'
  <2>1. k \in Nat
    OBVIOUS
  <2> QED  BY <1>2, <2>1, ServedInv, IgnoreStaleInv, FallBackInv, ShowAnswerInv, ShowFailureInv
<1>3. ASSUME NEW w \in Keywords, TypeKeyword(w) PROVE PageInv'
  BY <1>3, TypingInv
<1>4. ASSUME NEW d \in Drafts, EditTree(d) PROVE PageInv'
  BY <1>4, TypingInv
<1>5. ASSUME NEW field \in Fields, NEW dir \in {"asc", "desc"}, Sort(field, dir) PROVE PageInv'
  BY <1>5, SortInv
<1>6. ASSUME NEW p \in 1..(MaxId + 1), ChangePage(p) PROVE PageInv'
  BY <1>6, ChangePageInv
<1>7. ASSUME NEW id \in Ids, ActivateRow(id) \/ ToggleSelected(id) PROVE PageInv'
  BY <1>7, SelectingInv
<1>8. CASE ToggleSelectAll \/ SelectAllMatching \/ ClearSelection
  BY <1>8, SelectingInv
<1>9. CASE Refresh \/ ResetFilters \/ Reopen
  BY <1>9, RefreshInv, ResetFiltersInv, ReopenInv
<1>10. CASE DeleteOne \/ BatchDelete \/ Dedupe
  BY <1>10, DeletingInv
<1>11. CASE MutationServed \/ MutationRefused \/ MutationFailed
  BY <1>11, OutsideInv
<1>12. CASE MutationDone
  BY <1>12, MutationDoneInv
<1>13. CASE UNCHANGED vars
  BY <1>13, StutterInv
<1> QED
  BY <1>1, <1>2, <1>3, <1>4, <1>5, <1>6, <1>7, <1>8, <1>9, <1>10, <1>11, <1>12, <1>13 DEF Next

LEMMA AlwaysInv == ASSUME Hasty = FALSE PROVE Spec => []PageInv
<1>1. PageInv /\ [Next]_vars => PageInv'
  BY NextInv
<1> QED
  BY <1>1, InitInv, PTL DEF Spec

-----------------------------------------------------------------------------
(* An empty page *)

\* A page that begins before the last row has rows.
LEMMA PageHasRows ==
  ASSUME NEW q, Matching(q) \in SUBSET Ids, q.page \in Nat \ {0}
  PROVE  /\ Answer(q).page = q.page /\ Answer(q).total \in Nat
         /\ (q.page - 1) * PageSize < Answer(q).total => Answer(q).rows # <<>>
<1> DEFINE rank(id) == IF q.sortBy = "id" THEN id ELSE Score[id]
           before(a, b) == IF q.sortDir = "asc" THEN rank(a) < rank(b) ELSE rank(b) < rank(a)
           hits == Matching(q)
           n == Cardinality(hits)
           rows == [i \in 1..n |-> CHOOSE id \in hits : Cardinality({x \in hits : before(x, id)}) = i - 1]
           first == (q.page - 1) * PageSize + 1
           last == IF q.page * PageSize < n THEN q.page * PageSize ELSE n
           shownRows == SubSeq(rows, first, last)
<1>1. Answer(q) = [kind |-> "rows", rows |-> shownRows, total |-> n, page |-> q.page]
  BY DEF Answer
<1>2. n \in Nat
  <2>1. IsFiniteSet(Ids)
    BY FS_Interval DEF Ids
  <2> QED  BY <2>1, FS_Subset, FS_CardinalityType
<1> DEFINE R == {rows[i] : i \in 1..n}
<1>3. rows \in [1..n -> R]
  OBVIOUS
<1> HIDE DEF hits, n, rows, R
<1>4. rows \in Seq(R) /\ Len(rows) = n
  BY <1>2, <1>3, IsASeq, LenProperties
<1>5. ASSUME (q.page - 1) * PageSize < n PROVE shownRows # <<>>
  <2> DEFINE p == q.page
  <2>1. p \in Nat \ {0} /\ PageSize \in Nat \ {0}
    OBVIOUS
  <2> DEFINE before_ == (p - 1) * PageSize
             upto == p * PageSize
  <2>2. before_ \in Nat /\ upto \in Nat /\ upto = before_ + PageSize
    BY <2>1
  <2>3. first = before_ + 1 /\ last = (IF upto < n THEN upto ELSE n)
    OBVIOUS
  <2> HIDE DEF before_, upto, p, first, last
  <2>4. first \in 1..n /\ last \in 1..n /\ first <= last
    BY <1>2, <1>5, <2>1, <2>2, <2>3 DEF before_, p
  <2>5. Len(shownRows) = last - first + 1
    BY <1>4, <2>4, SubSeqProperties
  <2>6. Len(shownRows) # 0
    BY <1>2, <2>4, <2>5
  <2> QED  BY <2>6, EmptySeq
<1> QED  BY <1>1, <1>2, <1>5

\* The page to fall back to begins before the last of the rows that were counted.
LEMMA FallbackPageBegins ==
  ASSUME NEW reply, reply.page \in Nat, reply.page > 1, reply.total \in Nat, reply.total > 0
  PROVE  FallbackPage(reply) \in Nat \ {0} /\ (FallbackPage(reply) - 1) * PageSize < reply.total
<1> DEFINE n == reply.total
           s == PageSize
           last == (n + s - 1) \div s
           p == FallbackPage(reply)
<1>1. n \in Nat /\ n > 0 /\ s \in Nat /\ s > 0 /\ reply.page \in Nat
  OBVIOUS
<1>2. p = IF last < reply.page - 1 THEN last ELSE reply.page - 1
  BY DEF FallbackPage
<1> DEFINE r == (n + s - 1) % s
<1> HIDE DEF n, s, p
<1>3. last \in Int /\ r \in Int /\ 0 <= r /\ r < s /\ n + s - 1 = s * last + r
  BY <1>1
<1> HIDE DEF last, r
<1>4. last > 0
  <2> SUFFICES ASSUME last <= 0 PROVE FALSE
    BY <1>3
  <2>1. s * last <= 0
    BY <1>1, <1>3
  <2> QED  BY <1>1, <1>3, <2>1
<1>5. p \in Nat \ {0} /\ p <= last
  BY <1>1, <1>2, <1>3, <1>4
<1>6. (last - 1) * s < n
  <2>1. (last - 1) * s = s * last - s
    BY <1>1, <1>3
  <2> QED  BY <1>1, <1>3, <2>1
<1>7. (p - 1) * s <= (last - 1) * s
  BY <1>1, <1>3, <1>5
<1>8. (p - 1) * s \in Int /\ (last - 1) * s \in Int
  BY <1>1, <1>3, <1>5
<1>9. (p - 1) * s < n
  <2> DEFINE x == (p - 1) * s
             y == (last - 1) * s
  <2> HIDE DEF x, y
  <2>1. x \in Int /\ y \in Int /\ x <= y /\ y < n
    BY <1>6, <1>7, <1>8 DEF x, y
  <2>2. x < n
    BY <1>1, <2>1
  <2> QED  BY <2>2 DEF x
<1> QED  BY <1>5, <1>9 DEF n, s, p

LoadParts == {"query", "fallback", "clear", "reply", "aborted", "counted"}

\* A request may still fall back, or asks for the first page, or for one that begins before
\* the last of the rows it counted; only a reload of the page that is shown need not.
LoadOK(l) ==
  /\ DOMAIN l = LoadParts
  /\ DOMAIN l.query = QueryParts /\ l.query.table \in Tables /\ l.query.page \in Nat \ {0}
  /\ l.counted \in Nat
  /\ l.counted > 0 => (l.query.page - 1) * PageSize < l.counted
  /\ l.clear => l.fallback \/ l.counted > 0 \/ l.query.page = 1
  /\ \/ l.reply \in {Waiting, Failed}
     \/ /\ l.reply.page = l.query.page /\ l.reply.total \in Nat
        /\ (l.query.page - 1) * PageSize < l.reply.total => l.reply.rows # <<>>

ServerOK == lastId \in [Tables -> Nat] /\ db \in [Tables -> SUBSET Ids]
PageOK == table \in Tables /\ page \in Nat \ {0}
DeletionOK ==
  mutation # Idle =>
    /\ DOMAIN mutation = {"kind", "ids", "query", "clear", "phase", "mounted"}
    /\ DOMAIN mutation.query = QueryParts
    /\ mutation.query.table \in Tables /\ mutation.query.page \in Nat \ {0}
LoadsOK == latest \in Nat /\ \A k \in DOMAIN loads : LoadOK(loads[k])

FetchInv == ServerOK /\ PageOK /\ DeletionOK /\ LoadsOK

LEMMA NewLoadOK ==
  ASSUME NEW q, DOMAIN q = QueryParts, q.table \in Tables, q.page \in Nat \ {0}, NEW fallback, NEW clear,
         clear => fallback \/ q.page = 1
  PROVE  LoadOK(NewLoad(q, fallback, clear))
<1> DEFINE l == NewLoad(q, fallback, clear)
<1>1. /\ DOMAIN l = LoadParts /\ l.query = q /\ l.fallback = fallback /\ l.clear = clear
      /\ l.reply = Waiting /\ l.counted = 0
  BY DEF NewLoad, LoadParts
<1> HIDE DEF l
<1>2. LoadOK(l)
  BY <1>1 DEF LoadOK
<1> QED  BY <1>2 DEF l

\* An abort changes nothing of what a request asks for.
LEMMA LoadKeepsOK ==
  ASSUME LoadsOK, NEW q, DOMAIN q = QueryParts, q.table \in Tables, q.page \in Nat \ {0},
         NEW fallback, NEW clear, clear => fallback \/ q.page = 1,
         Load(q, fallback, clear)
  PROVE  LoadsOK'
<1>1. latest' = latest + 1 /\ latest' \in Nat
  BY DEF Load, LoadsOK
<1>2. loads' = [k \in DOMAIN loads \cup {latest + 1} |->
                  IF k \in DOMAIN loads THEN [loads[k] EXCEPT !.aborted = TRUE]
                  ELSE NewLoad(q, fallback, clear)]
  BY DEF Load
<1>3. ASSUME NEW k \in DOMAIN loads PROVE LoadOK([loads[k] EXCEPT !.aborted = TRUE])
  <2> DEFINE l == loads[k]
             m == [l EXCEPT !.aborted = TRUE]
  <2>1. LoadOK(l)
    BY DEF LoadsOK
  <2> HIDE DEF l
  <2>2. DOMAIN l = LoadParts
    BY <2>1 DEF LoadOK
  <2>3. /\ DOMAIN m = LoadParts /\ m.query = l.query /\ m.fallback = l.fallback /\ m.clear = l.clear
        /\ m.reply = l.reply /\ m.counted = l.counted
    BY <2>2 DEF LoadParts
  <2> HIDE DEF m
  <2>4. LoadOK(m)
    BY <2>1, <2>3 DEF LoadOK
  <2> QED  BY <2>4 DEF l, m
<1>4. LoadOK(NewLoad(q, fallback, clear))
  BY NewLoadOK
<1>5. \A k \in DOMAIN loads' : LoadOK(loads'[k])
  <2> TAKE k \in DOMAIN loads'
  <2> DEFINE new == NewLoad(q, fallback, clear)
             old == [loads[k] EXCEPT !.aborted = TRUE]
  <2>1. loads'[k] = IF k \in DOMAIN loads THEN old ELSE new
    BY <1>2
  <2>2. (k \in DOMAIN loads => LoadOK(old)) /\ LoadOK(new)
    BY <1>3, <1>4
  <2> HIDE DEF new, old
  <2> QED  BY <2>1, <2>2
<1> QED  BY <1>1, <1>5 DEF LoadsOK

\* One request changes.
LEMMA LoadBecomesOK ==
  ASSUME LoadsOK, NEW k \in DOMAIN loads, NEW m, LoadOK(m), loads' = [loads EXCEPT ![k] = m], UNCHANGED latest
  PROVE  LoadsOK'
BY DEF LoadsOK

LEMMA FetchInitInv == Init => FetchInv
<1> SUFFICES ASSUME Init PROVE FetchInv
  OBVIOUS
<1>1. ServerOK
  <2>1. \A t \in Tables : FirstRows[t] \in 0..MaxId /\ 1..FirstRows[t] \subseteq Ids
    BY DEF Ids
  <2>2. FirstRows \in [Tables -> Nat] /\ [t \in Tables |-> 1..FirstRows[t]] \in [Tables -> SUBSET Ids]
    BY <2>1
  <2> QED  BY <2>2 DEF ServerOK, Init
<1>2. PageOK /\ DeletionOK
  BY DEF PageOK, DeletionOK, Init
<1>3. LoadsOK
  <2> DEFINE q == Query(1, "id", "desc")
  <2>1. DOMAIN q = QueryParts /\ q.table \in Tables /\ q.page = 1
    BY DEF Query, QueryParts, Init
  <2>2. latest = 1 /\ loads = [k \in {1} |-> NewLoad(q, FALSE, FALSE)]
    BY DEF Init
  <2> HIDE DEF q
  <2>3. LoadOK(NewLoad(q, FALSE, FALSE))
    <3> DEFINE no == FALSE
    <3>1. ~no
      OBVIOUS
    <3> HIDE DEF no
    <3>2. LoadOK(NewLoad(q, no, no))
      BY <2>1, <3>1, NewLoadOK
    <3> QED  BY <3>2 DEF no
  <2> QED  BY <2>2, <2>3 DEF LoadsOK
<1> QED  BY <1>1, <1>2, <1>3 DEF FetchInv

\* A request begins.
LEMMA AskingInv ==
  ASSUME FetchInv, NEW t \in Tables, NEW field, NEW dir, NEW p \in Nat,
         Sort(field, dir) \/ ChangePage(p) \/ Refresh \/ ResetFilters \/ SwitchTable(t)
  PROVE  FetchInv'
<1>1. /\ UNCHANGED <<db, lastId, page, mutation>> /\ table' \in {table, t}
  BY DEF Sort, ChangePage, Refresh, ResetFilters, SwitchTable, server, shown
<1>2. ServerOK' /\ PageOK' /\ DeletionOK'
  BY <1>1 DEF FetchInv, ServerOK, PageOK, DeletionOK
<1>3. table \in Tables /\ page \in Nat \ {0} /\ LoadsOK
  BY DEF FetchInv, PageOK
<1>4. LoadsOK'
  <2>1. CASE Sort(field, dir)
    <3> DEFINE q == Query(page, field, dir)
    <3>1. Load(q, FALSE, FALSE)
      BY <2>1 DEF Sort
    <3>2. DOMAIN q = QueryParts /\ q.page = page /\ q.table = table
      BY DEF Query, QueryParts
    <3> HIDE DEF q
    <3> QED  BY <1>3, <3>1, <3>2, LoadKeepsOK
  <2>2. CASE ChangePage(p)
    <3> DEFINE q == Query(p, sortBy, sortDir)
    <3>1. Load(q, FALSE, FALSE)
      BY <2>2 DEF ChangePage
    <3>2. DOMAIN q = QueryParts /\ q.page = p /\ q.table = table
      BY DEF Query, QueryParts
    <3>3. p \in Nat \ {0}
      BY <1>3, <2>2 DEF ChangePage
    <3> HIDE DEF q
    <3> QED  BY <1>3, <3>1, <3>2, <3>3, LoadKeepsOK
  <2>3. CASE Refresh
    <3> DEFINE tree == Clean[Current.draft]
               input == Current.input
               changed == input # Current.keyword \/ tree # Current.tree
               p1 == IF changed THEN 1 ELSE page
               q == [Query(p1, sortBy, sortDir) EXCEPT !.keyword = input, !.tree = tree]
    <3>1. Load(q, FALSE, changed)
      BY <2>3 DEF Refresh
    <3>2. changed \in BOOLEAN /\ p1 \in Nat \ {0} /\ (changed => p1 = 1)
      BY <1>3
    <3> HIDE DEF p1, tree, input, changed
    <3>3. DOMAIN q = QueryParts /\ q.page = p1 /\ q.table = table
      BY DEF Query, QueryParts
    <3> HIDE DEF q
    <3> QED  BY <1>3, <3>1, <3>2, <3>3, LoadKeepsOK
  <2>4. CASE ResetFilters
    <3> DEFINE q == [Query(1, sortBy, sortDir) EXCEPT !.keyword = NoKeyword, !.tree = NoTree]
           clear == TRUE
           fallback == FALSE
    <3>1. Load(q, fallback, clear)
      BY <2>4 DEF ResetFilters
    <3>2. DOMAIN q = QueryParts /\ q.page = 1 /\ q.table = table
      BY DEF Query, QueryParts
    <3> HIDE DEF q, clear, fallback
    <3> QED  BY <1>3, <3>1, <3>2, LoadKeepsOK
  <2>5. CASE SwitchTable(t)
    <3> DEFINE keep == sortBy \in Sortable[t]
               f == IF keep THEN sortBy ELSE "id"
               d == IF keep THEN sortDir ELSE "desc"
               q == [Query(page, f, d) EXCEPT !.table = t, !.keyword = filter[t].keyword, !.tree = filter[t].tree]
    <3>1. Load(q, TRUE, TRUE)
      BY <2>5 DEF SwitchTable
    <3> HIDE DEF f, d
    <3>2. DOMAIN q = QueryParts /\ q.page = page /\ q.table = t
      BY DEF Query, QueryParts
    <3> HIDE DEF q
    <3> QED  BY <1>3, <3>1, <3>2, LoadKeepsOK
  <2> QED  BY <2>1, <2>2, <2>3, <2>4, <2>5
<1> QED  BY <1>2, <1>4 DEF FetchInv

LEMMA ReloadInv == ASSUME FetchInv, MutationDone PROVE FetchInv'
<1> DEFINE q == mutation.query
           clear == mutation.clear
           fallback == TRUE
<1>1. /\ mutation # Idle /\ mutation' = Idle /\ Load(q, fallback, clear) /\ fallback
      /\ UNCHANGED <<db, lastId, table, page>>
  BY DEF MutationDone, server, shown
<1>2. ServerOK' /\ PageOK' /\ DeletionOK'
  BY <1>1 DEF FetchInv, ServerOK, PageOK, DeletionOK
<1>3. LoadsOK /\ DOMAIN q = QueryParts /\ q.table \in Tables /\ q.page \in Nat \ {0}
  BY <1>1 DEF FetchInv, DeletionOK
<1> HIDE DEF q, fallback, clear
<1>4. LoadsOK'
  BY <1>1, <1>3, LoadKeepsOK
<1> QED  BY <1>2, <1>4 DEF FetchInv

LEMMA ServingInv == ASSUME FetchInv, NEW k \in Nat, ListServed(k) \/ ListFails(k) PROVE FetchInv'
<1> DEFINE l == loads[k]
           a == [l EXCEPT !.reply = Answer(l.query)]
           b == [l EXCEPT !.reply = Failed]
<1>1. /\ k \in DOMAIN loads /\ UNCHANGED <<db, lastId, table, page, latest, mutation>>
      /\ loads' = [loads EXCEPT ![k] = a] \/ loads' = [loads EXCEPT ![k] = b]
  BY DEF ListServed, ListFails, server, shown
<1>2. ServerOK' /\ PageOK' /\ DeletionOK'
  BY <1>1 DEF FetchInv, ServerOK, PageOK, DeletionOK
<1>3. LoadOK(l)
  BY <1>1 DEF FetchInv, LoadsOK
<1>4. Matching(l.query) \in SUBSET Ids
  BY <1>3 DEF FetchInv, ServerOK, LoadOK, Matching
<1> HIDE DEF l
<1>5. LoadOK(a)
  <2> DEFINE reply == Answer(l.query)
  <2>1. /\ reply.page = l.query.page /\ reply.total \in Nat
        /\ (l.query.page - 1) * PageSize < reply.total => reply.rows # <<>>
    BY <1>3, <1>4, PageHasRows DEF LoadOK
  <2> HIDE DEF reply
  <2>2. /\ DOMAIN a = LoadParts /\ a.query = l.query /\ a.fallback = l.fallback /\ a.clear = l.clear
        /\ a.reply = reply /\ a.counted = l.counted
    BY <1>3 DEF LoadOK, LoadParts, reply
  <2> HIDE DEF a
  <2> QED  BY <1>3, <2>1, <2>2 DEF LoadOK
<1>6. LoadOK(b)
  <2>1. /\ DOMAIN b = LoadParts /\ b.query = l.query /\ b.fallback = l.fallback /\ b.clear = l.clear
        /\ b.reply = Failed /\ b.counted = l.counted
    BY <1>3 DEF LoadOK, LoadParts
  <2> HIDE DEF b
  <2> QED  BY <1>3, <2>1 DEF LoadOK
<1> HIDE DEF a, b
<1>7. LoadsOK'
  BY <1>1, <1>5, <1>6, LoadBecomesOK DEF FetchInv
<1> QED  BY <1>2, <1>7 DEF FetchInv

\* The request is sent again, for a page that begins before the last row that was counted.
LEMMA FallingBackInv == ASSUME FetchInv, NEW k \in Nat, FallBack(k) PROVE FetchInv'
<1> DEFINE l == loads[k]
           p == FallbackPage(l.reply)
           q == [l.query EXCEPT !.page = p]
           m == [l EXCEPT !.query = q, !.fallback = FALSE, !.counted = l.reply.total, !.reply = Waiting]
<1>1. /\ k \in DOMAIN loads /\ loads[k].reply # Waiting /\ NeedsFallback(k)
      /\ UNCHANGED <<db, lastId, table, page, latest, mutation>>
  BY DEF FallBack, Answered, server, shown
<1>2. loads' = [loads EXCEPT ![k] = m]
  BY DEF FallBack
<1>3. ServerOK' /\ PageOK' /\ DeletionOK'
  BY <1>1 DEF FetchInv, ServerOK, PageOK, DeletionOK
<1>4. LoadOK(l)
  BY <1>1 DEF FetchInv, LoadsOK
<1>5. l.reply.page = l.query.page /\ l.reply.total \in Nat /\ l.reply.page > 1 /\ l.reply.total > 0
  BY <1>1, <1>4 DEF LoadOK, NeedsFallback
<1>6. p \in Nat \ {0} /\ (p - 1) * PageSize < l.reply.total
  BY <1>4, <1>5, FallbackPageBegins DEF LoadOK
<1> HIDE DEF p, l
<1>7. DOMAIN q = QueryParts /\ q.page = p /\ q.table = l.query.table
  BY <1>4 DEF LoadOK, QueryParts
<1> HIDE DEF q
<1>8. /\ DOMAIN m = LoadParts /\ m.query = q /\ m.clear = l.clear
      /\ m.reply = Waiting /\ m.counted = l.reply.total
  BY <1>4 DEF LoadOK, LoadParts
<1> HIDE DEF m
<1>9. LoadOK(m)
  BY <1>4, <1>5, <1>6, <1>7, <1>8 DEF LoadOK
<1>10. LoadsOK'
  BY <1>1, <1>2, <1>9, LoadBecomesOK DEF FetchInv
<1> QED  BY <1>3, <1>10 DEF FetchInv

\* A request that is dropped, because a newer one has replaced it or because it is shown.
LEMMA FinallyKeepsOK == ASSUME LoadsOK, NEW k, Finally(k), UNCHANGED latest PROVE LoadsOK'
BY DEF LoadsOK, Finally

LEMMA AnswerLandsInv ==
  ASSUME FetchInv, NEW k \in Nat, IgnoreStale(k) \/ ShowAnswer(k) \/ ShowFailure(k)
  PROVE  FetchInv'
<1>1. /\ Answered(k) /\ Finally(k) /\ UNCHANGED <<db, lastId, table, latest, mutation>>
      /\ page' \in {page, 1} \/ (page' = loads[k].reply.page /\ loads[k].reply # Failed)
  BY DEF IgnoreStale, ShowAnswer, ShowFailure, server, shown
<1>2. LoadOK(loads[k]) /\ loads[k].reply # Waiting
  BY <1>1 DEF FetchInv, LoadsOK, Answered
<1>3. page' \in Nat \ {0}
  <2>1. CASE page' \in {page, 1}
    BY <2>1 DEF FetchInv, PageOK
  <2>2. CASE page' = loads[k].reply.page /\ loads[k].reply # Failed
    BY <1>2, <2>2 DEF LoadOK
  <2> QED  BY <1>1, <2>1, <2>2
<1>4. LoadsOK'
  BY <1>1, FinallyKeepsOK DEF FetchInv
<1>5. ServerOK' /\ PageOK' /\ DeletionOK'
  BY <1>1, <1>3 DEF FetchInv, ServerOK, PageOK, DeletionOK
<1> QED  BY <1>4, <1>5 DEF FetchInv

\* What concerns neither the rows, the requests, nor the page.
LEMMA RestingInv ==
  ASSUME FetchInv, UNCHANGED <<db, lastId, table, page, latest, loads, mutation>>
  PROVE  FetchInv'
BY DEF FetchInv, ServerOK, PageOK, DeletionOK, LoadsOK

\* A row that is stored has an identifier no row of its table had.
LEMMA StoringInv == ASSUME FetchInv, NEW t \in Tables, RowStored(t) PROVE FetchInv'
<1>1. /\ lastId[t] < MaxRows[t] /\ lastId' = [lastId EXCEPT ![t] = @ + 1]
      /\ db' = [db EXCEPT ![t] = @ \cup {lastId[t] + 1}]
      /\ UNCHANGED <<table, page, latest, loads, mutation>>
  BY DEF RowStored, shown
<1>2. lastId[t] \in Nat /\ MaxRows[t] \in 0..MaxId
  BY DEF FetchInv, ServerOK
<1>3. lastId[t] + 1 \in Ids
  BY <1>1, <1>2 DEF Ids
<1>4. ServerOK'
  BY <1>1, <1>2, <1>3 DEF FetchInv, ServerOK
<1> QED  BY <1>1, <1>4 DEF FetchInv, PageOK, DeletionOK, LoadsOK

LEMMA ReopeningInv == ASSUME FetchInv, Reopen PROVE FetchInv'
<1> DEFINE q == [table |-> Raw, page |-> 1, keyword |-> filter[Raw].keyword,
                 tree |-> Clean[filter[Raw].tree], sortBy |-> "id", sortDir |-> "desc"]
           no == FALSE
<1>1. /\ table' = Raw /\ page' = 1 /\ latest' = latest + 1 /\ ~no
      /\ loads' = [k \in {latest + 1} |-> NewLoad(q, no, no)]
      /\ mutation' = IF mutation # Idle /\ mutation.phase = "sent" THEN [mutation EXCEPT !.mounted = FALSE] ELSE Idle
      /\ UNCHANGED <<db, lastId>>
  BY DEF Reopen, server
<1>2. DOMAIN q = QueryParts /\ q.table \in Tables /\ q.page = 1
  BY DEF QueryParts
<1> HIDE DEF q, no
<1>3. LoadOK(NewLoad(q, no, no))
  BY <1>1, <1>2, NewLoadOK
<1>4. LoadsOK'
  BY <1>1, <1>3 DEF FetchInv, LoadsOK
<1>5. DeletionOK'
  BY <1>1 DEF FetchInv, DeletionOK
<1> QED  BY <1>1, <1>4, <1>5 DEF FetchInv, ServerOK, PageOK

LEMMA SendingInv ==
  ASSUME FetchInv, NEW kind, NEW ids, NEW clear, Send(kind, ids, clear)
  PROVE  FetchInv'
<1> DEFINE q == Query(page, sortBy, sortDir)
           m == [kind |-> kind, ids |-> ids, query |-> q, clear |-> clear, phase |-> "sent", mounted |-> TRUE]
<1>1. mutation' = m /\ UNCHANGED <<db, lastId, table, page, latest, loads>>
  BY DEF Send, server, shown
<1>2. DOMAIN q = QueryParts /\ q.table = table /\ q.page = page
  BY DEF Query, QueryParts
<1> HIDE DEF q
<1>3. DOMAIN m = {"kind", "ids", "query", "clear", "phase", "mounted"} /\ m.query = q
  OBVIOUS
<1> HIDE DEF m
<1>4. DeletionOK'
  BY <1>1, <1>2, <1>3 DEF FetchInv, PageOK, DeletionOK
<1> QED  BY <1>1, <1>4 DEF FetchInv, ServerOK, PageOK, LoadsOK

\* The server's answer, or the page that takes it.
LEMMA DeletionEndsInv ==
  ASSUME FetchInv, MutationServed \/ MutationRefused \/ MutationFailed
  PROVE  FetchInv'
<1>1. mutation # Idle /\ UNCHANGED <<lastId, table, page, latest, loads>>
  BY DEF MutationServed, MutationRefused, MutationFailed, server, shown
<1>2. mutation.query.table \in Tables
  BY <1>1 DEF FetchInv, DeletionOK
<1>3. ServerOK'
  <2>1. CASE MutationServed
    <3>1. PICK left \in SUBSET db[mutation.query.table] : db' = [db EXCEPT ![mutation.query.table] = left]
      BY <2>1 DEF MutationServed
    <3> QED  BY <1>1, <1>2, <3>1 DEF FetchInv, ServerOK
  <2>2. CASE UNCHANGED db
    BY <1>1, <2>2 DEF FetchInv, ServerOK
  <2> QED  BY <2>1, <2>2 DEF MutationRefused, MutationFailed, server
<1>4. DeletionOK'
  <2>1. CASE mutation' = Idle
    BY <2>1 DEF DeletionOK
  <2>2. ASSUME NEW phase, MutationAnswered(phase) PROVE DeletionOK'
    <3>1. mutation' = IF mutation.mounted THEN [mutation EXCEPT !.phase = phase] ELSE Idle
      BY <2>2 DEF MutationAnswered
    <3> QED  BY <1>1, <3>1 DEF FetchInv, DeletionOK
  <2> QED  BY <2>1, <2>2 DEF MutationServed, MutationRefused, MutationFailed
<1> QED  BY <1>1, <1>3, <1>4 DEF FetchInv, PageOK, LoadsOK

LEMMA NextFetchInv == ASSUME FetchInv, [Next]_vars PROVE FetchInv'
<1>1. ASSUME NEW t \in Tables, RowStored(t) PROVE FetchInv'
  BY <1>1, StoringInv
<1>2. ASSUME NEW t \in Tables, SwitchTable(t) PROVE FetchInv'
  <2>1. 1 \in Nat
    OBVIOUS
  <2> QED  BY <1>2, <2>1, AskingInv
<1>3. ASSUME NEW k \in 1..MaxLoads,
             ListServed(k) \/ ListFails(k) \/ IgnoreStale(k) \/ FallBack(k) \/ ShowAnswer(k) \/ ShowFailure(k)
      PROVE  FetchInv'
  <2>1. k \in Nat
    OBVIOUS
  <2> QED  BY <1>3, <2>1, ServingInv, AnswerLandsInv, FallingBackInv
<1>4. ASSUME NEW w \in Keywords, TypeKeyword(w) PROVE FetchInv'
  BY <1>4, RestingInv DEF TypeKeyword, server, shown
<1>5. ASSUME NEW d \in Drafts, EditTree(d) PROVE FetchInv'
  BY <1>5, RestingInv DEF EditTree, server, shown
<1>6. ASSUME NEW field \in Fields, NEW dir \in {"asc", "desc"}, Sort(field, dir) PROVE FetchInv'
  <2>1. 1 \in Nat /\ Raw \in Tables
    OBVIOUS
  <2> QED  BY <1>6, <2>1, AskingInv
<1>7. ASSUME NEW p \in 1..(MaxId + 1), ChangePage(p) PROVE FetchInv'
  <2>1. p \in Nat /\ Raw \in Tables
    OBVIOUS
  <2> QED  BY <1>7, <2>1, AskingInv
<1>8. CASE Refresh \/ ResetFilters
  <2>1. 1 \in Nat /\ Raw \in Tables
    OBVIOUS
  <2> QED  BY <1>8, <2>1, AskingInv
<1>9. ASSUME NEW id, ActivateRow(id) \/ ToggleSelected(id) PROVE FetchInv'
  BY <1>9, RestingInv DEF ActivateRow, ToggleSelected, server
<1>10. CASE ToggleSelectAll \/ SelectAllMatching \/ ClearSelection
  BY <1>10, RestingInv DEF ToggleSelectAll, SelectAllMatching, ClearSelection, server, shown
<1>11. CASE DeleteOne \/ BatchDelete \/ Dedupe
  BY <1>11, SendingInv DEF DeleteOne, BatchDelete, Dedupe
<1>12. CASE Reopen
  BY <1>12, ReopeningInv
<1>13. CASE MutationDone
  BY <1>13, ReloadInv
<1>14. CASE MutationServed \/ MutationRefused \/ MutationFailed
  BY <1>14, DeletionEndsInv
<1>15. CASE UNCHANGED vars
  BY <1>15, RestingInv DEF vars
<1> QED
  BY <1>1, <1>2, <1>3, <1>4, <1>5, <1>6, <1>7, <1>8, <1>9, <1>10, <1>11, <1>12, <1>13, <1>14, <1>15 DEF Next

\* Only an answer that is shown takes a request away without a newer one or a failure.
LEMMA OnlyAnswersLand ==
  ASSUME FetchInv, Next, NEW k \in DOMAIN loads, k \notin DOMAIN loads', ~Stale(k), view' = loads[k].query
  PROVE  ShowAnswer(k)
<1>1. view' # NoView
  <2>1. DOMAIN loads[k].query = QueryParts
    BY DEF FetchInv, LoadsOK, LoadOK
  <2>2. DOMAIN view' = QueryParts
    BY <2>1
  <2>3. DOMAIN NoView = {"table"}
    BY DEF NoView
  <2>4. "page" \in QueryParts
    BY DEF QueryParts
  <2> QED  BY <2>2, <2>3, <2>4
<1>2. \A q, fallback, clear : ~Load(q, fallback, clear)
  BY DEF Load
<1>3. loads' # loads
  OBVIOUS
<1>4. PICK j \in 1..MaxLoads : IgnoreStale(j) \/ FallBack(j) \/ ShowAnswer(j) \/ ListServed(j) \/ ListFails(j)
  BY <1>1, <1>2, <1>3 DEF Next, RowStored, SwitchTable, ShowFailure,
     TypeKeyword, EditTree, Sort, ChangePage, ActivateRow, ToggleSelected, Refresh, ResetFilters, Reopen,
     ToggleSelectAll, SelectAllMatching, ClearSelection, DeleteOne, BatchDelete, Dedupe, Send,
     MutationServed, MutationRefused, MutationDone, MutationFailed
<1>5. ~FallBack(j) /\ ~ListServed(j) /\ ~ListFails(j)
  BY DEF FallBack, ListServed, ListFails
<1>6. Finally(j)
  BY <1>4, <1>5 DEF IgnoreStale, ShowAnswer
<1>7. j = k
  BY <1>6 DEF Finally
<1> QED
  BY <1>4, <1>5, <1>7 DEF IgnoreStale

-----------------------------------------------------------------------------
(* The theorems *)

\* Once nothing loads, the rows on the screen answer the query the page states
\* (ViewIsCurrent), whatever answers come late, are replaced or fail.
THEOREM ViewStaysCurrent == ASSUME Hasty = FALSE PROVE Spec => []ViewIsCurrent
<1>1. PageInv => ViewIsCurrent
  BY DEF PageInv
<1> QED
  BY <1>1, AlwaysInv, PTL

\* Once nothing loads, only rows on the screen are selected, and never all
\* those of an advanced filter (SelectionOnPage).
THEOREM SelectionStaysOnPage == ASSUME Hasty = FALSE PROVE Spec => []SelectionOnPage
<1>1. PageInv => SelectionOnPage
  BY DEF PageInv
<1> QED
  BY <1>1, AlwaysInv, PTL

\* A selection is dropped when rows of another table, keyword or filter are
\* shown (SelectionKeepsItsScope).
THEOREM SelectionLeavesWithItsScope == ASSUME Hasty = FALSE PROVE Spec => SelectionKeepsItsScope
<1> DEFINE Kept ==
      view # NoView /\ view' # NoView /\ Scope(view') # Scope(view) => selectedIds' = {} /\ ~allMatching'
<1>1. ASSUME PageInv, [Next]_vars PROVE [Kept]_vars
  <2> SUFFICES ASSUME view # NoView, view' # NoView, Scope(view') # Scope(view)
               PROVE  selectedIds' = {} /\ ~allMatching'
    OBVIOUS
  <2>1. view' # view
    OBVIOUS
  <2>2. PICK k \in 1..MaxLoads : ShowAnswer(k)
    BY <1>1, <2>1 DEF Next, vars, RowStored, SwitchTable, ListServed, ListFails, IgnoreStale, FallBack, ShowFailure,
       TypeKeyword, EditTree, Sort, ChangePage, ActivateRow, ToggleSelected, Refresh, ResetFilters, Reopen,
       ToggleSelectAll, SelectAllMatching, ClearSelection, DeleteOne, BatchDelete, Dedupe, Send,
       MutationServed, MutationRefused, MutationDone, MutationFailed, shown
  <2>3. k = latest /\ loading
    <3>1. k \in Nat /\ ~Stale(k) /\ Answered(k) /\ Finally(k)
      BY <2>2 DEF ShowAnswer
    <3> QED  BY <1>1, <3>1, LastLands
  <2>4. /\ view' = Latest.query
        /\ selectedIds' = (IF Latest.clear THEN {} ELSE selectedIds \cap ToSet(Latest.reply.rows))
        /\ allMatching' = (allMatching /\ ~Latest.clear)
    BY <2>2, <2>3 DEF ShowAnswer, Latest
  <2>5. Latest.clear
    BY <1>1, <2>3, <2>4 DEF PageInv, AskedInv
  <2> QED  BY <2>4, <2>5
<1> QED
  BY <1>1, AlwaysInv, PTL DEF Spec, SelectionKeepsItsScope

\* A deletion that is sent concerns the rows on the screen, or the very query
\* they answer (DeletesWhatIsShown).
THEOREM DeletionsAreOfWhatIsShown == ASSUME Hasty = FALSE PROVE Spec => DeletesWhatIsShown
<1> DEFINE Sound ==
      mutation = Idle /\ mutation' # Idle /\ view # NoView =>
        /\ mutation'.ids \subseteq ToSet(items)
        /\ Scope(mutation'.query) = Scope(view)
        /\ mutation'.kind = "matching" => total > 0
<1>1. ASSUME PageInv, [Next]_vars PROVE [Sound]_vars
  <2> SUFFICES ASSUME mutation = Idle, mutation' # Idle, view # NoView
               PROVE  /\ mutation'.ids \subseteq ToSet(items)
                      /\ Scope(mutation'.query) = Scope(view)
                      /\ mutation'.kind = "matching" => total > 0
    OBVIOUS
  <2>1. ASSUME NEW kind, NEW ids, NEW clear, Send(kind, ids, clear)
        PROVE  /\ ~loading /\ mutation'.ids = ids /\ mutation'.kind = kind
               /\ Scope(mutation'.query) = Scope(view)
    <3>1. /\ ~loading
          /\ mutation' = [kind |-> kind, ids |-> ids, query |-> Query(page, sortBy, sortDir),
                          clear |-> clear, phase |-> "sent", mounted |-> TRUE]
      BY <2>1 DEF Send
    <3> QED  BY <1>1, <3>1, ShownScope
  <2>2. DeleteOne \/ BatchDelete \/ Dedupe
    BY <1>1 DEF Next, vars, RowStored, SwitchTable, ListServed, ListFails, IgnoreStale, FallBack, ShowAnswer, ShowFailure,
       TypeKeyword, EditTree, Sort, ChangePage, ActivateRow, ToggleSelected, Refresh, ResetFilters, Reopen,
       ToggleSelectAll, SelectAllMatching, ClearSelection,
       MutationServed, MutationRefused, MutationDone, MutationFailed
  <2>3. CASE DeleteOne
    <3>1. Send("one", {activeRow}, allMatching) /\ activeRow \in ToSet(items)
      BY <2>3 DEF DeleteOne
    <3>2. mutation'.ids = {activeRow} /\ mutation'.kind = "one" /\ Scope(mutation'.query) = Scope(view)
      BY <2>1, <3>1
    <3> QED  BY <3>1, <3>2
  <2>4. CASE BatchDelete
    <3>1. CASE HasAdvancedFilter \/ allMatching
      <4>1. Send("matching", {}, TRUE)
        BY <2>4, <3>1 DEF BatchDelete
      <4>2. total > 0
        BY <2>4, <3>1 DEF BatchDelete, SelectedCount
      <4>3. mutation'.ids = {} /\ Scope(mutation'.query) = Scope(view)
        BY <2>1, <4>1
      <4> QED  BY <4>2, <4>3
    <3>2. CASE ~(HasAdvancedFilter \/ allMatching)
      <4>1. Send("ids", selectedIds, TRUE)
        BY <2>4, <3>2 DEF BatchDelete
      <4>2. selectedIds \subseteq ToSet(items)
        BY <1>1, <2>1, <4>1 DEF PageInv, SelectionOnPage
      <4>3. mutation'.ids = selectedIds /\ mutation'.kind = "ids" /\ Scope(mutation'.query) = Scope(view)
        BY <2>1, <4>1
      <4> QED  BY <4>2, <4>3
    <3> QED  BY <3>1, <3>2
  <2>5. CASE Dedupe
    <3>1. Send("dedupe", {}, TRUE)
      BY <2>5 DEF Dedupe
    <3>2. mutation'.ids = {} /\ mutation'.kind = "dedupe" /\ Scope(mutation'.query) = Scope(view)
      BY <2>1, <3>1
    <3> QED  BY <3>2
  <2> QED  BY <2>2, <2>3, <2>4, <2>5
<1> QED
  BY <1>1, AlwaysInv, PTL DEF Spec, DeletesWhatIsShown

\* After a deletion or a change of the table, keyword or filter the page shows rows if there
\* are any (FallbackFindsRows), however many rows, requests and pages there are, of any user.
THEOREM FallbackAlwaysFindsRows == Spec => FallbackFindsRows
<1> DEFINE Found ==
      \A k \in DOMAIN loads :
        /\ k \notin DOMAIN loads' /\ ~Stale(k) /\ view' = loads[k].query
        /\ loads[k].fallback \/ loads[k].counted > 0 \/ loads[k].clear
        /\ total' > 0 /\ total' >= loads[k].counted
        => items' # <<>>
<1>1. ASSUME FetchInv, [Next]_vars PROVE [Found]_vars
  <2> SUFFICES ASSUME Next, NEW k \in DOMAIN loads, k \notin DOMAIN loads', ~Stale(k), view' = loads[k].query,
                      loads[k].fallback \/ loads[k].counted > 0 \/ loads[k].clear,
                      total' > 0, total' >= loads[k].counted
               PROVE  items' # <<>>
    BY <1>1
  <2> DEFINE l == loads[k]
             first == (l.query.page - 1) * PageSize
  <2>1. /\ ~NeedsFallback(k) /\ l.reply \notin {Waiting, Failed}
        /\ items' = l.reply.rows /\ total' = l.reply.total
    BY <1>1, OnlyAnswersLand DEF ShowAnswer, Answered
  <2>2. LoadOK(l)
    BY <1>1 DEF FetchInv, LoadsOK
  <2>3. first < l.reply.total => l.reply.rows # <<>>
    BY <2>1, <2>2 DEF LoadOK
  <2>4. CASE l.query.page = 1
    <3>1. first = 0
      BY <2>4
    <3> HIDE DEF first
    <3> QED  BY <2>1, <2>3, <3>1
  <2>5. CASE l.counted > 0
    <3>1. first < l.counted /\ first \in Int /\ l.counted \in Nat
      BY <2>2, <2>5 DEF LoadOK
    <3>2. l.counted <= l.reply.total /\ l.reply.total \in Nat
      BY <2>1, <2>2 DEF LoadOK
    <3> HIDE DEF first, l
    <3> QED  BY <2>1, <2>3, <3>1, <3>2
  <2>6. CASE l.fallback /\ l.query.page > 1
    <3>1. l.reply.page = l.query.page
      BY <2>1, <2>2 DEF LoadOK
    <3> QED  BY <2>1, <2>6, <3>1 DEF NeedsFallback
  <2>7. l.query.page \in Nat \ {0} /\ (l.clear => l.fallback \/ l.counted > 0 \/ l.query.page = 1)
    BY <2>2 DEF LoadOK
  <2>8. l.query.page = 1 \/ l.query.page > 1
    BY <2>7
  <2> HIDE DEF l
  <2>9. l.fallback \/ l.counted > 0 \/ l.query.page = 1
    BY <2>7 DEF l
  <2> QED  BY <2>4, <2>5, <2>6, <2>8, <2>9
<1>2. FetchInv /\ [Next]_vars => FetchInv'
  BY NextFetchInv
<1> QED
  BY <1>1, <1>2, FetchInitInv, PTL DEF Spec, FallbackFindsRows
===============================================================================
