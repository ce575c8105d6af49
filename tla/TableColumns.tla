---------------------------- MODULE TableColumns -----------------------------
(***************************************************************************)
(* The columns of a table: which are shown (useResultsColumns.ts) and how  *)
(* wide they are while the border between two of them is dragged           *)
(* (useResultsColumnResize.ts, resultsTableConfig.tsx).  The tables of the *)
(* results page share the code; the jobs table has a copy of it, for one   *)
(* table whose columns are all shown (useJobsColumnResize.ts,              *)
(* jobsTableConfig.tsx).                                                   *)
(*                                                                         *)
(* A width of 0 in `widths' is no width: the column has its default one.   *)
(***************************************************************************)
EXTENDS Integers, Sequences, SequencesExt

CONSTANTS
  Tables,
  Columns,        \* Columns[t]: the keys of its columns, in order
  DefaultWidth,   \* DefaultWidth[k], of the column definitions
  DefaultVisible, \* DefaultVisible[t]
  StoredWidths,   \* bound: widths found in the local storage
  Deltas          \* bound: how far the pointer is from where the drag began

ASSUME ColumnsAssumption ==
  /\ \A t \in Tables : Columns[t] \in Seq(STRING)
  /\ \A t \in Tables : \A i, j \in DOMAIN Columns[t] : Columns[t][i] = Columns[t][j] => i = j
  /\ \A t \in Tables : \A key \in ToSet(Columns[t]) : DefaultWidth[key] \in Nat
  /\ StoredWidths \subseteq Int /\ Deltas \subseteq Int

VARIABLES table, visible, widths, drag
columnVars == <<table, visible, widths, drag>>

NoDrag == [table |-> "none"]

\* getColumnMinWidth, getJobColumnMinWidth
MinWidth(key) ==
  LET width == DefaultWidth[key]
  IN IF width <= 90 THEN 72 ELSE IF width <= 120 THEN 88 ELSE IF width <= 160 THEN 120 ELSE 140

\* resolveColumnWidth, resolveJobColumnWidth
ResolvedWidth(t, key) ==
  Max({MinWidth(key), IF widths[t][key] = 0 THEN DefaultWidth[key] ELSE widths[t][key]})

\* orderVisibleColumns: of the two author columns of curated items the other is shown, too.
OrderVisible(t, keys) ==
  LET authors == {"author", "author_name"}
      shown == IF t = "curated" /\ keys \cap authors # {} THEN keys \cup authors ELSE keys
  IN SelectSeq(Columns[t], LAMBDA key : key \in shown)

ToggleColumnVisibility(key) ==
  /\ visible' = [visible EXCEPT ![table] = IF Contains(@, key) THEN SelectSeq(@, LAMBDA k : k # key)
                                           ELSE OrderVisible(table, ToSet(@) \cup {key})]
  /\ UNCHANGED <<table, widths, drag>>

RestoreDefaultColumns ==
  /\ visible' = [visible EXCEPT ![table] = DefaultVisible[table]]
  /\ UNCHANGED <<table, widths, drag>>

SwitchTable ==
  /\ table' \in Tables \ {table}
  /\ UNCHANGED <<visible, widths, drag>>

\* The visible columns are rendered in the order of the definitions.
Shown(t) == {i \in DOMAIN Columns[t] : Contains(visible[t], Columns[t][i])}

\* startColumnResize: the handle is on the border of a column and the next that is shown.
StartColumnResize(i, j) ==
  LET left == Columns[table][i]
      right == Columns[table][j]
  IN /\ i < j /\ \A k \in Shown(table) : k <= i \/ j <= k
     /\ drag' = [table |-> table, left |-> left, right |-> right,
                 leftStart |-> ResolvedWidth(table, left), rightStart |-> ResolvedWidth(table, right)]
     /\ UNCHANGED <<table, visible, widths>>

\* (mutant of DraggedLeft) the column on the right is not looked at
DraggedLeftUnbounded(d, delta) == Max({d.leftStart + delta, MinWidth(d.left)})

DraggedLeft(d, delta) ==
  Min({Max({d.leftStart + delta, MinWidth(d.left)}), d.leftStart + d.rightStart - MinWidth(d.right)})

\* updateResizedColumnWidth; the widths are written to the local storage whenever they change.
PointerMove(delta) ==
  /\ drag # NoDrag
  /\ LET left == DraggedLeft(drag, delta)
     IN widths' = [widths EXCEPT ![drag.table][drag.left] = left,
                                 ![drag.table][drag.right] = drag.leftStart + drag.rightStart - left]
  /\ UNCHANGED <<table, visible, drag>>

StopResizing == drag' = NoDrag /\ UNCHANGED <<table, visible, widths>>

\* readColumnWidths, readJobColumnWidths: what is not a positive number is left out.
ReadWidths(stored) ==
  [t \in Tables |-> [key \in ToSet(Columns[t]) |-> IF stored[t][key] > 0 THEN stored[t][key] ELSE 0]]

\* The page is opened again.
ReopenTables ==
  /\ widths' = ReadWidths(widths)
  /\ visible' = DefaultVisible
  /\ drag' = NoDrag
  /\ table' \in Tables

ColumnsInit ==
  /\ \E width \in StoredWidths : widths = ReadWidths([t \in Tables |-> [key \in ToSet(Columns[t]) |-> width]])
  /\ visible = DefaultVisible
  /\ drag = NoDrag
  /\ table \in Tables

ColumnsNext ==
  \/ \E key \in ToSet(Columns[table]) : ToggleColumnVisibility(key)
  \/ \E i, j \in Shown(table) : StartColumnResize(i, j)
  \/ \E delta \in Deltas : PointerMove(delta)
  \/ RestoreDefaultColumns \/ SwitchTable \/ StopResizing \/ ReopenTables

-----------------------------------------------------------------------------
\* Dragging the border of two columns moves width from one to the other: what is shown of them
\* stays as wide together as it was when the drag began, so none gets narrower than its minimum,
\* whichever table and columns are shown meanwhile (useResultsColumnResize, useJobsColumnResize).
WidthsConserved ==
  drag # NoDrag =>
    ResolvedWidth(drag.table, drag.left) + ResolvedWidth(drag.table, drag.right)
      = drag.leftStart + drag.rightStart
==============================================================================
