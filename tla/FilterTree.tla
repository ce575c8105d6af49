----------------------------- MODULE FilterTree ------------------------------
(***************************************************************************)
(* The advanced filter of the results page: pages/results/                 *)
(* resultsFilterState.ts, the edits of useResultsFilterDraft.ts and the    *)
(* controls of ResultsFilterBuilder.tsx that make them.                    *)
(*                                                                         *)
(* A tree is a function from paths to nodes.  The path of a node is the    *)
(* path of its group and its place there; children are in the order of     *)
(* their places.  A node is a group or a condition.  Which of value,       *)
(* values, min and max a condition has depends on its operator; an absent  *)
(* one is Missing.  Texts are blank, spaces or a value; a list of tags is  *)
(* a set.                                                                  *)
(***************************************************************************)
EXTENDS Naturals, Sequences, SequencesExt

CONSTANTS
  ItemTables,
  FieldKinds,    \* FieldKinds[t]: the kinds of the fields of table t
  FirstField,    \* what a new condition is about
  UsedOperators, \* bound: the operators users choose
  Stored,        \* bound: filter trees found in the local storage
  MaxNodes       \* bound: nodes of all drafts

Missing == "missing"
NoTags == {Missing}
Texts == {"", "  ", "v"}
Trim(text) == IF text = "  " THEN "" ELSE text

\* A node of this version of the page or of another: any field, operator and relation.
IsGroup(n) == n = [type |-> "group", relation |-> n.relation]
IsCondition(n) ==
  /\ n = [type |-> "condition", field |-> n.field, op |-> n.op, value |-> n.value, values |-> n.values,
          min |-> n.min, max |-> n.max]
  /\ {n.value, n.min, n.max} \subseteq Texts \cup {Missing}
  /\ n.values \in (SUBSET Texts) \cup {NoTags}

\* Every node but the first is in a group of the tree.
IsTree(tree) ==
  /\ tree = [p \in DOMAIN tree |-> tree[p]]
  /\ IsFiniteSet(DOMAIN tree) /\ DOMAIN tree \subseteq Seq(Nat) /\ <<>> \in DOMAIN tree
  /\ \A p \in DOMAIN tree :
       /\ IF tree[p].type = "group" THEN IsGroup(tree[p]) ELSE IsCondition(tree[p])
       /\ p # <<>> => Front(p) \in DOMAIN tree /\ tree[Front(p)].type = "group"

ASSUME StoredAssumption == \A tree \in Stored : IsTree(tree)

ASSUME FieldsAssumption ==
  \A t \in ItemTables :
    /\ \A f \in DOMAIN FieldKinds[t] : FieldKinds[t][f] \in {"number", "datetime", "boolean", "tags", "text"}
    /\ FirstField[t] \in DOMAIN FieldKinds[t]

VARIABLES draftTree, appliedTree
filterVars == <<draftTree, appliedTree>>

Operators(kind) ==
  CASE kind = "number" -> {"gte", "eq", "neq", "gt", "lt", "lte", "between", "is_empty", "is_not_empty"}
    [] kind = "datetime" -> {"on_or_after", "on_or_before", "between", "is_empty", "is_not_empty"}
    [] kind = "boolean" -> {"is_true", "is_false"}
    [] kind = "tags" -> {"has_any", "has_all", "is_empty", "is_not_empty"}
    [] kind = "text" -> {"contains", "not_contains", "equals", "not_equals", "starts_with", "ends_with",
                         "is_empty", "is_not_empty", "length_gt", "length_gte", "length_lt",
                         "length_lte", "length_between"}

\* The first operator of each list; a new number condition starts with another one.
DefaultOperator(kind) ==
  CASE kind = "number" -> "eq" [] kind = "datetime" -> "on_or_after" [] kind = "boolean" -> "is_true"
    [] kind = "tags" -> "has_any" [] kind = "text" -> "contains"

NeedsArray(op) == op \in {"has_any", "has_all"}
NeedsRange(op) == op \in {"between", "length_between"}
NeedsSingle(op) ==
  op \notin {"is_empty", "is_not_empty", "is_true", "is_false", "between", "length_between", "has_any", "has_all"}

Group(relation) == [type |-> "group", relation |-> relation]
EmptyTree == [path \in {<<>>} |-> Group("AND")]
Condition(field, op) ==
  [type |-> "condition", field |-> field, op |-> op, value |-> Missing, values |-> NoTags,
   min |-> Missing, max |-> Missing]

WithRange(n, min, max) == [[n EXCEPT !.min = min] EXCEPT !.max = max]

CreateCondition(t, field) ==
  LET kind == FieldKinds[t][field]
      new == Condition(field, IF kind = "number" THEN "gte" ELSE DefaultOperator(kind))
  IN CASE kind = "boolean" -> new
       [] kind = "tags" -> [new EXCEPT !.values = {}]
       [] OTHER -> [new EXCEPT !.value = ""]

\* x ?? y
Else(x, y) == IF x = Missing THEN y ELSE x
\* parseFilterTagValues(node.values ?? node.value)
TagValues(n) ==
  {Trim(v) : v \in IF n.values # NoTags THEN n.values ELSE {Else(n.value, "")}} \ {""}

-----------------------------------------------------------------------------
\* What becomes of a stored or drafted tree.  A node that is dropped is <<>>.

\* (mutant of CoerceCondition) the tags are looked for where single values are
CoerceSingleTag(t, n) ==
  IF n.field \notin DOMAIN FieldKinds[t] THEN <<>>
  ELSE LET kind == FieldKinds[t][n.field]
           op == IF n.op \in Operators(kind) THEN n.op ELSE DefaultOperator(kind)
           new == Condition(n.field, op)
       IN <<CASE NeedsArray(op) -> [new EXCEPT !.values = {Trim(Else(n.value, ""))} \ {""}]
              [] NeedsRange(op) -> WithRange(new, Else(n.min, ""), Else(n.max, ""))
              [] NeedsSingle(op) -> [new EXCEPT !.value = Else(n.value, "")]
              [] OTHER -> new>>

\* coerceFilterConditionForUi: the condition in the form its editor needs.
CoerceCondition(t, n) ==
  IF n.field \notin DOMAIN FieldKinds[t] THEN <<>>
  ELSE LET kind == FieldKinds[t][n.field]
           op == IF n.op \in Operators(kind) THEN n.op ELSE DefaultOperator(kind)
           new == Condition(n.field, op)
       IN <<CASE NeedsArray(op) -> [new EXCEPT !.values = TagValues(n)]
              [] NeedsRange(op) -> WithRange(new, Else(n.min, ""), Else(n.max, ""))
              [] NeedsSingle(op) -> [new EXCEPT !.value = Else(n.value, "")]
              [] OTHER -> new>>

\* (mutant of SanitizeCondition) the operator is taken as it is
SanitizeOperatorAsIs(t, n) ==
  IF n.field \notin DOMAIN FieldKinds[t] THEN <<>>
  ELSE CASE NeedsArray(n.op) -> IF TagValues(n) = {} THEN <<>> ELSE <<n>>
         [] NeedsRange(n.op) -> IF Trim(Else(n.min, "")) = "" THEN <<>> ELSE <<n>>
         [] NeedsSingle(n.op) -> IF Trim(Else(n.value, "")) = "" THEN <<>> ELSE <<n>>
         [] OTHER -> <<n>>

\* sanitizeFilterTreeForSubmit: a condition that lacks its values is not submitted.
SanitizeCondition(t, n) ==
  IF n.field \notin DOMAIN FieldKinds[t] THEN <<>>
  ELSE LET kind == FieldKinds[t][n.field]
           op == IF n.op \in Operators(kind) THEN n.op ELSE DefaultOperator(kind)
           new == Condition(n.field, op)
           value == Trim(Else(n.value, ""))
           min == Trim(Else(n.min, ""))
           max == Trim(Else(n.max, ""))
       IN CASE NeedsArray(op) -> IF TagValues(n) = {} THEN <<>> ELSE <<[new EXCEPT !.values = TagValues(n)]>>
            [] NeedsRange(op) -> IF "" \in {min, max} THEN <<>> ELSE <<WithRange(new, min, max)>>
            [] NeedsSingle(op) -> IF value = "" THEN <<>> ELSE <<[new EXCEPT !.value = value]>>
            [] OTHER -> <<new>>

\* A relation that is not OR is AND.
CoerceGroup(n) == Group(IF n.relation = "OR" THEN "OR" ELSE "AND")

Coerce(t, n) == IF n.type = "group" THEN <<CoerceGroup(n)>> ELSE CoerceCondition(t, n)
SanitizeNode(t, n) == IF n.type = "group" THEN <<CoerceGroup(n)>> ELSE SanitizeCondition(t, n)

\* A node that is dropped leaves its place empty; it is never a group.
NormalizeFilterTree(t, tree) ==
  IF tree[<<>>].type # "group" THEN EmptyTree
  ELSE [p \in {q \in DOMAIN tree : Coerce(t, tree[q]) # <<>>} |-> Coerce(t, tree[p])[1]]

SanitizeFilterTree(t, tree) ==
  IF tree[<<>>].type # "group" THEN EmptyTree
  ELSE [p \in {q \in DOMAIN tree : SanitizeNode(t, tree[q]) # <<>>} |-> SanitizeNode(t, tree[p])[1]]

\* (mutant of ReadTree) what was applied is read like what was drafted
ReadTreeUnchecked(t, tree) == NormalizeFilterTree(t, tree)

\* readResultsFilterState: what is applied again when the page is opened.
ReadTree(t, tree) == SanitizeFilterTree(t, NormalizeFilterTree(t, tree))

-----------------------------------------------------------------------------
\* Edits of the draft.

PathsOf(t, type) == {p \in DOMAIN draftTree[t] : draftTree[t][p].type = type}
Nodes(t) == {<<t, p>> : p \in DOMAIN draftTree[t]}
RoomForNode == Cardinality(UNION {Nodes(t) : t \in ItemTables}) < MaxNodes + Cardinality(ItemTables)

\* The children of the group at a path.
Children(tree, path) == {p \in DOMAIN tree : p # <<>> /\ Front(p) = path}
NextPlace(tree, path) == 1 + Max({0} \cup {Last(p) : p \in Children(tree, path)})

\* updateDraftTree: path is one the builder has rendered.
Update(t, path, node) ==
  /\ draftTree' = [draftTree EXCEPT ![t] = [p \in DOMAIN @ \cup {path} |-> IF p = path THEN node ELSE @[p]]]
  /\ UNCHANGED appliedTree

AddNode(t, path, node) ==
  /\ RoomForNode
  /\ Update(t, Append(path, NextPlace(draftTree[t], path)), node)

AddConditionToGroup(t, path) == AddNode(t, path, CreateCondition(t, FirstField[t]))
AddGroupToGroup(t, path) == AddNode(t, path, Group("AND"))

\* Where node p is when the one at path is gone: later children of its group move down.
Closed(path, p) ==
  IF Len(p) >= Len(path) /\ IsPrefix(Front(path), p) /\ p[Len(path)] > Last(path)
  THEN [p EXCEPT ![Len(path)] = @ - 1] ELSE p

\* The node at path goes with all that is below it.
Without(tree, path) ==
  LET rest == {p \in DOMAIN tree : ~IsPrefix(path, p)}
  IN [p \in {Closed(path, q) : q \in rest} |-> tree[CHOOSE q \in rest : Closed(path, q) = p]]

RemoveDraftNode(t, path) ==
  /\ path # <<>>
  /\ draftTree' = [draftTree EXCEPT ![t] = Without(@, path)]
  /\ UNCHANGED appliedTree

UpdateGroupRelation(t, path, relation) == Update(t, path, Group(relation))

ChooseField(t, path, field) == Update(t, path, CreateCondition(t, field))

\* What the new operator needs is kept from the old condition or blank.
ChooseOperator(t, path, op) ==
  LET n == draftTree[t][path]
      new == [CreateCondition(t, n.field) EXCEPT !.op = op]
  IN /\ op \in Operators(FieldKinds[t][n.field])
     /\ Update(t, path,
          CASE NeedsArray(op) -> [new EXCEPT !.values = IF n.values = NoTags THEN {} ELSE n.values]
            [] NeedsRange(op) -> WithRange(new, Else(n.min, ""), Else(n.max, ""))
            [] NeedsSingle(op) -> [new EXCEPT !.value = Else(n.value, "")]
            [] OTHER -> new)

\* The input of the condition's operator.
TypeValue(t, path, text) ==
  LET n == draftTree[t][path]
  IN \/ NeedsArray(n.op) /\ Update(t, path, [n EXCEPT !.values = {Trim(text)} \ {""}])
     \/ NeedsRange(n.op) /\ Update(t, path, [n EXCEPT !.min = text])
     \/ NeedsRange(n.op) /\ Update(t, path, [n EXCEPT !.max = text])
     \/ NeedsSingle(n.op) /\ Update(t, path, [n EXCEPT !.value = text])

-----------------------------------------------------------------------------
\* handleRefresh and handleResetFilters, as far as the trees go.
Apply(t) ==
  /\ appliedTree' = [appliedTree EXCEPT ![t] = SanitizeFilterTree(t, draftTree[t])]
  /\ UNCHANGED draftTree

ResetFilter(t) ==
  /\ draftTree' = [draftTree EXCEPT ![t] = EmptyTree]
  /\ appliedTree' = [appliedTree EXCEPT ![t] = EmptyTree]

\* The page is opened again: every change has been written to the local storage.
ReopenResults ==
  /\ draftTree' = [t \in ItemTables |-> NormalizeFilterTree(t, draftTree[t])]
  /\ appliedTree' = [t \in ItemTables |-> ReadTree(t, appliedTree[t])]

\* What is stored may be of an earlier version of the page.
FilterInit ==
  \E stored \in [ItemTables -> Stored] :
    /\ draftTree = [t \in ItemTables |-> NormalizeFilterTree(t, stored[t])]
    /\ appliedTree = [t \in ItemTables |-> ReadTree(t, stored[t])]

FilterNext ==
  \/ \E t \in ItemTables :
       \/ \E path \in PathsOf(t, "group") :
            \/ AddConditionToGroup(t, path) \/ AddGroupToGroup(t, path)
            \/ \E relation \in {"AND", "OR"} : UpdateGroupRelation(t, path, relation)
       \/ \E path \in PathsOf(t, "condition") :
            \/ \E field \in DOMAIN FieldKinds[t] : ChooseField(t, path, field)
            \/ \E op \in UsedOperators : ChooseOperator(t, path, op)
            \/ \E text \in Texts : TypeValue(t, path, text)
       \/ \E path \in DOMAIN draftTree[t] : RemoveDraftNode(t, path)
       \/ Apply(t) \/ ResetFilter(t)
  \/ ReopenResults

-----------------------------------------------------------------------------
Conditions(tree) == {tree[p] : p \in {q \in DOMAIN tree : tree[q].type = "condition"}}

\* Every condition that is submitted is about a field of its table, with an operator of that
\* field and all the values the operator needs, whatever was drafted, stored or read back
\* (sanitizeFilterTreeForSubmit, readResultsFilterState).
SubmittedIsComplete ==
  \A t \in ItemTables : \A n \in Conditions(appliedTree[t]) :
    /\ n.field \in DOMAIN FieldKinds[t] /\ n.op \in Operators(FieldKinds[t][n.field])
    /\ NeedsArray(n.op) => n.values \notin {NoTags, {}}
    /\ NeedsRange(n.op) => {n.min, n.max} \cap {Missing, ""} = {}
    /\ NeedsSingle(n.op) => n.value \notin {Missing, ""}

\* Opening the page again changes neither what is applied nor what applying the draft would
\* submit, whatever was edited: a draft is stored with values its operator does not use, and is
\* read back in another form (hydrate, coerceFilterNodeForUi).
FiltersSurviveReopen ==
  \A t \in ItemTables :
    /\ ReadTree(t, appliedTree[t]) = appliedTree[t]
    /\ SanitizeFilterTree(t, NormalizeFilterTree(t, draftTree[t])) = SanitizeFilterTree(t, draftTree[t])
==============================================================================
