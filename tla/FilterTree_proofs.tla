-------------------------- MODULE FilterTree_proofs --------------------------
(***************************************************************************)
(* What the advanced filter submits is complete, and opening the page      *)
(* again changes nothing that is or would be submitted, for any tables,    *)
(* fields and stored trees and trees of any size.  Both rest on two facts  *)
(* about single conditions, SanitizeCoerced and SanitizedIsComplete, and   *)
(* on the edits keeping the draft a tree.                                  *)
(***************************************************************************)
EXTENDS FilterTree, FiniteSetTheorems, SequenceTheorems, TLAPS

FilterSpec == FilterInit /\ [][FilterNext]_filterVars

Kinds == {"number", "datetime", "boolean", "tags", "text"}

\* What the field and the operator of a condition become.
Known(t, n) == n.field \in DOMAIN FieldKinds[t]
OpOf(t, n) ==
  IF n.op \in Operators(FieldKinds[t][n.field]) THEN n.op ELSE DefaultOperator(FieldKinds[t][n.field])

\* A condition that the server takes.
IsComplete(t, n) ==
  /\ Known(t, n) /\ n.op \in Operators(FieldKinds[t][n.field])
  /\ NeedsArray(n.op) => n.values \notin {NoTags, {}}
  /\ NeedsRange(n.op) => {n.min, n.max} \cap {Missing, ""} = {}
  /\ NeedsSingle(n.op) => n.value \notin {Missing, ""}

-----------------------------------------------------------------------------
(* Conditions *)

LEMMA DefaultIsOperator == ASSUME NEW kind \in Kinds PROVE DefaultOperator(kind) \in Operators(kind)
<1>1. CASE kind = "number"   BY <1>1 DEF DefaultOperator, Operators
<1>2. CASE kind = "datetime" BY <1>2 DEF DefaultOperator, Operators
<1>3. CASE kind = "boolean"  BY <1>3 DEF DefaultOperator, Operators
<1>4. CASE kind = "tags"     BY <1>4 DEF DefaultOperator, Operators
<1>5. CASE kind = "text"     BY <1>5 DEF DefaultOperator, Operators
<1> QED  BY <1>1, <1>2, <1>3, <1>4, <1>5 DEF Kinds

LEMMA OpOfIsOperator ==
  ASSUME NEW t \in ItemTables, NEW n, Known(t, n)
  PROVE  OpOf(t, n) \in Operators(FieldKinds[t][n.field])
BY FieldsAssumption, DefaultIsOperator DEF OpOf, Known, Kinds

LEMMA OneNeed ==
  ASSUME NEW op
  PROVE  /\ NeedsArray(op) => ~NeedsRange(op) /\ ~NeedsSingle(op)
         /\ NeedsRange(op) => ~NeedsArray(op) /\ ~NeedsSingle(op)
         /\ NeedsSingle(op) => ~NeedsArray(op) /\ ~NeedsRange(op)
BY DEF NeedsArray, NeedsRange, NeedsSingle

LEMMA Trimmed ==
  ASSUME NEW x \in Texts
  PROVE  Trim(x) \in Texts /\ Trim(x) # "  " /\ Trim(Trim(x)) = Trim(x)
BY DEF Trim, Texts

LEMMA ElseText ==
  ASSUME NEW x \in Texts \cup {Missing}
  PROVE  Else(x, "") \in Texts /\ \A y \in Texts : Else(y, "") = y
BY DEF Else, Texts, Missing

LEMMA TagsAgain ==
  ASSUME NEW n, n.values \in SUBSET (Texts \ {"", "  "})
  PROVE  TagValues(n) = n.values
BY DEF TagValues, Texts, Trim, NoTags, Missing

LEMMA TagsType ==
  ASSUME NEW n, IsCondition(n)
  PROVE  TagValues(n) \in SUBSET (Texts \ {"", "  "})
<1>1. CASE n.values # NoTags
  BY <1>1 DEF TagValues, Texts, Trim, NoTags, Missing, IsCondition
<1>2. CASE n.values = NoTags
  BY <1>2 DEF TagValues, Texts, Trim, NoTags, Missing, IsCondition, Else
<1> QED  BY <1>1, <1>2

LEMMA OneTuple == \A x, y : <<x>> = <<y>> => x = y
OBVIOUS

\* A condition as its fields.
Cond(field, op, value, values, min, max) ==
  [type |-> "condition", field |-> field, op |-> op, value |-> value, values |-> values,
   min |-> min, max |-> max]

\* What the fields of a condition may hold.
Value == Texts \cup {Missing}
Tags == (SUBSET Texts) \cup {NoTags}

LEMMA FieldValues ==
  /\ Missing \in Value /\ NoTags \in Tags
  /\ \A x \in Texts : x \in Value
  /\ \A s \in SUBSET (Texts \ {"", "  "}) : s \in Tags
BY DEF Value, Tags

LEMMA CondFields ==
  ASSUME NEW field, NEW op, NEW value \in Value, NEW values \in Tags, NEW min \in Value, NEW max \in Value,
         NEW n, n = Cond(field, op, value, values, min, max)
  PROVE  /\ IsCondition(n) /\ n.type = "condition" /\ n.field = field /\ n.op = op /\ n.value = value
         /\ n.values = values /\ n.min = min /\ n.max = max
BY DEF Cond, IsCondition, Value, Tags

LEMMA ConditionWith ==
  ASSUME NEW field, NEW op, NEW x, NEW y
  PROVE  /\ Condition(field, op) = Cond(field, op, Missing, NoTags, Missing, Missing)
         /\ [Condition(field, op) EXCEPT !.value = x] = Cond(field, op, x, NoTags, Missing, Missing)
         /\ [Condition(field, op) EXCEPT !.values = x] = Cond(field, op, Missing, x, Missing, Missing)
         /\ WithRange(Condition(field, op), x, y) = Cond(field, op, Missing, NoTags, x, y)
<1>1. Condition(field, op) = Cond(field, op, Missing, NoTags, Missing, Missing)
  BY DEF Condition, Cond
<1>2. [Condition(field, op) EXCEPT !.value = x] = Cond(field, op, x, NoTags, Missing, Missing)
  BY DEF Condition, Cond
<1>3. [Condition(field, op) EXCEPT !.values = x] = Cond(field, op, Missing, x, Missing, Missing)
  BY DEF Condition, Cond
<1>4. [Condition(field, op) EXCEPT !.min = x] = Cond(field, op, Missing, NoTags, x, Missing)
  BY DEF Condition, Cond
<1>5. [Cond(field, op, Missing, NoTags, x, Missing) EXCEPT !.max = y] = Cond(field, op, Missing, NoTags, x, y)
  BY DEF Cond
<1> QED  BY <1>1, <1>2, <1>3, <1>4, <1>5 DEF WithRange

\* The four forms of a coerced condition.
LEMMA CoerceForms ==
  ASSUME NEW t, NEW n, Known(t, n)
  PROVE  /\ NeedsArray(OpOf(t, n)) =>
              CoerceCondition(t, n) = <<Cond(n.field, OpOf(t, n), Missing, TagValues(n), Missing, Missing)>>
         /\ NeedsRange(OpOf(t, n)) =>
              CoerceCondition(t, n) =
                <<Cond(n.field, OpOf(t, n), Missing, NoTags, Else(n.min, ""), Else(n.max, ""))>>
         /\ NeedsSingle(OpOf(t, n)) =>
              CoerceCondition(t, n) = <<Cond(n.field, OpOf(t, n), Else(n.value, ""), NoTags, Missing, Missing)>>
         /\ ~NeedsArray(OpOf(t, n)) /\ ~NeedsRange(OpOf(t, n)) /\ ~NeedsSingle(OpOf(t, n)) =>
              CoerceCondition(t, n) = <<Cond(n.field, OpOf(t, n), Missing, NoTags, Missing, Missing)>>
<1> DEFINE op == OpOf(t, n)
           new == Condition(n.field, op)
<1>1. CoerceCondition(t, n) =
        <<CASE NeedsArray(op) -> [new EXCEPT !.values = TagValues(n)]
            [] NeedsRange(op) -> WithRange(new, Else(n.min, ""), Else(n.max, ""))
            [] NeedsSingle(op) -> [new EXCEPT !.value = Else(n.value, "")]
            [] OTHER -> new>>
  BY DEF CoerceCondition, Known, OpOf
<1> HIDE DEF op
<1>2. ASSUME NeedsArray(op) PROVE CoerceCondition(t, n) = <<[new EXCEPT !.values = TagValues(n)]>>
  BY <1>1, <1>2, OneNeed
<1>3. ASSUME NeedsRange(op)
      PROVE  CoerceCondition(t, n) = <<WithRange(new, Else(n.min, ""), Else(n.max, ""))>>
  BY <1>1, <1>3, OneNeed
<1>4. ASSUME NeedsSingle(op) PROVE CoerceCondition(t, n) = <<[new EXCEPT !.value = Else(n.value, "")]>>
  BY <1>1, <1>4, OneNeed
<1>5. ASSUME ~NeedsArray(op), ~NeedsRange(op), ~NeedsSingle(op) PROVE CoerceCondition(t, n) = <<new>>
  BY <1>1, <1>5
<1>6. \A x, y :
        /\ new = Cond(n.field, op, Missing, NoTags, Missing, Missing)
        /\ [new EXCEPT !.value = x] = Cond(n.field, op, x, NoTags, Missing, Missing)
        /\ [new EXCEPT !.values = x] = Cond(n.field, op, Missing, x, Missing, Missing)
        /\ WithRange(new, x, y) = Cond(n.field, op, Missing, NoTags, x, y)
  BY ConditionWith DEF new
<1> HIDE DEF new
<1>7. /\ NeedsArray(op) => CoerceCondition(t, n) = <<Cond(n.field, op, Missing, TagValues(n), Missing, Missing)>>
      /\ NeedsRange(op) =>
           CoerceCondition(t, n) = <<Cond(n.field, op, Missing, NoTags, Else(n.min, ""), Else(n.max, ""))>>
      /\ NeedsSingle(op) =>
           CoerceCondition(t, n) = <<Cond(n.field, op, Else(n.value, ""), NoTags, Missing, Missing)>>
      /\ ~NeedsArray(op) /\ ~NeedsRange(op) /\ ~NeedsSingle(op) =>
           CoerceCondition(t, n) = <<Cond(n.field, op, Missing, NoTags, Missing, Missing)>>
  BY <1>2, <1>3, <1>4, <1>5, <1>6
<1> QED  BY <1>7 DEF op

\* The four forms of a submitted condition, and when there is none.
LEMMA SanitizeForms ==
  ASSUME NEW t, NEW n, Known(t, n)
  PROVE  /\ NeedsArray(OpOf(t, n)) =>
              SanitizeCondition(t, n) =
                IF TagValues(n) = {} THEN <<>>
                ELSE <<Cond(n.field, OpOf(t, n), Missing, TagValues(n), Missing, Missing)>>
         /\ NeedsRange(OpOf(t, n)) =>
              SanitizeCondition(t, n) =
                IF "" \in {Trim(Else(n.min, "")), Trim(Else(n.max, ""))} THEN <<>>
                ELSE <<Cond(n.field, OpOf(t, n), Missing, NoTags, Trim(Else(n.min, "")), Trim(Else(n.max, "")))>>
         /\ NeedsSingle(OpOf(t, n)) =>
              SanitizeCondition(t, n) =
                IF Trim(Else(n.value, "")) = "" THEN <<>>
                ELSE <<Cond(n.field, OpOf(t, n), Trim(Else(n.value, "")), NoTags, Missing, Missing)>>
         /\ ~NeedsArray(OpOf(t, n)) /\ ~NeedsRange(OpOf(t, n)) /\ ~NeedsSingle(OpOf(t, n)) =>
              SanitizeCondition(t, n) = <<Cond(n.field, OpOf(t, n), Missing, NoTags, Missing, Missing)>>
<1> DEFINE op == OpOf(t, n)
           new == Condition(n.field, op)
           value == Trim(Else(n.value, ""))
           min == Trim(Else(n.min, ""))
           max == Trim(Else(n.max, ""))
<1>1. SanitizeCondition(t, n) =
        CASE NeedsArray(op) -> IF TagValues(n) = {} THEN <<>> ELSE <<[new EXCEPT !.values = TagValues(n)]>>
          [] NeedsRange(op) -> IF "" \in {min, max} THEN <<>> ELSE <<WithRange(new, min, max)>>
          [] NeedsSingle(op) -> IF value = "" THEN <<>> ELSE <<[new EXCEPT !.value = value]>>
          [] OTHER -> <<new>>
  BY DEF SanitizeCondition, Known, OpOf
<1> HIDE DEF op, new, value, min, max
<1>2. ASSUME NeedsArray(op)
      PROVE  SanitizeCondition(t, n) =
               IF TagValues(n) = {} THEN <<>> ELSE <<[new EXCEPT !.values = TagValues(n)]>>
  BY <1>1, <1>2, OneNeed
<1>3. ASSUME NeedsRange(op)
      PROVE  SanitizeCondition(t, n) = IF "" \in {min, max} THEN <<>> ELSE <<WithRange(new, min, max)>>
  BY <1>1, <1>3, OneNeed
<1>4. ASSUME NeedsSingle(op)
      PROVE  SanitizeCondition(t, n) = IF value = "" THEN <<>> ELSE <<[new EXCEPT !.value = value]>>
  BY <1>1, <1>4, OneNeed
<1>5. ASSUME ~NeedsArray(op), ~NeedsRange(op), ~NeedsSingle(op) PROVE SanitizeCondition(t, n) = <<new>>
  BY <1>1, <1>5
<1>6. \A x, y :
        /\ new = Cond(n.field, op, Missing, NoTags, Missing, Missing)
        /\ [new EXCEPT !.value = x] = Cond(n.field, op, x, NoTags, Missing, Missing)
        /\ [new EXCEPT !.values = x] = Cond(n.field, op, Missing, x, Missing, Missing)
        /\ WithRange(new, x, y) = Cond(n.field, op, Missing, NoTags, x, y)
  BY ConditionWith DEF new
<1>7. /\ NeedsArray(op) =>
           SanitizeCondition(t, n) =
             IF TagValues(n) = {} THEN <<>> ELSE <<Cond(n.field, op, Missing, TagValues(n), Missing, Missing)>>
      /\ NeedsRange(op) =>
           SanitizeCondition(t, n) =
             IF "" \in {min, max} THEN <<>> ELSE <<Cond(n.field, op, Missing, NoTags, min, max)>>
      /\ NeedsSingle(op) =>
           SanitizeCondition(t, n) =
             IF value = "" THEN <<>> ELSE <<Cond(n.field, op, value, NoTags, Missing, Missing)>>
      /\ ~NeedsArray(op) /\ ~NeedsRange(op) /\ ~NeedsSingle(op) =>
           SanitizeCondition(t, n) = <<Cond(n.field, op, Missing, NoTags, Missing, Missing)>>
  BY <1>2, <1>3, <1>4, <1>5, <1>6
<1> QED  BY <1>7 DEF op, value, min, max

\* A condition that consists of given parts.
LEMMA CondKnown ==
  ASSUME NEW t \in ItemTables, NEW n, Known(t, n),
         NEW value \in Value, NEW values \in Tags, NEW min \in Value, NEW max \in Value, NEW c,
         c = Cond(n.field, OpOf(t, n), value, values, min, max)
  PROVE  /\ IsCondition(c) /\ c.type = "condition" /\ c.field = n.field
         /\ c.value = value /\ c.values = values /\ c.min = min /\ c.max = max
         /\ Known(t, c) /\ OpOf(t, c) = OpOf(t, n) /\ c.op = OpOf(t, n)
         /\ c.op \in Operators(FieldKinds[t][c.field])
<1> DEFINE op == OpOf(t, n)
<1>1. op \in Operators(FieldKinds[t][n.field])
  BY OpOfIsOperator
<1>2. c = Cond(n.field, op, value, values, min, max)
  OBVIOUS
<1> HIDE DEF op
<1>3. /\ IsCondition(c) /\ c.type = "condition" /\ c.field = n.field /\ c.op = op
      /\ c.value = value /\ c.values = values /\ c.min = min /\ c.max = max
  BY <1>2, CondFields
<1>4. Known(t, c) /\ OpOf(t, c) = op
  BY <1>1, <1>3 DEF Known, OpOf
<1> QED  BY <1>1, <1>3, <1>4 DEF op

\* A condition submits what another one of the same field and operator does,
\* if the values that the operator needs are the same.
LEMMA SanitizeSame ==
  ASSUME NEW t \in ItemTables, NEW n, NEW c, Known(t, n), Known(t, c),
         c.field = n.field, OpOf(t, c) = OpOf(t, n),
         NeedsArray(OpOf(t, n)) => TagValues(c) = TagValues(n),
         NeedsRange(OpOf(t, n)) => Else(c.min, "") = Else(n.min, "") /\ Else(c.max, "") = Else(n.max, ""),
         NeedsSingle(OpOf(t, n)) => Else(c.value, "") = Else(n.value, "")
  PROVE  SanitizeCondition(t, c) = SanitizeCondition(t, n)
<1>1. CASE NeedsArray(OpOf(t, n))
  BY <1>1, SanitizeForms
<1>2. CASE NeedsRange(OpOf(t, n))
  BY <1>2, SanitizeForms
<1>3. CASE NeedsSingle(OpOf(t, n))
  BY <1>3, SanitizeForms
<1>4. CASE ~NeedsArray(OpOf(t, n)) /\ ~NeedsRange(OpOf(t, n)) /\ ~NeedsSingle(OpOf(t, n))
  BY <1>4, SanitizeForms
<1> QED  BY <1>1, <1>2, <1>3, <1>4

\* A condition in the form its editor needs is a condition of its field, and
\* submits what the condition it was made of submits.
LEMMA SanitizeCoerced ==
  ASSUME NEW t \in ItemTables, NEW n, IsCondition(n), Known(t, n), NEW c, CoerceCondition(t, n) = <<c>>
  PROVE  /\ IsCondition(c) /\ c.type = "condition" /\ c.field = n.field /\ Known(t, c)
         /\ c.op \in Operators(FieldKinds[t][c.field])
         /\ SanitizeCondition(t, c) = SanitizeCondition(t, n)
<1> DEFINE tags == TagValues(n)
           value == Else(n.value, "")
           min == Else(n.min, "")
           max == Else(n.max, "")
           none == ~NeedsArray(OpOf(t, n)) /\ ~NeedsRange(OpOf(t, n)) /\ ~NeedsSingle(OpOf(t, n))
<1>1. tags \in SUBSET (Texts \ {"", "  "}) /\ value \in Texts /\ min \in Texts /\ max \in Texts
  BY TagsType, ElseText DEF IsCondition
<1>2. \A y \in Texts : Else(y, "") = y
  BY ElseText DEF IsCondition
<1> HIDE DEF tags, value, min, max
<1>3. tags \in Tags /\ value \in Value /\ min \in Value /\ max \in Value /\ Missing \in Value /\ NoTags \in Tags
  BY <1>1, FieldValues
<1> USE DEF tags, value, min, max
<1>4. /\ NeedsArray(OpOf(t, n)) => c = Cond(n.field, OpOf(t, n), Missing, tags, Missing, Missing)
      /\ NeedsRange(OpOf(t, n)) => c = Cond(n.field, OpOf(t, n), Missing, NoTags, min, max)
      /\ NeedsSingle(OpOf(t, n)) => c = Cond(n.field, OpOf(t, n), value, NoTags, Missing, Missing)
      /\ none => c = Cond(n.field, OpOf(t, n), Missing, NoTags, Missing, Missing)
  <2>1. NeedsArray(OpOf(t, n)) => <<c>> = <<Cond(n.field, OpOf(t, n), Missing, tags, Missing, Missing)>>
    BY CoerceForms
  <2>2. NeedsRange(OpOf(t, n)) => <<c>> = <<Cond(n.field, OpOf(t, n), Missing, NoTags, min, max)>>
    BY CoerceForms
  <2>3. NeedsSingle(OpOf(t, n)) => <<c>> = <<Cond(n.field, OpOf(t, n), value, NoTags, Missing, Missing)>>
    BY CoerceForms
  <2>4. none => <<c>> = <<Cond(n.field, OpOf(t, n), Missing, NoTags, Missing, Missing)>>
    BY CoerceForms
  <2> HIDE DEF tags, value, min, max, none
  <2> QED  BY <2>1, <2>2, <2>3, <2>4, OneTuple
<1> HIDE DEF tags, value, min, max
<1>5. CASE NeedsArray(OpOf(t, n))
  <2>1. /\ IsCondition(c) /\ c.type = "condition" /\ c.field = n.field /\ c.values = tags
        /\ Known(t, c) /\ OpOf(t, c) = OpOf(t, n) /\ c.op \in Operators(FieldKinds[t][c.field])
    BY <1>3, <1>4, <1>5, CondKnown
  <2>2. TagValues(c) = TagValues(n)
    BY <1>1, <2>1, TagsAgain DEF tags
  <2> QED  BY <1>5, <2>1, <2>2, SanitizeSame, OneNeed
<1>6. CASE NeedsRange(OpOf(t, n))
  <2>1. /\ IsCondition(c) /\ c.type = "condition" /\ c.field = n.field /\ c.min = min /\ c.max = max
        /\ Known(t, c) /\ OpOf(t, c) = OpOf(t, n) /\ c.op \in Operators(FieldKinds[t][c.field])
    BY <1>3, <1>4, <1>6, CondKnown
  <2>2. Else(c.min, "") = Else(n.min, "") /\ Else(c.max, "") = Else(n.max, "")
    BY <1>1, <1>2, <2>1 DEF min, max
  <2> QED  BY <1>6, <2>1, <2>2, SanitizeSame, OneNeed
<1>7. CASE NeedsSingle(OpOf(t, n))
  <2>1. /\ IsCondition(c) /\ c.type = "condition" /\ c.field = n.field /\ c.value = value
        /\ Known(t, c) /\ OpOf(t, c) = OpOf(t, n) /\ c.op \in Operators(FieldKinds[t][c.field])
    BY <1>3, <1>4, <1>7, CondKnown
  <2>2. Else(c.value, "") = Else(n.value, "")
    BY <1>1, <1>2, <2>1 DEF value
  <2> QED  BY <1>7, <2>1, <2>2, SanitizeSame, OneNeed
<1>8. CASE none
  <2>1. /\ IsCondition(c) /\ c.type = "condition" /\ c.field = n.field
        /\ Known(t, c) /\ OpOf(t, c) = OpOf(t, n) /\ c.op \in Operators(FieldKinds[t][c.field])
    BY <1>3, <1>4, <1>8, CondKnown
  <2> QED  BY <1>8, <2>1, SanitizeSame
<1> QED  BY <1>5, <1>6, <1>7, <1>8

LEMMA CoerceKnown ==
  ASSUME NEW t \in ItemTables, NEW n
  PROVE  /\ Known(t, n) => \E c : CoerceCondition(t, n) = <<c>>
         /\ ~Known(t, n) => CoerceCondition(t, n) = <<>> /\ SanitizeCondition(t, n) = <<>>
<1>1. ASSUME Known(t, n) PROVE \E c : CoerceCondition(t, n) = <<c>>
  BY <1>1, CoerceForms
<1>2. ASSUME ~Known(t, n) PROVE CoerceCondition(t, n) = <<>> /\ SanitizeCondition(t, n) = <<>>
  BY <1>2 DEF Known, CoerceCondition, SanitizeCondition
<1> QED  BY <1>1, <1>2

\* What a condition submits is complete, and submitted again stays what it is.
LEMMA SanitizedIsComplete ==
  ASSUME NEW t \in ItemTables, NEW n, IsCondition(n), SanitizeCondition(t, n) # <<>>
  PROVE  \E m : /\ SanitizeCondition(t, n) = <<m>> /\ SanitizeCondition(t, m) = <<m>>
                /\ IsCondition(m) /\ m.type = "condition" /\ IsComplete(t, m)
<1>1. Known(t, n)
  BY CoerceKnown
<1> DEFINE tags == TagValues(n)
           value == Trim(Else(n.value, ""))
           min == Trim(Else(n.min, ""))
           max == Trim(Else(n.max, ""))
<1>2. /\ tags \in SUBSET (Texts \ {"", "  "}) /\ value \in Texts /\ min \in Texts /\ max \in Texts
      /\ Trim(Else(value, "")) = value /\ Trim(Else(min, "")) = min /\ Trim(Else(max, "")) = max
  <2>1. Else(n.value, "") \in Texts /\ Else(n.min, "") \in Texts /\ Else(n.max, "") \in Texts
    BY ElseText DEF IsCondition
  <2>2. value \in Texts /\ min \in Texts /\ max \in Texts
    BY <2>1, Trimmed
  <2>3. Trim(value) = value /\ Trim(min) = min /\ Trim(max) = max
    BY <2>1, Trimmed
  <2>4. \A y \in Texts : Else(y, "") = y
    BY ElseText DEF IsCondition
  <2>5. tags \in SUBSET (Texts \ {"", "  "})
    BY TagsType
  <2> HIDE DEF value, min, max, tags
  <2> QED  BY <2>2, <2>3, <2>4, <2>5
<1>3. /\ NeedsArray(OpOf(t, n)) =>
           SanitizeCondition(t, n) = <<Cond(n.field, OpOf(t, n), Missing, tags, Missing, Missing)>> /\ tags # {}
      /\ NeedsRange(OpOf(t, n)) =>
           SanitizeCondition(t, n) = <<Cond(n.field, OpOf(t, n), Missing, NoTags, min, max)>> /\ "" \notin {min, max}
      /\ NeedsSingle(OpOf(t, n)) =>
           SanitizeCondition(t, n) = <<Cond(n.field, OpOf(t, n), value, NoTags, Missing, Missing)>> /\ value # ""
      /\ ~NeedsArray(OpOf(t, n)) /\ ~NeedsRange(OpOf(t, n)) /\ ~NeedsSingle(OpOf(t, n)) =>
           SanitizeCondition(t, n) = <<Cond(n.field, OpOf(t, n), Missing, NoTags, Missing, Missing)>>
  BY <1>1, SanitizeForms
<1> HIDE DEF tags, value, min, max
<1>4. tags \in Tags /\ value \in Value /\ min \in Value /\ max \in Value /\ Missing \in Value /\ NoTags \in Tags
  BY <1>2, FieldValues
\* The values that are needed are those of n, trimmed.
<1>5. ASSUME NEW m, SanitizeCondition(t, n) = <<m>>,
             IsCondition(m), m.type = "condition", m.field = n.field, Known(t, m), OpOf(t, m) = OpOf(t, n),
             m.op = OpOf(t, n), m.op \in Operators(FieldKinds[t][m.field]),
             NeedsArray(OpOf(t, n)) => m.values = tags,
             NeedsRange(OpOf(t, n)) => m.min = min /\ m.max = max,
             NeedsSingle(OpOf(t, n)) => m.value = value
      PROVE  SanitizeCondition(t, m) = <<m>> /\ IsComplete(t, m)
  <2>1. CASE NeedsArray(OpOf(t, n))
    <3>1. m.values = tags /\ tags # {} /\ TagValues(m) = tags
      BY <1>2, <1>3, <1>5, <2>1, TagsAgain
    <3>2. m.values \notin {NoTags, {}}
      BY <1>2, <3>1 DEF NoTags, Texts, Missing
    <3>3. SanitizeCondition(t, m) = <<Cond(m.field, OpOf(t, m), Missing, tags, Missing, Missing)>>
      BY <1>5, <2>1, <3>1, SanitizeForms
    <3> QED  BY <1>3, <1>5, <2>1, <3>2, <3>3, OneNeed DEF IsComplete
  <2>2. CASE NeedsRange(OpOf(t, n))
    <3>1. /\ m.min = min /\ m.max = max /\ "" \notin {min, max}
          /\ Trim(Else(m.min, "")) = min /\ Trim(Else(m.max, "")) = max
      BY <1>2, <1>3, <1>5, <2>2
    <3>2. {m.min, m.max} \cap {Missing, ""} = {}
      BY <1>2, <3>1 DEF Texts, Missing
    <3>3. SanitizeCondition(t, m) = <<Cond(m.field, OpOf(t, m), Missing, NoTags, min, max)>>
      BY <1>5, <2>2, <3>1, SanitizeForms
    <3> QED  BY <1>3, <1>5, <2>2, <3>2, <3>3, OneNeed DEF IsComplete
  <2>3. CASE NeedsSingle(OpOf(t, n))
    <3>1. m.value = value /\ value # "" /\ Trim(Else(m.value, "")) = value
      BY <1>2, <1>3, <1>5, <2>3
    <3>2. m.value \notin {Missing, ""}
      BY <1>2, <3>1 DEF Texts, Missing
    <3>3. SanitizeCondition(t, m) = <<Cond(m.field, OpOf(t, m), value, NoTags, Missing, Missing)>>
      BY <1>5, <2>3, <3>1, SanitizeForms
    <3> QED  BY <1>3, <1>5, <2>3, <3>2, <3>3, OneNeed DEF IsComplete
  <2>4. CASE ~NeedsArray(OpOf(t, n)) /\ ~NeedsRange(OpOf(t, n)) /\ ~NeedsSingle(OpOf(t, n))
    <3>1. SanitizeCondition(t, m) = <<Cond(m.field, OpOf(t, m), Missing, NoTags, Missing, Missing)>>
      BY <1>5, <2>4, SanitizeForms
    <3> QED  BY <1>3, <1>5, <2>4, <3>1 DEF IsComplete
  <2> QED  BY <2>1, <2>2, <2>3, <2>4
<1>6. CASE NeedsArray(OpOf(t, n))
  <2> DEFINE m == Cond(n.field, OpOf(t, n), Missing, tags, Missing, Missing)
  <2>1. m = Cond(n.field, OpOf(t, n), Missing, tags, Missing, Missing) /\ SanitizeCondition(t, n) = <<m>>
    BY <1>3, <1>6
  <2> HIDE DEF m
  <2>2. /\ IsCondition(m) /\ m.type = "condition" /\ m.field = n.field /\ m.values = tags
        /\ Known(t, m) /\ OpOf(t, m) = OpOf(t, n) /\ m.op = OpOf(t, n)
        /\ m.op \in Operators(FieldKinds[t][m.field])
    BY <1>1, <1>4, <2>1, CondKnown
  <2> QED  BY <1>5, <1>6, <2>1, <2>2, OneNeed
<1>7. CASE NeedsRange(OpOf(t, n))
  <2> DEFINE m == Cond(n.field, OpOf(t, n), Missing, NoTags, min, max)
  <2>1. m = Cond(n.field, OpOf(t, n), Missing, NoTags, min, max) /\ SanitizeCondition(t, n) = <<m>>
    BY <1>3, <1>7
  <2> HIDE DEF m
  <2>2. /\ IsCondition(m) /\ m.type = "condition" /\ m.field = n.field /\ m.min = min /\ m.max = max
        /\ Known(t, m) /\ OpOf(t, m) = OpOf(t, n) /\ m.op = OpOf(t, n)
        /\ m.op \in Operators(FieldKinds[t][m.field])
    BY <1>1, <1>4, <2>1, CondKnown
  <2> QED  BY <1>5, <1>7, <2>1, <2>2, OneNeed
<1>8. CASE NeedsSingle(OpOf(t, n))
  <2> DEFINE m == Cond(n.field, OpOf(t, n), value, NoTags, Missing, Missing)
  <2>1. m = Cond(n.field, OpOf(t, n), value, NoTags, Missing, Missing) /\ SanitizeCondition(t, n) = <<m>>
    BY <1>3, <1>8
  <2> HIDE DEF m
  <2>2. /\ IsCondition(m) /\ m.type = "condition" /\ m.field = n.field /\ m.value = value
        /\ Known(t, m) /\ OpOf(t, m) = OpOf(t, n) /\ m.op = OpOf(t, n)
        /\ m.op \in Operators(FieldKinds[t][m.field])
    BY <1>1, <1>4, <2>1, CondKnown
  <2> QED  BY <1>5, <1>8, <2>1, <2>2, OneNeed
<1>9. CASE ~NeedsArray(OpOf(t, n)) /\ ~NeedsRange(OpOf(t, n)) /\ ~NeedsSingle(OpOf(t, n))
  <2> DEFINE m == Cond(n.field, OpOf(t, n), Missing, NoTags, Missing, Missing)
  <2>1. m = Cond(n.field, OpOf(t, n), Missing, NoTags, Missing, Missing) /\ SanitizeCondition(t, n) = <<m>>
    BY <1>3, <1>9
  <2> HIDE DEF m
  <2>2. /\ IsCondition(m) /\ m.type = "condition" /\ m.field = n.field
        /\ Known(t, m) /\ OpOf(t, m) = OpOf(t, n) /\ m.op = OpOf(t, n)
        /\ m.op \in Operators(FieldKinds[t][m.field])
    BY <1>1, <1>4, <2>1, CondKnown
  <2> QED  BY <1>5, <1>9, <2>1, <2>2
<1> QED  BY <1>6, <1>7, <1>8, <1>9

-----------------------------------------------------------------------------
(* Nodes and trees *)

NodeOK(n) == IF n.type = "group" THEN IsGroup(n) ELSE IsCondition(n)

LEMMA GroupAgain ==
  ASSUME NEW n, NEW g, g = CoerceGroup(n)
  PROVE  g.type = "group" /\ IsGroup(g) /\ CoerceGroup(g) = g
<1>1. g.type = "group" /\ g.relation \in {"AND", "OR"} /\ g = [type |-> "group", relation |-> g.relation]
  BY DEF CoerceGroup, Group
<1>2. g.relation = "OR" => CoerceGroup(g) = g
  BY <1>1 DEF CoerceGroup, Group
<1>3. g.relation = "AND" => CoerceGroup(g) = g
  BY <1>1 DEF CoerceGroup, Group
<1> QED  BY <1>1, <1>2, <1>3 DEF IsGroup

LEMMA ConditionType == ASSUME NEW n, IsCondition(n) PROVE n.type = "condition"
BY DEF IsCondition

\* A node in the form its editor needs, or none: then it was a condition that submits nothing.
LEMMA CoerceNode ==
  ASSUME NEW t \in ItemTables, NEW n, NodeOK(n)
  PROVE  \/ Coerce(t, n) = <<>> /\ SanitizeNode(t, n) = <<>> /\ n.type # "group"
         \/ \E c : /\ Coerce(t, n) = <<c>> /\ NodeOK(c) /\ c.type = n.type
                   /\ SanitizeNode(t, c) = SanitizeNode(t, n)
                   /\ c.type # "group" => Known(t, c) /\ c.op \in Operators(FieldKinds[t][c.field])
<1>1. CASE n.type = "group"
  <2> DEFINE g == CoerceGroup(n)
  <2>1. g = CoerceGroup(n)
    OBVIOUS
  <2> HIDE DEF g
  <2>2. g.type = "group" /\ IsGroup(g) /\ CoerceGroup(g) = g
    BY <2>1, GroupAgain
  <2>3. Coerce(t, n) = <<g>> /\ SanitizeNode(t, n) = <<g>> /\ SanitizeNode(t, g) = <<g>>
    BY <1>1, <2>1, <2>2 DEF Coerce, SanitizeNode
  <2> QED  BY <1>1, <2>2, <2>3 DEF NodeOK
<1>2. CASE n.type # "group"
  <2>1. IsCondition(n) /\ Coerce(t, n) = CoerceCondition(t, n) /\ SanitizeNode(t, n) = SanitizeCondition(t, n)
    BY <1>2 DEF NodeOK, Coerce, SanitizeNode
  <2>2. CASE ~Known(t, n)
    BY <1>2, <2>1, <2>2, CoerceKnown
  <2>3. CASE Known(t, n)
    <3>1. PICK c : CoerceCondition(t, n) = <<c>>
      BY <2>3, CoerceKnown
    <3>2. /\ IsCondition(c) /\ c.type = "condition" /\ Known(t, c)
          /\ c.op \in Operators(FieldKinds[t][c.field])
          /\ SanitizeCondition(t, c) = SanitizeCondition(t, n)
      BY <2>1, <2>3, <3>1, SanitizeCoerced
    <3>3. SanitizeNode(t, c) = SanitizeNode(t, n) /\ NodeOK(c) /\ c.type = n.type
      BY <2>1, <3>2, ConditionType DEF SanitizeNode, NodeOK
    <3> QED  BY <2>1, <3>1, <3>2, <3>3
  <2> QED  BY <2>2, <2>3
<1> QED  BY <1>1, <1>2

\* A node as it is submitted, or none: then it was a condition.
LEMMA SubmitNode ==
  ASSUME NEW t \in ItemTables, NEW n, NodeOK(n)
  PROVE  \/ SanitizeNode(t, n) = <<>> /\ n.type # "group"
         \/ \E m : /\ SanitizeNode(t, n) = <<m>> /\ NodeOK(m) /\ m.type = n.type
                   /\ SanitizeNode(t, m) = <<m>>
                   /\ m.type # "group" => IsComplete(t, m)
<1>1. CASE n.type = "group"
  <2> DEFINE g == CoerceGroup(n)
  <2>1. g = CoerceGroup(n)
    OBVIOUS
  <2> HIDE DEF g
  <2>2. g.type = "group" /\ IsGroup(g) /\ CoerceGroup(g) = g
    BY <2>1, GroupAgain
  <2>3. SanitizeNode(t, n) = <<g>> /\ SanitizeNode(t, g) = <<g>>
    BY <1>1, <2>1, <2>2 DEF SanitizeNode
  <2> QED  BY <1>1, <2>2, <2>3 DEF NodeOK
<1>2. CASE n.type # "group"
  <2>1. IsCondition(n) /\ SanitizeNode(t, n) = SanitizeCondition(t, n)
    BY <1>2 DEF NodeOK, SanitizeNode
  <2>2. CASE SanitizeCondition(t, n) # <<>>
    <3>1. PICK m : /\ SanitizeCondition(t, n) = <<m>> /\ SanitizeCondition(t, m) = <<m>>
                   /\ IsCondition(m) /\ m.type = "condition" /\ IsComplete(t, m)
      BY <2>1, <2>2, SanitizedIsComplete
    <3>2. SanitizeNode(t, m) = <<m>> /\ NodeOK(m) /\ m.type = n.type
      BY <2>1, <3>1, ConditionType DEF SanitizeNode, NodeOK
    <3> QED  BY <2>1, <3>1, <3>2
  <2> QED  BY <1>2, <2>1, <2>2
<1> QED  BY <1>1, <1>2

\* A tree that the page takes: its first node is a group.
IsRooted(tree) == IsTree(tree) /\ tree[<<>>].type = "group"

\* Replacing the nodes of a tree one by one, where only conditions are dropped.
LEMMA ReplacedTree ==
  ASSUME NEW tree, IsRooted(tree), NEW new,
         \A p \in DOMAIN tree :
           \/ new[p] = <<>> /\ tree[p].type # "group"
           \/ \E m : new[p] = <<m>> /\ NodeOK(m) /\ m.type = tree[p].type,
         NEW kept, kept = [p \in {q \in DOMAIN tree : new[q] # <<>>} |-> new[p][1]]
  PROVE  IsRooted(kept)
<1> DEFINE D == {q \in DOMAIN tree : new[q] # <<>>}
<1>1. /\ IsFiniteSet(DOMAIN tree) /\ DOMAIN tree \subseteq Seq(Nat) /\ <<>> \in DOMAIN tree
      /\ \A p \in DOMAIN tree : p # <<>> => Front(p) \in DOMAIN tree /\ tree[Front(p)].type = "group"
      /\ tree[<<>>].type = "group"
  BY DEF IsRooted, IsTree
<1>2. DOMAIN kept = D /\ kept = [p \in DOMAIN kept |-> kept[p]]
  OBVIOUS
<1>3. \A p \in D : NodeOK(kept[p]) /\ kept[p].type = tree[p].type
  <2> TAKE p \in D
  <2>1. kept[p] = new[p][1]
    OBVIOUS
  <2>2. PICK m : new[p] = <<m>> /\ NodeOK(m) /\ m.type = tree[p].type
    OBVIOUS
  <2> QED  BY <2>1, <2>2
<1>4. \A p \in DOMAIN tree : tree[p].type = "group" => p \in D
  OBVIOUS
<1>5. IsFiniteSet(D)
  BY <1>1, FS_Subset
<1> HIDE DEF D
<1>6. \A p \in D : p \in DOMAIN tree
  BY DEF D
<1> QED  BY <1>1, <1>2, <1>3, <1>4, <1>5, <1>6 DEF IsRooted, IsTree, NodeOK

LEMMA EmptyIsRooted == IsRooted(EmptyTree)
<1> DEFINE root == Group("AND")
<1>1. root.type = "group" /\ IsGroup(root)
  BY DEF Group, IsGroup
<1> HIDE DEF root
<1>2. EmptyTree = [path \in {<<>>} |-> root]
  BY DEF EmptyTree, root
<1>3. DOMAIN EmptyTree = {<<>>} /\ EmptyTree[<<>>] = root /\ EmptyTree = [p \in DOMAIN EmptyTree |-> EmptyTree[p]]
  BY <1>2
<1>4. IsFiniteSet({<<>>}) /\ <<>> \in Seq(Nat)
  BY FS_Singleton, EmptySeq
<1> QED  BY <1>1, <1>3, <1>4 DEF IsRooted, IsTree

\* Every condition has a field of its table and an operator of that field.
IsNormal(t, tree) ==
  \A p \in DOMAIN tree : tree[p].type # "group" =>
    Known(t, tree[p]) /\ tree[p].op \in Operators(FieldKinds[t][tree[p].field])

LEMMA NormalizedIsNormal ==
  ASSUME NEW t \in ItemTables, NEW tree, IsTree(tree), NEW norm, norm = NormalizeFilterTree(t, tree)
  PROVE  /\ IsRooted(norm) /\ IsNormal(t, norm)
         /\ SanitizeFilterTree(t, norm) = SanitizeFilterTree(t, tree)
<1>1. CASE tree[<<>>].type # "group"
  <2>1. norm = EmptyTree /\ SanitizeFilterTree(t, tree) = EmptyTree
    BY <1>1 DEF NormalizeFilterTree, SanitizeFilterTree
  <2> DEFINE root == Group("AND")
  <2>2. EmptyTree = [path \in {<<>>} |-> root] /\ root.type = "group" /\ root = CoerceGroup(root)
    BY DEF EmptyTree, Group, CoerceGroup
  <2> HIDE DEF root
  <2>3. SanitizeNode(t, root) = <<root>>
    BY <2>2 DEF SanitizeNode
  <2>4. SanitizeFilterTree(t, EmptyTree) = EmptyTree
    BY <2>2, <2>3 DEF SanitizeFilterTree
  <2>5. IsNormal(t, EmptyTree)
    BY <2>2 DEF IsNormal
  <2> QED  BY <2>1, <2>4, <2>5, EmptyIsRooted
<1>2. CASE tree[<<>>].type = "group"
  <2> DEFINE new == [p \in DOMAIN tree |-> Coerce(t, tree[p])]
             D == {q \in DOMAIN tree : Coerce(t, tree[q]) # <<>>}
  <2>1. norm = [p \in D |-> Coerce(t, tree[p])[1]]
    BY <1>2 DEF NormalizeFilterTree
  <2>2. \A p \in DOMAIN tree : NodeOK(tree[p])
    BY DEF IsTree, NodeOK
  <2>3. \A p \in DOMAIN tree :
          \/ Coerce(t, tree[p]) = <<>> /\ SanitizeNode(t, tree[p]) = <<>> /\ tree[p].type # "group"
          \/ \E c : /\ Coerce(t, tree[p]) = <<c>> /\ NodeOK(c) /\ c.type = tree[p].type
                    /\ SanitizeNode(t, c) = SanitizeNode(t, tree[p])
                    /\ c.type # "group" => Known(t, c) /\ c.op \in Operators(FieldKinds[t][c.field])
    BY <2>2, CoerceNode
  <2>4. IsRooted(norm)
    <3>1. norm = [p \in {q \in DOMAIN tree : new[q] # <<>>} |-> new[p][1]]
      BY <2>1
    <3>2. \A p \in DOMAIN tree :
           \/ new[p] = <<>> /\ tree[p].type # "group"
           \/ \E m : new[p] = <<m>> /\ NodeOK(m) /\ m.type = tree[p].type
      BY <2>3
    <3>3. IsRooted(tree)
      BY <1>2 DEF IsRooted
    <3> HIDE DEF new, D
    <3> QED  BY <3>1, <3>2, <3>3, ReplacedTree
  <2>5. \A p \in D : /\ norm[p].type # "group" =>
                          Known(t, norm[p]) /\ norm[p].op \in Operators(FieldKinds[t][norm[p].field])
                     /\ SanitizeNode(t, norm[p]) = SanitizeNode(t, tree[p])
    <3> TAKE p \in D
    <3>1. norm[p] = Coerce(t, tree[p])[1]
      BY <2>1
    <3>2. PICK c : /\ Coerce(t, tree[p]) = <<c>> /\ SanitizeNode(t, c) = SanitizeNode(t, tree[p])
                   /\ c.type # "group" => Known(t, c) /\ c.op \in Operators(FieldKinds[t][c.field])
      BY <2>3
    <3> QED  BY <3>1, <3>2
  <2>6. IsNormal(t, norm)
    BY <2>1, <2>5 DEF IsNormal
  <2>7. SanitizeFilterTree(t, norm) = SanitizeFilterTree(t, tree)
    <3> DEFINE A == {q \in DOMAIN norm : SanitizeNode(t, norm[q]) # <<>>}
               B == {q \in DOMAIN tree : SanitizeNode(t, tree[q]) # <<>>}
    <3>1. DOMAIN norm = D
      BY <2>1
    <3>2. \A p \in DOMAIN tree \ D : SanitizeNode(t, tree[p]) = <<>>
      BY <2>3
    <3>3. A = B
      BY <2>5, <3>1, <3>2
    <3>4. SanitizeFilterTree(t, norm) = [p \in A |-> SanitizeNode(t, norm[p])[1]]
      BY <2>4 DEF IsRooted, SanitizeFilterTree
    <3>5. SanitizeFilterTree(t, tree) = [p \in B |-> SanitizeNode(t, tree[p])[1]]
      BY <1>2 DEF SanitizeFilterTree
    <3>6. \A p \in A : SanitizeNode(t, norm[p]) = SanitizeNode(t, tree[p])
      BY <2>5, <3>1
    <3> HIDE DEF A, B
    <3> QED  BY <3>3, <3>4, <3>5, <3>6
  <2> QED  BY <2>4, <2>6, <2>7
<1> QED  BY <1>1, <1>2

LEMMA SubmittedTree ==
  ASSUME NEW t \in ItemTables, NEW tree, IsRooted(tree), NEW sent, sent = SanitizeFilterTree(t, tree)
  PROVE  /\ IsRooted(sent) /\ SanitizeFilterTree(t, sent) = sent
         /\ \A p \in DOMAIN sent : sent[p].type # "group" => IsComplete(t, sent[p])
<1> DEFINE new == [p \in DOMAIN tree |-> SanitizeNode(t, tree[p])]
           D == {q \in DOMAIN tree : SanitizeNode(t, tree[q]) # <<>>}
<1>1. sent = [p \in D |-> SanitizeNode(t, tree[p])[1]]
  BY DEF SanitizeFilterTree, IsRooted
<1>2. \A p \in DOMAIN tree : NodeOK(tree[p])
  BY DEF IsRooted, IsTree, NodeOK
<1>3. \A p \in DOMAIN tree :
        \/ SanitizeNode(t, tree[p]) = <<>> /\ tree[p].type # "group"
        \/ \E m : /\ SanitizeNode(t, tree[p]) = <<m>> /\ NodeOK(m) /\ m.type = tree[p].type
                  /\ SanitizeNode(t, m) = <<m>>
                  /\ m.type # "group" => IsComplete(t, m)
  BY <1>2, SubmitNode
<1>4. IsRooted(sent)
  <2>1. sent = [p \in {q \in DOMAIN tree : new[q] # <<>>} |-> new[p][1]]
    BY <1>1
  <2>2. \A p \in DOMAIN tree :
         \/ new[p] = <<>> /\ tree[p].type # "group"
         \/ \E m : new[p] = <<m>> /\ NodeOK(m) /\ m.type = tree[p].type
    BY <1>3
  <2> HIDE DEF new, D
  <2> QED  BY <2>1, <2>2, ReplacedTree
<1>5. \A p \in D : SanitizeNode(t, sent[p]) = <<sent[p]>> /\ (sent[p].type # "group" => IsComplete(t, sent[p]))
  <2> TAKE p \in D
  <2>1. sent[p] = SanitizeNode(t, tree[p])[1]
    BY <1>1
  <2>2. PICK m : /\ SanitizeNode(t, tree[p]) = <<m>> /\ SanitizeNode(t, m) = <<m>>
                 /\ m.type # "group" => IsComplete(t, m)
    BY <1>3
  <2> QED  BY <2>1, <2>2
<1>6. SanitizeFilterTree(t, sent) = sent
  <2>1. DOMAIN sent = D
    BY <1>1
  <2>2. {q \in DOMAIN sent : SanitizeNode(t, sent[q]) # <<>>} = D
    BY <1>5, <2>1
  <2>3. SanitizeFilterTree(t, sent) = [p \in D |-> SanitizeNode(t, sent[p])[1]]
    BY <1>4, <2>2 DEF IsRooted, SanitizeFilterTree
  <2>4. \A p \in D : SanitizeNode(t, sent[p])[1] = sent[p]
    BY <1>5
  <2>5. sent = [p \in D |-> sent[p]]
    BY <1>1
  <2> HIDE DEF D
  <2> QED  BY <2>3, <2>4, <2>5
<1> QED  BY <1>1, <1>4, <1>5, <1>6

-----------------------------------------------------------------------------
(* Edits: the draft stays a tree *)

LEMMA FrontOf ==
  ASSUME NEW p \in Seq(Nat), p # <<>>
  PROVE  /\ Front(p) \in Seq(Nat) /\ Len(p) \in Nat /\ Len(p) > 0 /\ Len(Front(p)) = Len(p) - 1
         /\ \A i \in 1..Len(p) - 1 : Front(p)[i] = p[i]
<1>1. Len(p) \in Nat /\ Len(p) > 0 /\ \A i \in 1..Len(p) : p[i] \in Nat
  BY EmptySeq, LenProperties
<1> DEFINE k == Len(p) - 1
           f == SubSeq(p, 1, k)
<1>2. k \in Nat /\ k = Len(p) - 1 /\ \A i \in 1..k : p[i] \in Nat
  BY <1>1
<1>3. Front(p) = f
  BY DEF Front
<1> HIDE DEF k
<1>4. /\ f \in Seq(Nat) /\ Len(f) = IF 1 <= k THEN k - 1 + 1 ELSE 0
      /\ \A i \in 1..k - 1 + 1 : f[i] = p[1 + i - 1]
  BY <1>2, SubSeqProperties
<1> HIDE DEF f
<1>5. Len(f) = k
  BY <1>2, <1>4
<1>6. \A i \in 1..k : f[i] = p[i]
  <2> TAKE i \in 1..k
  <2>1. i \in 1..k - 1 + 1 /\ 1 + i - 1 = i
    BY <1>2
  <2> QED  BY <1>4, <2>1
<1> QED  BY <1>1, <1>2, <1>3, <1>4, <1>5, <1>6 DEF k

LEMMA FrontOfAppend ==
  ASSUME NEW p \in Seq(Nat), NEW x \in Nat
  PROVE  /\ Append(p, x) \in Seq(Nat) /\ Append(p, x) # <<>>
         /\ Front(Append(p, x)) = p /\ Last(Append(p, x)) = x
<1> DEFINE a == Append(p, x)
<1>1. /\ a \in Seq(Nat) /\ a # <<>> /\ Len(a) = Len(p) + 1 /\ Len(p) \in Nat
      /\ \A i \in 1..Len(p) : a[i] = p[i]
      /\ a[Len(p) + 1] = x
  BY AppendProperties, LenProperties
<1> HIDE DEF a
<1>2. Front(a) \in Seq(Nat) /\ Len(Front(a)) = Len(p) /\ \A i \in 1..Len(p) : Front(a)[i] = p[i]
  <2>1. /\ Front(a) \in Seq(Nat) /\ Len(Front(a)) = Len(a) - 1
        /\ \A i \in 1..Len(a) - 1 : Front(a)[i] = a[i]
    BY <1>1, FrontOf
  <2>2. Len(a) - 1 = Len(p)
    BY <1>1
  <2> QED  BY <1>1, <2>1, <2>2
<1>3. Front(a) = p
  BY <1>2, SeqEqual
<1> QED  BY <1>1, <1>3 DEF Last, a

\* A finite set of numbers has a largest one: a set of least cardinality that
\* had none would have one when an element is taken out.
LEMMA FiniteSetHasMax ==
  ASSUME NEW S \in SUBSET Nat, IsFiniteSet(S), S # {}
  PROVE  Max(S) \in S /\ \A x \in S : x <= Max(S)
<1> DEFINE HasMax(X) == \E m \in X : \A x \in X : m >= x
           Bad == {X \in SUBSET S : X # {} /\ ~HasMax(X)}
           Sizes == {Cardinality(X) : X \in Bad}
           R == OpToRel(<, Nat)
<1>1. Bad = {}
  <2> SUFFICES ASSUME Bad # {} PROVE FALSE
    OBVIOUS
  <2>1. \A X \in Bad : IsFiniteSet(X) /\ Cardinality(X) \in Nat
    BY FS_Subset, FS_CardinalityType
  <2>2. Sizes \subseteq Nat /\ Sizes # {}
    BY <2>1
  <2>3. IsWellFoundedOn(R, Nat)
    BY NatLessThanWellFounded
  <2>4. PICK n \in Sizes : \A k \in Sizes : ~(<<k, n>> \in R)
    <3> HIDE DEF R, Sizes
    <3> QED  BY <2>2, <2>3, WFMin
  <2>5. \A k \in Sizes : ~(k < n)
    BY <2>2, <2>4 DEF OpToRel
  <2>6. PICK X \in Bad : Cardinality(X) = n
    OBVIOUS
  <2>7. PICK e \in X : TRUE
    OBVIOUS
  <2> DEFINE Y == X \ {e}
  <2>8. Y \in SUBSET S /\ IsFiniteSet(Y) /\ Cardinality(Y) = n - 1 /\ n \in Nat
    BY <2>1, <2>2, <2>6, <2>7, FS_RemoveElement
  <2>9. Y \notin Bad
    <3> SUFFICES ASSUME Y \in Bad PROVE FALSE
      OBVIOUS
    <3>1. Cardinality(Y) \in Sizes
      OBVIOUS
    <3>2. Cardinality(Y) < n
      BY <2>8
    <3> HIDE DEF Sizes, Y
    <3> QED  BY <2>5, <3>1, <3>2
  <2>10. CASE Y = {}
    <3>1. X = {e} /\ e \in Nat
      BY <2>7, <2>10
    <3> QED  BY <2>6, <3>1
  <2>11. CASE Y # {}
    <3>1. PICK m \in Y : \A x \in Y : m >= x
      BY <2>8, <2>9, <2>11
    <3>2. m \in Nat /\ e \in Nat /\ m \in X /\ X = Y \cup {e}
      BY <2>6, <2>7, <2>8
    <3>3. \A x \in X : x \in Nat
      BY <2>6
    <3>4. CASE m >= e
      BY <2>6, <3>1, <3>2, <3>4
    <3>5. CASE m < e
      <4>1. \A x \in X : e >= x
        BY <3>1, <3>2, <3>3, <3>5
      <4> QED  BY <2>6, <2>7, <4>1
    <3> QED  BY <3>2, <3>4, <3>5
  <2> QED  BY <2>10, <2>11
<1>2. \E m \in S : \A x \in S : m >= x
  BY <1>1
<1>3. Max(S) \in S /\ \A x \in S : Max(S) >= x
  BY <1>2 DEF Max
<1> QED  BY <1>3

\* The place of a new child is behind those of the others.
LEMMA NextPlaceIsFree ==
  ASSUME NEW tree, IsTree(tree), NEW path \in DOMAIN tree
  PROVE  /\ NextPlace(tree, path) \in Nat
         /\ Append(path, NextPlace(tree, path)) \notin DOMAIN tree
<1> DEFINE C == Children(tree, path)
           L == {Last(p) : p \in C}
           S == {0} \cup L
<1>1. /\ IsFiniteSet(DOMAIN tree) /\ DOMAIN tree \subseteq Seq(Nat)
  BY DEF IsTree
<1>2. C \subseteq DOMAIN tree /\ \A p \in C : p \in Seq(Nat) /\ p # <<>>
  BY <1>1 DEF Children
<1>3. \A p \in C : Last(p) \in Nat
  <2> TAKE p \in C
  <2>1. p \in Seq(Nat) /\ Len(p) \in 1..Len(p)
    BY <1>2, FrontOf
  <2> QED  BY <2>1, ElementOfSeq DEF Last
<1>4. IsFiniteSet(L)
  <2>1. IsFiniteSet(C)
    BY <1>1, <1>2, FS_Subset
  <2> HIDE DEF C
  <2> DEFINE f == [p \in C |-> Last(p)]
  <2>2. f \in Surjection(C, L)
    BY DEF Surjection
  <2> QED  BY <2>1, <2>2, FS_Surjection
<1>5. IsFiniteSet(S) /\ S \in SUBSET Nat /\ S # {}
  <2>1. L \subseteq Nat
    BY <1>3
  <2> HIDE DEF L
  <2>2. IsFiniteSet(L \cup {0})
    BY <1>4, FS_AddElement
  <2>3. S = L \cup {0}
    OBVIOUS
  <2> QED  BY <2>1, <2>2, <2>3
<1>6. Max(S) \in Nat /\ \A x \in S : x <= Max(S)
  BY <1>5, FiniteSetHasMax
<1>7. NextPlace(tree, path) = 1 + Max(S)
  BY DEF NextPlace
<1> HIDE DEF S
<1>8. NextPlace(tree, path) \in Nat /\ \A x \in S : x # NextPlace(tree, path)
  <2>1. \A x \in S : x \in Nat
    BY <1>5
  <2> QED  BY <1>6, <1>7, <2>1
<1>9. Append(path, NextPlace(tree, path)) \notin DOMAIN tree
  <2> DEFINE x == NextPlace(tree, path)
             new == Append(path, x)
  <2> SUFFICES ASSUME new \in DOMAIN tree PROVE FALSE
    OBVIOUS
  <2>1. path \in Seq(Nat) /\ x \in Nat
    BY <1>1, <1>8
  <2> HIDE DEF x
  <2>2. new # <<>> /\ Front(new) = path /\ Last(new) = x
    BY <2>1, FrontOfAppend
  <2>3. new \in C
    BY <2>2 DEF Children
  <2>4. x \in S
    BY <2>2, <2>3 DEF S
  <2> QED  BY <1>8, <2>4 DEF x
<1> QED  BY <1>8, <1>9

\* A tree with a node at a path.
Put(tree, path, node) == [p \in DOMAIN tree \cup {path} |-> IF p = path THEN node ELSE tree[p]]

\* A node in the place of one of its type, or as a new child of a group.
LEMMA PutTree ==
  ASSUME NEW tree, IsRooted(tree), NEW path \in Seq(Nat), NEW node, NodeOK(node),
         \/ path \in DOMAIN tree /\ node.type = tree[path].type
         \/ /\ path \notin DOMAIN tree /\ path # <<>>
            /\ Front(path) \in DOMAIN tree /\ tree[Front(path)].type = "group",
         NEW put, put = Put(tree, path, node)
  PROVE  IsRooted(put)
<1>1. /\ IsFiniteSet(DOMAIN tree) /\ DOMAIN tree \subseteq Seq(Nat) /\ <<>> \in DOMAIN tree
      /\ \A p \in DOMAIN tree : p # <<>> => Front(p) \in DOMAIN tree /\ tree[Front(p)].type = "group"
      /\ tree[<<>>].type = "group"
      /\ \A p \in DOMAIN tree : NodeOK(tree[p])
  BY DEF IsRooted, IsTree, NodeOK
<1>2. /\ DOMAIN put = DOMAIN tree \cup {path} /\ put = [p \in DOMAIN put |-> put[p]]
      /\ \A p \in DOMAIN put : put[p] = IF p = path THEN node ELSE tree[p]
  BY DEF Put
<1>3. IsFiniteSet(DOMAIN put) /\ DOMAIN put \subseteq Seq(Nat)
  BY <1>1, <1>2, FS_AddElement
<1>4. \A p \in DOMAIN put : NodeOK(put[p])
  BY <1>1, <1>2
<1>5. \A p \in DOMAIN tree : p \in DOMAIN put /\ put[p].type = tree[p].type
  BY <1>2
<1>6. \A p \in DOMAIN put : p # <<>> => Front(p) \in DOMAIN put /\ put[Front(p)].type = "group"
  <2> SUFFICES ASSUME NEW p \in DOMAIN put, p # <<>>
               PROVE  Front(p) \in DOMAIN tree /\ tree[Front(p)].type = "group"
    BY <1>5
  <2> QED  BY <1>1, <1>2
<1> QED  BY <1>1, <1>2, <1>3, <1>4, <1>5, <1>6 DEF IsRooted, IsTree, NodeOK

\* Path p is that of the node at path or of one below it.
LEMMA PrefixPoints ==
  ASSUME NEW s \in Seq(Nat), NEW p \in Seq(Nat)
  PROVE  IsPrefix(s, p) <=> Len(s) <= Len(p) /\ \A i \in 1..Len(s) : s[i] = p[i]
<1>1. /\ Len(s) \in Nat /\ Len(p) \in Nat
      /\ (\A i \in 1..Len(s) : s[i] \in Nat) /\ \A i \in 1..Len(p) : p[i] \in Nat
  BY LenProperties
<1> SUFFICES ASSUME Len(s) <= Len(p)
             PROVE  SubSeq(s, 1, Len(s)) = SubSeq(p, 1, Len(s)) <=> \A i \in 1..Len(s) : s[i] = p[i]
  BY <1>1 DEF IsPrefix
<1> DEFINE k == Len(s)
           f == SubSeq(p, 1, k)
<1>2. k \in Nat /\ 1 \in Int /\ \A i \in 1..k : p[i] \in Nat
  BY <1>1
<1>3. SubSeq(s, 1, k) = s
  BY SubSeqFull
<1>4. k = Len(s)
  OBVIOUS
<1> HIDE DEF k
<1>5. /\ f \in Seq(Nat) /\ Len(f) = IF 1 <= k THEN k - 1 + 1 ELSE 0
      /\ \A i \in 1..k - 1 + 1 : f[i] = p[1 + i - 1]
  BY <1>2, SubSeqProperties
<1> HIDE DEF f
<1>6. Len(f) = k /\ \A i \in 1..k : f[i] = p[i]
  <2>1. Len(f) = k
    BY <1>2, <1>5
  <2> SUFFICES ASSUME NEW i \in 1..k PROVE f[i] = p[i]
    BY <2>1
  <2>2. i \in 1..k - 1 + 1 /\ 1 + i - 1 = i
    BY <1>2
  <2> QED  BY <1>5, <2>2
<1>7. s = f <=> \A i \in 1..k : s[i] = f[i]
  BY <1>5, <1>6, <1>4, SeqEqual
<1> QED  BY <1>3, <1>6, <1>7, <1>4 DEF f

\* Node p is one that moves down when the one at path goes.
Behind(path, p) ==
  /\ Len(p) >= Len(path) /\ p[Len(path)] > path[Len(path)]
  /\ \A i \in 1..Len(path) - 1 : p[i] = path[i]

LEMMA ClosedForm ==
  ASSUME NEW path \in Seq(Nat), path # <<>>, NEW p \in Seq(Nat)
  PROVE  /\ Closed(path, p) = IF Behind(path, p) THEN [p EXCEPT ![Len(path)] = p[Len(path)] - 1] ELSE p
         /\ Closed(path, p) \in Seq(Nat) /\ Len(Closed(path, p)) = Len(p)
         /\ \A i \in 1..Len(p) :
              Closed(path, p)[i] = IF Behind(path, p) /\ i = Len(path) THEN p[i] - 1 ELSE p[i]
<1> DEFINE k == Len(path)
<1>1. /\ k \in Nat /\ k > 0 /\ Len(p) \in Nat /\ \A i \in 1..Len(p) : p[i] \in Nat
      /\ path[k] \in Nat
  <2>1. /\ k \in Nat /\ k > 0 /\ Len(p) \in Nat /\ \A i \in 1..Len(p) : p[i] \in Nat
    BY FrontOf, LenProperties
  <2>2. k \in 1..k
    BY <2>1
  <2> QED  BY <2>1, <2>2, ElementOfSeq
<1>2. Len(p) >= k /\ IsPrefix(Front(path), p) /\ p[k] > Last(path) <=> Behind(path, p)
  <2>1. /\ Front(path) \in Seq(Nat) /\ Len(Front(path)) = k - 1
        /\ \A i \in 1..k - 1 : Front(path)[i] = path[i]
    BY FrontOf
  <2>2. IsPrefix(Front(path), p) <=> k - 1 <= Len(p) /\ \A i \in 1..k - 1 : Front(path)[i] = p[i]
    BY <2>1, PrefixPoints
  <2>3. (\A i \in 1..k - 1 : Front(path)[i] = p[i]) <=> \A i \in 1..k - 1 : p[i] = path[i]
    BY <2>1
  <2>4. Last(path) = path[k]
    BY DEF Last
  <2>5. Behind(path, p) <=> /\ Len(p) >= k /\ p[k] > path[k]
                            /\ \A i \in 1..k - 1 : p[i] = path[i]
    BY DEF Behind
  <2> HIDE DEF k
  <2>6. Len(p) >= k => k - 1 <= Len(p)
    BY <1>1
  <2> QED  BY <2>2, <2>3, <2>4, <2>5, <2>6
<1>3. Closed(path, p) = IF Behind(path, p) THEN [p EXCEPT ![k] = p[k] - 1] ELSE p
  BY <1>2 DEF Closed
<1>4. CASE ~Behind(path, p)
  BY <1>3, <1>4
<1>5. CASE Behind(path, p)
  <2>1. k \in 1..Len(p) /\ p[k] \in Nat /\ p[k] - 1 \in Nat
    BY <1>1, <1>5 DEF Behind
  <2> HIDE DEF k
  <2>2. /\ [p EXCEPT ![k] = p[k] - 1] \in Seq(Nat) /\ Len([p EXCEPT ![k] = p[k] - 1]) = Len(p)
        /\ \A j \in 1..Len(p) : [p EXCEPT ![k] = p[k] - 1][j] = IF j = k THEN p[k] - 1 ELSE p[j]
    BY <2>1, ExceptSeq
  <2> QED  BY <1>3, <1>5, <2>2 DEF k
<1> QED  BY <1>3, <1>4, <1>5

\* The first nodes of the path move like the path.
LEMMA ClosedFront ==
  ASSUME NEW path \in Seq(Nat), path # <<>>, NEW q \in Seq(Nat), q # <<>>, ~IsPrefix(path, q)
  PROVE  /\ Closed(path, q) # <<>> /\ Front(Closed(path, q)) = Closed(path, Front(q))
         /\ ~IsPrefix(path, Front(q))
<1> DEFINE c == Closed(path, q)
           f == Front(q)
           k == Len(path)
           n == Len(q)
<1>1. /\ c \in Seq(Nat) /\ Len(c) = n
      /\ \A i \in 1..n : c[i] = IF Behind(path, q) /\ i = k THEN q[i] - 1 ELSE q[i]
  BY ClosedForm
<1>2. /\ f \in Seq(Nat) /\ Len(f) = n - 1 /\ n \in Nat /\ n > 0
      /\ \A i \in 1..n - 1 : f[i] = q[i]
  BY FrontOf
<1>3. k \in Nat /\ k > 0
  BY FrontOf
<1>4. ~IsPrefix(path, f)
  <2>1. IsPrefix(path, f) <=> k <= n - 1 /\ \A i \in 1..k : path[i] = f[i]
    BY <1>2, PrefixPoints
  <2>2. IsPrefix(path, q) <=> k <= n /\ \A i \in 1..k : path[i] = q[i]
    BY PrefixPoints
  <2> HIDE DEF k, n, f
  <2> SUFFICES ASSUME IsPrefix(path, f) PROVE IsPrefix(path, q)
    OBVIOUS
  <2>3. \A i \in 1..k : i \in 1..n - 1
    BY <1>2, <1>3, <2>1
  <2> QED  BY <1>2, <1>3, <2>1, <2>2, <2>3
<1>5. Behind(path, f) <=> Behind(path, q) /\ k # n
  <2>1. Behind(path, f) <=> /\ n - 1 >= k /\ f[k] > path[k]
                            /\ \A i \in 1..k - 1 : f[i] = path[i]
    BY <1>2 DEF Behind
  <2>2. Behind(path, q) <=> /\ n >= k /\ q[k] > path[k]
                            /\ \A i \in 1..k - 1 : q[i] = path[i]
    BY DEF Behind
  <2> HIDE DEF k, n, f
  <2>3. CASE n - 1 >= k
    <3>1. k \in 1..n - 1 /\ \A i \in 1..k - 1 : i \in 1..n - 1
      BY <1>2, <1>3, <2>3
    <3>2. f[k] = q[k] /\ \A i \in 1..k - 1 : f[i] = q[i]
      BY <1>2, <3>1
    <3> QED  BY <1>2, <1>3, <2>1, <2>2, <2>3, <3>2
  <2>4. CASE ~(n - 1 >= k)
    BY <1>2, <1>3, <2>1, <2>2, <2>4
  <2> QED  BY <2>3, <2>4
<1> DEFINE d == Closed(path, f)
<1>6. /\ d \in Seq(Nat) /\ Len(d) = n - 1
      /\ \A i \in 1..n - 1 : d[i] = IF Behind(path, f) /\ i = k THEN f[i] - 1 ELSE f[i]
  <2> HIDE DEF f, n
  <2>1. /\ d \in Seq(Nat) /\ Len(d) = Len(f)
        /\ \A i \in 1..Len(f) : d[i] = IF Behind(path, f) /\ i = k THEN f[i] - 1 ELSE f[i]
    BY <1>2, ClosedForm
  <2> HIDE DEF d
  <2> QED  BY <1>2, <2>1
<1> HIDE DEF c, d, f, k, n
<1>7. c # <<>>
  BY <1>1, <1>2, EmptySeq
<1>8. /\ Front(c) \in Seq(Nat) /\ Len(Front(c)) = n - 1
      /\ \A i \in 1..n - 1 : Front(c)[i] = c[i]
  BY <1>1, <1>7, FrontOf
<1>9. \A i \in 1..n - 1 : Front(c)[i] = d[i]
  <2> TAKE i \in 1..n - 1
  <2>1. i \in 1..n /\ f[i] = q[i] /\ i # n
    BY <1>2
  <2> QED  BY <1>1, <1>5, <1>6, <1>8, <2>1
<1>10. Front(c) = d
  BY <1>6, <1>8, <1>9, SeqEqual
<1> QED  BY <1>4, <1>7, <1>10 DEF c, d, f

\* No two nodes move to the same place.
LEMMA ClosedApart ==
  ASSUME NEW path \in Seq(Nat), path # <<>>, NEW q \in Seq(Nat), NEW r \in Seq(Nat),
         ~IsPrefix(path, q), ~IsPrefix(path, r), Closed(path, q) = Closed(path, r)
  PROVE  q = r
<1> DEFINE k == Len(path)
<1>1. k \in Nat /\ k > 0
  BY FrontOf
<1>2. \A p \in Seq(Nat) : /\ Len(p) \in Nat
                          /\ Len(Closed(path, p)) = Len(p)
                          /\ \A i \in 1..Len(p) : p[i] \in Nat
                          /\ \A i \in 1..Len(p) :
                               Closed(path, p)[i] = IF Behind(path, p) /\ i = k THEN p[i] - 1 ELSE p[i]
  <2> TAKE p \in Seq(Nat)
  <2>1. Len(p) \in Nat /\ \A i \in 1..Len(p) : p[i] \in Nat
    BY LenProperties
  <2>2. /\ Len(Closed(path, p)) = Len(p)
        /\ \A i \in 1..Len(p) :
             Closed(path, p)[i] = IF Behind(path, p) /\ i = k THEN p[i] - 1 ELSE p[i]
    BY ClosedForm
  <2> QED  BY <2>1, <2>2
<1> DEFINE n == Len(q)
<1>3. /\ n \in Nat /\ Len(r) = n
      /\ \A i \in 1..n : q[i] \in Nat /\ r[i] \in Nat
      /\ \A i \in 1..n : (IF Behind(path, q) /\ i = k THEN q[i] - 1 ELSE q[i])
                         = IF Behind(path, r) /\ i = k THEN r[i] - 1 ELSE r[i]
  <2>1. Len(r) = n
    BY <1>2
  <2>2. /\ n \in Nat /\ \A i \in 1..n : q[i] \in Nat
        /\ \A i \in 1..n : Closed(path, q)[i] = IF Behind(path, q) /\ i = k THEN q[i] - 1 ELSE q[i]
    BY <1>2
  <2>3. /\ \A i \in 1..n : r[i] \in Nat
        /\ \A i \in 1..n : Closed(path, r)[i] = IF Behind(path, r) /\ i = k THEN r[i] - 1 ELSE r[i]
    BY <1>2, <2>1
  <2> HIDE DEF n, k
  <2> QED  BY <2>1, <2>2, <2>3
\* One that moves down next to one that stays would be where the removed node was.
<1>4. ASSUME NEW x \in {q, r}, NEW y \in {q, r}, Behind(path, x)
      PROVE  Behind(path, y)
  <2> SUFFICES ASSUME ~Behind(path, y) PROVE FALSE
    OBVIOUS
  <2>1. /\ x \in Seq(Nat) /\ y \in Seq(Nat) /\ Len(x) = n /\ Len(y) = n /\ ~IsPrefix(path, y)
        /\ \A i \in 1..n : (IF i = k THEN x[i] - 1 ELSE x[i]) = y[i]
        /\ \A i \in 1..n : x[i] \in Nat /\ y[i] \in Nat
    BY <1>3, <1>4
  <2>2. IsPrefix(path, y) <=> k <= n /\ \A i \in 1..k : path[i] = y[i]
    BY <2>1, PrefixPoints
  <2>3. n >= k /\ x[k] > path[k] /\ \A i \in 1..k - 1 : x[i] = path[i]
    BY <1>4, <2>1 DEF Behind
  <2>4. ~(n >= k /\ y[k] > path[k] /\ \A i \in 1..k - 1 : y[i] = path[i])
    BY <2>1 DEF Behind
  <2>5. path[k] \in Nat
    <3>1. k \in 1..k
      BY <1>1
    <3> QED  BY <3>1, ElementOfSeq
  <2> HIDE DEF n, k
  <2>6. k \in 1..n /\ y[k] = x[k] - 1
    BY <1>1, <1>3, <2>1, <2>3
  <2>7. \A i \in 1..k - 1 : y[i] = path[i]
    <3> TAKE i \in 1..k - 1
    <3>1. i \in 1..n /\ i # k
      BY <1>1, <1>3, <2>3
    <3> QED  BY <2>1, <2>3, <3>1
  <2>8. y[k] = path[k]
    <3>1. ~(y[k] > path[k])
      BY <2>3, <2>4, <2>7
    <3>2. x[k] \in Nat
      BY <2>1, <2>6
    <3> QED  BY <2>3, <2>5, <2>6, <3>1, <3>2
  <2>9. \A i \in 1..k : path[i] = y[i]
    <3> TAKE i \in 1..k
    <3>1. i = k \/ i \in 1..k - 1
      BY <1>1
    <3> QED  BY <2>7, <2>8, <3>1
  <2> QED  BY <2>1, <2>2, <2>3, <2>9
<1>5. Behind(path, q) <=> Behind(path, r)
  BY <1>4
<1>6. \A i \in 1..n : q[i] = r[i]
  <2> HIDE DEF n, k
  <2> TAKE i \in 1..n
  <2>1. q[i] \in Nat /\ r[i] \in Nat
    BY <1>3
  <2> QED  BY <1>3, <1>5, <2>1
<1> QED  BY <1>3, <1>6, SeqEqual

\* What is left when a node goes with all below it.
LEMMA RemovedTree ==
  ASSUME NEW tree, IsRooted(tree), NEW path \in DOMAIN tree, path # <<>>,
         NEW left, left = Without(tree, path)
  PROVE  /\ IsRooted(left)
         /\ \A p \in DOMAIN left : \E q \in DOMAIN tree : left[p] = tree[q]
<1> DEFINE rest == {p \in DOMAIN tree : ~IsPrefix(path, p)}
           D == {Closed(path, q) : q \in rest}
<1>1. /\ IsFiniteSet(DOMAIN tree) /\ DOMAIN tree \subseteq Seq(Nat) /\ <<>> \in DOMAIN tree
      /\ \A p \in DOMAIN tree : p # <<>> => Front(p) \in DOMAIN tree /\ tree[Front(p)].type = "group"
      /\ tree[<<>>].type = "group"
      /\ \A p \in DOMAIN tree : NodeOK(tree[p])
  BY DEF IsRooted, IsTree, NodeOK
<1>2. path \in Seq(Nat)
  BY <1>1
<1>3. \A q \in rest : q \in DOMAIN tree /\ q \in Seq(Nat) /\ ~IsPrefix(path, q)
  BY <1>1
<1>4. left = [p \in D |-> tree[CHOOSE q \in rest : Closed(path, q) = p]]
  BY DEF Without
<1>5. DOMAIN left = D /\ left = [p \in DOMAIN left |-> left[p]]
  BY <1>4
<1>6. \A q \in rest : Closed(path, q) \in D /\ left[Closed(path, q)] = tree[q]
  <2> TAKE q \in rest
  <2> DEFINE p == Closed(path, q)
             r == CHOOSE x \in rest : Closed(path, x) = p
  <2>1. p \in D /\ left[p] = tree[r]
    BY <1>4
  <2>2. r \in rest /\ Closed(path, r) = p
    OBVIOUS
  <2> HIDE DEF rest, D, r
  <2>3. r = q
    BY <1>2, <1>3, <2>2, ClosedApart
  <2> QED  BY <2>1, <2>3
<1>7. IsFiniteSet(D)
  <2>1. IsFiniteSet(rest)
    BY <1>1, FS_Subset
  <2> DEFINE f == [q \in rest |-> Closed(path, q)]
  <2> HIDE DEF rest
  <2>2. f \in Surjection(rest, D)
    BY DEF Surjection
  <2> QED  BY <2>1, <2>2, FS_Surjection
<1>8. \A p \in D : \E q \in rest : p = Closed(path, q)
  OBVIOUS
<1> HIDE DEF D
<1>9. D \subseteq Seq(Nat)
  <2> SUFFICES ASSUME NEW p \in D PROVE p \in Seq(Nat)
    OBVIOUS
  <2>1. PICK q \in rest : p = Closed(path, q)
    BY <1>8
  <2>2. q \in Seq(Nat)
    BY <1>3
  <2> QED  BY <1>2, <2>1, <2>2, ClosedForm
<1>10. <<>> \in D /\ left[<<>>].type = "group"
  <2>1. <<>> \in Seq(Nat) /\ Len(<<>>) = 0
    BY EmptySeq
  <2>2. Len(path) \in Nat /\ Len(path) > 0
    BY <1>2, FrontOf
  <2>3. ~IsPrefix(path, <<>>)
    <3>1. ~(Len(path) <= Len(<<>>))
      BY <2>1, <2>2
    <3> QED  BY <1>2, <2>1, <3>1, PrefixPoints
  <2>4. Closed(path, <<>>) = <<>>
    BY <2>1, <2>2 DEF Closed
  <2>5. <<>> \in rest
    BY <1>1, <2>3
  <2> HIDE DEF rest
  <2> QED  BY <1>1, <1>6, <2>4, <2>5
<1>11. \A p \in D : NodeOK(left[p]) /\ \E q \in DOMAIN tree : left[p] = tree[q]
  BY <1>1, <1>3, <1>6, <1>8
<1>12. \A p \in D : p # <<>> => Front(p) \in D /\ left[Front(p)].type = "group"
  <2> SUFFICES ASSUME NEW p \in D, p # <<>> PROVE Front(p) \in D /\ left[Front(p)].type = "group"
    OBVIOUS
  <2>1. PICK q \in rest : p = Closed(path, q)
    BY <1>8
  <2>2. q \in DOMAIN tree /\ q \in Seq(Nat) /\ ~IsPrefix(path, q)
    BY <1>3
  <2>3. q # <<>>
    <3>1. Len(p) = Len(q)
      BY <1>2, <2>1, <2>2, ClosedForm
    <3>2. p \in Seq(Nat)
      BY <1>9
    <3>3. Len(p) # 0
      BY <3>2, EmptySeq
    <3> QED  BY <3>1, <3>3, EmptySeq
  <2>4. Front(p) = Closed(path, Front(q)) /\ ~IsPrefix(path, Front(q))
    BY <1>2, <2>1, <2>2, <2>3, ClosedFront
  <2>5. Front(q) \in DOMAIN tree /\ tree[Front(q)].type = "group"
    BY <1>1, <2>2, <2>3
  <2>6. Front(q) \in rest
    BY <2>4, <2>5
  <2> HIDE DEF rest
  <2> QED  BY <1>6, <2>4, <2>5, <2>6
<1> QED  BY <1>5, <1>7, <1>9, <1>10, <1>11, <1>12 DEF IsRooted, IsTree, NodeOK

LEMMA RemovedIsNormal ==
  ASSUME NEW t, NEW tree, IsRooted(tree), IsNormal(t, tree), NEW path \in DOMAIN tree, path # <<>>
  PROVE  IsRooted(Without(tree, path)) /\ IsNormal(t, Without(tree, path))
BY RemovedTree DEF IsNormal

LEMMA PutIsNormal ==
  ASSUME NEW t, NEW tree, IsNormal(t, tree), NEW path, NEW node,
         node.type # "group" => Known(t, node) /\ node.op \in Operators(FieldKinds[t][node.field]),
         NEW put, put = Put(tree, path, node)
  PROVE  IsNormal(t, put)
BY DEF IsNormal, Put

-----------------------------------------------------------------------------
(* Edits: conditions *)

\* A condition of the draft: of a field of its table, with an operator of that field.
IsDrafted(t, n) ==
  IsCondition(n) /\ n.type = "condition" /\ Known(t, n) /\ n.op \in Operators(FieldKinds[t][n.field])

LEMMA DraftedCond ==
  ASSUME NEW t \in ItemTables, NEW field \in DOMAIN FieldKinds[t], NEW op \in Operators(FieldKinds[t][field]),
         NEW value \in Value, NEW values \in Tags, NEW min \in Value, NEW max \in Value
  PROVE  IsDrafted(t, Cond(field, op, value, values, min, max))
<1> DEFINE n == Cond(field, op, value, values, min, max)
<1>1. IsCondition(n) /\ n.type = "condition" /\ n.field = field /\ n.op = op
  BY CondFields
<1> HIDE DEF n
<1>2. IsDrafted(t, n)
  BY <1>1 DEF IsDrafted, Known
<1> QED  BY <1>2 DEF n

LEMMA NewCondition ==
  ASSUME NEW t \in ItemTables, NEW field \in DOMAIN FieldKinds[t]
  PROVE  \E op \in Operators(FieldKinds[t][field]), value \in Value, values \in Tags :
           CreateCondition(t, field) = Cond(field, op, value, values, Missing, Missing)
<1> DEFINE kind == FieldKinds[t][field]
           op == IF kind = "number" THEN "gte" ELSE DefaultOperator(kind)
           new == Condition(field, op)
<1>1. kind \in Kinds
  BY FieldsAssumption DEF Kinds
<1>2. op \in Operators(kind)
  BY <1>1, DefaultIsOperator DEF Operators
<1>3. CreateCondition(t, field) =
        CASE kind = "boolean" -> new
          [] kind = "tags" -> [new EXCEPT !.values = {}]
          [] OTHER -> [new EXCEPT !.value = ""]
  BY DEF CreateCondition
<1> HIDE DEF kind, op
<1>4. \A x :
        /\ new = Cond(field, op, Missing, NoTags, Missing, Missing)
        /\ [new EXCEPT !.value = x] = Cond(field, op, x, NoTags, Missing, Missing)
        /\ [new EXCEPT !.values = x] = Cond(field, op, Missing, x, Missing, Missing)
  BY ConditionWith DEF new
<1> HIDE DEF new
<1>5. Missing \in Value /\ NoTags \in Tags /\ "" \in Value /\ {} \in Tags
  BY DEF Value, Tags, Texts
<1> SUFFICES \E o \in Operators(kind), value \in Value, values \in Tags :
               CreateCondition(t, field) = Cond(field, o, value, values, Missing, Missing)
  BY DEF kind
<1>6. CASE kind = "boolean"
  BY <1>2, <1>3, <1>4, <1>5, <1>6
<1>7. CASE kind = "tags"
  <2>1. CreateCondition(t, field) = [new EXCEPT !.values = {}]
    BY <1>3, <1>7
  <2>2. CreateCondition(t, field) = Cond(field, op, Missing, {}, Missing, Missing)
    BY <1>4, <2>1
  <2> QED  BY <1>2, <1>5, <2>2
<1>8. CASE kind \notin {"boolean", "tags"}
  <2>1. CreateCondition(t, field) = [new EXCEPT !.value = ""]
    BY <1>3, <1>8
  <2>2. CreateCondition(t, field) = Cond(field, op, "", NoTags, Missing, Missing)
    BY <1>4, <2>1
  <2> QED  BY <1>2, <1>5, <2>2
<1> QED  BY <1>6, <1>7, <1>8

LEMMA CreatedIsDrafted ==
  ASSUME NEW t \in ItemTables, NEW field \in DOMAIN FieldKinds[t]
  PROVE  IsDrafted(t, CreateCondition(t, field))
BY NewCondition, DraftedCond, FieldValues

\* A condition as its fields, and what they hold.
LEMMA DraftedFields ==
  ASSUME NEW t, NEW n, IsDrafted(t, n)
  PROVE  /\ n = Cond(n.field, n.op, n.value, n.values, n.min, n.max)
         /\ n.value \in Value /\ n.values \in Tags /\ n.min \in Value /\ n.max \in Value
         /\ n.field \in DOMAIN FieldKinds[t] /\ n.op \in Operators(FieldKinds[t][n.field])
BY DEF IsDrafted, IsCondition, Cond, Value, Tags, Known

\* What the condition becomes when its operator is chosen.
LEMMA OperatorChosen ==
  ASSUME NEW t \in ItemTables, NEW n, IsDrafted(t, n), NEW op \in Operators(FieldKinds[t][n.field])
  PROVE  LET new == [CreateCondition(t, n.field) EXCEPT !.op = op]
         IN  IsDrafted(t, CASE NeedsArray(op) -> [new EXCEPT !.values = IF n.values = NoTags THEN {} ELSE n.values]
                            [] NeedsRange(op) -> WithRange(new, Else(n.min, ""), Else(n.max, ""))
                            [] NeedsSingle(op) -> [new EXCEPT !.value = Else(n.value, "")]
                            [] OTHER -> new)
<1> DEFINE f == n.field
           s == IF n.values = NoTags THEN {} ELSE n.values
           a == Else(n.min, "")
           b == Else(n.max, "")
           v == Else(n.value, "")
           new == [CreateCondition(t, f) EXCEPT !.op = op]
           c == CASE NeedsArray(op) -> [new EXCEPT !.values = s]
                  [] NeedsRange(op) -> WithRange(new, a, b)
                  [] NeedsSingle(op) -> [new EXCEPT !.value = v]
                  [] OTHER -> new
<1> SUFFICES IsDrafted(t, c)
  OBVIOUS
<1>1. f \in DOMAIN FieldKinds[t] /\ n.value \in Value /\ n.values \in Tags /\ n.min \in Value /\ n.max \in Value
  BY DraftedFields
<1>2. /\ s \in Tags /\ a \in Value /\ b \in Value /\ v \in Value /\ Missing \in Value
  BY <1>1 DEF Tags, Value, Texts, Else
<1> HIDE DEF f, s, a, b, v
<1>3. PICK o \in Operators(FieldKinds[t][f]), value \in Value, values \in Tags :
        CreateCondition(t, f) = Cond(f, o, value, values, Missing, Missing)
  BY <1>1, NewCondition
<1>4. new = Cond(f, op, value, values, Missing, Missing)
  <2> DEFINE created == CreateCondition(t, f)
  <2>1. new = [created EXCEPT !.op = op] /\ created = Cond(f, o, value, values, Missing, Missing)
    BY <1>3
  <2> HIDE DEF created
  <2> HIDE DEF new
  <2> QED  BY <2>1 DEF Cond
<1> HIDE DEF new
<1>5. /\ [new EXCEPT !.values = s] = Cond(f, op, value, s, Missing, Missing)
      /\ WithRange(new, a, b) = Cond(f, op, value, values, a, b)
      /\ [new EXCEPT !.value = v] = Cond(f, op, v, values, Missing, Missing)
  <2>1. [new EXCEPT !.values = s] = Cond(f, op, value, s, Missing, Missing)
    BY <1>4 DEF Cond
  <2>2. [new EXCEPT !.value = v] = Cond(f, op, v, values, Missing, Missing)
    BY <1>4 DEF Cond
  <2>3. [new EXCEPT !.min = a] = Cond(f, op, value, values, a, Missing)
    BY <1>4 DEF Cond
  <2>4. [Cond(f, op, value, values, a, Missing) EXCEPT !.max = b] = Cond(f, op, value, values, a, b)
    BY DEF Cond
  <2> QED  BY <2>1, <2>2, <2>3, <2>4 DEF WithRange
<1>6. op \in Operators(FieldKinds[t][f])
  BY DEF f
<1>7. \A x \in Value, z \in Tags, y \in Value, w \in Value : IsDrafted(t, Cond(f, op, x, z, y, w))
  BY <1>1, <1>6, DraftedCond
<1>8. /\ IsDrafted(t, [new EXCEPT !.values = s]) /\ IsDrafted(t, WithRange(new, a, b))
      /\ IsDrafted(t, [new EXCEPT !.value = v]) /\ IsDrafted(t, new)
  <2> DEFINE A == [new EXCEPT !.values = s]
             B == WithRange(new, a, b)
             C == [new EXCEPT !.value = v]
  <2>1. /\ A = Cond(f, op, value, s, Missing, Missing) /\ B = Cond(f, op, value, values, a, b)
        /\ C = Cond(f, op, v, values, Missing, Missing)
    BY <1>5
  <2> HIDE DEF A, B, C
  <2>3. IsDrafted(t, A)
    BY <1>2, <1>7, <2>1
  <2>4. IsDrafted(t, B)
    BY <1>2, <1>7, <2>1
  <2>5. IsDrafted(t, C)
    BY <1>2, <1>7, <2>1
  <2>6. IsDrafted(t, new)
    BY <1>2, <1>4, <1>7
  <2> QED  BY <2>3, <2>4, <2>5, <2>6 DEF A, B, C
<1>9. c = CASE NeedsArray(op) -> [new EXCEPT !.values = s]
            [] NeedsRange(op) -> WithRange(new, a, b)
            [] NeedsSingle(op) -> [new EXCEPT !.value = v]
            [] OTHER -> new
  OBVIOUS
<1> HIDE DEF c
<1>10. CASE NeedsArray(op)
  BY <1>8, <1>9, <1>10, OneNeed
<1>11. CASE NeedsRange(op)
  BY <1>8, <1>9, <1>11, OneNeed
<1>12. CASE NeedsSingle(op)
  BY <1>8, <1>9, <1>12, OneNeed
<1>13. CASE ~NeedsArray(op) /\ ~NeedsRange(op) /\ ~NeedsSingle(op)
  BY <1>8, <1>9, <1>13
<1> QED  BY <1>10, <1>11, <1>12, <1>13

\* What is typed is a value of the condition or, for tags, what is left of it.
LEMMA ValueTyped ==
  ASSUME NEW t \in ItemTables, NEW n, IsDrafted(t, n), NEW text \in Texts
  PROVE  /\ IsDrafted(t, [n EXCEPT !.values = {Trim(text)} \ {""}])
         /\ IsDrafted(t, [n EXCEPT !.min = text])
         /\ IsDrafted(t, [n EXCEPT !.max = text])
         /\ IsDrafted(t, [n EXCEPT !.value = text])
<1> DEFINE s == {Trim(text)} \ {""}
<1>1. s \in Tags /\ text \in Value
  BY DEF Tags, Value, Texts, Trim
<1> HIDE DEF s
<1>2. /\ n = Cond(n.field, n.op, n.value, n.values, n.min, n.max)
      /\ n.value \in Value /\ n.values \in Tags /\ n.min \in Value /\ n.max \in Value
      /\ n.field \in DOMAIN FieldKinds[t] /\ n.op \in Operators(FieldKinds[t][n.field])
  BY DraftedFields
<1>3. /\ [n EXCEPT !.values = s] = Cond(n.field, n.op, n.value, s, n.min, n.max)
      /\ [n EXCEPT !.min = text] = Cond(n.field, n.op, n.value, n.values, text, n.max)
      /\ [n EXCEPT !.max = text] = Cond(n.field, n.op, n.value, n.values, n.min, text)
      /\ [n EXCEPT !.value = text] = Cond(n.field, n.op, text, n.values, n.min, n.max)
  <2> DEFINE f == n.field
             o == n.op
             v == n.value
             z == n.values
             a == n.min
             b == n.max
  <2>1. n = Cond(f, o, v, z, a, b)
    BY <1>2
  <2> HIDE DEF f, o, v, z, a, b
  <2>2. [n EXCEPT !.values = s] = Cond(f, o, v, s, a, b)
    BY <2>1 DEF Cond
  <2>3. [n EXCEPT !.min = text] = Cond(f, o, v, z, text, b)
    BY <2>1 DEF Cond
  <2>4. [n EXCEPT !.max = text] = Cond(f, o, v, z, a, text)
    BY <2>1 DEF Cond
  <2>5. [n EXCEPT !.value = text] = Cond(f, o, text, z, a, b)
    BY <2>1 DEF Cond
  <2> QED  BY <2>2, <2>3, <2>4, <2>5 DEF f, o, v, z, a, b
<1>4. /\ IsDrafted(t, [n EXCEPT !.values = s])
      /\ IsDrafted(t, [n EXCEPT !.min = text])
      /\ IsDrafted(t, [n EXCEPT !.max = text])
      /\ IsDrafted(t, [n EXCEPT !.value = text])
  BY <1>1, <1>2, <1>3, DraftedCond
<1> QED  BY <1>4 DEF s

-----------------------------------------------------------------------------
(* The inductive invariant *)

\* What is drafted can be rendered; what is applied was submitted.
DraftOK(t, tree) == IsRooted(tree) /\ IsNormal(t, tree)

AppliedOK(t, tree) ==
  /\ IsRooted(tree) /\ SanitizeFilterTree(t, tree) = tree
  /\ \A p \in DOMAIN tree : tree[p].type # "group" => IsComplete(t, tree[p])

DraftIsTree ==
  /\ draftTree = [t \in ItemTables |-> draftTree[t]]
  /\ \A t \in ItemTables : DraftOK(t, draftTree[t])

FilterInv ==
  /\ DraftIsTree
  /\ appliedTree = [t \in ItemTables |-> appliedTree[t]]
  /\ \A t \in ItemTables : AppliedOK(t, appliedTree[t])

LEMMA NormalizedIsOK ==
  ASSUME NEW t \in ItemTables, NEW tree, IsTree(tree)
  PROVE  DraftOK(t, NormalizeFilterTree(t, tree)) /\ AppliedOK(t, ReadTree(t, tree))
<1> DEFINE norm == NormalizeFilterTree(t, tree)
           read == ReadTree(t, tree)
<1>1. IsRooted(norm) /\ IsNormal(t, norm)
  BY NormalizedIsNormal
<1>2. read = SanitizeFilterTree(t, norm)
  BY DEF ReadTree
<1> HIDE DEF norm, read
<1>3. /\ IsRooted(read) /\ SanitizeFilterTree(t, read) = read
      /\ \A p \in DOMAIN read : read[p].type # "group" => IsComplete(t, read[p])
  BY <1>1, <1>2, SubmittedTree
<1>4. DraftOK(t, norm) /\ AppliedOK(t, read)
  BY <1>1, <1>3 DEF DraftOK, AppliedOK
<1> QED  BY <1>4 DEF norm, read

LEMMA EmptyIsOK == ASSUME NEW t PROVE DraftOK(t, EmptyTree) /\ AppliedOK(t, EmptyTree)
<1> DEFINE root == Group("AND")
<1>1. EmptyTree = [path \in {<<>>} |-> root] /\ root.type = "group" /\ root = CoerceGroup(root)
  BY DEF EmptyTree, Group, CoerceGroup
<1> HIDE DEF root
<1>2. SanitizeNode(t, root) = <<root>>
  BY <1>1 DEF SanitizeNode
<1>3. SanitizeFilterTree(t, EmptyTree) = EmptyTree
  BY <1>1, <1>2 DEF SanitizeFilterTree
<1>4. \A p \in DOMAIN EmptyTree : EmptyTree[p].type = "group"
  BY <1>1
<1> QED  BY <1>3, <1>4, EmptyIsRooted DEF DraftOK, AppliedOK, IsNormal

\* One draft becomes another one.
LEMMA DraftStep ==
  ASSUME FilterInv, NEW t \in ItemTables, NEW tree, DraftOK(t, tree),
         draftTree' = [draftTree EXCEPT ![t] = tree], UNCHANGED appliedTree
  PROVE  FilterInv'
<1>1. draftTree' = [s \in ItemTables |-> IF s = t THEN tree ELSE draftTree[s]]
  BY DEF FilterInv, DraftIsTree
<1>2. draftTree' = [s \in ItemTables |-> draftTree'[s]] /\ \A s \in ItemTables : DraftOK(s, draftTree'[s])
  BY <1>1 DEF FilterInv, DraftIsTree
<1> QED  BY <1>2 DEF FilterInv, DraftIsTree

\* A node is set: a group where a group was, a condition where a condition was,
\* or either one as a new child of a group.
LEMMA UpdateStep ==
  ASSUME FilterInv, NEW t \in ItemTables, NEW path \in Seq(Nat), NEW node, NodeOK(node),
         node.type # "group" => IsDrafted(t, node),
         \/ path \in DOMAIN draftTree[t] /\ node.type = draftTree[t][path].type
         \/ /\ path \notin DOMAIN draftTree[t] /\ path # <<>>
            /\ Front(path) \in DOMAIN draftTree[t] /\ draftTree[t][Front(path)].type = "group",
         Update(t, path, node)
  PROVE  FilterInv'
<1> DEFINE tree == draftTree[t]
           put == Put(tree, path, node)
<1>1. IsRooted(tree) /\ IsNormal(t, tree)
  BY DEF FilterInv, DraftIsTree, DraftOK
<1>2. draftTree' = [draftTree EXCEPT ![t] = put] /\ UNCHANGED appliedTree
  BY DEF Update, Put
<1> HIDE DEF tree
<1>3. put = Put(tree, path, node)
  OBVIOUS
<1> HIDE DEF put
<1>4. IsRooted(put)
  <2>1. \/ path \in DOMAIN tree /\ node.type = tree[path].type
        \/ /\ path \notin DOMAIN tree /\ path # <<>>
           /\ Front(path) \in DOMAIN tree /\ tree[Front(path)].type = "group"
    BY DEF tree
  <2> QED  BY <1>1, <1>3, <2>1, PutTree
<1>5. IsNormal(t, put)
  <2>1. node.type # "group" => Known(t, node) /\ node.op \in Operators(FieldKinds[t][node.field])
    BY DEF IsDrafted
  <2> QED  BY <1>1, <1>3, <2>1, PutIsNormal
<1>6. DraftOK(t, put)
  BY <1>4, <1>5 DEF DraftOK
<1> QED  BY <1>2, <1>6, DraftStep

\* A new node gets a place behind those of the other children of its group.
LEMMA AddStep ==
  ASSUME FilterInv, NEW t \in ItemTables, NEW path \in PathsOf(t, "group"), NEW node, NodeOK(node),
         node.type # "group" => IsDrafted(t, node), AddNode(t, path, node)
  PROVE  FilterInv'
<1> DEFINE tree == draftTree[t]
           place == NextPlace(tree, path)
           new == Append(path, place)
<1>1. IsTree(tree) /\ path \in DOMAIN tree /\ tree[path].type = "group" /\ path \in Seq(Nat)
  BY DEF FilterInv, DraftIsTree, DraftOK, IsRooted, IsTree, PathsOf
<1>2. place \in Nat /\ new \notin DOMAIN tree
  BY <1>1, NextPlaceIsFree
<1>3. Update(t, new, node)
  BY DEF AddNode
<1> HIDE DEF place
<1>4. new \in Seq(Nat) /\ new # <<>> /\ Front(new) = path
  BY <1>1, <1>2, FrontOfAppend
<1> HIDE DEF new
<1> QED  BY <1>1, <1>2, <1>3, <1>4, UpdateStep

LEMMA DraftedNode ==
  ASSUME NEW t \in ItemTables, FilterInv, NEW path \in PathsOf(t, "condition")
  PROVE  /\ path \in DOMAIN draftTree[t] /\ path \in Seq(Nat) /\ draftTree[t][path].type = "condition"
         /\ IsDrafted(t, draftTree[t][path])
<1>1. path \in DOMAIN draftTree[t] /\ draftTree[t][path].type = "condition"
  BY DEF PathsOf
<1>2. IsRooted(draftTree[t]) /\ IsNormal(t, draftTree[t])
  BY DEF FilterInv, DraftIsTree, DraftOK
<1> QED  BY <1>1, <1>2 DEF IsRooted, IsTree, IsNormal, IsDrafted

\* A condition takes the place of another one.
LEMMA ConditionStep ==
  ASSUME FilterInv, NEW t \in ItemTables, NEW path \in PathsOf(t, "condition"), NEW node,
         IsDrafted(t, node), Update(t, path, node)
  PROVE  FilterInv'
<1>1. path \in DOMAIN draftTree[t] /\ path \in Seq(Nat) /\ draftTree[t][path].type = "condition"
  BY DraftedNode
<1>2. node.type = "condition" /\ NodeOK(node)
  BY DEF IsDrafted, NodeOK
<1> QED  BY <1>1, <1>2, UpdateStep

LEMMA GroupNode == ASSUME NEW relation PROVE Group(relation).type = "group" /\ NodeOK(Group(relation))
BY DEF Group, NodeOK, IsGroup

-----------------------------------------------------------------------------
LEMMA FilterInitInv == FilterInit => FilterInv
<1> SUFFICES ASSUME FilterInit PROVE FilterInv
  OBVIOUS
<1>1. PICK stored \in [ItemTables -> Stored] :
        /\ draftTree = [t \in ItemTables |-> NormalizeFilterTree(t, stored[t])]
        /\ appliedTree = [t \in ItemTables |-> ReadTree(t, stored[t])]
  BY DEF FilterInit
<1>2. \A t \in ItemTables : IsTree(stored[t])
  BY StoredAssumption
<1>3. \A t \in ItemTables : DraftOK(t, draftTree[t]) /\ AppliedOK(t, appliedTree[t])
  BY <1>1, <1>2, NormalizedIsOK
<1> QED  BY <1>1, <1>3 DEF FilterInv, DraftIsTree

LEMMA FilterStepInv == FilterInv /\ [FilterNext]_filterVars => FilterInv'
<1> SUFFICES ASSUME FilterInv, [FilterNext]_filterVars PROVE FilterInv'
  OBVIOUS
<1>1. CASE UNCHANGED filterVars
  BY <1>1 DEF filterVars, FilterInv, DraftIsTree
<1>2. ASSUME NEW t \in ItemTables, NEW path \in PathsOf(t, "group"), AddConditionToGroup(t, path)
      PROVE  FilterInv'
  <2> DEFINE node == CreateCondition(t, FirstField[t])
  <2>1. IsDrafted(t, node)
    BY FieldsAssumption, CreatedIsDrafted
  <2>2. AddNode(t, path, node)
    BY <1>2 DEF AddConditionToGroup
  <2> HIDE DEF node
  <2>3. NodeOK(node)
    BY <2>1 DEF IsDrafted, NodeOK
  <2> QED  BY <2>1, <2>2, <2>3, AddStep
<1>3. ASSUME NEW t \in ItemTables, NEW path \in PathsOf(t, "group"), AddGroupToGroup(t, path)
      PROVE  FilterInv'
  <2>1. AddNode(t, path, Group("AND"))
    BY <1>3 DEF AddGroupToGroup
  <2> QED  BY <2>1, GroupNode, AddStep
<1>4. ASSUME NEW t \in ItemTables, NEW path \in PathsOf(t, "group"), NEW relation,
             UpdateGroupRelation(t, path, relation)
      PROVE  FilterInv'
  <2>1. Update(t, path, Group(relation))
    BY <1>4 DEF UpdateGroupRelation
  <2>2. path \in DOMAIN draftTree[t] /\ draftTree[t][path].type = "group" /\ path \in Seq(Nat)
    BY DEF FilterInv, DraftIsTree, DraftOK, IsRooted, IsTree, PathsOf
  <2>3. Group(relation).type = draftTree[t][path].type
    BY <2>2, GroupNode
  <2> QED  BY <2>1, <2>2, <2>3, GroupNode, UpdateStep
<1>5. ASSUME NEW t \in ItemTables, NEW path \in PathsOf(t, "condition"), NEW field \in DOMAIN FieldKinds[t],
             ChooseField(t, path, field)
      PROVE  FilterInv'
  <2>1. Update(t, path, CreateCondition(t, field))
    BY <1>5 DEF ChooseField
  <2> QED  BY <2>1, CreatedIsDrafted, ConditionStep
<1>6. ASSUME NEW t \in ItemTables, NEW path \in PathsOf(t, "condition"), NEW op,
             ChooseOperator(t, path, op)
      PROVE  FilterInv'
  <2> DEFINE n == draftTree[t][path]
             new == [CreateCondition(t, n.field) EXCEPT !.op = op]
             node == CASE NeedsArray(op) -> [new EXCEPT !.values = IF n.values = NoTags THEN {} ELSE n.values]
                       [] NeedsRange(op) -> WithRange(new, Else(n.min, ""), Else(n.max, ""))
                       [] NeedsSingle(op) -> [new EXCEPT !.value = Else(n.value, "")]
                       [] OTHER -> new
  <2>1. op \in Operators(FieldKinds[t][n.field]) /\ Update(t, path, node)
    BY <1>6 DEF ChooseOperator
  <2>2. IsDrafted(t, n)
    BY DraftedNode
  <2>3. IsDrafted(t, node)
    <3> HIDE DEF n
    <3> QED  BY <2>1, <2>2, OperatorChosen
  <2> HIDE DEF node
  <2> QED  BY <2>1, <2>3, ConditionStep
<1>7. ASSUME NEW t \in ItemTables, NEW path \in PathsOf(t, "condition"), NEW text \in Texts,
             TypeValue(t, path, text)
      PROVE  FilterInv'
  <2> DEFINE n == draftTree[t][path]
             a == [n EXCEPT !.values = {Trim(text)} \ {""}]
             b == [n EXCEPT !.min = text]
             c == [n EXCEPT !.max = text]
             d == [n EXCEPT !.value = text]
  <2>1. Update(t, path, a) \/ Update(t, path, b) \/ Update(t, path, c) \/ Update(t, path, d)
    BY <1>7 DEF TypeValue
  <2>2. IsDrafted(t, n)
    BY DraftedNode
  <2>3. IsDrafted(t, a) /\ IsDrafted(t, b) /\ IsDrafted(t, c) /\ IsDrafted(t, d)
    <3> HIDE DEF n
    <3> QED  BY <2>2, ValueTyped
  <2> HIDE DEF a, b, c, d
  <2> QED  BY <2>1, <2>3, ConditionStep
<1>8. ASSUME NEW t \in ItemTables, NEW path \in DOMAIN draftTree[t], RemoveDraftNode(t, path)
      PROVE  FilterInv'
  <2> DEFINE left == Without(draftTree[t], path)
  <2>1. path # <<>> /\ draftTree' = [draftTree EXCEPT ![t] = left] /\ UNCHANGED appliedTree
    BY <1>8 DEF RemoveDraftNode
  <2>2. IsRooted(draftTree[t]) /\ IsNormal(t, draftTree[t])
    BY DEF FilterInv, DraftIsTree, DraftOK
  <2>3. IsRooted(left) /\ IsNormal(t, left)
    BY <2>1, <2>2, RemovedIsNormal
  <2> HIDE DEF left
  <2>4. DraftOK(t, left)
    BY <2>3 DEF DraftOK
  <2> QED  BY <2>1, <2>4, DraftStep
<1>9. ASSUME NEW t \in ItemTables, Apply(t) PROVE FilterInv'
  <2> DEFINE sent == SanitizeFilterTree(t, draftTree[t])
  <2>1. appliedTree' = [appliedTree EXCEPT ![t] = sent] /\ UNCHANGED draftTree
    BY <1>9 DEF Apply
  <2>2. IsRooted(draftTree[t])
    BY DEF FilterInv, DraftIsTree, DraftOK
  <2>3. AppliedOK(t, sent)
    BY <2>2, SubmittedTree DEF AppliedOK
  <2> HIDE DEF sent
  <2>4. appliedTree' = [s \in ItemTables |-> IF s = t THEN sent ELSE appliedTree[s]]
    BY <2>1 DEF FilterInv
  <2>5. /\ appliedTree' = [s \in ItemTables |-> appliedTree'[s]]
        /\ \A s \in ItemTables : AppliedOK(s, appliedTree'[s])
    BY <2>3, <2>4 DEF FilterInv
  <2> QED  BY <2>1, <2>5 DEF FilterInv, DraftIsTree
<1>10. ASSUME NEW t \in ItemTables, ResetFilter(t) PROVE FilterInv'
  <2>1. /\ draftTree' = [s \in ItemTables |-> IF s = t THEN EmptyTree ELSE draftTree[s]]
        /\ appliedTree' = [s \in ItemTables |-> IF s = t THEN EmptyTree ELSE appliedTree[s]]
    BY <1>10 DEF ResetFilter, FilterInv, DraftIsTree
  <2>2. /\ draftTree' = [s \in ItemTables |-> draftTree'[s]]
        /\ \A s \in ItemTables : DraftOK(s, draftTree'[s])
    BY <2>1, EmptyIsOK DEF FilterInv, DraftIsTree
  <2>3. /\ appliedTree' = [s \in ItemTables |-> appliedTree'[s]]
        /\ \A s \in ItemTables : AppliedOK(s, appliedTree'[s])
    BY <2>1, EmptyIsOK DEF FilterInv
  <2> QED  BY <2>2, <2>3 DEF FilterInv, DraftIsTree
<1>11. CASE ReopenResults
  <2>1. /\ draftTree' = [t \in ItemTables |-> NormalizeFilterTree(t, draftTree[t])]
        /\ appliedTree' = [t \in ItemTables |-> ReadTree(t, appliedTree[t])]
    BY <1>11 DEF ReopenResults
  <2>2. \A t \in ItemTables : IsTree(draftTree[t]) /\ IsTree(appliedTree[t])
    BY DEF FilterInv, DraftIsTree, DraftOK, AppliedOK, IsRooted
  <2>3. \A t \in ItemTables : DraftOK(t, draftTree'[t]) /\ AppliedOK(t, appliedTree'[t])
    BY <2>1, <2>2, NormalizedIsOK
  <2> QED  BY <2>1, <2>3 DEF FilterInv, DraftIsTree
<1> QED
  BY <1>1, <1>2, <1>3, <1>4, <1>5, <1>6, <1>7, <1>8, <1>9, <1>10, <1>11 DEF FilterNext

LEMMA FilterInvariant == FilterSpec => []FilterInv
BY FilterInitInv, FilterStepInv, PTL DEF FilterSpec

-----------------------------------------------------------------------------
\* The draft is a tree below one group, and each of its conditions has a field of its table
\* and an operator of that field, whatever was stored and edited (hydrateResultsFilterDrafts,
\* updateDraftTree): the builder shows every node and the operator that is stored.
THEOREM DraftStaysTree == FilterSpec => []DraftIsTree
<1>1. FilterInv => DraftIsTree
  BY DEF FilterInv
<1> QED  BY <1>1, FilterInvariant, PTL

\* Every condition that is submitted is about a field of its table, with an operator of that
\* field and all the values the operator needs, whatever was drafted, stored or read back
\* (sanitizeFilterTreeForSubmit, readResultsFilterState).
THEOREM SubmittedComplete == FilterSpec => []SubmittedIsComplete
<1>1. FilterInv => SubmittedIsComplete
  <2> SUFFICES ASSUME FilterInv, NEW t \in ItemTables, NEW n \in Conditions(appliedTree[t])
               PROVE  IsComplete(t, n)
    BY DEF SubmittedIsComplete, IsComplete, Known
  <2>1. PICK p \in DOMAIN appliedTree[t] : n = appliedTree[t][p] /\ n.type = "condition"
    BY DEF Conditions
  <2> QED  BY <2>1 DEF FilterInv, AppliedOK
<1> QED  BY <1>1, FilterInvariant, PTL

\* Opening the page again changes neither what is applied nor what applying the draft would
\* submit, whatever was edited (hydrate, coerceFilterNodeForUi).
THEOREM ReopenKeepsFilters == FilterSpec => []FiltersSurviveReopen
<1>1. FilterInv => FiltersSurviveReopen
  <2> SUFFICES ASSUME FilterInv, NEW t \in ItemTables
               PROVE  /\ ReadTree(t, appliedTree[t]) = appliedTree[t]
                      /\ SanitizeFilterTree(t, NormalizeFilterTree(t, draftTree[t]))
                           = SanitizeFilterTree(t, draftTree[t])
    BY DEF FiltersSurviveReopen
  <2>1. /\ IsTree(draftTree[t]) /\ IsTree(appliedTree[t])
        /\ SanitizeFilterTree(t, appliedTree[t]) = appliedTree[t]
    BY DEF FilterInv, DraftIsTree, DraftOK, AppliedOK, IsRooted
  <2>2. SanitizeFilterTree(t, NormalizeFilterTree(t, draftTree[t])) = SanitizeFilterTree(t, draftTree[t])
    BY <2>1, NormalizedIsNormal
  <2>3. SanitizeFilterTree(t, NormalizeFilterTree(t, appliedTree[t])) = appliedTree[t]
    BY <2>1, NormalizedIsNormal
  <2> QED  BY <2>2, <2>3 DEF ReadTree
<1> QED  BY <1>1, FilterInvariant, PTL
==============================================================================
