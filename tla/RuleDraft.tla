------------------------------ MODULE RuleDraft ------------------------------
(***************************************************************************)
(* The rules of a draft (components/RuleSetEditor.tsx) and the text inputs *)
(* for lists of words (components/useDelimitedInputDraft.ts), which the    *)
(* search specification's word lists use in the same way.                  *)
(*                                                                         *)
(* Such an input keeps a text of its own: the words typed so far and       *)
(* perhaps an open separator after them.  The draft holds the parsed list. *)
(* React keeps the state of an input under its key, the rule's id and the  *)
(* index of the condition in it, and runs the effect of the input after    *)
(* every render: an action is a handler, the render and the effects.       *)
(***************************************************************************)
EXTENDS Naturals, Sequences, SequencesExt

CONSTANTS
  RuleIds,        \* bound: the ids rules are given
  Words,          \* bound: what users type
  LoadedValues,   \* bound: the lists of words of loaded rule sets
  MaxRules,       \* bound: rules of a draft
  MaxConditions,  \* bound: conditions of a rule
  MaxWords        \* bound: words typed into one input

VARIABLES
  rules,    \* draft.rules: id, conditions and the rest of the rule
  inputs    \* the state of the inputs that are mounted, by rule id and index
ruleVars == <<rules, inputs>>

Types == {"words", "other"}   \* condition types, by whether they take a list of words
BothWords == "a, b"           \* one item of a file that holds a separator

\* What splitCommaLines makes of one item of a list that is printed.
Split(item) == CASE item = "" -> <<>> [] item = BothWords -> <<"a", "b">> [] OTHER -> <<item>>

\* joinCommaLines, joinCommaLinesForTextarea, splitCommaLines
Format(values) == [words |-> FlattenSeq([i \in DOMAIN values |-> Split(values[i])]), open |-> FALSE]
Parse(text) == text.words

NewCondition == [type |-> "words", values |-> <<"">>]
NewRule(id) == [id |-> id, conditions |-> <<NewCondition>>, rest |-> "new"]

-----------------------------------------------------------------------------
\* The mounted inputs.

Keys(rs) == UNION {{<<rs[i].id, c>> : c \in DOMAIN rs[i].conditions} : i \in DOMAIN rs}
Values(rs, key) ==
  LET rule == SelectInSeq(rs, LAMBDA r : r.id = key[1]) IN rs[rule].conditions[key[2]].values

Mounted(values) == [draft |-> Format(values), editing |-> FALSE, lastParsed |-> values]

\* (mutant of AfterEffect) an input that is being edited is left alone
AfterEffectWhileEditing(input, values) == IF input.editing THEN input ELSE Mounted(values)

\* The effect: the text follows the draft, unless it is what the draft came from.
AfterEffect(input, values) ==
  IF input.editing /\ values = input.lastParsed THEN input ELSE Mounted(values)

\* The handler has left the drafted rules rs and the input states is; then comes the render.
Render(rs, is) ==
  /\ rules' = rs
  /\ inputs' = [key \in Keys(rs) |-> IF key \in DOMAIN is THEN AfterEffect(is[key], Values(rs, key))
                                                          ELSE Mounted(Values(rs, key))]

UpdateRule(index, rule) == [rules EXCEPT ![index] = rule]
UpdateCondition(index, c, condition) == [rules EXCEPT ![index].conditions[c] = condition]

-----------------------------------------------------------------------------
AddRule ==
  /\ Len(rules) < MaxRules
  /\ \E id \in RuleIds \ {rules[i].id : i \in DOMAIN rules} : Render(Append(rules, NewRule(id)), inputs)

DeleteRule(index) == Render(RemoveAt(rules, index), inputs)

\* Any other field of the rule is changed: its name, switch, operator or effect.
EditRest(index, rest) == Render(UpdateRule(index, [rules[index] EXCEPT !.rest = rest]), inputs)

AddCondition(index) ==
  /\ Len(rules[index].conditions) < MaxConditions
  /\ Render(UpdateRule(index, [rules[index] EXCEPT !.conditions = Append(@, NewCondition)]), inputs)

\* The inputs after it get the state of the one before: their keys are positions.
DeleteCondition(index, c) ==
  Render(UpdateRule(index, [rules[index] EXCEPT !.conditions = RemoveAt(@, c)]), inputs)

ChooseType(index, c, type) ==
  Render(UpdateCondition(index, c, [rules[index].conditions[c] EXCEPT !.type = type]), inputs)

\* handleChange: the words are parsed and handed to the draft, the text stays as it is typed.
TypeWords(index, c, text) ==
  LET key == <<rules[index].id, c>>
  IN /\ rules[index].conditions[c].type = "words"
     /\ Render(UpdateCondition(index, c, [rules[index].conditions[c] EXCEPT !.values = Parse(text)]),
               [inputs EXCEPT ![key] = [draft |-> text, editing |-> TRUE, lastParsed |-> Parse(text)]])

\* handleFocus
Focus(index, c) ==
  /\ rules[index].conditions[c].type = "words"
  /\ Render(rules, [inputs EXCEPT ![<<rules[index].id, c>>].editing = TRUE])

\* handleBlur: nothing is handed to the draft.
Blur(index, c) ==
  LET key == <<rules[index].id, c>>
      parsed == Parse(inputs[key].draft)
  IN /\ rules[index].conditions[c].type = "words"
     /\ Render(rules, [inputs EXCEPT ![key] = [draft |-> Format(parsed), editing |-> FALSE, lastParsed |-> parsed]])

\* Another rule set is loaded under the editor.
LoadRules ==
  \E id \in RuleIds, values \in LoadedValues :
    Render(<<[NewRule(id) EXCEPT !.conditions = <<[type |-> "words", values |-> values]>>]>>, inputs)

TypedTexts == [words : BoundedSeq(Words, MaxWords), open : BOOLEAN]

RuleInit == rules = <<>> /\ inputs = [key \in {} |-> Mounted(<<>>)]

RuleNext ==
  \/ AddRule \/ LoadRules
  \/ \E index \in DOMAIN rules :
       \/ DeleteRule(index) \/ AddCondition(index)
       \/ \E rest \in {"new", "edited"} : EditRest(index, rest)
       \/ \E c \in DOMAIN rules[index].conditions :
            \/ DeleteCondition(index, c) \/ Focus(index, c) \/ Blur(index, c)
            \/ \E type \in Types : ChooseType(index, c, type)
            \/ \E text \in TypedTexts : TypeWords(index, c, text)

-----------------------------------------------------------------------------
\* An input shows the words its condition holds: the text is the printed list, or, while it is
\* being edited, a text that list was parsed from.  It holds although conditions are deleted and
\* rule sets loaded under inputs that keep their state by position (useDelimitedInputDraft).
TextShowsValue ==
  \A key \in DOMAIN inputs :
    LET values == Values(rules, key)
    IN inputs[key].draft = Format(values) \/ (inputs[key].editing /\ Parse(inputs[key].draft) = values)
==============================================================================
