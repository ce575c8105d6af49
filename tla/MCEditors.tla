------------------------------ MODULE MCEditors ------------------------------
(***************************************************************************)
(* What a user edits in the web UI, for TLC: the filter tree, the search   *)
(* specification, the rules, the settings document, the columns and the    *)
(* panes.  They share nothing, so a behaviour is one of one of them,       *)
(* chosen at the start, and the others rest in an initial state.           *)
(***************************************************************************)
EXTENDS FilterTree, SpecDraft, RuleDraft, SettingsEditor, TableColumns, SplitPane

VARIABLE edited
vars == <<edited, filterVars, specVars, ruleVars, settingsVars, columnVars, paneVars>>

MCFieldKinds == [t \in ItemTables |-> [id |-> "number", tags |-> "tags"]]
MCFirstField == [t \in ItemTables |-> "id"]
MCOperators == {"gte", "between", "is_empty", "has_any"}

\* A tree of an earlier version: an operator of no such field, a field that is gone.
MCStored ==
  {EmptyTree,
   (<<>> :> Group("OR")) @@ (<<1>> :> [Condition("tags", "contains") EXCEPT !.value = "v"])
     @@ (<<2>> :> Condition("id", "gte")) @@ (<<3>> :> Condition("gone", "gte"))}

MCNumbers == {-5, -1, 0, 7, 150}
MCNormalForm == [d \in Documents |-> IF d = "A" THEN "a" ELSE d]
MCLoadedValues == {<<"">>, <<"a", "b">>, <<BothWords>>}

MCColumns == [t \in Tables |-> IF t = "curated" THEN <<"level", "author_name", "author">> ELSE <<"author", "text">>]
MCDefaultWidth == [level |-> 90, author_name |-> 140, author |-> 140, text |-> 280]
MCDefaultVisible == [t \in Tables |-> IF t = "curated" THEN <<"level", "author_name">> ELSE <<"author", "text">>]
MCDeltas == {-500, -30, 500}

Editors == {"filter", "spec", "rules", "settings", "columns", "panes"}

Init ==
  /\ edited \in Editors
  /\ FilterInit /\ SpecInit /\ RuleInit /\ SettingsInit /\ ColumnsInit /\ PaneInit
  /\ edited # "filter" => draftTree = [t \in ItemTables |-> EmptyTree] /\ appliedTree = draftTree
  /\ edited # "settings" => document = "a"
  /\ edited # "columns" => table = "raw" /\ \A key \in ToSet(Columns["raw"]) : widths["raw"][key] = 0
  /\ edited # "panes" => window = 1600

\* The editor of the behaviour moves, the others rest.
Next ==
  /\ UNCHANGED edited
  /\ \/ edited = "filter" /\ FilterNext
     \/ edited # "filter" /\ UNCHANGED filterVars
  /\ \/ edited = "spec" /\ SpecNext
     \/ edited # "spec" /\ UNCHANGED specVars
  /\ \/ edited = "rules" /\ RuleNext
     \/ edited # "rules" /\ UNCHANGED ruleVars
  /\ \/ edited = "settings" /\ SettingsNext
     \/ edited # "settings" /\ UNCHANGED settingsVars
  /\ \/ edited = "columns" /\ ColumnsNext
     \/ edited # "columns" /\ UNCHANGED columnVars
  /\ \/ edited = "panes" /\ PaneNext
     \/ edited # "panes" /\ UNCHANGED paneVars

Spec == Init /\ [][Next]_vars
==============================================================================
