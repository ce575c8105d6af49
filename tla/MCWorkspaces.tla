---------------------------- MODULE MCWorkspaces ----------------------------
(***************************************************************************)
(* What a user has in hand in the web UI, for TLC: the workspace of a job, *)
(* the list of jobs with its ticks, the draft of the manual search, and    *)
(* what the window keeps in the browser.  What one of them sees of another *)
(* is part of it (the list may be loaded again at any time), so a behaviour*)
(* is one of one of them, chosen at the start, and the others rest in an   *)
(* initial state.                                                          *)
(***************************************************************************)
EXTENDS JobWorkspace, JobSelection, ManualDraft, Workbench

VARIABLE hand
vars == <<hand, workVars, listVars, draftVars, benchVars>>

MCBound == <<"p", "none">>

MCBlank == [spec |-> "s", rest |-> "r"]
MCNormalRest == [t \in Rests |-> IF t = "R" THEN "r" ELSE t]

Init ==
  /\ hand \in {"workspace", "list", "draft", "window"}
  /\ WorkInit /\ ListInit /\ DraftInit /\ BenchInit
  /\ hand # "window" =>
       /\ storedPage = Dashboard /\ hash = Dashboard /\ theme = "dark" /\ health = NoHealth /\ ~tokenSet

\* What is in hand moves, the others rest.
Next ==
  /\ UNCHANGED hand
  /\ \/ hand = "workspace" /\ WorkNext
     \/ hand # "workspace" /\ UNCHANGED workVars
  /\ \/ hand = "list" /\ ListNext
     \/ hand # "list" /\ UNCHANGED listVars
  /\ \/ hand = "draft" /\ DraftNext
     \/ hand # "draft" /\ UNCHANGED draftVars
  /\ \/ hand = "window" /\ BenchNext
     \/ hand # "window" /\ UNCHANGED benchVars

Spec == Init /\ [][Next]_vars
=============================================================================
