----------------------------- MODULE ManualDraft -----------------------------
(***************************************************************************)
(* The draft of the manual search page of the web UI and its task pack:    *)
(* resetDraft, refreshTaskPacks, importSelectedPack, savePack,             *)
(* importPackFile, importAndSavePackFile and handleDeleteCurrentPack of    *)
(* pages/manual/useManualSearchPageState.tsx, the comparison of draft and  *)
(* pack in manualSearchModel.tsx, and the guards of the buttons in         *)
(* ManualDraftWorkspace.tsx.                                               *)
(*                                                                         *)
(* A draft is what it searches for (spec) and the rest: tags, name,        *)
(* description and rules.  The server stores the rest of a pack in its     *)
(* normal form.  A handler runs up to an await in one step and goes on in  *)
(* another; the server does what it asks for in a step in between.  Left   *)
(* out: messages, the label of the draft's source (it is that of a pack    *)
(* exactly when there is one), and runs (see ManualRun).                   *)
(***************************************************************************)
EXTENDS Naturals, FiniteSets

CONSTANTS
  DraftPacks,     \* names of task packs
  FirstPacks,     \* those that exist at first
  PinnedPacks,    \* those the server never deletes: the default one, and those jobs refer to
  Specs, Rests,   \* what a user may enter
  BlankDraft,     \* the built-in draft
  NormalRest,     \* the normal form of each rest
  DefaultDraft,   \* the entry of the list of packs that stands for no pack
  MaxHandlers     \* bound: handlers that wait for an answer

Drafts == [spec: Specs, rest: Rests]
Normal(draft) == [draft EXCEPT !.rest = NormalRest[draft.rest]]
Unbound == [name |-> DefaultDraft, draft |-> BlankDraft]

ASSUME ManualDraftAssumption ==
  /\ FirstPacks \cup PinnedPacks \subseteq DraftPacks /\ DefaultDraft \notin DraftPacks
  /\ NormalRest \in [Rests -> Rests] /\ \A t \in Rests : NormalRest[NormalRest[t]] = NormalRest[t]
  /\ BlankDraft \in Drafts /\ Normal(BlankDraft) = BlankDraft

VARIABLES
  stored,      \* the task packs at the server, and the draft of each
  draft,       \* searchSpec and the draft... states
  current,     \* currentPack: its name and what it held when it was answered
  listed,      \* taskPacks: the names in the list
  picked,      \* selectedPackName
  savingDraft, \* savingPack
  deleting,    \* deletingPack
  handlers     \* the handlers at an await

draftVars == <<stored, draft, current, listed, picked, savingDraft, deleting, handlers>>

Exists(p) == p \in DOMAIN stored
Stores(name, content) ==
  stored' = [p \in {name} \cup DOMAIN stored |-> IF p = name THEN content ELSE stored[p]]

\* A handler at an await: what it does and what it waits for, the pack, what
\* it sends or has got, the list it has got, and whether the server has answered.
Handler(does, at) ==
  [does |-> does, at |-> at, name |-> DefaultDraft, draft |-> BlankDraft, list |-> {}, answer |-> "wait"]
Awaits(h) == Cardinality(handlers) < MaxHandlers /\ handlers' = handlers \cup {h}
Ends(h) == handlers' = handlers \ {h}
GoesOn(h, next) == handlers' = (handlers \ {h}) \cup {next}
Answers(h, content) == GoesOn(h, [h EXCEPT !.answer = "ok", !.draft = content])

DraftInit ==
  /\ stored = [p \in FirstPacks |-> BlankDraft]
  /\ draft = BlankDraft /\ current = Unbound
  /\ listed = {} /\ picked = DefaultDraft
  /\ savingDraft = FALSE /\ deleting = FALSE
  /\ handlers = {Handler("list", "list")}

-----------------------------------------------------------------------------
(* The server. *)

ServeDraft(h) ==
  /\ h.answer = "wait" /\ h.at # "read"
  /\ \/ GoesOn(h, [h EXCEPT !.answer = "error"]) /\ UNCHANGED stored
     \/ /\ h.at = "list"
        /\ GoesOn(h, [h EXCEPT !.answer = "ok", !.list = DOMAIN stored]) /\ UNCHANGED stored
     \/ /\ h.at = "load" /\ Exists(h.name)
        /\ Answers(h, stored[h.name]) /\ UNCHANGED stored
     \/ /\ h.at = (IF Exists(h.name) THEN "update" ELSE "create")
        /\ Stores(h.name, Normal(h.draft)) /\ Answers(h, Normal(h.draft))
     \/ /\ h.at = "delete" /\ Exists(h.name) /\ h.name \notin PinnedPacks
        /\ stored' = [p \in DOMAIN stored \ {h.name} |-> stored[p]]
        /\ Answers(h, BlankDraft)
  /\ UNCHANGED <<draft, current, listed, picked, savingDraft, deleting>>

-----------------------------------------------------------------------------
(* The page. *)

Binds(name, content) == current' = [name |-> name, draft |-> content] /\ picked' = name
ResetToBlankDraft == draft' = BlankDraft /\ current' = Unbound /\ picked' = DefaultDraft

\* The user edits the draft.
EditDraft ==
  /\ draft' \in Drafts
  /\ UNCHANGED <<stored, current, listed, picked, savingDraft, deleting, handlers>>

PickPack ==
  /\ picked' \in listed \cup {DefaultDraft}
  /\ UNCHANGED <<stored, draft, current, listed, savingDraft, deleting, handlers>>

\* resetDraft: back to the pack in hand, or to the built-in draft.
ResetDraft ==
  /\ IF current # Unbound THEN draft' = current.draft /\ UNCHANGED <<current, picked>>
     ELSE ResetToBlankDraft
  /\ UNCHANGED <<stored, listed, savingDraft, deleting, handlers>>

RefreshTaskPacks ==
  Awaits(Handler("list", "list")) /\ UNCHANGED <<stored, draft, current, listed, picked, savingDraft, deleting>>

\* importSelectedPack
ImportSelectedPack ==
  /\ \/ picked = DefaultDraft /\ ResetToBlankDraft /\ UNCHANGED handlers
     \/ /\ picked # DefaultDraft
        /\ Awaits([Handler("load", "load") EXCEPT !.name = picked])
        /\ UNCHANGED <<draft, current, picked>>
  /\ UNCHANGED <<stored, listed, savingDraft, deleting>>

\* savePack: to the pack in hand, or to one of a name the user enters.
SavePack ==
  /\ ~savingDraft /\ savingDraft' = TRUE
  /\ \/ /\ current # Unbound
        /\ Awaits([Handler("save", "update") EXCEPT !.name = current.name, !.draft = draft])
     \/ \E name \in DraftPacks :
          Awaits([Handler("save", "create") EXCEPT !.name = name, !.draft = draft])
  /\ UNCHANGED <<stored, draft, current, listed, picked, deleting>>

\* The user chooses a file, for the draft or for a new pack.
ChooseFile ==
  /\ \E does \in {"file", "file, save"} : Awaits(Handler(does, "read"))
  /\ UNCHANGED <<stored, draft, current, listed, picked, savingDraft, deleting>>

HandleDeleteCurrentPack ==
  /\ current # Unbound /\ picked # DefaultDraft /\ ~deleting
  /\ deleting' = TRUE
  /\ Awaits([Handler("delete", "delete") EXCEPT !.name = current.name])
  /\ UNCHANGED <<stored, draft, current, listed, picked, savingDraft>>

\* The file is read: importPackFile replaces the draft, importAndSavePackFile
\* asks for a name and creates the pack.
FileRead(h) ==
  /\ h.at = "read"
  /\ \/ Ends(h) /\ UNCHANGED <<draft, current, picked, savingDraft>>
     \/ \E content \in Drafts :
          \/ /\ h.does = "file"
             /\ draft' = content /\ current' = Unbound /\ picked' = DefaultDraft
             /\ Ends(h) /\ UNCHANGED savingDraft
          \/ /\ h.does = "file, save" /\ savingDraft' = TRUE
             /\ \E name \in DraftPacks :
                  GoesOn(h, [h EXCEPT !.at = "create", !.name = name, !.draft = content])
             /\ UNCHANGED <<draft, current, picked>>
  /\ UNCHANGED <<stored, listed, deleting>>

\* A pack that was asked for is in hand, and the draft is its content.
PackLoaded(h) ==
  /\ h.at = "load" /\ h.answer = "ok"
  /\ draft' = h.draft /\ Binds(h.name, h.draft)
  /\ Ends(h) /\ UNCHANGED <<listed, savingDraft, deleting>>

\* (mutant of PackInHand) the pack in hand is taken to be what was sent
SentInHand(h) == Binds(h.name, draft)

\* The pack in hand is the one the server answered.
PackInHand(h) == Binds(h.name, h.draft)

\* A pack was saved: savePack leaves the search specification as the user has
\* it by now, importAndSavePackFile replaces it.  Then the list.
PackSaved(h) ==
  /\ h.at \in {"create", "update"} /\ h.answer = "ok"
  /\ PackInHand(h)
  /\ draft' = IF h.does = "save" THEN [draft EXCEPT !.rest = h.draft.rest] ELSE h.draft
  /\ GoesOn(h, Handler("save", "list"))
  /\ UNCHANGED <<listed, savingDraft, deleting>>

PackDeleted(h) ==
  /\ h.at = "delete" /\ h.answer = "ok"
  /\ ResetToBlankDraft
  /\ GoesOn(h, Handler("delete", "list"))
  /\ UNCHANGED <<listed, savingDraft, deleting>>

\* finally: the buttons of the handler are enabled again.
Finally(h) ==
  /\ Ends(h)
  /\ savingDraft' = (savingDraft /\ h.does \notin {"save", "file, save"})
  /\ deleting' = (deleting /\ h.does # "delete")

\* refreshTaskPacks after its answer.
ListAnswered(h) ==
  /\ h.at = "list" /\ h.answer = "ok"
  /\ listed' = h.list
  /\ picked' = IF picked \in h.list THEN picked ELSE DefaultDraft
  /\ Finally(h) /\ UNCHANGED <<draft, current>>

DraftRequestFails(h) ==
  /\ h.answer = "error"
  /\ Finally(h) /\ UNCHANGED <<draft, current, listed, picked>>

DraftNext ==
  \/ EditDraft \/ PickPack \/ ResetDraft
  \/ RefreshTaskPacks \/ ImportSelectedPack \/ SavePack \/ ChooseFile \/ HandleDeleteCurrentPack
  \/ \E h \in handlers :
       \/ ServeDraft(h) \/ FileRead(h)
       \/ /\ PackLoaded(h) \/ PackSaved(h) \/ PackDeleted(h) \/ ListAnswered(h) \/ DraftRequestFails(h)
          /\ UNCHANGED stored

-----------------------------------------------------------------------------
(* Properties *)

\* draftDirty, and the label of the page that goes with it
DraftDirty == current # Unbound /\ draft # current.draft

\* For a user who lets each handler end, a draft that the page calls "not
\* modified" is what the server has of the pack in hand, whatever was edited
\* while the handlers waited and whichever requests failed: nothing is left to
\* save, and "restore the pack's content" restores it.  With MaxHandlers = 2
\* it does not hold: a pack that is loaded while it is saved may be answered
\* as it was before (useManualSearchPageState.tsx).
CleanMeansSaved ==
  current # Unbound /\ ~DraftDirty /\ handlers = {} =>
    Exists(current.name) /\ stored[current.name] = draft

=============================================================================
