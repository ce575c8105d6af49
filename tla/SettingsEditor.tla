--------------------------- MODULE SettingsEditor ---------------------------
(***************************************************************************)
(* The editor of the workspace document, pages/SettingsPage.tsx: loading,  *)
(* saving, the refresh by the export, the import of a file, and what is    *)
(* typed meanwhile.  Only a load disables the buttons, a save disables     *)
(* only itself; a save or an import sends the whole document and shows     *)
(* what the server made of it, over whatever stands in the editor then.    *)
(* The window may be loaded again at any time: what it has sent goes on,   *)
(* and the answer is lost.                                                 *)
(*                                                                         *)
(* The server is one document that others change too.  It normalises what  *)
(* it is sent (WorkspaceStore._normalize_workspace).  Left out: messages   *)
(* and the summary above the editor; a text that cannot be parsed is one   *)
(* value.                                                                  *)
(***************************************************************************)
EXTENDS Naturals, Functions

CONSTANTS
  Documents,   \* texts that can be parsed
  NormalForm,  \* what the server makes of each
  MaxRequests  \* bound: handlers that wait for a file or an answer

NoDocument == ""      \* the editor at first; like Broken it cannot be parsed
Broken == "broken"
EditorTexts == Documents \cup {NoDocument, Broken}

ASSUME SettingsAssumption ==
  /\ {NoDocument, Broken} \cap Documents = {} /\ MaxRequests \in Nat \ {0}
  /\ NormalForm \in [Documents -> Documents]
  /\ \A d \in Documents : NormalForm[NormalForm[d]] = NormalForm[d]

VARIABLES
  document,                \* the workspace at the server
  editorText,
  editorLoads, editorSaves,  \* the states loading and saving
  requests,                \* the handlers that wait
  typed,                   \* history: typed in since an answer was shown
  doubt                    \* history: why the editor may show another document

settingsVars == <<document, editorText, editorLoads, editorSaves, requests, typed, doubt>>
editor == <<editorText, editorLoads, editorSaves>>

\* A handler at an await; text is the document sent, then the one answered.
\* timely is history: no write overlapped it, and nothing changed after the
\* server had answered.
NoRequest == [op |-> "none", at |-> "none", text |-> NoDocument, timely |-> TRUE]
Request(op, at, text) == [NoRequest EXCEPT !.op = op, !.at = at, !.text = text]

RequestSlots == 1..MaxRequests
Out(q) == q.op # "none"
Writing(q) == q.op \in {"save", "import", "gone"}
FreeRequests == {r \in RequestSlots : ~Out(requests[r])}

\* The requests with q in slot r: a write and what is out at the same time are not timely.
With(r, q) ==
  LET meets(p) == Out(p) /\ (Writing(p) \/ Writing(q))
      late(p) == meets(p) \/ ~p.timely
  IN [s \in RequestSlots |->
        IF s = r THEN [q EXCEPT !.timely = ~\E t \in RequestSlots \ {r} : meets(requests[t])]
        ELSE [requests[s] EXCEPT !.timely = ~late(requests[s])]]

Handled(r) == [requests EXCEPT ![r] = NoRequest]

SettingsInit ==
  /\ document \in Range(NormalForm)
  /\ editorText = NoDocument /\ editorLoads = TRUE /\ editorSaves = FALSE
  /\ requests = [r \in RequestSlots |-> IF r = 1 THEN Request("load", "sent", NoDocument) ELSE NoRequest]
  /\ typed = FALSE /\ doubt = TRUE

-----------------------------------------------------------------------------
(* The user *)

TypeText ==
  /\ editorText' \in EditorTexts \ {editorText} /\ typed' = TRUE
  /\ UNCHANGED <<document, editorLoads, editorSaves, requests, doubt>>

LoadWorkspace ==
  /\ ~editorLoads /\ editorLoads' = TRUE
  /\ \E r \in FreeRequests : requests' = With(r, Request("load", "sent", NoDocument))
  /\ UNCHANGED <<document, editorText, editorSaves, typed, doubt>>

HandleExportRefresh ==
  /\ ~editorLoads
  /\ \E r \in FreeRequests : requests' = With(r, Request("export", "sent", NoDocument))
  /\ UNCHANGED <<document, editor, typed, doubt>>

\* A text that cannot be parsed is reported and not sent.
SaveWorkspace ==
  /\ ~editorLoads /\ ~editorSaves
  /\ editorText \in Documents /\ editorSaves' = TRUE
  /\ \E r \in FreeRequests : requests' = With(r, Request("save", "sent", editorText))
  /\ UNCHANGED <<document, editorText, editorLoads, typed, doubt>>

HandleImportFile ==
  /\ ~editorLoads
  /\ \E r \in FreeRequests, file \in EditorTexts \ {NoDocument} :
       requests' = With(r, Request("import", "file", file))
  /\ UNCHANGED <<document, editor, typed, doubt>>

\* file.text() has the file: it is sent if it can be parsed, whatever has begun meanwhile.
FileIsRead(r) ==
  /\ requests[r].at = "file"
  /\ requests' = IF requests[r].text \in Documents THEN [requests EXCEPT ![r].at = "sent"] ELSE Handled(r)
  /\ UNCHANGED <<document, editor, typed, doubt>>

\* The window is loaded again. A write that has not reached the server yet still may.
ReloadSettings ==
  /\ LET kept == [r \in RequestSlots |->
                    IF Writing(requests[r]) /\ requests[r].at = "sent"
                    THEN [requests[r] EXCEPT !.op = "gone"] ELSE NoRequest]
     IN \E r \in RequestSlots :
          /\ ~Out(kept[r])
          /\ requests' = [kept EXCEPT ![r] = [Request("load", "sent", NoDocument) EXCEPT
                                                !.timely = \A s \in RequestSlots : ~Out(kept[s])]]
  /\ editorText' = NoDocument /\ editorLoads' = TRUE /\ editorSaves' = FALSE
  /\ typed' = FALSE /\ doubt' = TRUE
  /\ UNCHANGED document

-----------------------------------------------------------------------------
(* The server *)

\* updateWorkspace, importWorkspace write; getWorkspace, exportWorkspace read.
Outcome(q) == IF Writing(q) THEN NormalForm[q.text] ELSE document

ServeWorkspace(r) ==
  /\ requests[r].at = "sent"
  /\ document' = Outcome(requests[r])
  /\ requests' = IF requests[r].op = "gone" THEN Handled(r)
                 ELSE [requests EXCEPT ![r].at = "served", ![r].text = document']
  /\ UNCHANGED <<editor, typed, doubt>>

\* The request or its answer is lost, or the server refuses it.
WorkspaceFails(r) ==
  /\ requests[r].at = "sent"
  /\ document' \in {document, Outcome(requests[r])}
  /\ requests' = IF requests[r].op = "gone" THEN Handled(r) ELSE [requests EXCEPT ![r].at = "failed"]
  /\ UNCHANGED <<editor, typed, doubt>>

\* A run, the scheduler or another page changes the workspace.
OthersChange ==
  /\ document' \in Range(NormalForm) \ {document} /\ doubt' = TRUE
  /\ requests' = [r \in RequestSlots |->
                    IF requests[r].at = "served" THEN [requests[r] EXCEPT !.timely = FALSE] ELSE requests[r]]
  /\ UNCHANGED <<editor, typed>>

-----------------------------------------------------------------------------
(* The answers *)

\* (mutant of ShownBy) after a save the editor keeps what was sent
ShownKeepsText(q) == IF q.op = "save" THEN editorText ELSE q.text

\* prettyWorkspace of the answer.
ShownBy(q) == q.text

\* The answer replaces what stands in the editor; a failure leaves it. The
\* failure of a write does not tell what the server has.
RequestLands(r) ==
  LET q == requests[r]
  IN /\ q.at \in {"served", "failed"}
     /\ requests' = Handled(r)
     /\ editorLoads' = (editorLoads /\ q.op # "load")
     /\ editorSaves' = (editorSaves /\ q.op # "save")
     /\ \/ q.at = "served" /\ editorText' = ShownBy(q) /\ typed' = FALSE /\ doubt' = ~q.timely
        \/ q.at = "failed" /\ doubt' = (doubt \/ Writing(q)) /\ UNCHANGED <<editorText, typed>>
     /\ UNCHANGED document

SettingsNext ==
  \/ TypeText \/ LoadWorkspace \/ HandleExportRefresh \/ SaveWorkspace \/ HandleImportFile
  \/ ReloadSettings \/ OthersChange
  \/ \E r \in RequestSlots : FileIsRead(r) \/ ServeWorkspace(r) \/ WorkspaceFails(r) \/ RequestLands(r)

-----------------------------------------------------------------------------
(* Properties *)

\* An editor in which nothing was typed since its last answer shows the
\* document of the server, in the server's form, unless a write is under way,
\* overlapped the request that was answered or failed, or others have changed
\* the document: loads, exports, saves and imports answered in any order,
\* requests that fail, and reloads of the window
\* (loadWorkspace, handleSave, handleExportRefresh, handleImportFile).
EditorShowsServer ==
  ~typed /\ ~doubt /\ (\A r \in RequestSlots : ~Writing(requests[r])) => editorText = document

=============================================================================
