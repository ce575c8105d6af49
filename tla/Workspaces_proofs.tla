--------------------------- MODULE Workspaces_proofs ---------------------------
(***************************************************************************)
(* What a user has in hand in the web UI is what the page says it is: the  *)
(* theorems of the modules that MCWorkspaces and MCEditors check on small  *)
(* instances.  The modules share no variable; each part below is about one *)
(* of them and uses nothing of the others.                                 *)
(***************************************************************************)
EXTENDS JobWorkspace, JobSelection, ManualDraft, Workbench, SettingsEditor,
        SpecDraft, RuleDraft, TableColumns, SplitPane, FiniteSetTheorems, TLAPS

-----------------------------------------------------------------------------
(* Workbench: what a reload of the window shows *)

BenchType ==
  /\ page \in Navs /\ hash \in Navs \cup {Empty, Garbage}
  /\ theme \in Themes /\ storedTheme \in Themes
  /\ health \in Health \cup {NoHealth} /\ storedHealth \in Health \cup {NoHealth}

\* A hash that has been handled is the page, or none.
HashIsPage == ~hashChanged => hash # Garbage /\ (hash \in Navs => page = hash)

\* The storage holds what is shown.
StoredIsShown ==
  private /\ written =>
    page = ReadStoredActivePage /\ theme = ReadStoredTheme /\ health = ReadStoredDashboardHealth

BenchInv == BenchType /\ HashIsPage /\ StoredIsShown /\ tokenSet = storedToken

LEMMA StoredTheme == ASSUME storedTheme \in Themes PROVE ReadStoredTheme = storedTheme
BY DEF ReadStoredTheme, Themes

LEMMA StoredHealth ==
  ASSUME storedHealth \in Health \cup {NoHealth} PROVE ReadStoredDashboardHealth = storedHealth
BY DEF ReadStoredDashboardHealth

LEMMA PagesExist ==
  /\ Dashboard \in Navs /\ Empty \notin Navs /\ Garbage \notin Navs /\ Empty # Garbage
  /\ ReadStoredActivePage \in Navs /\ ReadInitialActivePage \in Navs
BY WorkbenchAssumption DEF ReadStoredActivePage, ReadInitialActivePage, Empty, Garbage

LEMMA BenchInitInv == BenchInit => BenchInv
<1> SUFFICES ASSUME BenchInit PROVE BenchInv
  OBVIOUS
<1>1. BenchType
  <2>1. page \in Navs /\ hash \in Navs \cup {Empty, Garbage}
    BY PagesExist DEF BenchInit
  <2>2. storedTheme \in Themes /\ theme = storedTheme
    BY StoredTheme DEF BenchInit
  <2>3. storedHealth \in Health \cup {NoHealth}
    BY WorkbenchAssumption DEF BenchInit, Health
  <2>4. health = storedHealth
    BY <2>3, StoredHealth DEF BenchInit
  <2> QED  BY <2>1, <2>2, <2>3, <2>4 DEF BenchType
<1>2. HashIsPage
  BY PagesExist DEF BenchInit, HashIsPage, ReadInitialActivePage
<1>3. page = ReadStoredActivePage
  BY PagesExist DEF BenchInit, ReadInitialActivePage, ReadStoredActivePage
<1> QED
  BY <1>1, <1>2, <1>3 DEF BenchInit, BenchInv, StoredIsShown

\* syncFromHash: then the hash is the page or none, and the page is stored
\* where the storage takes it.
LEMMA Syncing ==
  ASSUME BenchInv, NEW p \in Navs, p = ReadStoredActivePage \/ ~(private /\ written) \/ hash # Empty, Sync(p)
  PROVE  /\ page' \in Navs /\ hash' \in Navs \cup {Empty}
         /\ hash' \in Navs => page' = hash'
         /\ written' => written
         /\ private /\ written' => page' = (IF storedPage' \in Navs THEN storedPage' ELSE Dashboard)
<1>1. CASE hash \in Navs /\ page' = hash /\ Writes(storedPage, hash) /\ UNCHANGED hash
  BY <1>1, PagesExist DEF Writes
<1>2. CASE hash = Garbage /\ ActivatePage(Dashboard)
  BY <1>2, PagesExist DEF ActivatePage, Writes
<1>3. CASE hash = Empty /\ page' = p /\ UNCHANGED <<hash, storedPage, written>>
  BY <1>3, PagesExist DEF ReadStoredActivePage
<1> QED
  BY <1>1, <1>2, <1>3 DEF Sync

\* A step that leaves the pages alone.
LEMMA NavigationRests ==
  ASSUME BenchInv, UNCHANGED navigation, written' => written, private' => private
  PROVE  /\ page' \in Navs /\ hash' \in Navs \cup {Empty, Garbage} /\ HashIsPage'
         /\ private' /\ written' => page' = ReadStoredActivePage'
BY DEF BenchInv, BenchType, HashIsPage, StoredIsShown, navigation, ReadStoredActivePage

\* One that leaves the theme or the snapshot alone.
LEMMA AppearanceRests ==
  ASSUME BenchInv, UNCHANGED appearance, written' => written, private' => private
  PROVE  /\ theme' \in Themes /\ storedTheme' \in Themes
         /\ private' /\ written' => theme' = ReadStoredTheme'
BY DEF BenchInv, BenchType, StoredIsShown, appearance, ReadStoredTheme

LEMMA HealthRests ==
  ASSUME BenchInv, UNCHANGED <<health, storedHealth>>, written' => written, private' => private
  PROVE  /\ health' \in Health \cup {NoHealth} /\ storedHealth' \in Health \cup {NoHealth}
         /\ private' /\ written' => health' = ReadStoredDashboardHealth'
BY DEF BenchInv, BenchType, StoredIsShown, ReadStoredDashboardHealth

LEMMA BenchNextInv == ASSUME BenchInv, [BenchNext]_benchVars PROVE BenchInv'
<1> USE DEF BenchInv, BenchType, StoredIsShown
<1>1. CASE Navigate
  <2>1. PICK p \in Navs : ActivatePage(p) /\ UNCHANGED <<hashChanged, appearance, dashboard, token, private>>
    BY <1>1 DEF Navigate
  <2>2. page' = p /\ hash' = p /\ (written' => written /\ storedPage' = p)
    BY <2>1 DEF ActivatePage, Writes
  <2>3. HashIsPage' /\ (private' /\ written' => page' = ReadStoredActivePage')
    BY <2>1, <2>2, PagesExist DEF HashIsPage, ReadStoredActivePage
  <2> QED  BY <2>1, <2>2, <2>3, AppearanceRests, HealthRests DEF appearance, dashboard, token
<1>2. CASE ChangeHash
  <2>1. HashIsPage' /\ (private' /\ written' => page' = ReadStoredActivePage')
    BY <1>2 DEF ChangeHash, HashIsPage, ReadStoredActivePage
  <2> QED  BY <1>2, <2>1, AppearanceRests, HealthRests DEF ChangeHash, dashboard, token
<1>3. CASE HandleHashChange
  <2>1. /\ ~hashChanged' /\ Sync(page) /\ page \in Navs
        /\ (private /\ written => page = ReadStoredActivePage)
        /\ UNCHANGED <<appearance, dashboard, token, private>>
    BY <1>3 DEF HandleHashChange
  <2>2. /\ page' \in Navs /\ hash' \in Navs \cup {Empty} /\ (hash' \in Navs => page' = hash')
        /\ (written' => written)
        /\ (private' /\ written' => page' = ReadStoredActivePage')
    BY <2>1, Syncing DEF ReadStoredActivePage
  <2>3. HashIsPage'
    BY <2>2, PagesExist DEF HashIsPage
  <2> QED  BY <2>1, <2>2, <2>3, AppearanceRests, HealthRests DEF dashboard, token
<1>4. CASE ToggleTheme
  <2>1. /\ theme' \in Themes /\ storedTheme' \in {storedTheme, theme'} /\ (written' => written /\ storedTheme' = theme')
        /\ UNCHANGED <<navigation, dashboard, token, private>>
    BY <1>4 DEF ToggleTheme, Writes, Themes
  <2>2. storedTheme' \in Themes /\ ReadStoredTheme' = storedTheme'
    BY <2>1 DEF ReadStoredTheme, Themes
  <2> QED  BY <2>1, <2>2, NavigationRests, HealthRests DEF dashboard, token
<1>5. CASE LoadHealth
  BY <1>5, NavigationRests, AppearanceRests, HealthRests DEF LoadHealth, token
<1>6. CASE HealthLands
  <2>1. /\ UNCHANGED <<navigation, appearance, token, private>> /\ (written' => written)
        /\ health' \in Health \cup {NoHealth} /\ storedHealth' \in Health \cup {NoHealth}
        /\ private' /\ written' => health' = storedHealth'
    <3>1. CASE health' \in Health /\ Writes(storedHealth, health')
      BY <1>6, <3>1 DEF HealthLands, Writes
    <3>2. CASE UNCHANGED <<health, storedHealth, written>>
      BY <1>6, <3>2, StoredHealth DEF HealthLands
    <3> QED  BY <1>6, <3>1, <3>2 DEF HealthLands
  <2>2. ReadStoredDashboardHealth' = storedHealth'
    BY <2>1 DEF ReadStoredDashboardHealth
  <2> QED  BY <2>1, <2>2, NavigationRests, AppearanceRests DEF token
<1>7. CASE ChangeToken
  <2>1. tokenSet' = storedToken' /\ UNCHANGED <<navigation, appearance, dashboard, private, written>>
    BY <1>7 DEF ChangeToken, ApplyApiToken, ClearApiToken, token
  <2> QED  BY <2>1, NavigationRests, AppearanceRests, HealthRests DEF dashboard
<1>8. CASE OtherWindow
  <2>1. /\ private' = FALSE /\ storedTheme' \in Themes /\ storedHealth' \in Health \cup {NoHealth}
        /\ UNCHANGED <<page, hash, hashChanged, theme, health, token>>
    BY <1>8 DEF OtherWindow
  <2> QED  BY <2>1 DEF HashIsPage, token
<1>9. CASE ReloadWindow
  <2>1. /\ ~hashChanged' /\ Sync(ReadInitialActivePage) /\ UNCHANGED private
        /\ theme' = storedTheme /\ storedTheme' = storedTheme
        /\ health' = storedHealth /\ storedHealth' = storedHealth
        /\ tokenSet' = storedToken'
    BY <1>9, StoredTheme, StoredHealth DEF ReloadWindow
  <2>2. ReadInitialActivePage = ReadStoredActivePage \/ hash # Empty
    BY PagesExist DEF ReadInitialActivePage
  <2>3. /\ page' \in Navs /\ hash' \in Navs \cup {Empty} /\ (hash' \in Navs => page' = hash')
        /\ (private' /\ written' => page' = ReadStoredActivePage')
    BY <2>1, <2>2, PagesExist, Syncing DEF ReadStoredActivePage
  <2>4. HashIsPage'
    BY <2>3, PagesExist DEF HashIsPage
  <2>5. ReadStoredTheme' = storedTheme' /\ ReadStoredDashboardHealth' = storedHealth'
    BY <2>1 DEF ReadStoredTheme, ReadStoredDashboardHealth, Themes
  <2> QED  BY <2>1, <2>3, <2>4, <2>5
<1>10. CASE UNCHANGED benchVars
  BY <1>10, NavigationRests, AppearanceRests, HealthRests DEF benchVars, navigation, appearance
<1> QED
  BY <1>1, <1>2, <1>3, <1>4, <1>5, <1>6, <1>7, <1>8, <1>9, <1>10 DEF BenchNext

\* A reload shows what the window shows (ReloadKeepsWhatIsShown), for any
\* pages and snapshots.
THEOREM ReloadShowsTheSame == BenchInit /\ [][BenchNext]_benchVars => []ReloadKeepsWhatIsShown
<1>1. BenchInv => ReloadKeepsWhatIsShown
  BY PagesExist DEF BenchInv, BenchType, HashIsPage, StoredIsShown, ReloadKeepsWhatIsShown, ReadInitialActivePage
<1>2. BenchInv /\ [BenchNext]_benchVars => BenchInv'
  BY BenchNextInv
<1> QED
  BY <1>1, <1>2, BenchInitInv, PTL

-----------------------------------------------------------------------------
(* SettingsEditor: what the editor shows *)

RequestSet ==
  [op: {"none", "load", "export", "save", "import", "gone"}, at: {"none", "file", "sent", "served", "failed"},
   text: EditorTexts, timely: BOOLEAN]

SettingsType ==
  /\ document \in Documents /\ typed \in BOOLEAN /\ doubt \in BOOLEAN
  /\ requests \in [RequestSlots -> RequestSet]
  /\ \A r \in RequestSlots :
       /\ Writing(requests[r]) /\ requests[r].at = "sent" => requests[r].text \in Documents
       /\ requests[r].at # "none" => Out(requests[r])
       /\ requests[r].op = "gone" => requests[r].at = "sent"

\* What is out at the same time as a write is not timely, nor is the write,
\* unless nobody waits for it any more.
WritesAreAlone ==
  \A r, s \in RequestSlots :
    r # s /\ Out(requests[r]) /\ Writing(requests[s]) =>
      ~requests[r].timely /\ (requests[s].op = "gone" \/ ~requests[s].timely)

\* A timely answer is the document still.
TimelyIsCurrent ==
  \A r \in RequestSlots :
    Out(requests[r]) /\ requests[r].at = "served" /\ requests[r].timely => requests[r].text = document

\* A write that outlives its window leaves a doubt.
GoneIsDoubtful == \A r \in RequestSlots : requests[r].op = "gone" => doubt

\* A write that has reached the server.
Reached(q) == Writing(q) /\ q.at \in {"served", "failed"}

ShownUnlessReached ==
  ~typed /\ ~doubt /\ (\A r \in RequestSlots : ~Reached(requests[r])) => editorText = document

SettingsInv == SettingsType /\ WritesAreAlone /\ TimelyIsCurrent /\ GoneIsDoubtful /\ ShownUnlessReached

LEMMA NormalFormType == /\ \A d \in Documents : NormalForm[d] \in Documents
                        /\ Range(NormalForm) \subseteq Documents
                        /\ Documents \subseteq EditorTexts /\ NoDocument \in EditorTexts
BY SettingsAssumption DEF Range, EditorTexts

LEMMA SettingsInitInv == SettingsInit => SettingsInv
<1> SUFFICES ASSUME SettingsInit PROVE SettingsInv
  OBVIOUS
<1>1. /\ \A r \in RequestSlots : /\ requests[r] \in RequestSet /\ ~Writing(requests[r])
                                 /\ requests[r].at # "served"
                                 /\ requests[r].at # "none" => Out(requests[r])
      /\ requests \in [RequestSlots -> RequestSet]
  <2>1. Request("load", "sent", NoDocument) \in RequestSet
    BY NormalFormType DEF Request, NoRequest, RequestSet
  <2>2. /\ Request("load", "sent", NoDocument).op = "load" /\ Request("load", "sent", NoDocument).at = "sent"
        /\ NoRequest \in RequestSet /\ NoRequest.op = "none" /\ NoRequest.at = "none"
    BY NormalFormType DEF Request, NoRequest, RequestSet
  <2>3. requests = [r \in RequestSlots |-> IF r = 1 THEN Request("load", "sent", NoDocument) ELSE NoRequest]
    BY DEF SettingsInit
  <2> QED  BY <2>1, <2>2, <2>3 DEF Writing, Out
<1>2. document \in Documents /\ doubt = TRUE /\ typed = FALSE
  BY NormalFormType DEF SettingsInit
<1>3. SettingsType
  BY <1>1, <1>2 DEF SettingsType, Writing
<1> QED
  BY <1>1, <1>2, <1>3 DEF SettingsInv, WritesAreAlone, TimelyIsCurrent, GoneIsDoubtful, ShownUnlessReached, Writing

\* A handler that begins.
LEMMA BeginsRequest ==
  ASSUME SettingsInv, NEW r \in FreeRequests, NEW q \in RequestSet, requests' = With(r, q),
         Out(q), q.at \in {"file", "sent"}, q.timely, q.op # "gone",
         Writing(q) /\ q.at = "sent" => q.text \in Documents,
         UNCHANGED <<document, editorText, typed, doubt>>
  PROVE  SettingsInv'
<1> DEFINE meets(p) == Out(p) /\ (Writing(p) \/ Writing(q))
<1>1. r \in RequestSlots /\ ~Out(requests[r])
  BY DEF FreeRequests
<1>2. /\ requests' = [s \in RequestSlots |->
           IF s = r THEN [q EXCEPT !.timely = ~\E t \in RequestSlots \ {r} : meets(requests[t])]
           ELSE [requests[s] EXCEPT !.timely = ~(meets(requests[s]) \/ ~requests[s].timely)]]
  BY DEF With
<1>3. /\ requests'[r] \in RequestSet /\ requests'[r].op = q.op /\ requests'[r].at = q.at /\ requests'[r].text = q.text
      /\ requests'[r].timely = ~\E t \in RequestSlots \ {r} : meets(requests[t])
  <2> DEFINE alone == ~\E t \in RequestSlots \ {r} : meets(requests[t])
  <2>1. alone \in BOOLEAN
    OBVIOUS
  <2>2. requests'[r] = [q EXCEPT !.timely = alone]
    BY <1>1, <1>2
  <2> HIDE DEF alone
  <2>3. /\ requests'[r] \in RequestSet /\ requests'[r].op = q.op /\ requests'[r].at = q.at /\ requests'[r].text = q.text
        /\ requests'[r].timely = alone
    BY <2>1, <2>2 DEF RequestSet
  <2> QED  BY <2>3 DEF alone
<1>4. ASSUME NEW s \in RequestSlots, s # r
      PROVE  /\ requests'[s] \in RequestSet
             /\ requests'[s].op = requests[s].op /\ requests'[s].at = requests[s].at
             /\ requests'[s].text = requests[s].text
             /\ requests'[s].timely = ~(meets(requests[s]) \/ ~requests[s].timely)
  <2> DEFINE kept == ~(meets(requests[s]) \/ ~requests[s].timely)
  <2>1. kept \in BOOLEAN /\ requests[s] \in RequestSet
    BY DEF SettingsInv, SettingsType
  <2>2. requests'[s] = [requests[s] EXCEPT !.timely = kept]
    BY <1>2, <1>4
  <2> HIDE DEF kept
  <2>3. /\ requests'[s] \in RequestSet
        /\ requests'[s].op = requests[s].op /\ requests'[s].at = requests[s].at
        /\ requests'[s].text = requests[s].text /\ requests'[s].timely = kept
    BY <2>1, <2>2 DEF RequestSet
  <2> QED  BY <2>3 DEF kept
<1>5. SettingsType'
  <2>1. requests' \in [RequestSlots -> RequestSet]
    BY <1>2, <1>3, <1>4
  <2> QED  BY <1>3, <1>4, <2>1 DEF SettingsInv, SettingsType, Writing, Out
<1>6. WritesAreAlone'
  <2> SUFFICES ASSUME NEW a \in RequestSlots, NEW b \in RequestSlots, a # b,
                      Out(requests'[a]), Writing(requests'[b])
               PROVE  ~requests'[a].timely /\ (requests'[b].op = "gone" \/ ~requests'[b].timely)
    BY DEF WritesAreAlone
  <2>1. CASE a = r
    <3>1. b # r /\ Out(requests[b]) /\ Writing(requests[b])
      BY <1>4, <2>1 DEF Out, Writing
    <3>2. meets(requests[b])
      BY <3>1
    <3> QED  BY <1>3, <1>4, <2>1, <3>1, <3>2
  <2>2. CASE b = r
    <3>1. a # r /\ Out(requests[a]) /\ Writing(q)
      BY <1>3, <1>4, <2>2 DEF Out, Writing
    <3>2. meets(requests[a])
      BY <3>1
    <3> QED  BY <1>3, <1>4, <2>2, <3>1, <3>2
  <2>3. CASE a # r /\ b # r
    <3>1. Out(requests[a]) /\ Writing(requests[b])
      BY <1>4, <2>3 DEF Out, Writing
    <3>2. ~requests[a].timely /\ (requests[b].op = "gone" \/ ~requests[b].timely)
      BY <3>1 DEF SettingsInv, WritesAreAlone
    <3> QED  BY <1>4, <2>3, <3>2
  <2> QED  BY <2>1, <2>2, <2>3
<1>7. TimelyIsCurrent'
  <2> SUFFICES ASSUME NEW s \in RequestSlots, Out(requests'[s]), requests'[s].at = "served", requests'[s].timely
               PROVE  requests'[s].text = document
    BY DEF TimelyIsCurrent
  <2>1. s # r
    BY <1>3
  <2>2. Out(requests[s]) /\ requests[s].at = "served" /\ requests[s].timely /\ requests'[s].text = requests[s].text
    BY <1>4, <2>1 DEF Out
  <2> QED  BY <2>2 DEF SettingsInv, TimelyIsCurrent
<1>8. GoneIsDoubtful'
  BY <1>3, <1>4 DEF SettingsInv, GoneIsDoubtful
<1>9. ShownUnlessReached'
  BY <1>1, <1>3, <1>4 DEF SettingsInv, ShownUnlessReached, Reached, Writing, Out
<1> QED
  BY <1>5, <1>6, <1>7, <1>8, <1>9 DEF SettingsInv

\* What a user begins.
LEMMA UserInv ==
  ASSUME SettingsInv, LoadWorkspace \/ HandleExportRefresh \/ SaveWorkspace \/ HandleImportFile
  PROVE  SettingsInv'
<1>1. ASSUME NEW r \in FreeRequests, NEW op \in {"load", "export", "save", "import"}, NEW at \in {"file", "sent"},
             NEW text \in EditorTexts, requests' = With(r, Request(op, at, text)),
             op \in {"save", "import"} /\ at = "sent" => text \in Documents,
             UNCHANGED <<document, editorText, typed, doubt>>
      PROVE  SettingsInv'
  <2> DEFINE q == Request(op, at, text)
  <2>1. q \in RequestSet /\ q.op = op /\ q.at = at /\ q.text = text /\ q.timely = TRUE
    BY NormalFormType DEF Request, NoRequest, RequestSet
  <2> HIDE DEF q
  <2>2. /\ q \in RequestSet /\ Out(q) /\ q.at \in {"file", "sent"} /\ q.timely /\ q.op # "gone"
        /\ (Writing(q) /\ q.at = "sent" => q.text \in Documents)
    BY <1>1, <2>1 DEF Out, Writing
  <2>3. requests' = With(r, q)
    BY <1>1 DEF q
  <2> QED  BY <1>1, <2>2, <2>3, BeginsRequest
<1>2. CASE LoadWorkspace
  BY <1>1, <1>2, NormalFormType DEF LoadWorkspace
<1>3. CASE HandleExportRefresh
  BY <1>1, <1>3, NormalFormType DEF HandleExportRefresh, editor
<1>4. CASE SaveWorkspace
  BY <1>1, <1>4, NormalFormType DEF SaveWorkspace
<1>5. CASE HandleImportFile
  BY <1>1, <1>5, NormalFormType DEF HandleImportFile, editor
<1> QED
  BY <1>2, <1>3, <1>4, <1>5

LEMMA TypingTextInv == ASSUME SettingsInv, TypeText PROVE SettingsInv'
BY DEF TypeText, SettingsInv, SettingsType, WritesAreAlone, TimelyIsCurrent, GoneIsDoubtful, ShownUnlessReached

\* A slot that becomes free: nothing else moves.
LEMMA SlotFreed ==
  ASSUME SettingsInv, NEW r \in RequestSlots, requests' = Handled(r)
  PROVE  /\ requests'[r] \in RequestSet /\ requests'[r].op = "none" /\ requests'[r].at = "none"
         /\ \A s \in RequestSlots \ {r} : requests'[s] = requests[s]
         /\ requests' \in [RequestSlots -> RequestSet]
         /\ WritesAreAlone'
         /\ \A s \in RequestSlots :
              /\ Writing(requests'[s]) /\ requests'[s].at = "sent" => requests'[s].text \in Documents
              /\ requests'[s].at # "none" => Out(requests'[s])
              /\ requests'[s].op = "gone" => requests'[s].at = "sent"
<1>1. NoRequest \in RequestSet /\ NoRequest.op = "none" /\ NoRequest.at = "none"
  BY NormalFormType DEF NoRequest, RequestSet
<1>2. /\ requests'[r] = NoRequest /\ \A s \in RequestSlots \ {r} : requests'[s] = requests[s]
      /\ requests' \in [RequestSlots -> RequestSet]
  BY <1>1 DEF Handled, SettingsInv, SettingsType
<1> QED
  BY <1>1, <1>2 DEF SettingsInv, SettingsType, WritesAreAlone, Out, Writing

LEMMA FileIsReadInv ==
  ASSUME SettingsInv, NEW r \in RequestSlots, FileIsRead(r)
  PROVE  SettingsInv'
<1>1. requests[r].at = "file" /\ UNCHANGED <<document, editorText, typed, doubt>>
  BY DEF FileIsRead, editor
<1>2. CASE requests' = Handled(r)
  BY <1>1, <1>2, SlotFreed DEF SettingsInv, SettingsType, TimelyIsCurrent, GoneIsDoubtful, ShownUnlessReached,
                               Reached, Writing, Out
<1>3. CASE requests[r].text \in Documents /\ requests' = [requests EXCEPT ![r].at = "sent"]
  <2>1. /\ requests' \in [RequestSlots -> RequestSet]
        /\ requests'[r].at = "sent" /\ requests'[r].op = requests[r].op /\ requests'[r].text = requests[r].text
        /\ requests'[r].timely = requests[r].timely
        /\ \A s \in RequestSlots \ {r} : requests'[s] = requests[s]
    BY <1>3 DEF SettingsInv, SettingsType, RequestSet
  <2>2. SettingsType' /\ WritesAreAlone'
    BY <1>1, <1>3, <2>1 DEF SettingsInv, SettingsType, WritesAreAlone, Out, Writing
  <2>3. TimelyIsCurrent' /\ GoneIsDoubtful' /\ ShownUnlessReached'
    BY <1>1, <2>1 DEF SettingsInv, TimelyIsCurrent, GoneIsDoubtful, ShownUnlessReached, Reached, Writing, Out
  <2> QED  BY <2>2, <2>3 DEF SettingsInv
<1> QED
  BY <1>2, <1>3 DEF FileIsRead

\* The writes that were sent go on as "gone"; the new load is timely if there are none.
LEMMA ReloadSettingsInv == ASSUME SettingsInv, ReloadSettings PROVE SettingsInv'
<1> DEFINE kept == [r \in RequestSlots |->
                      IF Writing(requests[r]) /\ requests[r].at = "sent"
                      THEN [requests[r] EXCEPT !.op = "gone"] ELSE NoRequest]
<1>1. PICK r \in RequestSlots :
        /\ ~Out(kept[r])
        /\ requests' = [kept EXCEPT ![r] = [Request("load", "sent", NoDocument) EXCEPT
                                              !.timely = \A s \in RequestSlots : ~Out(kept[s])]]
  BY DEF ReloadSettings
<1>2. doubt' = TRUE /\ typed' = FALSE /\ document' = document
  BY DEF ReloadSettings
<1>3. NoRequest \in RequestSet /\ NoRequest.op = "none" /\ NoRequest.at = "none"
  BY NormalFormType DEF NoRequest, RequestSet
<1>4. ASSUME NEW s \in RequestSlots
      PROVE  /\ kept[s] \in RequestSet
             /\ Out(kept[s]) => /\ kept[s].op = "gone" /\ kept[s].at = "sent" /\ kept[s].text \in Documents
                                /\ Writing(requests[s]) /\ kept[s].timely = requests[s].timely
  <2>1. CASE Writing(requests[s]) /\ requests[s].at = "sent"
    <3>1. kept[s] = [requests[s] EXCEPT !.op = "gone"] /\ requests[s] \in RequestSet /\ requests[s].text \in Documents
      BY <2>1 DEF SettingsInv, SettingsType
    <3> HIDE DEF kept
    <3> QED  BY <2>1, <3>1 DEF RequestSet
  <2>2. CASE ~(Writing(requests[s]) /\ requests[s].at = "sent")
    BY <1>3, <2>2 DEF Out
  <2> QED  BY <2>1, <2>2
<1> DEFINE free == \A s \in RequestSlots : ~Out(kept[s])
           new == [Request("load", "sent", NoDocument) EXCEPT !.timely = free]
<1>5. /\ new \in RequestSet /\ new.op = "load" /\ new.at = "sent" /\ new.timely = free
  <2>1. free \in BOOLEAN
    OBVIOUS
  <2> HIDE DEF free
  <2> QED  BY <2>1, NormalFormType DEF Request, NoRequest, RequestSet
<1>6. /\ requests' \in [RequestSlots -> RequestSet]
      /\ requests'[r] = new /\ \A s \in RequestSlots \ {r} : requests'[s] = kept[s]
  <2>1. kept \in [RequestSlots -> RequestSet]
    BY <1>4
  <2>2. requests' = [kept EXCEPT ![r] = new]
    BY <1>1
  <2> HIDE DEF new, kept
  <2> QED  BY <1>5, <2>1, <2>2
<1> HIDE DEF new, kept
<1>7. SettingsType'
  <2>1. document' \in Documents /\ typed' \in BOOLEAN /\ doubt' \in BOOLEAN
    BY <1>2 DEF SettingsInv, SettingsType
  <2>2. ASSUME NEW s \in RequestSlots
        PROVE  /\ Writing(requests'[s]) /\ requests'[s].at = "sent" => requests'[s].text \in Documents
               /\ requests'[s].at # "none" => Out(requests'[s])
               /\ requests'[s].op = "gone" => requests'[s].at = "sent"
    <3>1. CASE s = r
      BY <1>5, <1>6, <3>1 DEF Writing, Out
    <3>2. CASE s # r
      <4>1. requests'[s] = kept[s]
        BY <1>6, <3>2
      <4>2. kept[s].at # "none" => Out(kept[s])
        BY <1>3 DEF kept, SettingsInv, SettingsType, Writing, RequestSet, Out
      <4> QED  BY <1>4, <4>1, <4>2 DEF Writing, Out
    <3> QED  BY <3>1, <3>2
  <2> QED  BY <1>6, <2>1, <2>2 DEF SettingsType
<1>8. WritesAreAlone'
  <2> SUFFICES ASSUME NEW a \in RequestSlots, NEW b \in RequestSlots, a # b,
                      Out(requests'[a]), Writing(requests'[b])
               PROVE  ~requests'[a].timely /\ (requests'[b].op = "gone" \/ ~requests'[b].timely)
    BY DEF WritesAreAlone
  <2>1. b # r /\ requests'[b] = kept[b] /\ Out(kept[b])
    BY <1>5, <1>6 DEF Writing, Out
  <2>2. ~free
    BY <2>1
  <2>3. CASE a = r
    <3>1. requests'[a].timely = free
      BY <1>5, <1>6, <2>3
    <3>2. requests'[b].op = "gone"
      BY <1>4, <2>1
    <3> QED  BY <2>2, <3>1, <3>2
  <2>4. CASE a # r
    <3>1. requests'[a] = kept[a] /\ Out(kept[a])
      BY <1>6, <2>4
    <3>2. Out(requests[a]) /\ Writing(requests[b]) /\ kept[a].timely = requests[a].timely
          /\ kept[b].timely = requests[b].timely
      BY <1>4, <2>1, <3>1 DEF Writing, Out
    <3> QED  BY <1>4, <2>1, <3>1, <3>2 DEF SettingsInv, WritesAreAlone
  <2> QED  BY <2>3, <2>4
<1>9. TimelyIsCurrent' /\ GoneIsDoubtful' /\ ShownUnlessReached'
  BY <1>2, <1>4, <1>5, <1>6 DEF TimelyIsCurrent, GoneIsDoubtful, ShownUnlessReached
<1> QED
  BY <1>7, <1>8, <1>9 DEF SettingsInv

\* The server gets to request r, which a page waits for: it is answered, or fails.
LEMMA ReachedInv ==
  ASSUME SettingsInv, NEW r \in RequestSlots, requests[r].at = "sent", Out(requests[r]), requests[r].op # "gone",
         NEW q \in RequestSet, q.op = requests[r].op, q.timely = requests[r].timely,
         requests' = [requests EXCEPT ![r] = q],
         document' \in Documents, ~Writing(q) => document' = document,
         \/ q.at = "served" /\ q.text = document'
         \/ q.at = "failed",
         UNCHANGED <<editorText, typed, doubt>>
  PROVE  SettingsInv'
<1>1. /\ requests' \in [RequestSlots -> RequestSet] /\ requests'[r] = q
      /\ \A s \in RequestSlots \ {r} : requests'[s] = requests[s]
  BY DEF SettingsInv, SettingsType
<1>2. SettingsType' /\ WritesAreAlone'
  BY <1>1 DEF SettingsInv, SettingsType, WritesAreAlone, Out, Writing
<1>3. TimelyIsCurrent'
  <2> SUFFICES ASSUME NEW s \in RequestSlots, Out(requests'[s]), requests'[s].at = "served", requests'[s].timely
               PROVE  requests'[s].text = document'
    BY DEF TimelyIsCurrent
  <2>1. CASE s = r
    BY <1>1, <2>1
  <2>2. CASE s # r
    <3>1. Out(requests[s]) /\ requests[s].at = "served" /\ requests[s].timely /\ requests'[s] = requests[s]
      BY <1>1, <2>2
    <3>2. ~Writing(requests[r])
      BY <2>2, <3>1 DEF SettingsInv, WritesAreAlone
    <3> QED  BY <3>1, <3>2 DEF SettingsInv, TimelyIsCurrent, Writing
  <2> QED  BY <2>1, <2>2
<1>4. GoneIsDoubtful'
  BY <1>1 DEF SettingsInv, GoneIsDoubtful
<1>5. ShownUnlessReached'
  <2> SUFFICES ASSUME ~typed, ~doubt, \A s \in RequestSlots : ~Reached(requests'[s])
               PROVE  editorText = document'
    BY DEF ShownUnlessReached
  <2>1. ~Writing(q)
    BY <1>1 DEF Reached
  <2>2. \A s \in RequestSlots : ~Reached(requests[s])
    BY <1>1 DEF Reached
  <2> QED  BY <2>1, <2>2 DEF SettingsInv, ShownUnlessReached
<1> QED
  BY <1>2, <1>3, <1>4, <1>5 DEF SettingsInv

\* Nobody waits for request r any more: it may change the document.
LEMMA GoneInv ==
  ASSUME SettingsInv, NEW r \in RequestSlots, requests[r].op = "gone", requests' = Handled(r),
         document' \in Documents, UNCHANGED <<editorText, typed, doubt>>
  PROVE  SettingsInv'
<1>1. doubt
  BY DEF SettingsInv, GoneIsDoubtful
<1>2. SettingsType' /\ WritesAreAlone' /\ GoneIsDoubtful' /\ ShownUnlessReached'
  BY <1>1, SlotFreed DEF SettingsInv, SettingsType, GoneIsDoubtful, ShownUnlessReached
<1>3. TimelyIsCurrent'
  BY SlotFreed DEF SettingsInv, TimelyIsCurrent, WritesAreAlone, Out, Writing
<1> QED
  BY <1>2, <1>3 DEF SettingsInv

LEMMA ServerInv ==
  ASSUME SettingsInv, NEW r \in RequestSlots, ServeWorkspace(r) \/ WorkspaceFails(r)
  PROVE  SettingsInv'
<1> DEFINE q == requests[r]
<1>1. q \in RequestSet /\ q.at = "sent" /\ Out(q) /\ UNCHANGED <<editorText, typed, doubt>>
  BY DEF ServeWorkspace, WorkspaceFails, SettingsInv, SettingsType, editor
<1>2. Outcome(q) \in Documents /\ (~Writing(q) => Outcome(q) = document) /\ document \in Documents
  BY <1>1, NormalFormType DEF Outcome, SettingsInv, SettingsType
<1>3. document' \in Documents /\ (~Writing(q) => document' = document)
  BY <1>2 DEF ServeWorkspace, WorkspaceFails
<1>4. CASE q.op = "gone"
  BY <1>1, <1>3, <1>4, GoneInv DEF ServeWorkspace, WorkspaceFails
<1>5. CASE q.op # "gone" /\ ServeWorkspace(r)
  <2> DEFINE p == [q EXCEPT !.at = "served", !.text = document']
  <2>1. requests' = [requests EXCEPT ![r] = p]
    BY <1>5 DEF ServeWorkspace, SettingsInv, SettingsType
  <2>2. p \in RequestSet /\ p.op = q.op /\ p.timely = q.timely /\ p.at = "served" /\ p.text = document'
    BY <1>1, <1>3, NormalFormType DEF RequestSet
  <2> HIDE DEF p
  <2>3. ~Writing(p) => document' = document
    BY <1>3, <2>2 DEF Writing
  <2> QED  BY <1>1, <1>3, <1>5, <2>1, <2>2, <2>3, ReachedInv
<1>6. CASE q.op # "gone" /\ WorkspaceFails(r)
  <2> DEFINE p == [q EXCEPT !.at = "failed"]
  <2>1. requests' = [requests EXCEPT ![r] = p]
    BY <1>6 DEF WorkspaceFails, SettingsInv, SettingsType
  <2>2. p \in RequestSet /\ p.op = q.op /\ p.timely = q.timely /\ p.at = "failed"
    BY <1>1 DEF RequestSet
  <2> HIDE DEF p
  <2>3. ~Writing(p) => document' = document
    BY <1>3, <2>2 DEF Writing
  <2> QED  BY <1>1, <1>3, <1>6, <2>1, <2>2, <2>3, ReachedInv
<1> QED
  BY <1>4, <1>5, <1>6

LEMMA OthersChangeInv == ASSUME SettingsInv, OthersChange PROVE SettingsInv'
<1>1. /\ document' \in Documents /\ doubt' = TRUE /\ UNCHANGED <<editorText, typed>>
      /\ requests' = [r \in RequestSlots |->
                        IF requests[r].at = "served" THEN [requests[r] EXCEPT !.timely = FALSE] ELSE requests[r]]
  BY NormalFormType DEF OthersChange, editor
<1>2. ASSUME NEW r \in RequestSlots
      PROVE  /\ requests'[r] \in RequestSet /\ requests'[r].op = requests[r].op /\ requests'[r].at = requests[r].at
             /\ requests'[r].text = requests[r].text
             /\ requests'[r].timely => requests[r].timely /\ requests[r].at # "served"
  BY <1>1 DEF SettingsInv, SettingsType, RequestSet
<1>3. requests' \in [RequestSlots -> RequestSet]
  BY <1>1, <1>2
<1> QED
  BY <1>1, <1>2, <1>3 DEF SettingsInv, SettingsType, WritesAreAlone, TimelyIsCurrent, GoneIsDoubtful,
                          ShownUnlessReached, Out, Writing

LEMMA RequestLandsInv ==
  ASSUME SettingsInv, NEW r \in RequestSlots, RequestLands(r)
  PROVE  SettingsInv'
<1> DEFINE q == requests[r]
<1>1. requests' = Handled(r) /\ document' = document /\ q \in RequestSet /\ q.at \in {"served", "failed"}
  BY DEF RequestLands, SettingsInv, SettingsType
<1>2. \/ q.at = "served" /\ editorText' = q.text /\ typed' = FALSE /\ doubt' = ~q.timely
      \/ q.at = "failed" /\ doubt' = (doubt \/ Writing(q)) /\ UNCHANGED <<editorText, typed>>
  BY DEF RequestLands, ShownBy
<1>3. typed' \in BOOLEAN /\ doubt' \in BOOLEAN
  BY <1>1, <1>2 DEF SettingsInv, SettingsType, RequestSet, Writing
<1>4. SettingsType' /\ WritesAreAlone'
  BY <1>1, <1>3, SlotFreed DEF SettingsInv, SettingsType
<1>5. TimelyIsCurrent'
  BY <1>1, SlotFreed DEF SettingsInv, TimelyIsCurrent, Out
<1>6. Out(q) /\ q.op # "gone"
  BY <1>1 DEF SettingsInv, SettingsType
<1>7. GoneIsDoubtful'
  <2> SUFFICES ASSUME NEW s \in RequestSlots, requests'[s].op = "gone" PROVE doubt'
    BY DEF GoneIsDoubtful
  <2>1. s # r /\ requests[s].op = "gone"
    BY <1>1, SlotFreed
  <2>2. doubt /\ ~q.timely
    BY <1>6, <2>1 DEF SettingsInv, GoneIsDoubtful, WritesAreAlone, Writing
  <2> QED  BY <1>2, <2>2
<1>8. ShownUnlessReached'
  <2> SUFFICES ASSUME ~typed', ~doubt', \A s \in RequestSlots : ~Reached(requests'[s])
               PROVE  editorText' = document
    BY <1>1 DEF ShownUnlessReached
  <2>1. CASE q.at = "served" /\ editorText' = q.text /\ doubt' = ~q.timely
    BY <1>6, <2>1 DEF SettingsInv, TimelyIsCurrent
  <2>2. CASE doubt' = (doubt \/ Writing(q)) /\ UNCHANGED <<editorText, typed>>
    <3>1. \A s \in RequestSlots : ~Reached(requests[s])
      BY <1>1, <2>2, SlotFreed DEF Reached
    <3> QED  BY <2>2, <3>1 DEF SettingsInv, ShownUnlessReached
  <2> QED  BY <1>2, <2>1, <2>2
<1> QED
  BY <1>4, <1>5, <1>7, <1>8 DEF SettingsInv

LEMMA SettingsNextInv == ASSUME SettingsInv, [SettingsNext]_settingsVars PROVE SettingsInv'
<1>1. CASE UNCHANGED settingsVars
  BY <1>1 DEF settingsVars, SettingsInv, SettingsType, WritesAreAlone, TimelyIsCurrent, GoneIsDoubtful, ShownUnlessReached
<1>2. CASE LoadWorkspace \/ HandleExportRefresh \/ SaveWorkspace \/ HandleImportFile
  BY <1>2, UserInv
<1>3. CASE TypeText \/ ReloadSettings \/ OthersChange
  BY <1>3, TypingTextInv, ReloadSettingsInv, OthersChangeInv
<1>4. ASSUME NEW r \in RequestSlots, FileIsRead(r) \/ ServeWorkspace(r) \/ WorkspaceFails(r) \/ RequestLands(r)
      PROVE  SettingsInv'
  BY <1>4, FileIsReadInv, ServerInv, RequestLandsInv
<1> QED
  BY <1>1, <1>2, <1>3, <1>4 DEF SettingsNext

\* An editor in which nothing was typed shows the document of the server
\* (EditorShowsServer), for any documents and any number of requests.
THEOREM EditorAlwaysShowsServer == SettingsInit /\ [][SettingsNext]_settingsVars => []EditorShowsServer
<1>1. SettingsInv => EditorShowsServer
  BY DEF SettingsInv, ShownUnlessReached, EditorShowsServer, Reached
<1>2. SettingsInv /\ [SettingsNext]_settingsVars => SettingsInv'
  BY SettingsNextInv
<1> QED
  BY <1>1, <1>2, SettingsInitInv, PTL

-----------------------------------------------------------------------------
(* JobWorkspace: the pack in hand, and the job an open workspace is of *)

\* The pack in hand is the one the draft is bound to, for any jobs and packs
\* and any number of handlers whose answers overlap: "save to the current
\* pack" writes the pack that "delete the current pack" deletes
\* (useJobsTaskPacks.ts).
THEOREM PackInHandIsBound ==
  WorkInit /\ [][WorkNext]_workVars => []OnePackInHand
<1>1. WorkInit => OnePackInHand
  BY DEF WorkInit, OnePackInHand
<1>2. OnePackInHand /\ [WorkNext]_workVars => OnePackInHand'
  <2> SUFFICES ASSUME OnePackInHand, [WorkNext]_workVars PROVE OnePackInHand'
    OBVIOUS
  <2>1. CASE UNCHANGED form
    BY <2>1 DEF form, OnePackInHand
  <2>2. CASE ResetForm
    BY <2>2 DEF ResetForm, OnePackInHand
  <2>3. ASSUME NEW j, NEW loaded, FillForm(j, loaded) PROVE OnePackInHand'
    BY <2>3 DEF FillForm, OnePackInHand
  <2>4. CASE formPack' = pack'
    BY <2>4 DEF OnePackInHand
  <2>5. CASE pack' = pack /\ formPack' = formPack
    BY <2>5 DEF OnePackInHand
  <2>6. ASSUME NEW w \in waits, Lands(w) PROVE OnePackInHand'
    <3>1. CASE OpenJobLands(w)
      BY <3>1, <2>1, <2>3 DEF OpenJobLands
    <3>2. CASE RefreshLands(w)
      BY <3>2, <2>1, <2>2 DEF RefreshLands, DrawerDropped
    <3>3. CASE SaveLands(w)
      BY <3>3, <2>5 DEF SaveLands
    <3>4. CASE PackLands(w)
      BY <3>4, <2>4 DEF PackLands
    <3> QED  BY <2>6, <3>1, <3>2, <3>3, <3>4, <2>1 DEF Lands, ChangeLands, RequestFails
  <2>7. ASSUME NEW w \in waits, Serve(w) PROVE OnePackInHand'
    BY <2>7, <2>1 DEF Serve
  <2>8. CASE UNCHANGED workVars
    BY <2>8, <2>5 DEF workVars
  <2> QED
    BY <2>1, <2>2, <2>6, <2>7, <2>8
    DEF WorkNext, OpenJob, OpenCreate, Close, HandleSave, HandleJob, HandleBatch, Reload, HandlePack,
        HandleImportPackFile
<1> QED
  BY <1>1, <1>2, PTL

Deeds == {"open", "create", "update", "toggle", "delete", "restore", "purge", "batch", "reload",
          "import", "filepack", "savepack", "overwrite", "droppack", "file"}
Stages == {"job", "job's pack", "save", "change", "pack", "list", "list, drop", "selected"}

Changes == {"toggle", "delete", "restore", "purge", "batch"}

TaskSet ==
  {t \in [does: Deeds, at: Stages, served: BOOLEAN, job: 0..MaxJobs, pack: Packs \cup {NoPack},
          sel: 0..MaxJobs, draft: 0..Foreign] :
     t.at = "change" => t.does \in Changes}

PageType ==
  /\ jobs \in [JobIds -> {"none", "live", "deleted", "purged"}]
  /\ selected \in [id: 0..MaxJobs, deleted: BOOLEAN]
  /\ creating \in BOOLEAN /\ open \in BOOLEAN /\ unsure \in BOOLEAN
  /\ draftOf \in 0..Foreign

\* An open workspace is of one job, or of a new one.  The server may have changed
\* the job meanwhile where that is granted: a change of it was reported as failed.
AgreeBut(granted) ==
  open =>
    IF creating THEN selected = NoSelection /\ draftOf = NoJob
    ELSE selected.id \in JobIds /\ draftOf = selected.id /\ (selected = AsServer(selected.id) \/ granted)
Agree == AgreeBut(unsure)

\* The job a refresh selects again is the one the draft is of.
Reselects(w) == open /\ w.sel # NoJob => ~creating /\ draftOf = w.sel

\* What the workspace holds while the only handler waits: it agrees, except
\* while a job's pack is loaded, and when the server has changed a job that
\* the page does not know of yet.
AgreesUntil(w) ==
  /\ w.at \in {"job", "save", "pack", "list", "selected"} => Agree
  /\ w.at = "change" => AgreeBut(unsure \/ (w.served /\ selected.id = w.job))
  /\ w.at \in {"pack", "list", "selected"} => Reselects(w)
  /\ w.at \in {"job", "job's pack"} => w.job \in JobIds
  /\ w.at = "job's pack" => selected = AsServer(w.job) /\ ~creating
  /\ w.at = "save" =>
       /\ w.does \in {"create", "update"} /\ draftOf = (IF w.does = "create" THEN NoJob ELSE w.job)
       /\ w.does = "update" \/ w.served => w.job \in JobIds
       /\ w.served => jobs[w.job] = "live"
  /\ w.at = "change" =>
       /\ w.job \in JobIds
       /\ w.does \in {"toggle", "restore"} =>
            open /\ ~creating /\ draftOf = w.job /\ (w.served => jobs[w.job] = "live")
  /\ w.at = "pack" => w.draft = draftOf
  /\ w.at = "selected" => w.sel # NoJob

WorkInv ==
  /\ PageType /\ waits \subseteq TaskSet /\ calm \in BOOLEAN
  /\ calm => /\ \A v, w \in waits : v = w
             /\ \A w \in waits : AgreesUntil(w)
             /\ waits = {} => Agree

LEMMA JobNumbers ==
  /\ MaxJobs \in Nat /\ JobIds = (0..MaxJobs) \ {NoJob}
  /\ NoJob \in 0..MaxJobs /\ NoJob \notin JobIds /\ NoJob \in 0..Foreign
BY WorkspaceAssumption DEF JobIds, NoJob, Foreign

LEMMA WorkInitInv == WorkInit => WorkInv
<1> SUFFICES ASSUME WorkInit PROVE WorkInv
  OBVIOUS
<1>1. jobs \in [JobIds -> {"none", "live", "deleted", "purged"}]
  BY DEF WorkInit
<1>2. NoSelection \in [id: 0..MaxJobs, deleted: BOOLEAN]
  BY JobNumbers DEF NoSelection
<1>3. NoJob \in 0..Foreign
  BY JobNumbers DEF Foreign, NoJob
<1>4. PageType
  BY <1>1, <1>2, <1>3 DEF WorkInit, PageType
<1> QED
  BY <1>4 DEF WorkInit, WorkInv, Agree, AgreeBut

\* A handler begins: when it is the only one, the workspace agrees.
LEMMA Starting ==
  ASSUME WorkInv, NEW task \in TaskSet, Start(task), UNCHANGED <<jobs, drawer, form>>,
         Agree => AgreesUntil(task)
  PROVE  WorkInv'
<1>1. /\ waits' = waits \cup {task} /\ calm' = (calm /\ waits = {})
      /\ UNCHANGED <<jobs, selected, creating, open, unsure, draftOf>>
  BY DEF Start, drawer, form
<1>2. PageType' /\ waits' \subseteq TaskSet /\ calm' \in BOOLEAN
  BY <1>1 DEF WorkInv, PageType
<1>3. ASSUME calm' PROVE waits' = {task} /\ Agree
  BY <1>1, <1>3 DEF WorkInv
<1>4. ASSUME Agree PROVE AgreesUntil(task)'
  BY <1>1, <1>4 DEF AgreesUntil, Agree, AgreeBut, Reselects, AsServer
<1> QED
  BY <1>2, <1>3, <1>4 DEF WorkInv

\* It goes on, or ends.
LEMMA Going ==
  ASSUME WorkInv, NEW w \in waits, NEW next \in TaskSet, Go(w, next), PageType', UNCHANGED calm,
         AgreesUntil(w) => AgreesUntil(next)'
  PROVE  WorkInv'
<1>1. waits' = (waits \ {w}) \cup {next}
  BY DEF Go
<1>2. ASSUME calm PROVE waits' = {next} /\ AgreesUntil(next)'
  BY <1>1, <1>2 DEF WorkInv
<1> QED
  BY <1>1, <1>2 DEF WorkInv

LEMMA Ended ==
  ASSUME WorkInv, NEW w \in waits, Done(w), PageType', UNCHANGED calm, calm /\ AgreesUntil(w) => Agree'
  PROVE  WorkInv'
<1>1. waits' = waits \ {w}
  BY DEF Done
<1>2. ASSUME calm PROVE waits' = {} /\ Agree'
  BY <1>1, <1>2 DEF WorkInv
<1> QED
  BY <1>1, <1>2 DEF WorkInv

LEMMA NewTask ==
  ASSUME NEW does \in Deeds, NEW at \in Stages \ {"change"}
  PROVE  /\ Task(does, at) \in TaskSet /\ Task(does, at).does = does /\ Task(does, at).at = at
         /\ Task(does, at).served = FALSE /\ Task(does, at).sel = NoJob
BY JobNumbers DEF Task, TaskSet, Foreign, NoJob

LEMMA RefreshTask ==
  ASSUME NEW does \in Deeds, NEW sel \in 0..MaxJobs
  PROVE  /\ Refresh(does, sel) \in TaskSet /\ Refresh(does, sel).at = "list" /\ Refresh(does, sel).sel = sel
<1> DEFINE task == Task(does, "list")
<1>1. task \in TaskSet /\ task.at = "list" /\ Refresh(does, sel) = [task EXCEPT !.sel = sel]
  BY NewTask DEF Stages, Refresh
<1> HIDE DEF task
<1> QED
  BY <1>1 DEF TaskSet

LEMMA DropTask == DropDrawer \in TaskSet /\ DropDrawer.at = "list, drop"
<1>1. "reload" \in Deeds /\ "list, drop" \in Stages \ {"change"}
  BY DEF Deeds, Stages
<1> QED
  BY <1>1, NewTask DEF DropDrawer

\* What the user does.
LEMMA ResetsInv ==
  ASSUME WorkInv, Select(NoSelection), creating' = TRUE, open' \in BOOLEAN, ResetForm,
         calm' = (calm /\ waits = {}), UNCHANGED <<jobs, waits>>
  PROVE  WorkInv'
<1>1. NoSelection \in [id: 0..MaxJobs, deleted: BOOLEAN] /\ NoJob \in 0..Foreign
  BY JobNumbers DEF NoSelection, Foreign, NoJob
<1>2. PageType' /\ Agree'
  BY <1>1 DEF WorkInv, PageType, Agree, AgreeBut, ResetForm, Select
<1> QED
  BY <1>2 DEF WorkInv

LEMMA OpenJobInv == ASSUME WorkInv, OpenJob PROVE WorkInv'
<1>1. PICK j \in JobIds : Start([Task("open", "job") EXCEPT !.job = j])
  BY DEF OpenJob
<1> DEFINE task == [Task("open", "job") EXCEPT !.job = j]
<1>2. task \in TaskSet /\ task.at = "job" /\ task.job = j
  BY JobNumbers DEF Task, TaskSet, Deeds, Stages, Changes
<1>3. Start(task)
  BY <1>1
<1> HIDE DEF task
<1>4. Agree => AgreesUntil(task)
  BY <1>2 DEF AgreesUntil
<1> QED
  BY <1>2, <1>3, <1>4, Starting DEF OpenJob, backend

LEMMA HandleSaveInv == ASSUME WorkInv, HandleSave PROVE WorkInv'
<1>0. open /\ UNCHANGED <<jobs, drawer, form>>
  BY DEF HandleSave, backend
<1>1. selected.id \in 0..MaxJobs /\ draftOf \in 0..Foreign
  BY DEF WorkInv, PageType
<1>2. CASE creating /\ Start([Task("create", "save") EXCEPT !.draft = draftOf])
  <2> DEFINE task == [Task("create", "save") EXCEPT !.draft = draftOf]
  <2>1. task \in TaskSet /\ task.at = "save" /\ task.does = "create" /\ ~task.served
    BY <1>1, JobNumbers DEF Task, TaskSet, Deeds, Stages, Changes, NoJob
  <2>2. Start(task)
    BY <1>2
  <2> HIDE DEF task
  <2>3. Agree => AgreesUntil(task)
    BY <1>0, <1>2, <2>1 DEF AgreesUntil, Agree, AgreeBut
  <2> QED  BY <1>0, <2>1, <2>2, <2>3, Starting
<1>3. CASE /\ ~creating
           /\ Start([Task("update", "save") EXCEPT !.job = selected.id, !.draft = draftOf])
  <2> DEFINE task == [Task("update", "save") EXCEPT !.job = selected.id, !.draft = draftOf]
  <2>1. task \in TaskSet /\ task.at = "save" /\ task.does = "update" /\ ~task.served /\ task.job = selected.id
    BY <1>1, JobNumbers DEF Task, TaskSet, Deeds, Stages, Changes, NoJob
  <2>2. Start(task)
    BY <1>3
  <2> HIDE DEF task
  <2>3. Agree => AgreesUntil(task)
    BY <1>0, <1>3, <2>1 DEF AgreesUntil, Agree, AgreeBut
  <2> QED  BY <1>0, <2>1, <2>2, <2>3, Starting
<1> QED
  BY <1>2, <1>3 DEF HandleSave

LEMMA HandleJobInv == ASSUME WorkInv, HandleJob PROVE WorkInv'
<1>0. open /\ selected # NoSelection /\ UNCHANGED <<jobs, drawer, form>>
  BY DEF HandleJob, backend
<1>1. selected.id \in 0..MaxJobs
  BY DEF WorkInv, PageType
<1>2. PICK does \in {"restore", "purge", "toggle", "delete"} :
        Start([Task(does, "change") EXCEPT !.job = selected.id, !.sel = selected.id])
  BY DEF HandleJob
<1> DEFINE task == [Task(does, "change") EXCEPT !.job = selected.id, !.sel = selected.id]
<1>3. task \in TaskSet /\ task.at = "change" /\ task.does = does /\ ~task.served /\ task.job = selected.id
  BY <1>1, JobNumbers DEF Task, TaskSet, Deeds, Stages, Changes
<1>4. Start(task)
  BY <1>2
<1> HIDE DEF task
<1>5. Agree => AgreesUntil(task)
  BY <1>0, <1>3 DEF AgreesUntil, Agree, AgreeBut
<1> QED
  BY <1>0, <1>3, <1>4, <1>5, Starting

LEMMA HandleBatchInv == ASSUME WorkInv, HandleBatch PROVE WorkInv'
<1>1. PICK j \in JobIds : Start([Task("batch", "change") EXCEPT !.job = j])
  BY DEF HandleBatch
<1> DEFINE task == [Task("batch", "change") EXCEPT !.job = j]
<1>2. task \in TaskSet /\ task.at = "change" /\ task.does = "batch" /\ task.job = j
  BY JobNumbers DEF Task, TaskSet, Deeds, Stages, Changes
<1>3. Start(task)
  BY <1>1
<1> HIDE DEF task
<1>4. Agree => AgreesUntil(task)
  BY <1>2 DEF AgreesUntil, Agree, AgreeBut
<1> QED
  BY <1>2, <1>3, <1>4, Starting DEF HandleBatch, backend

LEMMA ReloadInv == ASSUME WorkInv, Reload PROVE WorkInv'
<1>0. UNCHANGED <<jobs, drawer, form>>
  BY DEF Reload, backend
<1>1. CASE Start(Refresh("reload", selected.id))
  <2> DEFINE task == Refresh("reload", selected.id)
  <2>1. selected.id \in 0..MaxJobs /\ "reload" \in Deeds
    BY DEF WorkInv, PageType, Deeds
  <2>2. task \in TaskSet /\ task.at = "list" /\ task.sel = selected.id
    BY <2>1, RefreshTask
  <2>3. Start(task)
    BY <1>1
  <2> HIDE DEF task
  <2>4. Agree => AgreesUntil(task)
    BY <2>2 DEF AgreesUntil, Agree, AgreeBut, Reselects, NoSelection
  <2> QED  BY <1>0, <2>2, <2>3, <2>4, Starting
<1>2. CASE Start(DropDrawer)
  <2>1. Agree => AgreesUntil(DropDrawer)
    BY DropTask DEF AgreesUntil
  <2> QED  BY <1>0, <1>2, <2>1, DropTask, Starting
<1> QED
  BY <1>1, <1>2 DEF Reload

LEMMA HandlePackInv == ASSUME WorkInv, HandlePack \/ HandleImportPackFile PROVE WorkInv'
<1>0. open /\ UNCHANGED <<jobs, drawer, form>>
  BY DEF HandlePack, HandleImportPackFile, backend
<1>1. selected.id \in 0..MaxJobs /\ draftOf \in 0..Foreign
  BY DEF WorkInv, PageType
<1>2. ASSUME NEW task \in TaskSet, Start(task), task.at = "pack", task.draft = draftOf,
             task.sel \in {NoJob, selected.id}
      PROVE  WorkInv'
  <2>1. Agree => AgreesUntil(task)
    BY <1>2 DEF AgreesUntil, Agree, AgreeBut, Reselects, NoSelection
  <2> QED  BY <1>0, <1>2, <2>1, Starting
<1>3. CASE HandlePack
  <2>1. PICK p \in Packs, does \in {"import", "filepack", "savepack", "overwrite", "droppack"} :
          Start([Task(does, "pack") EXCEPT !.pack = p, !.draft = draftOf,
                                           !.sel = IF does \in {"savepack", "overwrite"} THEN selected.id ELSE NoJob])
    BY <1>3 DEF HandlePack
  <2> DEFINE sel == IF does \in {"savepack", "overwrite"} THEN selected.id ELSE NoJob
             task == [Task(does, "pack") EXCEPT !.pack = p, !.draft = draftOf, !.sel = sel]
  <2>2. sel \in {NoJob, selected.id} /\ sel \in 0..MaxJobs
    BY <1>1, JobNumbers
  <2>3. Start(task)
    BY <2>1
  <2> HIDE DEF sel
  <2>4. task \in TaskSet /\ task.at = "pack" /\ task.draft = draftOf /\ task.sel = sel
    BY <1>1, <2>2, JobNumbers DEF Task, TaskSet, Deeds, Stages, Changes, NoJob
  <2> HIDE DEF task
  <2> QED  BY <1>2, <2>2, <2>3, <2>4
<1>4. CASE HandleImportPackFile
  <2> DEFINE task == [Task("file", "pack") EXCEPT !.draft = draftOf]
  <2>1. Start(task)
    BY <1>4 DEF HandleImportPackFile
  <2>2. task \in TaskSet /\ task.at = "pack" /\ task.draft = draftOf /\ task.sel = NoJob
    BY <1>1, JobNumbers DEF Task, TaskSet, Deeds, Stages, Changes, NoJob
  <2> HIDE DEF task
  <2> QED  BY <1>2, <2>1, <2>2
<1> QED
  BY <1>3, <1>4

LEMMA UserWorkInv ==
  ASSUME WorkInv,
         \/ OpenJob \/ OpenCreate \/ Close \/ HandleSave \/ HandleJob \/ HandleBatch \/ Reload
         \/ HandlePack \/ HandleImportPackFile
  PROVE  WorkInv'
<1>1. CASE OpenCreate
  BY <1>1, ResetsInv DEF OpenCreate, backend
<1>2. CASE Close
  BY <1>2, ResetsInv DEF Close, backend
<1> QED
  BY <1>1, <1>2, OpenJobInv, HandleSaveInv, HandleJobInv, HandleBatchInv, ReloadInv, HandlePackInv

\* The server does it.
LEMMA ServedTask ==
  ASSUME NEW w \in TaskSet
  PROVE  LET g == [w EXCEPT !.served = TRUE]
         IN /\ g \in TaskSet /\ g.served /\ g.does = w.does /\ g.at = w.at /\ g.job = w.job
            /\ g.sel = w.sel /\ g.draft = w.draft
BY DEF TaskSet

\* A job that is created or changed while the only handler waits.
LEMMA ServeWorkInv ==
  ASSUME WorkInv, NEW w \in waits, Serve(w)
  PROVE  WorkInv'
<1>0. /\ w \in TaskSet /\ ~w.served /\ UNCHANGED <<selected, creating, open, unsure, draftOf, calm>>
      /\ PageType /\ w.does \in Deeds
  BY DEF Serve, WorkInv, drawer, form, TaskSet
<1> DEFINE g == [w EXCEPT !.served = TRUE]
<1>1. g \in TaskSet /\ g.served /\ g.does = w.does /\ g.at = w.at /\ g.job = w.job /\ g.sel = w.sel /\ g.draft = w.draft
  BY <1>0, ServedTask
<1>2. CASE w.at = "save" /\ ServeSave(w)
  <2>1. CASE w.does = "create"
    <3>1. PICK j \in JobIds : /\ jobs[j] = "none" /\ jobs' = [jobs EXCEPT ![j] = "live"]
                              /\ Go(w, [w EXCEPT !.served = TRUE, !.job = j])
      BY <1>2, <2>1 DEF ServeSave
    <3> DEFINE h == [w EXCEPT !.served = TRUE, !.job = j]
    <3>2. h \in TaskSet /\ h.does = "create" /\ h.at = "save" /\ h.job = j /\ h.served
      BY <1>0, <1>2, <2>1, JobNumbers DEF TaskSet
    <3>3. Go(w, h)
      BY <3>1
    <3> HIDE DEF h
    <3>4. PageType' /\ jobs'[j] = "live"
      BY <1>0, <3>1 DEF PageType
    <3>5. \A i \in JobIds : AsServer(i)' = AsServer(i)
      BY <1>0, <3>1 DEF PageType, AsServer
    <3>6. Agree => Agree'
      BY <1>0, <3>5 DEF Agree, AgreeBut
    <3>7. AgreesUntil(w) => AgreesUntil(h)'
      BY <1>0, <1>2, <2>1, <3>2, <3>4, <3>6 DEF AgreesUntil
    <3> QED  BY <1>0, <3>2, <3>3, <3>4, <3>7, Going
  <2>2. CASE w.does = "update" /\ jobs[w.job] = "live" /\ Go(w, g) /\ UNCHANGED jobs
    <3> HIDE DEF g
    <3>1. AgreesUntil(w) => AgreesUntil(g)'
      BY <1>0, <1>1, <1>2, <2>2 DEF AgreesUntil, Agree, AgreeBut, AsServer
    <3>2. PageType'
      BY <1>0, <2>2 DEF PageType
    <3> QED  BY <1>0, <1>1, <2>2, <3>1, <3>2, Going
  <2> QED  BY <1>2, <2>1, <2>2 DEF ServeSave
<1>3. CASE w.at = "change" /\ ServeChange(w)
  <2>1. PICK c \in JobChange[w.does] : jobs[w.job] = c[1] /\ jobs' = [jobs EXCEPT ![w.job] = c[2]]
    BY <1>3 DEF ServeChange
  <2>2. Go(w, g)
    BY <1>3 DEF ServeChange
  <2> HIDE DEF g
  <2>3. c[2] \in {"none", "live", "deleted", "purged"} /\ (w.does \in {"toggle", "restore"} => c[2] = "live")
    BY <1>0, <1>3, <2>1 DEF JobChange, TaskSet, Changes
  <2>4. PageType'
    BY <1>0, <2>1, <2>3 DEF PageType
  <2>5. ASSUME AgreesUntil(w) PROVE AgreesUntil(g)'
    <3>1. w.job \in JobIds
      BY <1>3, <2>5 DEF AgreesUntil
    <3>2. w.does \in {"toggle", "restore"} => jobs'[w.job] = "live"
      BY <1>0, <2>1, <2>3, <3>1 DEF PageType
    <3>3. \A i \in JobIds \ {w.job} : AsServer(i)' = AsServer(i)
      BY <1>0, <2>1, <3>1 DEF PageType, AsServer
    <3>4. AgreeBut(unsure \/ selected.id = w.job)'
      BY <1>0, <1>3, <2>5, <3>3 DEF AgreesUntil, AgreeBut
    <3> QED  BY <1>0, <1>1, <1>3, <2>5, <3>1, <3>2, <3>4 DEF AgreesUntil, AgreeBut
  <2> QED  BY <1>0, <1>1, <2>2, <2>4, <2>5, Going
<1>4. CASE w.at = "pack" /\ Go(w, g) /\ UNCHANGED jobs
  <2> HIDE DEF g
  <2>1. AgreesUntil(w) => AgreesUntil(g)'
    BY <1>0, <1>1, <1>4 DEF AgreesUntil, Agree, AgreeBut, Reselects, AsServer
  <2>2. PageType'
    BY <1>0, <1>4 DEF PageType
  <2> QED  BY <1>0, <1>1, <1>4, <2>1, <2>2, Going
<1> QED
  BY <1>2, <1>3, <1>4 DEF Serve, ServePack

\* An answer lands; nothing changes at the server meanwhile.
LEMMA LandedTypes ==
  ASSUME WorkInv, NEW w \in waits
  PROVE  /\ w \in TaskSet /\ PageType /\ w.does \in Deeds /\ w.job \in 0..MaxJobs /\ w.sel \in 0..MaxJobs
         /\ NoSelection \in [id: 0..MaxJobs, deleted: BOOLEAN]
         /\ [id |-> w.job, deleted |-> FALSE] \in [id: 0..MaxJobs, deleted: BOOLEAN]
         /\ AsServer(w.job) \in [id: 0..MaxJobs, deleted: BOOLEAN]
         /\ AsServer(w.sel) \in [id: 0..MaxJobs, deleted: BOOLEAN]
<1>1. w \in TaskSet /\ PageType
  BY DEF WorkInv
<1>2. w.does \in Deeds /\ w.job \in 0..MaxJobs /\ w.sel \in 0..MaxJobs
  BY <1>1 DEF TaskSet
<1>3. NoSelection \in [id: 0..MaxJobs, deleted: BOOLEAN]
  BY JobNumbers DEF NoSelection
<1> QED
  BY <1>1, <1>2, <1>3 DEF AsServer

LEMMA OpenJobLandsInv ==
  ASSUME WorkInv, NEW w \in waits, OpenJobLands(w), UNCHANGED <<jobs, calm>>
  PROVE  WorkInv'
<1>0. w \in TaskSet /\ PageType /\ AsServer(w.job) \in [id: 0..MaxJobs, deleted: BOOLEAN] /\ w.job \in 0..Foreign
  BY LandedTypes, JobNumbers DEF Foreign
<1>1. CASE /\ w.at = "job" /\ Select(AsServer(w.job)) /\ creating' = FALSE
           /\ open' = TRUE /\ FillForm(w.job, FALSE) /\ Done(w)
  <2>1. draftOf' = w.job /\ PageType'
    BY <1>0, <1>1 DEF FillForm, PageType, Select
  <2>2. AgreesUntil(w) => Agree'
    BY <1>1, <2>1 DEF AgreesUntil, Agree, AgreeBut, AsServer, Select
  <2> QED  BY <1>1, <2>1, <2>2, Ended
<1>2. CASE /\ w.at = "job" /\ Select(AsServer(w.job)) /\ creating' = FALSE
           /\ Go(w, [w EXCEPT !.at = "job's pack"]) /\ UNCHANGED <<open, form>>
  <2> DEFINE g == [w EXCEPT !.at = "job's pack"]
  <2>1. g \in TaskSet /\ g.at = "job's pack" /\ g.job = w.job
    BY <1>0 DEF TaskSet, Stages
  <2>2. Go(w, g)
    BY <1>2
  <2> HIDE DEF g
  <2>3. PageType'
    BY <1>0, <1>2 DEF PageType, form, Select
  <2>4. AgreesUntil(w) => AgreesUntil(g)'
    BY <1>2, <2>1 DEF AgreesUntil, AsServer, Select
  <2> QED  BY <2>1, <2>2, <2>3, <2>4, Going
<1>3. CASE w.at = "job's pack" /\ draftOf' = w.job /\ open' = TRUE /\ Done(w) /\ UNCHANGED <<selected, unsure, creating>>
  <2>1. PageType'
    BY <1>0, <1>3 DEF PageType
  <2>2. ASSUME AgreesUntil(w) PROVE Agree'
    <3>1. selected' = AsServer(w.job) /\ creating' = FALSE /\ w.job \in JobIds
      BY <1>0, <1>3, <2>2 DEF AgreesUntil, PageType
    <3>2. selected'.id = w.job /\ selected' = AsServer(w.job)'
      BY <3>1 DEF AsServer
    <3> QED  BY <1>3, <3>1, <3>2 DEF Agree, AgreeBut, AsServer
  <2> QED  BY <1>3, <2>1, <2>2, Ended
<1> QED
  BY <1>1, <1>2, <1>3 DEF OpenJobLands, FillForm

LEMMA RefreshLandsInv ==
  ASSUME WorkInv, NEW w \in waits, RefreshLands(w), UNCHANGED <<jobs, calm>>
  PROVE  WorkInv'
<1>0. /\ w \in TaskSet /\ PageType /\ AsServer(w.sel) \in [id: 0..MaxJobs, deleted: BOOLEAN] /\ NoJob \in 0..Foreign
      /\ NoSelection \in [id: 0..MaxJobs, deleted: BOOLEAN] /\ w.sel \in 0..MaxJobs
  BY LandedTypes, JobNumbers
<1>1. CASE w.at = "list, drop" /\ DrawerDropped /\ Done(w)
  <2>1. PageType' /\ Agree'
    BY <1>0, <1>1 DEF DrawerDropped, ResetForm, PageType, Agree, AgreeBut, Select
  <2> QED  BY <1>1, <2>1, Ended
<1>2. CASE w.at = "list" /\ Done(w) /\ UNCHANGED <<drawer, form>>
  <2>1. PageType' /\ (AgreesUntil(w) => Agree')
    BY <1>0, <1>2 DEF drawer, form, PageType, AgreesUntil, Agree, AgreeBut, AsServer
  <2> QED  BY <1>2, <2>1, Ended
<1>3. CASE w.at = "list" /\ w.sel # NoJob /\ Go(w, [w EXCEPT !.at = "selected"]) /\ UNCHANGED <<drawer, form>>
  <2> DEFINE g == [w EXCEPT !.at = "selected"]
  <2>1. g \in TaskSet /\ g.at = "selected" /\ g.sel = w.sel
    BY <1>0 DEF TaskSet, Stages
  <2>2. Go(w, g)
    BY <1>3
  <2> HIDE DEF g
  <2>3. PageType'
    BY <1>0, <1>3 DEF PageType, drawer, form
  <2>4. AgreesUntil(w) => AgreesUntil(g)'
    BY <1>3, <2>1 DEF AgreesUntil, Reselects, Agree, AgreeBut, AsServer, drawer, form
  <2> QED  BY <2>1, <2>2, <2>3, <2>4, Going
<1>4. CASE w.at = "selected" /\ Select(AsServer(w.sel)) /\ Done(w) /\ UNCHANGED <<creating, open, form>>
  <2>1. PageType'
    BY <1>0, <1>4 DEF form, PageType, Select
  <2>2. AgreesUntil(w) => Agree'
    BY <1>0, <1>4, JobNumbers DEF form, AgreesUntil, Reselects, Agree, AgreeBut, AsServer, Select
  <2> QED  BY <1>4, <2>1, <2>2, Ended
<1>5. CASE w.at = "selected" /\ UNCHANGED <<selected, unsure>> /\ Done(w) /\ UNCHANGED <<creating, open, form>>
  <2>1. PageType' /\ (AgreesUntil(w) => Agree')
    BY <1>0, <1>5 DEF form, PageType, AgreesUntil, Agree, AgreeBut, AsServer
  <2> QED  BY <1>5, <2>1, Ended
<1> QED
  BY <1>1, <1>2, <1>3, <1>4, <1>5 DEF RefreshLands

LEMMA SaveLandsInv ==
  ASSUME WorkInv, NEW w \in waits, SaveLands(w), UNCHANGED <<jobs, calm>>
  PROVE  WorkInv'
<1>0. /\ w \in TaskSet /\ PageType /\ w.does \in Deeds /\ w.job \in 0..MaxJobs /\ w.job \in 0..Foreign
      /\ [id |-> w.job, deleted |-> FALSE] \in [id: 0..MaxJobs, deleted: BOOLEAN]
  BY LandedTypes, JobNumbers DEF Foreign
<1> DEFINE sel == IF w.does = "update" THEN w.job ELSE NoJob
           g == Refresh(w.does, sel)
<1>1. sel \in 0..MaxJobs
  BY <1>0, JobNumbers
<1>2. Go(w, g)
  BY DEF SaveLands
<1>3. g \in TaskSet /\ g.at = "list" /\ g.sel = sel
  BY <1>0, <1>1, RefreshTask
<1> HIDE DEF g
<1>4. /\ w.at = "save" /\ w.served
      /\ selected' = [id |-> w.job, deleted |-> FALSE] /\ unsure' = FALSE /\ creating' = FALSE /\ open' = TRUE
      /\ draftOf' = IF w.does = "create" /\ draftOf = NoJob THEN w.job ELSE draftOf
  BY DEF SaveLands, Select
<1>5. PageType'
  BY <1>0, <1>4 DEF PageType
<1>6. ASSUME AgreesUntil(w) PROVE AgreesUntil(g)'
  <2>1. w.job \in JobIds /\ jobs[w.job] = "live" /\ draftOf' = w.job /\ w.does \in {"create", "update"}
    BY <1>4, <1>6 DEF AgreesUntil
  <2>2. selected' = AsServer(w.job)' /\ selected'.id = w.job
    BY <1>4, <2>1 DEF AsServer
  <2>3. Agree'
    BY <1>4, <2>1, <2>2 DEF Agree, AgreeBut, AsServer
  <2>4. Reselects(g)'
    BY <1>3, <1>4, <2>1 DEF Reselects
  <2> QED  BY <1>3, <2>3, <2>4 DEF AgreesUntil
<1> QED
  BY <1>2, <1>3, <1>5, <1>6, Going

LEMMA ChangeLandsInv ==
  ASSUME WorkInv, NEW w \in waits, ChangeLands(w), UNCHANGED <<jobs, calm>>
  PROVE  WorkInv'
<1>0. /\ w \in TaskSet /\ PageType /\ w.job \in 0..MaxJobs /\ UNCHANGED draftOf /\ w.at = "change" /\ w.served
      /\ NoSelection \in [id: 0..MaxJobs, deleted: BOOLEAN]
      /\ [id |-> w.job, deleted |-> FALSE] \in [id: 0..MaxJobs, deleted: BOOLEAN]
  BY LandedTypes DEF ChangeLands, form
<1>1. CASE Select(NoSelection) /\ open' = FALSE /\ Go(w, DropDrawer) /\ UNCHANGED creating
  <2>1. PageType' /\ AgreesUntil(DropDrawer)'
    BY <1>0, <1>1, DropTask DEF PageType, AgreesUntil, Select
  <2> QED  BY <1>1, <2>1, DropTask, Going
<1>2. CASE Go(w, DropDrawer) /\ UNCHANGED drawer
  <2>1. PageType' /\ AgreesUntil(DropDrawer)'
    BY <1>0, <1>2, DropTask DEF PageType, AgreesUntil, drawer
  <2> QED  BY <1>2, <2>1, DropTask, Going
<1>3. CASE /\ w.does \in {"toggle", "restore"} /\ Select([id |-> w.job, deleted |-> FALSE])
           /\ creating' \in BOOLEAN /\ open' \in BOOLEAN
           /\ w.does = "restore" \/ ~creating => creating' = FALSE
           /\ w.does = "restore" \/ open => open' = TRUE
           /\ Go(w, Refresh("reload", NoJob))
  <2> DEFINE g == Refresh("reload", NoJob)
  <2>1. g \in TaskSet /\ g.at = "list" /\ g.sel = NoJob
    BY RefreshTask, JobNumbers DEF Deeds
  <2>2. Go(w, g)
    BY <1>3
  <2> HIDE DEF g
  <2>3. PageType'
    BY <1>0, <1>3 DEF PageType, Select
  <2>4. ASSUME AgreesUntil(w) PROVE AgreesUntil(g)'
    <3>1. w.job \in JobIds /\ jobs[w.job] = "live" /\ open /\ ~creating /\ draftOf = w.job
      BY <1>0, <1>3, <2>4 DEF AgreesUntil
    <3>2. selected' = AsServer(w.job)' /\ selected'.id = w.job /\ creating' = FALSE /\ draftOf' = w.job
      BY <1>0, <1>3, <3>1 DEF AsServer, Select
    <3>3. Agree'
      BY <3>1, <3>2 DEF Agree, AgreeBut, AsServer
    <3> QED  BY <2>1, <3>3 DEF AgreesUntil, Reselects
  <2> QED  BY <2>1, <2>2, <2>3, <2>4, Going
<1>4. CASE w.does = "restore" /\ RemovalLands(w)
  BY <1>3, <1>4 DEF RemovalLands
<1>5. CASE ToggleLands(w)
  BY <1>0, <1>3, <1>5 DEF ToggleLands, PageType
<1> QED
  BY <1>1, <1>2, <1>4, <1>5 DEF ChangeLands, RemovalLands

LEMMA PackLandsInv ==
  ASSUME WorkInv, NEW w \in waits, PackLands(w), UNCHANGED <<jobs, calm>>
  PROVE  WorkInv'
<1>0. /\ w \in TaskSet /\ PageType /\ w.does \in Deeds /\ w.sel \in 0..MaxJobs /\ w.at = "pack"
      /\ draftOf' = (IF draftOf = w.draft THEN draftOf ELSE Foreign) /\ UNCHANGED <<selected, creating, open, unsure>>
  BY LandedTypes DEF PackLands, Touched, drawer
<1>1. Foreign \in 0..Foreign
  BY JobNumbers DEF Foreign
<1>2. PageType'
  BY <1>0, <1>1 DEF PageType
<1>3. AgreesUntil(w) => draftOf' = draftOf /\ Agree' /\ Reselects(w)'
  BY <1>0 DEF AgreesUntil, Agree, AgreeBut, Reselects, AsServer
<1>4. CASE Go(w, Refresh(w.does, w.sel))
  <2> DEFINE g == Refresh(w.does, w.sel)
  <2>1. g \in TaskSet /\ g.at = "list" /\ g.sel = w.sel
    BY <1>0, RefreshTask
  <2>2. Go(w, g)
    BY <1>4
  <2> HIDE DEF g
  <2>3. AgreesUntil(w) => AgreesUntil(g)'
    BY <1>3, <2>1 DEF AgreesUntil, Reselects
  <2> QED  BY <1>2, <2>1, <2>2, <2>3, Going
<1>5. CASE Done(w)
  BY <1>2, <1>3, <1>5, Ended
<1> QED
  BY <1>4, <1>5 DEF PackLands

LEMMA RequestFailsInv ==
  ASSUME WorkInv, NEW w \in waits, RequestFails(w), UNCHANGED <<jobs, calm>>
  PROVE  WorkInv'
<1>1. /\ PageType /\ UNCHANGED <<selected, creating, open, draftOf>> /\ Done(w)
      /\ w.at \in {"job", "save", "change", "pack"}
      /\ unsure' = (unsure \/ (calm /\ w.at = "change" /\ w.served /\ w.job = selected.id))
  BY DEF RequestFails, form, WorkInv
<1>2. PageType'
  BY <1>1 DEF PageType, WorkInv
<1>3. calm /\ AgreesUntil(w) => AgreeBut(unsure')
  BY <1>1 DEF AgreesUntil, Agree, AgreeBut
<1>4. AgreeBut(unsure') => Agree'
  BY <1>1 DEF Agree, AgreeBut, AsServer
<1> QED
  BY <1>1, <1>2, <1>3, <1>4, Ended

LEMMA WorkNextInv == WorkInv /\ [WorkNext]_workVars => WorkInv'
<1> SUFFICES ASSUME WorkInv, [WorkNext]_workVars PROVE WorkInv'
  OBVIOUS
<1>1. ASSUME NEW w \in waits, Lands(w) PROVE WorkInv'
  BY <1>1, OpenJobLandsInv, RefreshLandsInv, SaveLandsInv, ChangeLandsInv, PackLandsInv, RequestFailsInv
  DEF Lands, backend
<1>2. CASE UNCHANGED workVars
  BY <1>2 DEF workVars, WorkInv, PageType, AgreesUntil, Agree, AgreeBut, Reselects, AsServer
<1> QED
  BY <1>1, <1>2, UserWorkInv, ServeWorkInv DEF WorkNext

\* When no handler was begun while another one waited, an open workspace is of
\* one job, whichever requests failed and whether or not the server had done what
\* they asked: the draft is of the selected job, which is as the server has it
\* unless a change of it was reported as failed although it was made; or nothing
\* is selected and the draft is of a new job.  For any jobs, packs and number of
\* handlers (useJobsPageState.tsx, useJobsActions.ts).
THEOREM WorkspaceIsOfOneJob ==
  WorkInit /\ [][WorkNext]_workVars => []WorkspaceAgrees
<1>1. WorkInv => WorkspaceAgrees
  BY JobNumbers DEF WorkInv, Agree, AgreeBut, WorkspaceAgrees, NoSelection
<1> QED
  BY WorkInitInv, WorkNextInv, <1>1, PTL

-----------------------------------------------------------------------------
(* JobSelection: a ticked job is judged as the list last showed it *)

\* A handler at an await has what it does and the ticks it knows.
Waits(w) == {"does", "known"} \subseteq DOMAIN w

SelectionType ==
  /\ selectedIds \subseteq Listed /\ OnList \subseteq Listed
  /\ deletedById \in [Listed -> Flags] /\ lastShown \in [Listed -> Flags]
  /\ \A w \in pending : Waits(w)

\* A user who is patient acts when no handler waits.
OnePending == \A v, w \in pending : v = w

\* A load knows the ticks there are when it is answered, and what is on the
\* list is what was last shown of it.
LoadKnowsTicks == \A w \in pending : w.does = "load" => selectedIds \subseteq w.known
ListIsLastShown == \A j \in OnList : listRows[j] = lastShown[j]

TicksInv ==
  SelectionType /\ OnePending /\ LoadKnowsTicks /\ ListIsLastShown /\ FlagsAsLastShown

LEMMA LoadWaits ==
  ASSUME NEW pg, NEW st, NEW fallback
  PROVE  /\ Waits(Load(pg, st, fallback)) /\ Load(pg, st, fallback).does = "load"
         /\ Load(pg, st, fallback).known = selectedIds
BY DEF Load, Wait, Waits

LEMMA ListInitInv == ListInit => TicksInv
BY DEF ListInit, TicksInv, SelectionType, OnePending, LoadKnowsTicks, ListIsLastShown, FlagsAsLastShown,
       Wait, Waits, OnList, NoRows, Flags

\* A handler begins: it is the only one.
LEMMA BeginsLoad ==
  ASSUME TicksInv, pending = {}, NEW w, Waits(w), Begin(w),
         w.does = "load" => selectedIds \subseteq w.known,
         UNCHANGED <<selectedIds, deletedById, listRows, lastShown>>
  PROVE  TicksInv'
<1>1. pending' = {w}
  BY DEF Begin
<1> QED
  BY <1>1 DEF TicksInv, SelectionType, OnePending, LoadKnowsTicks, ListIsLastShown, FlagsAsLastShown, OnList

LEMMA BeginsCleared ==
  ASSUME TicksInv, pending = {}, NEW w, Waits(w), Begin(w), ClearSelection, UNCHANGED <<listRows, lastShown>>
  PROVE  TicksInv'
<1>1. pending' = {w} /\ selectedIds' = {} /\ deletedById' = [j \in Listed |-> "unknown"]
  BY DEF Begin, ClearSelection
<1> QED
  BY <1>1 DEF TicksInv, SelectionType, OnePending, LoadKnowsTicks, ListIsLastShown, FlagsAsLastShown, OnList, Flags

\* The ticks change while nothing waits.
LEMMA TicksChange ==
  ASSUME TicksInv, pending = {}, UNCHANGED <<pending, listRows, lastShown>>,
         selectedIds' \subseteq Listed, deletedById' \in [Listed -> Flags],
         \A j \in selectedIds' : deletedById'[j] = lastShown[j]
  PROVE  TicksInv'
BY DEF TicksInv, SelectionType, OnePending, LoadKnowsTicks, ListIsLastShown, FlagsAsLastShown, OnList

LEMMA UserTicksInv ==
  ASSUME Impatient = FALSE, TicksInv,
         \/ SubmitQuery \/ StatusChange \/ PageChange \/ SilentRefresh
         \/ ToggleRowSelection \/ TogglePageSelection \/ SelectAllMatchingJobs \/ ClearButton
         \/ HandleBatchAction \/ WorkspaceChanges
  PROVE  TicksInv'
<1>0. pending = {}
  BY DEF SubmitQuery, StatusChange, PageChange, SilentRefresh, ToggleRowSelection, TogglePageSelection,
         SelectAllMatchingJobs, ClearButton, HandleBatchAction, WorkspaceChanges, Acts
<1>1. CASE SubmitQuery
  BY <1>0, <1>1, LoadWaits, BeginsCleared DEF SubmitQuery
<1>2. CASE StatusChange
  <2>1. PICK st \in Statuses : /\ ClearSelection /\ Begin(Load(1, st, TRUE)) /\ UNCHANGED <<listRows, lastShown>>
    BY <1>2 DEF StatusChange
  <2> QED  BY <1>0, <2>1, LoadWaits, BeginsCleared
<1>3. CASE PageChange
  <2>1. PICK pg : Begin(Load(pg, status, TRUE))
    BY <1>3 DEF PageChange
  <2> QED  BY <1>0, <1>3, <2>1, LoadWaits, BeginsLoad DEF PageChange, ticks
<1>4. CASE SilentRefresh
  <2> DEFINE w == [Load(listPage, status, TRUE) EXCEPT !.silent = TRUE]
  <2>1. Waits(w) /\ w.known = selectedIds
    BY DEF Load, Wait, Waits
  <2> HIDE DEF w
  <2>2. Begin(w)
    BY <1>4 DEF SilentRefresh, w
  <2> QED  BY <1>0, <1>4, <2>1, <2>2, BeginsLoad DEF SilentRefresh, ticks
<1>5. CASE ToggleRowSelection
  <2>1. UNCHANGED <<pending, listRows, lastShown>>
    BY <1>5 DEF ToggleRowSelection, list
  <2>2. PICK j \in OnList :
          IF allMatchingSelected THEN ClearSelection
          ELSE /\ selectedIds' = IF j \in selectedIds THEN selectedIds \ {j} ELSE selectedIds \cup {j}
               /\ deletedById' = [deletedById EXCEPT ![j] = IF j \in selectedIds THEN "unknown" ELSE listRows[j]]
    BY <1>5 DEF ToggleRowSelection
  <2>3. CASE ClearSelection
    BY <1>0, <2>1, <2>3, TicksChange DEF ClearSelection, Flags
  <2>4. CASE selectedIds' = selectedIds \ {j} /\ deletedById' = [deletedById EXCEPT ![j] = "unknown"]
    BY <1>0, <2>1, <2>4, TicksChange DEF TicksInv, SelectionType, FlagsAsLastShown, Flags
  <2>5. CASE selectedIds' = selectedIds \cup {j} /\ deletedById' = [deletedById EXCEPT ![j] = listRows[j]]
    BY <1>0, <2>1, <2>2, <2>5, TicksChange DEF TicksInv, SelectionType, FlagsAsLastShown, ListIsLastShown
  <2> QED  BY <2>2, <2>3, <2>4, <2>5
<1>6. CASE TogglePageSelection
  <2>1. UNCHANGED <<pending, listRows, lastShown>>
    BY <1>6 DEF TogglePageSelection, list
  <2>2. CASE ClearSelection
    BY <1>0, <2>1, <2>2, TicksChange DEF ClearSelection, Flags
  <2>3. CASE /\ selectedIds' = selectedIds \cup OnList
             /\ deletedById' = [j \in Listed |-> IF j \in OnList THEN listRows[j] ELSE deletedById[j]]
    BY <1>0, <2>1, <2>3, TicksChange DEF TicksInv, SelectionType, FlagsAsLastShown, ListIsLastShown
  <2> QED  BY <1>6, <2>2, <2>3 DEF TogglePageSelection
<1>7. CASE SelectAllMatchingJobs
  BY <1>0, <1>7, TicksChange DEF SelectAllMatchingJobs, list, TicksInv, SelectionType
<1>8. CASE ClearButton
  BY <1>0, <1>8, TicksChange DEF ClearButton, ClearSelection, list, Flags
<1>9. CASE HandleBatchAction
  <2>1. PICK action \in BatchSpecs[status] :
          Begin([Wait(action, listPage, status) EXCEPT
                   !.known = selectedIds, !.all = allMatchingSelected, !.ids = selectedIds])
    BY <1>9 DEF HandleBatchAction
  <2> DEFINE w == [Wait(action, listPage, status) EXCEPT
                     !.known = selectedIds, !.all = allMatchingSelected, !.ids = selectedIds]
  <2>2. Waits(w) /\ w.known = selectedIds
    BY DEF Wait, Waits
  <2>3. Begin(w)
    BY <2>1
  <2> HIDE DEF w
  <2> QED  BY <1>0, <1>9, <2>2, <2>3, BeginsLoad DEF HandleBatchAction, ticks
<1>10. CASE WorkspaceChanges
  <2>1. PICK pg, st : Begin(Load(pg, st, TRUE))
    BY <1>10 DEF WorkspaceChanges
  <2>2. UNCHANGED <<selectedIds, deletedById, listRows, lastShown>>
    BY <1>10 DEF WorkspaceChanges, ticks
  <2>3. Waits(Load(pg, st, TRUE)) /\ Load(pg, st, TRUE).known = selectedIds
    BY LoadWaits
  <2> QED  BY <1>0, <2>1, <2>2, <2>3, BeginsLoad
<1> QED
  BY <1>1, <1>2, <1>3, <1>4, <1>5, <1>6, <1>7, <1>8, <1>9, <1>10

\* The only handler goes on as another one, or ends.
LEMMA PendingGoesOn ==
  ASSUME TicksInv, NEW w \in pending, NEW v
  PROVE  (pending \ {w}) \cup {v} = {v} /\ pending \ {w} = {}
BY DEF TicksInv, OnePending

LEMMA ServeBatchInv ==
  ASSUME TicksInv, NEW w \in pending, ServeBatch(w)
  PROVE  TicksInv'
<1>1. /\ w.does # "load" /\ Waits(w) /\ UNCHANGED <<selectedIds, deletedById, listRows, lastShown>>
  BY DEF ServeBatch, Effect, list, ticks, TicksInv, SelectionType
<1>2. ASSUME NEW v, Waits(v), v.does = w.does, pending' = (pending \ {w}) \cup {v}
      PROVE  TicksInv'
  <2>1. pending' = {v}
    BY <1>2, PendingGoesOn
  <2> QED  BY <1>1, <1>2, <2>1
           DEF TicksInv, SelectionType, OnePending, LoadKnowsTicks, ListIsLastShown, FlagsAsLastShown, OnList
<1>3. CASE pending' = (pending \ {w}) \cup {[w EXCEPT !.served = TRUE, !.done = TRUE]}
  <2> DEFINE v == [w EXCEPT !.served = TRUE, !.done = TRUE]
  <2>1. Waits(v) /\ v.does = w.does
    BY <1>1 DEF Waits
  <2> HIDE DEF v
  <2>2. pending' = (pending \ {w}) \cup {v}
    BY <1>3 DEF v
  <2> QED  BY <1>2, <2>1, <2>2
<1>4. CASE pending' = (pending \ {w}) \cup {[w EXCEPT !.served = TRUE]}
  <2> DEFINE v == [w EXCEPT !.served = TRUE]
  <2>1. Waits(v) /\ v.does = w.does
    BY <1>1 DEF Waits
  <2> HIDE DEF v
  <2>2. pending' = (pending \ {w}) \cup {v}
    BY <1>4 DEF v
  <2> QED  BY <1>2, <2>1, <2>2
<1> QED
  BY <1>3, <1>4 DEF ServeBatch

\* What is shown is what the ticks on the page are judged by.
LEMMA ShowInv ==
  ASSUME TicksInv, NEW w \in pending, w.does = "load", pending' = {}, UNCHANGED selectedIds,
         NEW shown \in Pages(w.page, w.status), Show(w, shown)
  PROVE  TicksInv'
<1> DEFINE items == [j \in shown |-> store[j]]
<1>1. shown \subseteq Listed /\ \A j \in shown : store[j] \in Flags
  BY DEF Pages, Matching, Matches, Flags
<1>2. /\ listRows' = items
      /\ lastShown' = [j \in Listed |-> IF j \in shown THEN items[j] ELSE lastShown[j]]
      /\ deletedById' = [j \in Listed |-> IF j \in w.known /\ j \in DOMAIN items THEN items[j] ELSE deletedById[j]]
  BY DEF Show, SyncSelectedDeleted
<1>3. DOMAIN items = shown /\ \A j \in shown : items[j] \in Flags
  BY <1>1
<1> HIDE DEF items
<1>4. selectedIds \subseteq w.known
  BY DEF TicksInv, LoadKnowsTicks
<1> QED
  BY <1>1, <1>2, <1>3, <1>4
  DEF TicksInv, SelectionType, OnePending, LoadKnowsTicks, ListIsLastShown, FlagsAsLastShown, OnList

LEMMA ListLandsInv ==
  ASSUME TicksInv, NEW w \in pending, ListLands(w)
  PROVE  TicksInv'
<1>0. w.does = "load" /\ Waits(w) /\ selectedIds' = selectedIds /\ selectedIds \subseteq w.known
  BY DEF ListLands, TicksInv, SelectionType, LoadKnowsTicks
<1>1. CASE /\ pending' = (pending \ {w}) \cup {[w EXCEPT !.page = 1, !.fallback = FALSE]}
           /\ UNCHANGED <<listRows, lastShown, deletedById>>
  <2> DEFINE v == [w EXCEPT !.page = 1, !.fallback = FALSE]
  <2>1. Waits(v) /\ v.known = w.known
    BY <1>0 DEF Waits
  <2> HIDE DEF v
  <2>2. pending' = {v}
    BY <1>1, PendingGoesOn DEF v
  <2> QED  BY <1>0, <1>1, <2>1, <2>2
           DEF TicksInv, SelectionType, OnePending, LoadKnowsTicks, ListIsLastShown, FlagsAsLastShown, OnList
<1>2. CASE (\E shown \in Pages(w.page, w.status) : Show(w, shown)) /\ pending' = pending \ {w}
  <2>1. pending' = {}
    BY <1>2, PendingGoesOn
  <2> QED  BY <1>0, <1>2, <2>1, ShowInv
<1>3. CASE listRows' = NoRows /\ pending' = pending \ {w} /\ UNCHANGED <<lastShown, deletedById>>
  <2>1. pending' = {} /\ DOMAIN listRows' = {}
    BY <1>3, PendingGoesOn DEF NoRows
  <2> QED  BY <1>0, <1>3, <2>1
           DEF TicksInv, SelectionType, OnePending, LoadKnowsTicks, ListIsLastShown, FlagsAsLastShown, OnList
<1> QED
  BY <1>1, <1>2, <1>3 DEF ListLands

LEMMA BatchLandsInv ==
  ASSUME TicksInv, NEW w \in pending, BatchLands(w)
  PROVE  TicksInv'
<1>1. UNCHANGED <<listRows, lastShown>>
  BY DEF BatchLands
<1>2. CASE w.done
  <2>1. PICK v : Waits(v) /\ pending' = (pending \ {w}) \cup {v}
    <3> DEFINE pg == IF w.does = "restore" /\ w.status = "deleted" THEN 1 ELSE w.page
               st == IF w.does = "restore" /\ w.status = "deleted" THEN "all" ELSE w.status
               v == [Load(pg, st, TRUE) EXCEPT !.known = w.known]
    <3>1. pending' = (pending \ {w}) \cup {v}
      BY <1>2 DEF BatchLands
    <3> HIDE DEF pg, st
    <3>2. Waits(v)
      BY DEF Load, Wait, Waits
    <3> QED  BY <3>1, <3>2
  <2>2. pending' = {v}
    BY <2>1, PendingGoesOn
  <2>3. selectedIds' = {} /\ deletedById' = [j \in Listed |-> "unknown"]
    BY <1>2 DEF BatchLands, ClearSelection
  <2> QED  BY <1>1, <2>1, <2>2, <2>3
           DEF TicksInv, SelectionType, OnePending, LoadKnowsTicks, ListIsLastShown, FlagsAsLastShown, OnList, Flags
<1>3. CASE ~w.done
  <2>1. pending' = pending \ {w} /\ UNCHANGED <<selectedIds, deletedById>>
    BY <1>3 DEF BatchLands, ticks
  <2>2. pending' = {}
    BY <2>1, PendingGoesOn
  <2> QED  BY <1>1, <2>1, <2>2
           DEF TicksInv, SelectionType, OnePending, LoadKnowsTicks, ListIsLastShown, FlagsAsLastShown, OnList
<1> QED
  BY <1>2, <1>3

\* A ticked job is judged deleted or not as the list last showed it, on
\* whichever page it is by now, for any number of jobs and rows per page: what
\* "mixed" and the batch actions are decided by is what the user has seen
\* (useJobsSelection.ts).  Of a user who acts when no handler waits; with one
\* who does not, a load that began before a tick does not know it.
THEOREM TicksAreAsShown ==
  ASSUME Impatient = FALSE
  PROVE  ListInit /\ [][ListNext]_listVars => []FlagsAsLastShown
<1>1. ASSUME TicksInv, ListNext PROVE TicksInv'
  BY <1>1, UserTicksInv, ServeBatchInv, ListLandsInv, BatchLandsInv DEF ListNext
<1>2. ASSUME TicksInv, UNCHANGED listVars PROVE TicksInv'
  BY <1>2 DEF listVars, TicksInv, SelectionType, OnePending, LoadKnowsTicks, ListIsLastShown, FlagsAsLastShown, OnList
<1>3. TicksInv => FlagsAsLastShown
  BY DEF TicksInv
<1> QED
  BY ListInitInv, <1>1, <1>2, <1>3, PTL

-----------------------------------------------------------------------------
(* ManualDraft: a draft that is called unmodified is saved *)

PackNames == DraftPacks \cup {DefaultDraft}

HandlerSet ==
  [does: {"list", "load", "save", "file", "file, save", "delete"},
   at: {"list", "load", "update", "create", "read", "delete"},
   name: PackNames, draft: Drafts, list: SUBSET PackNames, answer: {"wait", "ok", "error"}]

DraftType ==
  /\ DOMAIN stored \subseteq PackNames /\ \A p \in DOMAIN stored : stored[p] \in Drafts
  /\ draft \in Drafts /\ current \in [name: PackNames, draft: Drafts]
  /\ listed \subseteq PackNames /\ picked \in PackNames
  /\ handlers \subseteq HandlerSet

OneHandler == \A g, h \in handlers : g = h

\* The pack a handler was answered is the one that is stored.
AnswerIsStored ==
  \A h \in handlers :
    /\ h.at = "read" => h.answer = "wait"
    /\ h.at \in {"load", "update", "create"} /\ h.answer = "ok" =>
         Exists(h.name) /\ stored[h.name] = h.draft

\* The server has changed a pack, and the page does not know yet.
Unseen(h) == h.at \in {"update", "create", "delete"} /\ h.answer = "ok"

\* The pack in hand is the one that is stored.
CurrentIsStored ==
  current # Unbound /\ (\A h \in handlers : ~Unseen(h)) =>
    Exists(current.name) /\ stored[current.name] = current.draft

DraftInv == DraftType /\ OneHandler /\ AnswerIsStored /\ CurrentIsStored

LEMMA Normalized == ASSUME NEW d \in Drafts PROVE Normal(d) \in Drafts
BY ManualDraftAssumption DEF Normal, Drafts

LEMMA BlankIsDraft == BlankDraft \in Drafts /\ Unbound \in [name: PackNames, draft: Drafts] /\ Unbound.name = DefaultDraft
BY ManualDraftAssumption DEF Unbound, PackNames

LEMMA NewHandler ==
  ASSUME NEW does \in {"list", "load", "save", "file", "file, save", "delete"},
         NEW at \in {"list", "load", "update", "create", "read", "delete"}
  PROVE  /\ Handler(does, at) \in HandlerSet /\ Handler(does, at).at = at
         /\ Handler(does, at).answer = "wait"
BY BlankIsDraft DEF Handler, HandlerSet, PackNames

LEMMA DraftInitInv == DraftInit => DraftInv
<1> SUFFICES ASSUME DraftInit PROVE DraftInv
  OBVIOUS
<1>1. DraftType
  <2>1. handlers \subseteq HandlerSet
    BY BlankIsDraft DEF DraftInit, Handler, HandlerSet, PackNames
  <2>2. DOMAIN stored \subseteq PackNames /\ \A p \in DOMAIN stored : stored[p] \in Drafts
    BY BlankIsDraft, ManualDraftAssumption DEF DraftInit, PackNames
  <2> QED  BY <2>1, <2>2, BlankIsDraft DEF DraftInit, DraftType, PackNames
<1>2. AnswerIsStored
  BY DEF DraftInit, AnswerIsStored, Handler
<1> QED
  BY <1>1, <1>2 DEF DraftInit, DraftInv, OneHandler, CurrentIsStored

\* With one handler at a time, a handler begins when none waits.
LEMMA NoneWaits ==
  ASSUME MaxHandlers = 1, OneHandler, NEW h, Awaits(h)
  PROVE  handlers = {} /\ handlers' = {h}
<1>1. Cardinality(handlers) < 1 /\ handlers' = handlers \cup {h}
  BY DEF Awaits
<1>2. ASSUME NEW g \in handlers PROVE FALSE
  <2>1. handlers = {g}
    BY DEF OneHandler
  <2>2. Cardinality({g}) = 1
    BY FS_Singleton
  <2> QED  BY <1>1, <2>1, <2>2
<1> QED
  BY <1>1, <1>2

LEMMA BeginsHandler ==
  ASSUME MaxHandlers = 1, DraftInv, NEW h \in HandlerSet, h.answer = "wait", Awaits(h),
         UNCHANGED <<stored, draft, current, listed, picked>>
  PROVE  DraftInv'
<1>1. handlers = {} /\ handlers' = {h}
  BY NoneWaits DEF DraftInv
<1> QED
  BY <1>1 DEF DraftInv, DraftType, OneHandler, AnswerIsStored, CurrentIsStored, Exists, Unseen

LEMMA PageStepInv ==
  ASSUME DraftInv, UNCHANGED <<stored, handlers, listed>>, draft' \in Drafts, picked' \in PackNames,
         current' \in {current, Unbound}
  PROVE  DraftInv'
BY BlankIsDraft DEF DraftInv, DraftType, OneHandler, AnswerIsStored, CurrentIsStored, Exists

\* What the user does.
LEMMA UserDraftInv ==
  ASSUME MaxHandlers = 1, DraftInv,
         \/ EditDraft \/ PickPack \/ ResetDraft
         \/ RefreshTaskPacks \/ ImportSelectedPack \/ SavePack \/ ChooseFile \/ HandleDeleteCurrentPack
  PROVE  DraftInv'
<1> USE DEF DraftInv, DraftType
<1>1. CASE EditDraft
  BY <1>1, PageStepInv DEF EditDraft
<1>2. CASE PickPack
  BY <1>2, PageStepInv DEF PickPack, PackNames
<1>3. CASE ResetDraft
  BY <1>3, PageStepInv, BlankIsDraft DEF ResetDraft, ResetToBlankDraft, PackNames
<1>4. CASE RefreshTaskPacks
  BY <1>4, NewHandler, BeginsHandler DEF RefreshTaskPacks
<1>5. CASE ImportSelectedPack
  <2>1. CASE picked = DefaultDraft /\ ResetToBlankDraft /\ UNCHANGED handlers
    BY <1>5, <2>1, PageStepInv, BlankIsDraft DEF ImportSelectedPack, ResetToBlankDraft, PackNames
  <2>2. CASE Awaits([Handler("load", "load") EXCEPT !.name = picked]) /\ UNCHANGED <<draft, current, picked>>
    <3> DEFINE h == [Handler("load", "load") EXCEPT !.name = picked]
    <3>1. h \in HandlerSet /\ h.answer = "wait"
      BY BlankIsDraft DEF Handler, HandlerSet, PackNames
    <3> HIDE DEF h
    <3>2. Awaits(h)
      BY <2>2 DEF h
    <3> QED  BY <1>5, <2>2, <3>1, <3>2, BeginsHandler DEF ImportSelectedPack
  <2> QED  BY <1>5, <2>1, <2>2 DEF ImportSelectedPack
<1>6. CASE SavePack
  <2>1. ASSUME NEW at \in {"update", "create"}, NEW name \in PackNames,
               Awaits([Handler("save", at) EXCEPT !.name = name, !.draft = draft])
        PROVE  DraftInv'
    <3> DEFINE h == [Handler("save", at) EXCEPT !.name = name, !.draft = draft]
    <3>1. h \in HandlerSet /\ h.answer = "wait"
      BY BlankIsDraft DEF Handler, HandlerSet, PackNames
    <3> HIDE DEF h
    <3>2. Awaits(h)
      BY <2>1 DEF h
    <3> QED  BY <1>6, <3>1, <3>2, BeginsHandler DEF SavePack
  <2>2. CASE Awaits([Handler("save", "update") EXCEPT !.name = current.name, !.draft = draft])
    BY <2>1, <2>2
  <2>3. ASSUME NEW name \in DraftPacks, Awaits([Handler("save", "create") EXCEPT !.name = name, !.draft = draft])
        PROVE  DraftInv'
    BY <2>1, <2>3 DEF PackNames
  <2> QED  BY <1>6, <2>2, <2>3 DEF SavePack
<1>7. CASE ChooseFile
  <2>1. PICK does \in {"file", "file, save"} : Awaits(Handler(does, "read"))
    BY <1>7 DEF ChooseFile
  <2>2. Handler(does, "read") \in HandlerSet /\ Handler(does, "read").answer = "wait"
    BY BlankIsDraft DEF Handler, HandlerSet, PackNames
  <2> QED  BY <1>7, <2>1, <2>2, BeginsHandler DEF ChooseFile
<1>8. CASE HandleDeleteCurrentPack
  <2> DEFINE h == [Handler("delete", "delete") EXCEPT !.name = current.name]
  <2>1. h \in HandlerSet /\ h.answer = "wait"
    BY BlankIsDraft DEF Handler, HandlerSet, PackNames
  <2> HIDE DEF h
  <2>2. Awaits(h)
    BY <1>8 DEF HandleDeleteCurrentPack, h
  <2> QED  BY <1>8, <2>1, <2>2, BeginsHandler DEF HandleDeleteCurrentPack
<1> QED
  BY <1>1, <1>2, <1>3, <1>4, <1>5, <1>6, <1>7, <1>8

\* The only handler goes on as another one, or ends.
LEMMA GoingOn ==
  ASSUME DraftInv, NEW h \in handlers, NEW g, GoesOn(h, g)
  PROVE  handlers = {h} /\ handlers' = {g}
BY DEF GoesOn, DraftInv, OneHandler

LEMMA Ending ==
  ASSUME DraftInv, NEW h \in handlers, Ends(h)
  PROVE  handlers = {h} /\ handlers' = {}
BY DEF Ends, DraftInv, OneHandler

LEMMA StoringType ==
  ASSUME DraftInv, NEW name \in PackNames, NEW content \in Drafts, Stores(name, content)
  PROVE  /\ DOMAIN stored' \subseteq PackNames /\ \A p \in DOMAIN stored' : stored'[p] \in Drafts
         /\ Exists(name)' /\ stored'[name] = content
         /\ \A p \in DOMAIN stored \ {name} : p \in DOMAIN stored' /\ stored'[p] = stored[p]
BY DEF Stores, DraftInv, DraftType, Exists

\* A handler that has changed nothing at the server.
LEMMA Answered1 ==
  ASSUME DraftInv, NEW h \in handlers, NEW g \in HandlerSet, GoesOn(h, g),
         ~Unseen(h), g.at = "read" => g.answer = "wait",
         g.at \in {"load", "update", "create"} /\ g.answer = "ok" => Exists(g.name) /\ stored[g.name] = g.draft,
         UNCHANGED <<stored, draft, current, listed, picked>>
  PROVE  DraftInv'
<1>1. handlers = {h} /\ handlers' = {g}
  BY GoingOn
<1> QED
  BY <1>1 DEF DraftInv, DraftType, OneHandler, AnswerIsStored, CurrentIsStored, Exists

LEMMA ServeDraftInv ==
  ASSUME DraftInv, NEW h \in handlers, ServeDraft(h)
  PROVE  DraftInv'
<1>1. /\ h.answer = "wait" /\ h.at # "read" /\ ~Unseen(h) /\ h \in HandlerSet
      /\ UNCHANGED <<draft, current, listed, picked>>
  BY DEF ServeDraft, Unseen, DraftInv, DraftType
<1>2. CASE GoesOn(h, [h EXCEPT !.answer = "error"]) /\ UNCHANGED stored
  <2> DEFINE g == [h EXCEPT !.answer = "error"]
  <2>1. g \in HandlerSet /\ g.answer = "error" /\ g.at = h.at
    BY <1>1 DEF HandlerSet
  <2> HIDE DEF g
  <2>2. GoesOn(h, g)
    BY <1>2 DEF g
  <2> QED  BY <1>1, <1>2, <2>1, <2>2, Answered1
<1>3. CASE h.at = "list" /\ GoesOn(h, [h EXCEPT !.answer = "ok", !.list = DOMAIN stored]) /\ UNCHANGED stored
  <2> DEFINE g == [h EXCEPT !.answer = "ok", !.list = DOMAIN stored]
  <2>1. g \in HandlerSet /\ g.at = "list"
    BY <1>1, <1>3 DEF HandlerSet, DraftInv, DraftType
  <2> HIDE DEF g
  <2>2. GoesOn(h, g)
    BY <1>3 DEF g
  <2> QED  BY <1>1, <1>3, <2>1, <2>2, Answered1
<1>4. ASSUME NEW content \in Drafts, Answers(h, content)
      PROVE  \E g \in HandlerSet : /\ GoesOn(h, g) /\ g.answer = "ok" /\ g.at = h.at /\ g.name = h.name
                                   /\ g.draft = content
  <2> DEFINE g == [h EXCEPT !.answer = "ok", !.draft = content]
  <2>1. g \in HandlerSet /\ g.answer = "ok" /\ g.at = h.at /\ g.name = h.name /\ g.draft = content
    BY <1>1 DEF HandlerSet
  <2> HIDE DEF g
  <2>2. GoesOn(h, g)
    BY <1>4 DEF g, Answers
  <2> QED  BY <2>1, <2>2
<1>5. CASE h.at = "load" /\ Exists(h.name) /\ Answers(h, stored[h.name]) /\ UNCHANGED stored
  <2>1. stored[h.name] \in Drafts
    BY <1>5 DEF DraftInv, DraftType, Exists
  <2>2. PICK g \in HandlerSet : /\ GoesOn(h, g) /\ g.answer = "ok" /\ g.at = h.at /\ g.name = h.name
                                /\ g.draft = stored[h.name]
    BY <1>4, <1>5, <2>1
  <2> QED  BY <1>1, <1>5, <2>2, Answered1
<1>6. CASE /\ h.at = (IF Exists(h.name) THEN "update" ELSE "create")
           /\ Stores(h.name, Normal(h.draft)) /\ Answers(h, Normal(h.draft))
  <2>1. Normal(h.draft) \in Drafts /\ h.name \in PackNames
    BY <1>1, Normalized DEF HandlerSet
  <2>2. PICK g \in HandlerSet : /\ GoesOn(h, g) /\ g.answer = "ok" /\ g.at = h.at /\ g.name = h.name
                                /\ g.draft = Normal(h.draft)
    BY <1>4, <1>6, <2>1
  <2>3. g.at \in {"update", "create"} /\ Unseen(g)
    BY <1>6, <2>2 DEF Unseen
  <2>4. handlers = {h} /\ handlers' = {g}
    BY <2>2, GoingOn
  <2>5. /\ DOMAIN stored' \subseteq PackNames /\ \A p \in DOMAIN stored' : stored'[p] \in Drafts
        /\ Exists(h.name)' /\ stored'[h.name] = Normal(h.draft)
    BY <1>6, <2>1, StoringType
  <2> QED  BY <1>1, <2>2, <2>3, <2>4, <2>5 DEF DraftInv, DraftType, OneHandler, AnswerIsStored, CurrentIsStored, Exists
<1>7. CASE /\ h.at = "delete" /\ Exists(h.name) /\ h.name \notin PinnedPacks
           /\ stored' = [p \in DOMAIN stored \ {h.name} |-> stored[p]]
           /\ Answers(h, BlankDraft)
  <2>1. PICK g \in HandlerSet : GoesOn(h, g) /\ g.answer = "ok" /\ g.at = "delete"
    BY <1>4, <1>7, BlankIsDraft
  <2>2. Unseen(g) /\ handlers' = {g}
    BY <2>1, GoingOn DEF Unseen
  <2>3. DOMAIN stored' \subseteq PackNames /\ \A p \in DOMAIN stored' : stored'[p] \in Drafts
    BY <1>7 DEF DraftInv, DraftType
  <2> QED  BY <1>1, <2>1, <2>2, <2>3 DEF DraftInv, DraftType, OneHandler, AnswerIsStored, CurrentIsStored
<1> QED
  BY <1>2, <1>3, <1>5, <1>6, <1>7 DEF ServeDraft

\* The file is read: the draft is replaced, or a pack is created from it.
LEMMA FileReadInv ==
  ASSUME DraftInv, NEW h \in handlers, FileRead(h)
  PROVE  DraftInv'
<1>1. h \in HandlerSet /\ h.answer = "wait" /\ ~Unseen(h) /\ UNCHANGED <<stored, listed>>
  BY DEF FileRead, Unseen, DraftInv, DraftType, AnswerIsStored
<1>2. CASE Ends(h) /\ UNCHANGED <<draft, current, picked>>
  <2>1. handlers = {h} /\ handlers' = {}
    BY <1>2, Ending
  <2> QED  BY <1>1, <1>2, <2>1 DEF DraftInv, DraftType, OneHandler, AnswerIsStored, CurrentIsStored, Exists
<1>3. CASE draft' \in Drafts /\ current' = Unbound /\ picked' = DefaultDraft /\ Ends(h)
  <2>1. handlers = {h} /\ handlers' = {}
    BY <1>3, Ending
  <2> QED  BY <1>1, <1>3, <2>1, BlankIsDraft
           DEF DraftInv, DraftType, OneHandler, AnswerIsStored, CurrentIsStored, Exists, PackNames
<1>4. ASSUME NEW name \in DraftPacks, NEW content \in Drafts, UNCHANGED <<draft, current, picked>>,
             GoesOn(h, [h EXCEPT !.at = "create", !.name = name, !.draft = content])
      PROVE  DraftInv'
  <2> DEFINE g == [h EXCEPT !.at = "create", !.name = name, !.draft = content]
  <2>1. g \in HandlerSet /\ g.at = "create" /\ g.answer = "wait"
    BY <1>1 DEF HandlerSet, PackNames
  <2> HIDE DEF g
  <2>2. GoesOn(h, g)
    BY <1>4 DEF g
  <2> QED  BY <1>1, <1>4, <2>1, <2>2, Answered1
<1>5. CASE \E content \in Drafts, name \in DraftPacks :
             /\ GoesOn(h, [h EXCEPT !.at = "create", !.name = name, !.draft = content])
             /\ UNCHANGED <<draft, current, picked>>
  BY <1>4, <1>5
<1> QED
  BY <1>2, <1>3, <1>5 DEF FileRead

\* A pack that was answered, loaded or saved, is in hand.
LEMMA BoundInv ==
  ASSUME DraftInv, NEW h \in handlers, h.at \in {"load", "update", "create"}, h.answer = "ok",
         Binds(h.name, h.draft), draft' \in Drafts, UNCHANGED <<stored, listed>>,
         \/ handlers' = {}
         \/ \E g \in HandlerSet : handlers' = {g} /\ g.at = "list"
  PROVE  DraftInv'
<1>1. /\ Exists(h.name) /\ stored[h.name] = h.draft /\ h.name \in PackNames /\ h.draft \in Drafts
      /\ current' = [name |-> h.name, draft |-> h.draft] /\ picked' = h.name
  BY DEF DraftInv, DraftType, AnswerIsStored, HandlerSet, Binds
<1>2. current' \in [name: PackNames, draft: Drafts] /\ current'.name = h.name /\ current'.draft = h.draft
  BY <1>1
<1> QED
  BY <1>1, <1>2 DEF DraftInv, DraftType, OneHandler, AnswerIsStored, CurrentIsStored, Exists

LEMMA PackLoadedInv ==
  ASSUME DraftInv, NEW h \in handlers, PackLoaded(h), UNCHANGED stored
  PROVE  DraftInv'
<1>1. h.at = "load" /\ h.answer = "ok" /\ Binds(h.name, h.draft) /\ draft' = h.draft /\ UNCHANGED listed
  BY DEF PackLoaded
<1>2. handlers' = {}
  BY Ending DEF PackLoaded
<1>3. h.draft \in Drafts
  BY DEF DraftInv, DraftType, HandlerSet
<1> QED
  BY <1>1, <1>2, <1>3, BoundInv

LEMMA PackSavedInv ==
  ASSUME DraftInv, NEW h \in handlers, PackSaved(h), UNCHANGED stored
  PROVE  DraftInv'
<1>1. /\ h.at \in {"update", "create"} /\ h.answer = "ok" /\ Binds(h.name, h.draft) /\ UNCHANGED listed
      /\ draft' = IF h.does = "save" THEN [draft EXCEPT !.rest = h.draft.rest] ELSE h.draft
      /\ GoesOn(h, Handler("save", "list"))
  BY DEF PackSaved, PackInHand
<1>2. h.draft \in Drafts /\ draft \in Drafts
  BY DEF DraftInv, DraftType, HandlerSet
<1>3. draft' \in Drafts
  BY <1>1, <1>2 DEF Drafts
<1>4. Handler("save", "list") \in HandlerSet /\ Handler("save", "list").at = "list"
  BY NewHandler
<1>5. handlers' = {Handler("save", "list")}
  BY <1>1, GoingOn
<1> QED
  BY <1>1, <1>3, <1>4, <1>5, BoundInv

LEMMA PackDeletedInv ==
  ASSUME DraftInv, NEW h \in handlers, PackDeleted(h), UNCHANGED stored
  PROVE  DraftInv'
<1>1. draft' = BlankDraft /\ current' = Unbound /\ picked' = DefaultDraft /\ UNCHANGED listed
  BY DEF PackDeleted, ResetToBlankDraft
<1>2. /\ Handler("delete", "list") \in HandlerSet /\ Handler("delete", "list").at = "list"
      /\ Handler("delete", "list").answer = "wait"
  BY NewHandler
<1>3. handlers' = {Handler("delete", "list")}
  BY GoingOn DEF PackDeleted
<1> QED
  BY <1>1, <1>2, <1>3, BlankIsDraft
  DEF DraftInv, DraftType, OneHandler, AnswerIsStored, CurrentIsStored, Exists, PackNames

LEMMA ListAnsweredInv ==
  ASSUME DraftInv, NEW h \in handlers, ListAnswered(h), UNCHANGED stored
  PROVE  DraftInv'
<1>1. /\ h.at = "list" /\ ~Unseen(h) /\ Ends(h) /\ UNCHANGED <<draft, current>>
      /\ listed' = h.list /\ picked' = IF picked \in h.list THEN picked ELSE DefaultDraft
  BY DEF ListAnswered, Finally, Unseen
<1>2. handlers = {h} /\ handlers' = {}
  BY <1>1, Ending
<1>3. listed' \subseteq PackNames /\ picked' \in PackNames
  BY <1>1 DEF DraftInv, DraftType, HandlerSet, PackNames
<1> QED
  BY <1>1, <1>2, <1>3 DEF DraftInv, DraftType, OneHandler, AnswerIsStored, CurrentIsStored, Exists

LEMMA DraftRequestFailsInv ==
  ASSUME DraftInv, NEW h \in handlers, DraftRequestFails(h), UNCHANGED stored
  PROVE  DraftInv'
<1>1. h.answer = "error" /\ ~Unseen(h) /\ Ends(h) /\ UNCHANGED <<draft, current, listed, picked>>
  BY DEF DraftRequestFails, Finally, Unseen
<1>2. handlers = {h} /\ handlers' = {}
  BY <1>1, Ending
<1> QED
  BY <1>1, <1>2 DEF DraftInv, DraftType, OneHandler, AnswerIsStored, CurrentIsStored, Exists

LEMMA DraftNextInv ==
  ASSUME MaxHandlers = 1, DraftInv, DraftNext
  PROVE  DraftInv'
BY UserDraftInv, ServeDraftInv, FileReadInv, PackLoadedInv, PackSavedInv, PackDeletedInv,
   ListAnsweredInv, DraftRequestFailsInv DEF DraftNext

\* When the user lets each handler end, a draft that the page calls "not
\* modified" is what the server has of the pack in hand, for any packs and
\* any drafts, whatever was edited while a handler waited and whichever
\* requests failed (useManualSearchPageState.tsx).
THEOREM CleanDraftIsSaved ==
  ASSUME MaxHandlers = 1
  PROVE  DraftInit /\ [][DraftNext]_draftVars => []CleanMeansSaved
<1>1. ASSUME DraftInv, UNCHANGED draftVars PROVE DraftInv'
  BY <1>1 DEF draftVars, DraftInv, DraftType, OneHandler, AnswerIsStored, CurrentIsStored, Exists, Unseen
<1>2. DraftInv /\ [DraftNext]_draftVars => DraftInv'
  BY <1>1, DraftNextInv
<1>3. DraftInv => CleanMeansSaved
  BY DEF DraftInv, CurrentIsStored, CleanMeansSaved, DraftDirty
<1> QED
  BY DraftInitInv, <1>2, <1>3, PTL

-----------------------------------------------------------------------------
(* SpecDraft: a search specification is in its normal form *)

LEMMA MaxOfTwo == ASSUME NEW a \in Int, NEW b \in Int PROVE Max({a, b}) = IF a >= b THEN a ELSE b
<1>1. \E x \in {a, b} : \A y \in {a, b} : x >= y
  OBVIOUS
<1> QED
  BY <1>1 DEF Max

LEMMA MinOfTwo == ASSUME NEW a \in Int, NEW b \in Int PROVE Min({a, b}) = IF a <= b THEN a ELSE b
<1>1. \E x \in {a, b} : \A y \in {a, b} : x =< y
  OBVIOUS
<1> QED
  BY <1>1 DEF Min

LEMMA Within ==
  ASSUME NEW low \in Int, NEW high \in Int, low <= high, NEW n \in Int
  PROVE  /\ Max({low, n}) \in Int /\ low <= Max({low, n})
         /\ Max({low, n}) = n \/ Max({low, n}) = low
         /\ Min({high, Max({low, n})}) \in low..high
         /\ n \in low..high => Min({high, Max({low, n})}) = n
<1>1. Max({low, n}) \in Int /\ Max({low, n}) = IF low >= n THEN low ELSE n
  BY MaxOfTwo
<1>2. Min({high, Max({low, n})}) = IF high <= Max({low, n}) THEN high ELSE Max({low, n})
  BY <1>1, MinOfTwo
<1> QED
  BY <1>1, <1>2

\* max_results, read and typed
LEMMA ResultsWithin ==
  ASSUME NEW n \in Int
  PROVE  /\ Min({100, Max({1, n})}) \in 1..100 /\ (n \in 1..100 => Min({100, Max({1, n})}) = n)
         /\ n \in 0..100 => Max({1, n}) \in 1..100
<1> DEFINE low == 1
           high == 100
<1>1. low \in Int /\ high \in Int /\ low <= high
  OBVIOUS
<1> HIDE DEF low, high
<1>2. /\ Min({high, Max({low, n})}) \in low..high
      /\ n \in low..high => Min({high, Max({low, n})}) = n
      /\ Max({low, n}) \in Int /\ low <= Max({low, n})
      /\ Max({low, n}) = n \/ Max({low, n}) = low
  BY <1>1, Within
<1> USE DEF low, high
<1>3. n \in 0..100 => Max({1, n}) \in 1..100
  BY <1>2
<1> QED
  BY <1>2, <1>3

\* The normal ranges below a maximum: an open end has no number, the ends of
\* a closed range are in order.
NormalRanges(maximum) ==
  {r \in [mode: Modes, min: Int, max: Int] :
     /\ r.mode = "any" => r.min = Absent /\ r.max = Absent
     /\ r.mode = "gte" => r.min \in 0..maximum /\ r.max = Absent
     /\ r.mode = "lte" => r.min = Absent /\ r.max \in 0..maximum
     /\ r.mode = "between" => r.min \in 0..maximum /\ r.max \in r.min..maximum}

SpecInv ==
  spec \in [days_filter: NormalRanges(MaxDays), views_filter: NormalRanges(Unbounded),
            slice: TimeSlices, max_results: 1..100, raw_query: RawQueries]

LEMMA Clamped ==
  ASSUME NEW n \in Int, NEW maximum \in Nat
  PROVE  Clamp(n, maximum) \in 0..maximum /\ (n \in 0..maximum => Clamp(n, maximum) = n)
BY MaxOfTwo, MinOfTwo DEF Clamp

LEMMA RangeFields ==
  ASSUME NEW mode \in Modes, NEW min \in Int, NEW max \in Int
  PROVE  /\ RangeOf(mode, min, max) \in [mode: Modes, min: Int, max: Int]
         /\ RangeOf(mode, min, max).mode = mode
         /\ RangeOf(mode, min, max).min = min /\ RangeOf(mode, min, max).max = max
BY DEF RangeOf

LEMMA AnyNormal == ASSUME NEW maximum \in Nat PROVE RangeOf("any", Absent, Absent) \in NormalRanges(maximum)
BY RangeFields DEF NormalRanges, Modes, Absent

LEMMA GteNormal ==
  ASSUME NEW maximum \in Nat, NEW n \in 0..maximum
  PROVE  RangeOf("gte", n, Absent) \in NormalRanges(maximum)
<1>1. "gte" \in Modes /\ n \in Int /\ Absent \in Int
  BY DEF Modes, Absent
<1> QED
  BY <1>1, RangeFields DEF NormalRanges

LEMMA LteNormal ==
  ASSUME NEW maximum \in Nat, NEW n \in 0..maximum
  PROVE  RangeOf("lte", Absent, n) \in NormalRanges(maximum)
BY RangeFields DEF NormalRanges, Modes, Absent

LEMMA BetweenNormal ==
  ASSUME NEW maximum \in Nat, NEW m \in 0..maximum, NEW n \in 0..maximum
  PROVE  RangeOf("between", Min({m, n}), Max({m, n})) \in NormalRanges(maximum)
<1>1. Min({m, n}) \in 0..maximum /\ Max({m, n}) \in Min({m, n})..maximum
  BY MaxOfTwo, MinOfTwo
<1> QED
  BY <1>1, RangeFields DEF NormalRanges, Modes

\* What is read is normal, whatever the file holds, if the fallback is.
LEMMA ReadRangeNormal ==
  ASSUME NEW maximum \in Nat, NEW value, value.min \in Int, value.max \in Int,
         NEW fallback \in NormalRanges(maximum), NEW legacy \in Int, NEW legacyMode \in {"gte", "lte"}
  PROVE  NormalizeRange(value, fallback, maximum, legacy, legacyMode) \in NormalRanges(maximum)
<1> DEFINE mode == IF value.mode \in Modes THEN value.mode ELSE fallback.mode
           low == OrElse(value.min, OrElse(fallback.min, 0))
           min == Clamp(low, maximum)
           high == OrElse(value.max, OrElse(fallback.max, min))
           max == Clamp(high, maximum)
           from == OrElse(value.min, OrElse(value.max, OrElse(fallback.min, 0)))
           to == OrElse(value.max, OrElse(value.min, OrElse(fallback.max, 0)))
<1>1. fallback.mode \in Modes /\ fallback.min \in Int /\ fallback.max \in Int
  BY DEF NormalRanges
<1>2. mode \in Modes
  BY <1>1
<1>3. low \in Int /\ from \in Int /\ to \in Int
  BY <1>1 DEF OrElse
<1>4. min \in 0..maximum
  BY <1>3, Clamped
<1>5. high \in Int
  BY <1>1, <1>4 DEF OrElse
<1>6. /\ max \in 0..maximum /\ Clamp(from, maximum) \in 0..maximum /\ Clamp(to, maximum) \in 0..maximum
      /\ Clamp(legacy, maximum) \in 0..maximum
  BY <1>3, <1>5, Clamped
<1>7. NormalizeRange(value, fallback, maximum, legacy, legacyMode) =
        CASE value = None /\ legacy > 0 /\ legacyMode = "gte" -> RangeOf("gte", Clamp(legacy, maximum), Absent)
          [] value = None /\ legacy > 0 /\ legacyMode = "lte" -> RangeOf("lte", Absent, Clamp(legacy, maximum))
          [] value = None /\ legacy <= 0 -> fallback
          [] value # None /\ mode = "gte" -> RangeOf("gte", Clamp(from, maximum), Absent)
          [] value # None /\ mode = "lte" -> RangeOf("lte", Absent, Clamp(to, maximum))
          [] value # None /\ mode = "between" -> RangeOf("between", Min({min, max}), Max({min, max}))
          [] value # None /\ mode = "any" -> RangeOf("any", Absent, Absent)
  BY DEF NormalizeRange
<1> HIDE DEF mode, low, min, high, max, from, to
<1>8. CASE value = None
  BY <1>6, <1>7, <1>8, GteNormal, LteNormal
<1>9. CASE value # None
  BY <1>2, <1>4, <1>6, <1>7, <1>9, GteNormal, LteNormal, BetweenNormal, AnyNormal DEF Modes
<1> QED
  BY <1>8, <1>9

\* A normal range is read as it is.
LEMMA NormalRangeStays ==
  ASSUME NEW maximum \in Nat, NEW r \in NormalRanges(maximum), NEW fallback, NEW legacyMode
  PROVE  NormalizeRange(r, fallback, maximum, 0, legacyMode) = r
<1>1. r \in [mode: Modes, min: Int, max: Int] /\ r.mode \in Modes
  BY DEF NormalRanges
<1>2. r # None
  BY <1>1 DEF None, RangeOf, Modes
<1>3. r = RangeOf(r.mode, r.min, r.max)
  BY <1>1 DEF RangeOf
<1>4. CASE r.mode = "any"
  <2>1. r.min = Absent /\ r.max = Absent
    BY <1>4 DEF NormalRanges
  <2>2. NormalizeRange(r, fallback, maximum, 0, legacyMode) = RangeOf("any", Absent, Absent)
    BY <1>1, <1>2, <1>4 DEF NormalizeRange
  <2> QED  BY <1>3, <1>4, <2>1, <2>2
<1>5. CASE r.mode = "gte"
  <2>1. r.min \in 0..maximum /\ r.max = Absent /\ r.min # Absent
    BY <1>5 DEF NormalRanges, Absent
  <2>2. NormalizeRange(r, fallback, maximum, 0, legacyMode) = RangeOf("gte", Clamp(r.min, maximum), Absent)
    BY <1>1, <1>2, <1>5, <2>1 DEF NormalizeRange, OrElse
  <2> QED  BY <1>3, <1>5, <2>1, <2>2, Clamped
<1>6. CASE r.mode = "lte"
  <2>1. r.max \in 0..maximum /\ r.min = Absent /\ r.max # Absent
    BY <1>6 DEF NormalRanges, Absent
  <2>2. NormalizeRange(r, fallback, maximum, 0, legacyMode) = RangeOf("lte", Absent, Clamp(r.max, maximum))
    BY <1>1, <1>2, <1>6, <2>1 DEF NormalizeRange, OrElse
  <2> QED  BY <1>3, <1>6, <2>1, <2>2, Clamped
<1>7. CASE r.mode = "between"
  <2>1. r.min \in 0..maximum /\ r.max \in r.min..maximum /\ r.min # Absent /\ r.max # Absent
    BY <1>7 DEF NormalRanges, Absent
  <2>2. Clamp(r.min, maximum) = r.min /\ Clamp(r.max, maximum) = r.max
    BY <2>1, Clamped
  <2>3. NormalizeRange(r, fallback, maximum, 0, legacyMode) =
          RangeOf("between", Min({Clamp(r.min, maximum), Clamp(r.max, maximum)}),
                             Max({Clamp(r.min, maximum), Clamp(r.max, maximum)}))
    BY <1>1, <1>2, <1>7, <2>1 DEF NormalizeRange, OrElse
  <2>4. Min({r.min, r.max}) = r.min /\ Max({r.min, r.max}) = r.max
    BY <2>1, MinOfTwo, MaxOfTwo
  <2> QED  BY <1>3, <1>7, <2>2, <2>3, <2>4
<1> QED
  BY <1>1, <1>4, <1>5, <1>6, <1>7 DEF Modes

LEMMA DefaultsNormal ==
  /\ DefaultDays \in NormalRanges(MaxDays) /\ DefaultViews \in NormalRanges(Unbounded)
  /\ MaxDays \in Nat /\ Unbounded \in Nat
BY GteNormal, LteNormal DEF DefaultDays, DefaultViews, MaxDays, Unbounded

\* What is read, from a file or from what was saved, is a normal specification.
LEMMA ReadSpecNormal ==
  ASSUME NEW source, NEW n \in Int,
         source.days_filter.min \in Int, source.days_filter.max \in Int,
         source.views_filter.min \in Int, source.views_filter.max \in Int,
         source.max_results \in Int, source.raw_query \in RawQueries,
         spec' = NormalizeSource(source, n, n)
  PROVE  SpecInv'
<1> DEFINE days == NormalizeRange(source.days_filter, DefaultDays, MaxDays, n, "lte")
           views == NormalizeRange(source.views_filter, DefaultViews, Unbounded, n, "gte")
           minutes == NormalizeTimeSlice(source.slice)
           results == Min({100, Max({1, OrElse(source.max_results, 100)})})
<1>1. days \in NormalRanges(MaxDays) /\ views \in NormalRanges(Unbounded)
  BY DefaultsNormal, ReadRangeNormal
<1>2. minutes \in TimeSlices
  BY DEF NormalizeTimeSlice, TimeSlices
<1>3. results \in 1..100
  <2>1. OrElse(source.max_results, 100) \in Int
    BY DEF OrElse
  <2> QED  BY <2>1, ResultsWithin
<1>4. spec' = [days_filter |-> days, views_filter |-> views, slice |-> minutes, max_results |-> results,
               raw_query |-> source.raw_query]
  BY DEF NormalizeSource
<1> HIDE DEF days, views, minutes, results
<1> QED
  BY <1>1, <1>2, <1>3, <1>4 DEF SpecInv

LEMMA NormalSpecStays == SpecInv => SpecIsNormal
<1> SUFFICES ASSUME SpecInv PROVE SpecIsNormal
  OBVIOUS
<1>1. /\ spec.days_filter \in NormalRanges(MaxDays) /\ spec.views_filter \in NormalRanges(Unbounded)
      /\ spec.slice \in TimeSlices /\ spec.max_results \in 1..100
      /\ spec = [days_filter |-> spec.days_filter, views_filter |-> spec.views_filter, slice |-> spec.slice,
                 max_results |-> spec.max_results, raw_query |-> spec.raw_query]
  BY DEF SpecInv
<1>2. /\ NormalizeRange(spec.days_filter, DefaultDays, MaxDays, 0, "lte") = spec.days_filter
      /\ NormalizeRange(spec.views_filter, DefaultViews, Unbounded, 0, "gte") = spec.views_filter
  BY <1>1, NormalRangeStays, DefaultsNormal
<1>3. NormalizeTimeSlice(spec.slice) = spec.slice
  BY <1>1 DEF NormalizeTimeSlice
<1>4. Min({100, Max({1, OrElse(spec.max_results, 100)})}) = spec.max_results
  <2>1. OrElse(spec.max_results, 100) = spec.max_results
    BY <1>1 DEF OrElse, Absent
  <2> QED  BY <1>1, <2>1, ResultsWithin
<1> QED
  BY <1>1, <1>2, <1>3, <1>4 DEF SpecIsNormal, NormalizeSpec, NormalizeSource

\* The controls of a range leave a normal one.
LEMMA BuiltRangeNormal ==
  ASSUME NEW maximum \in Nat, NEW mode \in Modes, NEW range \in NormalRanges(maximum),
         NEW min \in Int, NEW max \in Int
  PROVE  BuildRange(mode, range, min, max, maximum) \in NormalRanges(maximum)
<1> DEFINE low == TypedNumber(OrElse(min, range.min), maximum)
           high == TypedNumber(OrElse(max, range.max), maximum)
           left == OrElse(low, 0)
           right == OrElse(high, left)
<1>1. range.min \in Int /\ range.max \in Int
  BY DEF NormalRanges
<1>2. ASSUME NEW n \in Int PROVE TypedNumber(n, maximum) \in 0..maximum \/ TypedNumber(n, maximum) = Absent
  BY Clamped DEF TypedNumber
<1>3. /\ low \in 0..maximum \/ low = Absent
      /\ high \in 0..maximum \/ high = Absent
  BY <1>1, <1>2 DEF OrElse
<1>4. left \in 0..maximum /\ OrElse(high, 0) \in 0..maximum
  BY <1>3 DEF OrElse
<1>5. right \in 0..maximum
  BY <1>3, <1>4 DEF OrElse
<1>6. BuildRange(mode, range, min, max, maximum) =
        CASE mode = "any" -> RangeOf("any", Absent, Absent)
          [] mode = "gte" -> RangeOf("gte", left, Absent)
          [] mode = "lte" -> RangeOf("lte", Absent, OrElse(high, 0))
          [] mode = "between" -> RangeOf("between", Min({left, right}), Max({left, right}))
  BY DEF BuildRange
<1> HIDE DEF low, high, left, right
<1> QED
  BY <1>4, <1>5, <1>6, GteNormal, LteNormal, BetweenNormal, AnyNormal DEF Modes

LEMMA ChangedRangeNormal ==
  ASSUME NEW maximum \in Nat, NEW range \in NormalRanges(maximum), NEW r \in ChangedRanges(range, maximum)
  PROVE  r \in NormalRanges(maximum)
<1>1. range.mode \in Modes /\ Absent \in Int
  BY DEF NormalRanges, Absent
<1>2. ASSUME NEW n \in Numbers PROVE TypedNumber(n, Unbounded) \in Int
  BY SpecAssumption, Clamped, DefaultsNormal DEF TypedNumber, Absent
<1>3. \/ \E mode \in Modes : r = BuildRange(mode, range, Absent, Absent, maximum)
      \/ \E n \in Numbers : r = BuildRange(range.mode, range, TypedNumber(n, Unbounded), Absent, maximum)
      \/ \E n \in Numbers : r = BuildRange(range.mode, range, Absent, TypedNumber(n, Unbounded), maximum)
  BY DEF ChangedRanges
<1> QED
  BY <1>1, <1>2, <1>3, BuiltRangeNormal

LEMMA LoadSpecInv == LoadSpec => SpecInv'
<1> SUFFICES ASSUME LoadSpec PROVE SpecInv'
  OBVIOUS
<1>1. /\ DefaultSpec.days_filter = DefaultDays /\ DefaultSpec.views_filter = DefaultViews
      /\ DefaultSpec.max_results \in Int /\ DefaultSpec.raw_query = ""
      /\ DefaultDays.min \in Int /\ DefaultDays.max \in Int /\ DefaultViews.min \in Int /\ DefaultViews.max \in Int
      /\ None.min \in Int /\ None.max \in Int /\ "" \in RawQueries
  BY DEF DefaultSpec, DefaultDays, DefaultViews, RangeOf, None, Absent, RawQueries
<1>2. ASSUME NEW range \in FileRanges
      PROVE  range.min \in Int /\ range.max \in Int
  BY SpecAssumption DEF FileRanges, RangeOf
<1>3. ASSUME NEW range \in FileRanges,
             spec' = NormalizeSpec([DefaultSpec EXCEPT !.days_filter = range, !.max_results = range.min])
      PROVE  SpecInv'
  <2> DEFINE source == [DefaultSpec EXCEPT !.days_filter = range, !.max_results = range.min]
  <2>1. /\ source.days_filter = range /\ source.views_filter = DefaultSpec.views_filter
        /\ source.max_results = range.min /\ source.raw_query = DefaultSpec.raw_query
    BY DEF DefaultSpec
  <2>2. spec' = NormalizeSource(source, 0, 0)
    BY <1>3 DEF NormalizeSpec
  <2> HIDE DEF source
  <2>3. /\ source.days_filter.min \in Int /\ source.days_filter.max \in Int
        /\ source.views_filter.min \in Int /\ source.views_filter.max \in Int
        /\ source.max_results \in Int /\ source.raw_query \in RawQueries
    BY <1>1, <1>2, <2>1
  <2> QED  BY <2>2, <2>3, ReadSpecNormal
<1>4. ASSUME NEW range \in FileRanges,
             spec' = NormalizeSpec([DefaultSpec EXCEPT !.views_filter = range, !.slice = range.max])
      PROVE  SpecInv'
  <2> DEFINE source == [DefaultSpec EXCEPT !.views_filter = range, !.slice = range.max]
  <2>1. /\ source.days_filter = DefaultSpec.days_filter /\ source.views_filter = range
        /\ source.max_results = DefaultSpec.max_results /\ source.raw_query = DefaultSpec.raw_query
    BY DEF DefaultSpec
  <2>2. spec' = NormalizeSource(source, 0, 0)
    BY <1>4 DEF NormalizeSpec
  <2> HIDE DEF source
  <2>3. /\ source.days_filter.min \in Int /\ source.days_filter.max \in Int
        /\ source.views_filter.min \in Int /\ source.views_filter.max \in Int
        /\ source.max_results \in Int /\ source.raw_query \in RawQueries
    BY <1>1, <1>2, <2>1
  <2> QED  BY <2>2, <2>3, ReadSpecNormal
<1>5. ASSUME NEW n \in Numbers,
             spec' = NormalizeSource([DefaultSpec EXCEPT !.days_filter = None, !.views_filter = None], n, n)
      PROVE  SpecInv'
  <2> DEFINE source == [DefaultSpec EXCEPT !.days_filter = None, !.views_filter = None]
  <2>1. /\ source.days_filter = None /\ source.views_filter = None
        /\ source.max_results = DefaultSpec.max_results /\ source.raw_query = DefaultSpec.raw_query
    BY DEF DefaultSpec
  <2>2. n \in Int /\ spec' = NormalizeSource(source, n, n)
    BY <1>5, SpecAssumption
  <2> HIDE DEF source
  <2>3. /\ source.days_filter.min \in Int /\ source.days_filter.max \in Int
        /\ source.views_filter.min \in Int /\ source.views_filter.max \in Int
        /\ source.max_results \in Int /\ source.raw_query \in RawQueries
    BY <1>1, <2>1
  <2> QED  BY <2>2, <2>3, ReadSpecNormal
<1> QED
  BY <1>3, <1>4, <1>5 DEF LoadSpec

LEMMA SpecInitInv == SpecInit => SpecInv
<1> SUFFICES ASSUME SpecInit PROVE SpecInv
  OBVIOUS
<1>1. /\ DefaultSpec.days_filter = DefaultDays /\ DefaultSpec.views_filter = DefaultViews
      /\ DefaultSpec.max_results = 100 /\ DefaultSpec.raw_query = "" /\ DefaultSpec.slice = 60
  BY DEF DefaultSpec
<1>2. /\ NormalizeRange(DefaultDays, DefaultDays, MaxDays, 0, "lte") = DefaultDays
      /\ NormalizeRange(DefaultViews, DefaultViews, Unbounded, 0, "gte") = DefaultViews
  BY DefaultsNormal, NormalRangeStays
<1>3. NormalizeTimeSlice(60) = 60 /\ Min({100, Max({1, OrElse(100, 100)})}) = 100
  BY ResultsWithin DEF NormalizeTimeSlice, OrElse, Absent, TimeSlices
<1>4. spec = DefaultSpec
  BY <1>1, <1>2, <1>3 DEF SpecInit, NormalizeSpec, NormalizeSource, DefaultSpec
<1>5. DefaultSpec.slice \in TimeSlices /\ DefaultSpec.max_results \in 1..100 /\ DefaultSpec.raw_query \in RawQueries
  BY DEF DefaultSpec, TimeSlices, RawQueries
<1>6. DefaultDays \in NormalRanges(MaxDays) /\ DefaultViews \in NormalRanges(Unbounded)
  BY DefaultsNormal
<1> QED
  BY <1>1, <1>4, <1>5, <1>6 DEF SpecInv, DefaultSpec

LEMMA SpecNextInv == SpecInv /\ [SpecNext]_specVars => SpecInv'
<1> SUFFICES ASSUME SpecInv, [SpecNext]_specVars PROVE SpecInv'
  OBVIOUS
<1>1. CASE EditDays
  <2>1. PICK range \in ChangedRanges(spec.days_filter, MaxDays) : spec' = [spec EXCEPT !.days_filter = range]
    BY <1>1 DEF EditDays
  <2>2. range \in NormalRanges(MaxDays)
    BY ChangedRangeNormal, DefaultsNormal DEF SpecInv
  <2> QED  BY <2>1, <2>2 DEF SpecInv
<1>2. CASE EditViews
  <2>1. PICK range \in ChangedRanges(spec.views_filter, Unbounded) : spec' = [spec EXCEPT !.views_filter = range]
    BY <1>2 DEF EditViews
  <2>2. range \in NormalRanges(Unbounded)
    BY ChangedRangeNormal, DefaultsNormal DEF SpecInv
  <2> QED  BY <2>1, <2>2 DEF SpecInv
<1>3. CASE EditSlice
  BY <1>3, SpecAssumption DEF EditSlice, SpecInv
<1>4. CASE EditRawQuery
  BY <1>4 DEF EditRawQuery, SpecInv
<1>5. ASSUME NEW n \in Numbers, UpdateMaxResults(n) PROVE SpecInv'
  <2> DEFINE results == Max({1, OrElse(TypedNumber(n, 100), 1)})
  <2>1. TypedNumber(n, 100) \in 0..100 \/ TypedNumber(n, 100) = Absent
    BY SpecAssumption, Clamped DEF TypedNumber
  <2>2. OrElse(TypedNumber(n, 100), 1) \in 0..100 /\ OrElse(TypedNumber(n, 100), 1) \in Int
    BY <2>1 DEF OrElse
  <2>3. results \in 1..100
    BY <2>2, ResultsWithin
  <2>4. spec' = [spec EXCEPT !.max_results = results]
    BY <1>5 DEF UpdateMaxResults
  <2> HIDE DEF results
  <2> QED  BY <2>3, <2>4 DEF SpecInv
<1>6. CASE LoadSpec
  BY <1>6, LoadSpecInv
<1>7. CASE SaveAndReload
  BY <1>7, NormalSpecStays DEF SaveAndReload, SpecIsNormal, SpecInv
<1>8. CASE UNCHANGED specVars
  BY <1>8 DEF specVars, SpecInv
<1> QED
  BY <1>1, <1>2, <1>3, <1>4, <1>5, <1>6, <1>7, <1>8 DEF SpecNext

\* Whatever numbers a file or an earlier version held and a user typed, the
\* search specification of a draft is in its normal form: normalising it once
\* more, as saving and comparing do, changes nothing (normalizeSearchSpecForUi
\* of collector.ts, buildRangeValue of SearchSpecEditor.tsx).
THEOREM SpecStaysNormal ==
  SpecInit /\ [][SpecNext]_specVars => []SpecIsNormal
BY SpecInitInv, SpecNextInv, NormalSpecStays, PTL

-----------------------------------------------------------------------------
(* RuleDraft: a text input shows the words its condition holds *)

\* The state of an input is such a record, and its text is the printed list
\* of words, or one that parses to it.
InputOk(i) ==
  /\ DOMAIN i = {"draft", "editing", "lastParsed"}
  /\ i.draft = Format(i.lastParsed) \/ Parse(i.draft) = i.lastParsed

InputsOk(is) == \A key \in DOMAIN is : InputOk(is[key])
TextInv == InputsOk(inputs) /\ TextShowsValue

LEMMA MountedOk ==
  ASSUME NEW values
  PROVE  InputOk(Mounted(values)) /\ Mounted(values).draft = Format(values)
<1> DEFINE text == Format(values)
<1>1. Mounted(values) = [draft |-> text, editing |-> FALSE, lastParsed |-> values]
  BY DEF Mounted
<1> HIDE DEF text
<1>2. /\ DOMAIN Mounted(values) = {"draft", "editing", "lastParsed"}
      /\ Mounted(values).draft = text /\ Mounted(values).lastParsed = values
  BY <1>1
<1> QED
  BY <1>2 DEF InputOk, text

\* After the effect of an input its text shows the value it is given.
LEMMA EffectShowsValue ==
  ASSUME NEW i, InputOk(i), NEW values
  PROVE  /\ InputOk(AfterEffect(i, values))
         /\ \/ AfterEffect(i, values).draft = Format(values)
            \/ AfterEffect(i, values).editing /\ Parse(AfterEffect(i, values).draft) = values
<1>1. CASE i.editing /\ values = i.lastParsed
  <2>1. AfterEffect(i, values) = i
    BY <1>1 DEF AfterEffect
  <2> QED  BY <1>1, <2>1 DEF InputOk
<1>2. CASE ~(i.editing /\ values = i.lastParsed)
  <2>1. AfterEffect(i, values) = Mounted(values)
    BY <1>2 DEF AfterEffect
  <2> QED  BY <2>1, MountedOk
<1> QED
  BY <1>1, <1>2

\* So do all of them after a render, whatever state the handler left them in.
LEMMA RenderShowsValues ==
  ASSUME NEW rs, NEW is, InputsOk(is), Render(rs, is)
  PROVE  TextInv'
<1>1. /\ rules' = rs
      /\ inputs' = [key \in Keys(rs) |-> IF key \in DOMAIN is THEN AfterEffect(is[key], Values(rs, key))
                                                              ELSE Mounted(Values(rs, key))]
  BY DEF Render
<1>2. ASSUME NEW key \in DOMAIN inputs'
      PROVE  /\ InputOk(inputs'[key])
             /\ \/ inputs'[key].draft = Format(Values(rs, key))
                \/ inputs'[key].editing /\ Parse(inputs'[key].draft) = Values(rs, key)
  <2> DEFINE value == Values(rs, key)
  <2>1. inputs'[key] = IF key \in DOMAIN is THEN AfterEffect(is[key], value) ELSE Mounted(value)
    BY <1>1, <1>2
  <2> HIDE DEF value
  <2>2. CASE key \in DOMAIN is
    <3>1. InputOk(is[key]) /\ inputs'[key] = AfterEffect(is[key], value)
      BY <2>1, <2>2 DEF InputsOk
    <3> QED  BY <3>1, EffectShowsValue DEF value
  <2>3. CASE key \notin DOMAIN is
    <3>1. inputs'[key] = Mounted(value)
      BY <2>1, <2>3
    <3> QED  BY <3>1, MountedOk DEF value
  <2> QED  BY <2>2, <2>3
<1> QED
  BY <1>1, <1>2 DEF TextInv, InputsOk, TextShowsValue

\* The handlers leave every input in such a state.
LEMMA SetInputOk ==
  ASSUME InputsOk(inputs), NEW key, NEW i, InputOk(i)
  PROVE  InputsOk([inputs EXCEPT ![key] = i])
BY DEF InputsOk

LEMMA RuleNextInv == TextInv /\ [RuleNext]_ruleVars => TextInv'
<1> SUFFICES ASSUME TextInv, [RuleNext]_ruleVars PROVE TextInv'
  OBVIOUS
<1>0. InputsOk(inputs)
  BY DEF TextInv
<1>1. CASE AddRule
  BY <1>0, <1>1, RenderShowsValues DEF AddRule
<1>2. CASE LoadRules
  BY <1>0, <1>2, RenderShowsValues DEF LoadRules
<1>3. ASSUME NEW index \in DOMAIN rules,
             \/ DeleteRule(index) \/ AddCondition(index)
             \/ \E rest \in {"new", "edited"} : EditRest(index, rest)
      PROVE  TextInv'
  BY <1>0, <1>3, RenderShowsValues DEF DeleteRule, AddCondition, EditRest
<1>4. ASSUME NEW index \in DOMAIN rules, NEW c \in DOMAIN rules[index].conditions,
             DeleteCondition(index, c) \/ \E type \in Types : ChooseType(index, c, type)
      PROVE  TextInv'
  BY <1>0, <1>4, RenderShowsValues DEF DeleteCondition, ChooseType
<1>5. ASSUME NEW index, NEW c, NEW text, TypeWords(index, c, text)
      PROVE  TextInv'
  <2> DEFINE i == [draft |-> text, editing |-> TRUE, lastParsed |-> Parse(text)]
             key == <<rules[index].id, c>>
             rs == UpdateCondition(index, c, [rules[index].conditions[c] EXCEPT !.values = Parse(text)])
  <2>1. InputOk(i)
    BY DEF InputOk
  <2>2. Render(rs, [inputs EXCEPT ![key] = i])
    BY <1>5 DEF TypeWords
  <2> HIDE DEF i, key, rs
  <2> QED  BY <1>0, <2>1, <2>2, SetInputOk, RenderShowsValues
<1>6. ASSUME NEW index, NEW c, Focus(index, c)
      PROVE  TextInv'
  <2> DEFINE key == <<rules[index].id, c>>
  <2>1. Render(rules, [inputs EXCEPT ![key].editing = TRUE])
    BY <1>6 DEF Focus
  <2> HIDE DEF key
  <2>2. InputsOk([inputs EXCEPT ![key].editing = TRUE])
    <3>1. ASSUME NEW k \in DOMAIN inputs PROVE InputOk([inputs EXCEPT ![key].editing = TRUE][k])
      BY <1>0, <3>1 DEF InputsOk, InputOk
    <3> QED  BY <3>1 DEF InputsOk
  <2> QED  BY <2>1, <2>2, RenderShowsValues
<1>7. ASSUME NEW index, NEW c, Blur(index, c)
      PROVE  TextInv'
  <2> DEFINE key == <<rules[index].id, c>>
             parsed == Parse(inputs[key].draft)
             i == [draft |-> Format(parsed), editing |-> FALSE, lastParsed |-> parsed]
  <2>1. i = Mounted(parsed)
    BY DEF Mounted
  <2>2. Render(rules, [inputs EXCEPT ![key] = i])
    BY <1>7 DEF Blur
  <2> HIDE DEF i, key, parsed
  <2> QED  BY <1>0, <2>1, <2>2, MountedOk, SetInputOk, RenderShowsValues
<1>8. CASE UNCHANGED ruleVars
  <2>1. rules' = rules /\ inputs' = inputs
    BY <1>8 DEF ruleVars
  <2> QED  BY <2>1 DEF TextInv, InputsOk, TextShowsValue
<1> QED
  BY <1>1, <1>2, <1>3, <1>4, <1>5, <1>6, <1>7, <1>8 DEF RuleNext

\* A text input shows the words its condition holds, for any rules and any
\* words, although conditions are deleted and rule sets loaded under inputs
\* that keep their state by position (RuleSetEditor.tsx, the effect of
\* useDelimitedInputDraft.ts).  Nothing is assumed of how a list is printed
\* and a text parsed.
THEOREM TextAlwaysShowsValue ==
  RuleInit /\ [][RuleNext]_ruleVars => []TextShowsValue
<1>1. RuleInit => TextInv
  BY DEF RuleInit, TextInv, InputsOk, TextShowsValue
<1>2. TextInv => TextShowsValue
  BY DEF TextInv
<1> QED
  BY <1>1, <1>2, RuleNextInv, PTL

-----------------------------------------------------------------------------
(* TableColumns: a drag moves width from one column to the other *)

KeysOf(t) == ToSet(Columns[t])

WidthsType ==
  /\ table \in Tables
  /\ DOMAIN widths = Tables
  /\ \A t \in Tables : DOMAIN widths[t] = KeysOf(t) /\ \A key \in KeysOf(t) : widths[t][key] \in Int

\* What is dragged is the border of two columns of one table, which were not
\* too narrow when the drag began.
DragOfTwo ==
  drag # NoDrag =>
    /\ drag.table \in Tables /\ drag.left \in KeysOf(drag.table) /\ drag.right \in KeysOf(drag.table)
    /\ drag.left # drag.right
    /\ drag.leftStart \in Int /\ drag.leftStart >= MinWidth(drag.left)
    /\ drag.rightStart \in Int /\ drag.rightStart >= MinWidth(drag.right)

ColumnsInv == WidthsType /\ DragOfTwo /\ WidthsConserved

LEMMA MinWidthType == ASSUME NEW key PROVE MinWidth(key) \in Nat \ {0}
BY DEF MinWidth

\* A column is as wide as is stored, if that is wide enough.
LEMMA Resolved ==
  ASSUME WidthsType, NEW t \in Tables, NEW key \in KeysOf(t)
  PROVE  /\ ResolvedWidth(t, key) \in Int /\ ResolvedWidth(t, key) >= MinWidth(key)
         /\ widths[t][key] >= MinWidth(key) => ResolvedWidth(t, key) = widths[t][key]
<1> DEFINE low == MinWidth(key)
           width == IF widths[t][key] = 0 THEN DefaultWidth[key] ELSE widths[t][key]
<1>1. low \in Nat \ {0}
  BY MinWidthType
<1>2. width \in Int
  BY ColumnsAssumption DEF WidthsType, KeysOf
<1>3. widths[t][key] >= low => width = widths[t][key]
  BY <1>1
<1>4. ResolvedWidth(t, key) = Max({low, width})
  BY DEF ResolvedWidth
<1> HIDE DEF low, width
<1>5. Max({low, width}) = IF low >= width THEN low ELSE width
  BY <1>1, <1>2, MaxOfTwo
<1> QED
  BY <1>1, <1>2, <1>3, <1>4, <1>5 DEF low

\* The border goes no further than both minimum widths allow.
LEMMA Dragged ==
  ASSUME NEW d, NEW delta \in Int,
         d.leftStart \in Int, d.leftStart >= MinWidth(d.left),
         d.rightStart \in Int, d.rightStart >= MinWidth(d.right)
  PROVE  /\ DraggedLeft(d, delta) \in Int /\ DraggedLeft(d, delta) >= MinWidth(d.left)
         /\ d.leftStart + d.rightStart - DraggedLeft(d, delta) >= MinWidth(d.right)
<1> DEFINE from == d.leftStart + delta
           low == MinWidth(d.left)
           high == d.leftStart + d.rightStart - MinWidth(d.right)
<1>1. low \in Int /\ MinWidth(d.right) \in Int
  BY MinWidthType
<1>2. from \in Int /\ high \in Int /\ low <= high
  BY <1>1
<1>3. DraggedLeft(d, delta) = Min({Max({from, low}), high})
  BY DEF DraggedLeft
<1> HIDE DEF from, low, high
<1>4. Max({from, low}) = IF from >= low THEN from ELSE low
  BY <1>1, <1>2, MaxOfTwo
<1>5. Max({from, low}) \in Int /\ low <= Max({from, low})
  BY <1>1, <1>2, <1>4
<1>6. Min({Max({from, low}), high}) = IF Max({from, low}) <= high THEN Max({from, low}) ELSE high
  BY <1>2, <1>5, MinOfTwo
<1>7. DraggedLeft(d, delta) \in Int /\ low <= DraggedLeft(d, delta) /\ DraggedLeft(d, delta) <= high
  BY <1>2, <1>3, <1>5, <1>6
<1> QED
  BY <1>1, <1>7 DEF low, high

LEMMA WidthsRead ==
  ASSUME NEW found, widths' = ReadWidths(found), table' \in Tables,
         \A t \in Tables : \A key \in KeysOf(t) : found[t][key] \in Int
  PROVE  WidthsType'
BY DEF ReadWidths, WidthsType, KeysOf

LEMMA ColumnsInitInv == ColumnsInit => ColumnsInv
<1> SUFFICES ASSUME ColumnsInit PROVE ColumnsInv
  OBVIOUS
<1>1. PICK width \in StoredWidths : widths = ReadWidths([t \in Tables |-> [key \in ToSet(Columns[t]) |-> width]])
  BY DEF ColumnsInit
<1>2. width \in Int
  BY ColumnsAssumption
<1>3. WidthsType
  BY <1>1, <1>2 DEF ColumnsInit, ReadWidths, WidthsType, KeysOf
<1> QED
  BY <1>3 DEF ColumnsInit, ColumnsInv, DragOfTwo, WidthsConserved

LEMMA StartColumnResizeInv ==
  ASSUME ColumnsInv, NEW i \in Shown(table), NEW j \in Shown(table), StartColumnResize(i, j)
  PROVE  ColumnsInv'
<1> DEFINE left == Columns[table][i]
           right == Columns[table][j]
<1>1. WidthsType /\ table \in Tables /\ UNCHANGED <<table, widths>>
  BY DEF ColumnsInv, WidthsType, StartColumnResize
<1>2. left \in KeysOf(table) /\ right \in KeysOf(table)
  BY DEF Shown, KeysOf, ToSet
<1>3. left # right
  <2>1. i \in DOMAIN Columns[table] /\ j \in DOMAIN Columns[table] /\ i < j
    BY DEF Shown, StartColumnResize
  <2>2. DOMAIN Columns[table] \subseteq Int
    BY <1>1, ColumnsAssumption
  <2>3. i # j
    BY <2>1, <2>2
  <2> QED
    BY <1>1, <2>1, <2>3, ColumnsAssumption
<1>4. drag' = [table |-> table, left |-> left, right |-> right,
               leftStart |-> ResolvedWidth(table, left), rightStart |-> ResolvedWidth(table, right)]
  BY DEF StartColumnResize
<1> HIDE DEF left, right
<1>5. /\ drag'.table = table /\ drag'.left = left /\ drag'.right = right
      /\ drag'.leftStart = ResolvedWidth(table, left) /\ drag'.rightStart = ResolvedWidth(table, right)
  BY <1>4
<1>6. WidthsType'
  BY <1>1 DEF WidthsType
<1>7. DragOfTwo'
  BY <1>1, <1>2, <1>3, <1>5, Resolved DEF DragOfTwo
<1>8. \A t, key : ResolvedWidth(t, key)' = ResolvedWidth(t, key)
  BY <1>1 DEF ResolvedWidth
<1>9. WidthsConserved'
  BY <1>1, <1>5, <1>8 DEF WidthsConserved, ResolvedWidth
<1> QED
  BY <1>6, <1>7, <1>9 DEF ColumnsInv

LEMMA PointerMoveInv ==
  ASSUME ColumnsInv, NEW delta \in Deltas, PointerMove(delta)
  PROVE  ColumnsInv'
<1> DEFINE t == drag.table
           to == DraggedLeft(drag, delta)
           rest == drag.leftStart + drag.rightStart - to
<1>1. /\ drag # NoDrag /\ UNCHANGED <<table, drag>>
      /\ widths' = [widths EXCEPT ![t][drag.left] = to, ![t][drag.right] = rest]
  BY DEF PointerMove
<1>2. /\ t \in Tables /\ drag.left \in KeysOf(t) /\ drag.right \in KeysOf(t) /\ drag.left # drag.right
      /\ drag.leftStart \in Int /\ drag.leftStart >= MinWidth(drag.left)
      /\ drag.rightStart \in Int /\ drag.rightStart >= MinWidth(drag.right)
  BY <1>1 DEF ColumnsInv, DragOfTwo
<1>3. delta \in Int
  BY ColumnsAssumption
<1>4. /\ to \in Int /\ to >= MinWidth(drag.left) /\ rest \in Int /\ rest >= MinWidth(drag.right)
      /\ to + rest = drag.leftStart + drag.rightStart
  BY <1>2, <1>3, Dragged
<1> HIDE DEF to, rest
<1>5. /\ WidthsType' /\ widths'[t][drag.left] = to /\ widths'[t][drag.right] = rest
  BY <1>1, <1>2, <1>4 DEF ColumnsInv, WidthsType
<1>6. DragOfTwo'
  BY <1>1 DEF ColumnsInv, DragOfTwo
<1>7. \A key : MinWidth(key) \in Nat \ {0} /\ DefaultWidth[key]' = DefaultWidth[key]
  BY MinWidthType
<1>8. ResolvedWidth(t, drag.left)' = to
  <2>1. to # 0 /\ MinWidth(drag.left) \in Int
    BY <1>4, <1>7
  <2>2. ResolvedWidth(t, drag.left)' = Max({MinWidth(drag.left), to})
    BY <1>1, <1>5, <2>1 DEF ResolvedWidth, MinWidth
  <2> QED
    BY <1>4, <2>1, <2>2, MaxOfTwo
<1>9. ResolvedWidth(t, drag.right)' = rest
  <2>1. rest # 0 /\ MinWidth(drag.right) \in Int
    BY <1>4, <1>7
  <2>2. ResolvedWidth(t, drag.right)' = Max({MinWidth(drag.right), rest})
    BY <1>1, <1>5, <2>1 DEF ResolvedWidth, MinWidth
  <2> QED
    BY <1>4, <2>1, <2>2, MaxOfTwo
<1> QED
  BY <1>1, <1>4, <1>5, <1>6, <1>8, <1>9 DEF ColumnsInv, WidthsConserved, ResolvedWidth

LEMMA ReopenTablesInv ==
  ASSUME ColumnsInv, ReopenTables
  PROVE  ColumnsInv'
<1>1. \A t \in Tables : \A key \in KeysOf(t) : widths[t][key] \in Int
  BY DEF ColumnsInv, WidthsType
<1>2. WidthsType'
  BY <1>1, WidthsRead DEF ReopenTables
<1> QED
  BY <1>2 DEF ReopenTables, ColumnsInv, DragOfTwo, WidthsConserved

\* Whatever else happens on the page leaves the widths, and the drag or its end.
LEMMA ColumnsRestInv ==
  ASSUME ColumnsInv, table' \in Tables, widths' = widths, drag' = drag \/ drag' = NoDrag
  PROVE  ColumnsInv'
<1>1. WidthsType'
  BY DEF ColumnsInv, WidthsType
<1>2. DragOfTwo'
  BY DEF ColumnsInv, DragOfTwo
<1>3. WidthsConserved'
  BY DEF ColumnsInv, WidthsConserved, ResolvedWidth, MinWidth
<1> QED
  BY <1>1, <1>2, <1>3 DEF ColumnsInv

LEMMA ColumnsStep == ColumnsInv /\ [ColumnsNext]_columnVars => ColumnsInv'
<1> SUFFICES ASSUME ColumnsInv, [ColumnsNext]_columnVars PROVE ColumnsInv'
  OBVIOUS
<1>1. table \in Tables
  BY DEF ColumnsInv, WidthsType
<1>2. ASSUME NEW key \in ToSet(Columns[table]), ToggleColumnVisibility(key) PROVE ColumnsInv'
  BY <1>1, <1>2, ColumnsRestInv DEF ToggleColumnVisibility
<1>3. CASE RestoreDefaultColumns
  BY <1>1, <1>3, ColumnsRestInv DEF RestoreDefaultColumns
<1>4. CASE SwitchTable
  BY <1>4, ColumnsRestInv DEF SwitchTable
<1>5. CASE StopResizing
  BY <1>1, <1>5, ColumnsRestInv DEF StopResizing
<1>6. CASE UNCHANGED columnVars
  BY <1>1, <1>6, ColumnsRestInv DEF columnVars
<1> QED
  BY <1>2, <1>3, <1>4, <1>5, <1>6, StartColumnResizeInv, PointerMoveInv, ReopenTablesInv DEF ColumnsNext

\* The two columns of the border that is dragged stay as wide together as when the drag began,
\* for any tables, columns and default widths, and whatever widths the storage holds.
THEOREM WidthsStayConserved == ColumnsInit /\ [][ColumnsNext]_columnVars => []WidthsConserved
<1>1. ColumnsInv => WidthsConserved
  BY DEF ColumnsInv
<1> QED
  BY ColumnsInitInv, ColumnsStep, <1>1, PTL

-----------------------------------------------------------------------------
(* SplitPane: panes that are stacked are not being resized *)

\* Panes that are stacked have no width of their own and take none, for any
\* widths of the window and of the panes, although the window may become
\* narrow while the border is dragged and the pointer moves on
\* (useSplitPaneResize.ts: the effect on isSplitLayout ends the drag).
THEOREM StackedPanesStayFree ==
  PaneInit /\ [][PaneNext]_paneVars => []StackedPanesAreFree
<1>1. PaneInit => StackedPanesAreFree
  BY DEF PaneInit, StackedPanesAreFree
<1>2. StackedPanesAreFree /\ [PaneNext]_paneVars => StackedPanesAreFree'
  <2> SUFFICES ASSUME StackedPanesAreFree, [PaneNext]_paneVars PROVE StackedPanesAreFree'
    OBVIOUS
  <2> USE DEF StackedPanesAreFree
  <2>1. CASE StartResizing
    BY <2>1 DEF StartResizing, IsSplit
  <2>2. CASE StopResizingPane
    BY <2>2 DEF StopResizingPane, IsSplit
  <2>3. ASSUME NEW x \in PointerAt, DragPane(x) PROVE StackedPanesAreFree'
    BY <2>3 DEF DragPane, IsSplit
  <2>4. ASSUME NEW width \in WindowWidths, ResizeWindow(width) PROVE StackedPanesAreFree'
    BY <2>4 DEF ResizeWindow, IsSplit
  <2>5. CASE UNCHANGED paneVars
    BY <2>5 DEF paneVars, IsSplit
  <2> QED
    BY <2>1, <2>2, <2>3, <2>4, <2>5 DEF PaneNext
<1> QED
  BY <1>1, <1>2, PTL
================================================================================
