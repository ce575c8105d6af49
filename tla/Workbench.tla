------------------------------ MODULE Workbench ------------------------------
(***************************************************************************)
(* What the web UI keeps in the browser: the active page and the theme of  *)
(* App.tsx, the health snapshot of pages/DashboardPage.tsx, and the token  *)
(* of the API (api.ts, pages/SettingsPage.tsx).  A page is in the hash of  *)
(* the address and in the local storage, which other windows share; the    *)
(* token is in the session storage.  The storages may refuse to write.  A  *)
(* theme or a snapshot that cannot be read has been replaced at first: the *)
(* first effect writes the theme, the first read removes the snapshot.     *)
(*                                                                         *)
(* replaceState makes no hashchange event; the user who changes the hash   *)
(* makes one, which is handled later.  Left out: the editor of the         *)
(* settings page, and reading a storage that throws.                       *)
(***************************************************************************)
EXTENDS Naturals

CONSTANTS
  Navs,        \* the pages
  Dashboard,   \* the first of them
  MaxSnapshot  \* bound: health snapshots that differ

Themes == {"dark", "light"}
Empty == ""           \* no hash, nothing in a storage
Garbage == "garbage"  \* a hash or a stored value of none of these
NoHealth == 0
Health == 1..MaxSnapshot

ASSUME WorkbenchAssumption ==
  Dashboard \in Navs /\ {Empty, Garbage} \cap (Navs \cup Themes) = {} /\ MaxSnapshot \in Nat \ {0}

VARIABLES
  page, hash, storedPage,             \* active, location.hash, its item of the local storage
  hashChanged,                        \* an event that is not handled yet
  theme, storedTheme,
  health, storedHealth, healthLoads,  \* the state of the dashboard
  tokenSet, storedToken,              \* apiTokenConfigured, and whether there is one
  private,                            \* history: no other window has written the local storage
  written                             \* history: every write to it succeeded

benchVars == <<page, hash, storedPage, hashChanged, theme, storedTheme, health, storedHealth,
               healthLoads, tokenSet, storedToken, private, written>>
navigation == <<page, hash, storedPage, hashChanged>>
appearance == <<theme, storedTheme>>
dashboard == <<health, storedHealth, healthLoads>>
token == <<tokenSet, storedToken>>

\* readStoredActivePage, readInitialActivePage: the hash comes first.
ReadStoredActivePage == IF storedPage \in Navs THEN storedPage ELSE Dashboard
ReadInitialActivePage ==
  IF hash \in Navs THEN hash ELSE IF hash # Empty THEN Dashboard ELSE ReadStoredActivePage
ReadStoredTheme == IF storedTheme = "light" THEN "light" ELSE "dark"
ReadStoredDashboardHealth == IF storedHealth \in Health THEN storedHealth ELSE NoHealth

\* A write to the local storage, which may fail; the pages go on without it.
Writes(stored, value) ==
  \/ stored' = value /\ UNCHANGED written
  \/ stored' = stored /\ written' = FALSE

\* After the first effects: syncFromHash has stored the page of a hash, or
\* replaced a hash that is none.
BenchInit ==
  /\ hash \in Navs \cup {Empty} /\ storedPage \in Navs \cup {Empty, Garbage}
  /\ page = ReadInitialActivePage
  /\ hash # Empty => storedPage = hash
  /\ hashChanged = FALSE
  /\ storedTheme \in Themes /\ theme = ReadStoredTheme
  /\ storedHealth \in {NoHealth, 1} /\ health = ReadStoredDashboardHealth /\ healthLoads = FALSE
  /\ storedToken \in BOOLEAN /\ tokenSet = storedToken
  /\ private = TRUE /\ written = TRUE

-----------------------------------------------------------------------------
\* (mutant of ActivatePage) the address is left as it is
ActivateKeepsHash(p) == page' = p /\ Writes(storedPage, p) /\ UNCHANGED hash

\* activatePage: a button of the navigation.
ActivatePage(p) == page' = p /\ Writes(storedPage, p) /\ hash' = p

Navigate == \E p \in Navs : ActivatePage(p) /\ UNCHANGED <<hashChanged, appearance, dashboard, token, private>>

\* The user edits the address, goes back or follows a link.
ChangeHash ==
  /\ hash' \in (Navs \cup {Empty, Garbage}) \ {hash} /\ hashChanged' = TRUE
  /\ UNCHANGED <<page, storedPage, appearance, dashboard, token, private, written>>

\* syncFromHash: an unknown hash leads to the dashboard; no hash changes nothing.
Sync(p) ==
  \/ hash \in Navs /\ page' = hash /\ Writes(storedPage, hash) /\ UNCHANGED hash
  \/ hash = Garbage /\ ActivatePage(Dashboard)
  \/ hash = Empty /\ page' = p /\ UNCHANGED <<hash, storedPage, written>>

HandleHashChange ==
  /\ hashChanged /\ hashChanged' = FALSE
  /\ Sync(page)
  /\ UNCHANGED <<appearance, dashboard, token, private>>

ToggleTheme ==
  /\ theme' = IF theme = "dark" THEN "light" ELSE "dark"
  /\ Writes(storedTheme, theme')
  /\ UNCHANGED <<navigation, dashboard, token, private>>

\* loadHealth, with the button disabled until it is answered.
LoadHealth ==
  /\ ~healthLoads /\ healthLoads' = TRUE
  /\ UNCHANGED <<navigation, appearance, health, storedHealth, token, private, written>>

\* The answer is shown and then stored; a failure keeps what is shown.
HealthLands ==
  /\ healthLoads /\ healthLoads' = FALSE
  /\ \/ health' \in Health /\ Writes(storedHealth, health')
     \/ UNCHANGED <<health, storedHealth, written>>
  /\ UNCHANGED <<navigation, appearance, token, private>>

\* handleApplyApiToken, handleClearApiToken: the flag follows only a storage that took the change.
ApplyApiToken == (storedToken' = TRUE /\ tokenSet' = TRUE) \/ UNCHANGED token
ClearApiToken == (storedToken' = FALSE /\ tokenSet' = FALSE) \/ UNCHANGED token
ChangeToken ==
  (ApplyApiToken \/ ClearApiToken) /\ UNCHANGED <<navigation, appearance, dashboard, private, written>>

\* Another window of the UI writes its page, its theme or its snapshot.
OtherWindow ==
  /\ private' = FALSE
  /\ \/ storedPage' \in Navs /\ UNCHANGED <<storedTheme, storedHealth>>
     \/ storedTheme' \in Themes /\ UNCHANGED <<storedPage, storedHealth>>
     \/ storedHealth' \in Health /\ UNCHANGED <<storedPage, storedTheme>>
  /\ UNCHANGED <<page, hash, hashChanged, theme, health, healthLoads, token, written>>

\* The window is loaded again: every state is read anew, and a request is lost.
ReloadWindow ==
  /\ hashChanged' = FALSE /\ Sync(ReadInitialActivePage)
  /\ theme' = ReadStoredTheme
  /\ health' = ReadStoredDashboardHealth /\ healthLoads' = FALSE
  /\ tokenSet' = storedToken
  /\ UNCHANGED <<storedTheme, storedHealth, storedToken, private>>

BenchNext ==
  \/ Navigate \/ ChangeHash \/ HandleHashChange
  \/ ToggleTheme \/ LoadHealth \/ HealthLands \/ ChangeToken
  \/ OtherWindow \/ ReloadWindow

-----------------------------------------------------------------------------
(* Properties *)

\* A reload shows what the window shows: the page of a valid hash whatever the
\* storages do, and the page, the theme and the snapshot where nobody else
\* writes the local storage and it takes what is written; and the page never
\* says of the token what the session storage does not hold
\* (App.tsx, DashboardPage.tsx, SettingsPage.tsx).
ReloadKeepsWhatIsShown ==
  /\ ~hashChanged /\ (hash \in Navs \/ (private /\ written)) => page = ReadInitialActivePage
  /\ private /\ written => theme = ReadStoredTheme /\ health = ReadStoredDashboardHealth
  /\ tokenSet = storedToken

=============================================================================
