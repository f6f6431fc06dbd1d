----------------------------- MODULE Workspace -----------------------------
(***************************************************************************)
(* The open script tabs of the user, kept in SQLite across refreshes of    *)
(* the page: workspace.go and static/js/workspace.js.                      *)
(*                                                                         *)
(* A step of the server is one SQLite statement.  A save deletes all rows  *)
(* and inserts them again, without a transaction; a load reads the layout, *)
(* the tabs and their Scratch Pads separately.  Saves of the page that was *)
(* just left, or that come late, interleave with each other and with the   *)
(* load of the new page.                                                   *)
(*                                                                         *)
(* What a tab holds is its text and its pad.  Title, path, connection and  *)
(* order travel with the text; the active tab, the width of the sidebar    *)
(* and the expanded tree are one value, the layout.  The user acts once    *)
(* the buttons of the restored tabs are there.  The swap between the login *)
(* and the dashboard without a refresh is left out.                        *)
(*                                                                         *)
(* An operator Name_Slip is Name with the slip a change of the code could  *)
(* bring; each property is checked to be violated by one of them.          *)
(***************************************************************************)
EXTENDS Naturals, FiniteSets

CONSTANTS
    Tabs,       \* ids of script tabs
    Texts,      \* texts, of the editor or of the pad
    Blank,      \* the empty text
    Layouts,    \* layouts of the page
    Saves,      \* POST /api/workspace requests that may be under way
    MaxEdits,   \* bound: what the user does in a behaviour
    Absent      \* no such tab

ASSUME WorkspaceAssumption ==
    /\ Blank \in Texts /\ Absent \notin [text: Texts, pad: Texts]
    /\ Layouts # {} /\ MaxEdits \in Nat

VARIABLES
    stored,     \* user_workspaces and workspace_tabs in SQLite
    page,       \* the browser page
    save,       \* save requests
    edits,      \* what the user did so far
    wanted,     \* the workspace as the user made it (history)
    saved,      \* the last save that ended was the latest sent and ran alone,
                \*        start to end (history)
    mishap,     \* a load failed, or met a save that was not saved, or a page
                \*        was left before a new tab had its panel (history)
    early       \* a page was left before it was restored (history)

workspaceVars == <<stored, page, save, edits, wanted, saved, mishap, early>>
-----------------------------------------------------------------------------
Content == [text: Texts, pad: Texts]
State   == [layout: Layouts, tabs: [Tabs -> Content \cup {Absent}]]
Empty   == [layout |-> CHOOSE l \in Layouts : TRUE, tabs |-> [t \in Tabs |-> Absent]]
TabsOf(s) == {t \in Tabs : s.tabs[t] # Absent}

\* restoring: from the fetch to its "finally"; coming: what tabs will show whose
\* panel has not come yet; opened: the tabs opened on this page; missed: a change
\* whose scheduleSave returned early, or that scheduled none.
PageSteps == {"closed", "layout", "tabs", "pads", "filling", "open"}
Page == [at: PageSteps, shown: State, coming: State, opened: SUBSET Tabs,
         timer: BOOLEAN, missed: BOOLEAN]
NoPage == [at |-> "closed", shown |-> Empty, coming |-> Empty, opened |-> {},
           timer |-> FALSE, missed |-> FALSE]
NewTab == [text |-> Blank, pad |-> Blank]
Restoring == page.at \in {"layout", "tabs", "pads", "filling"}

SaveSteps == {"idle", "sent", "clear", "insert", "pad"}
Request == [at: SaveSteps, body: State, todo: SUBSET Tabs, tab: Tabs \cup {Absent},
            alone: BOOLEAN, stale: BOOLEAN]
NoRequest == [at |-> "idle", body |-> Empty, todo |-> {}, tab |-> Absent,
              alone |-> TRUE, stale |-> FALSE]
UnderWay == {s \in Saves : save[s].at # "idle"}
Running  == {s \in Saves : save[s].at \notin {"idle", "sent"}}

WorkspaceTypeOK ==
    /\ stored \in State /\ wanted \in State
    /\ page \in Page /\ save \in [Saves -> Request]
    /\ edits \in 0..MaxEdits
    /\ saved \in BOOLEAN /\ mishap \in BOOLEAN /\ early \in BOOLEAN

WorkspaceInit ==
    /\ stored = Empty /\ wanted = Empty
    /\ page = NoPage /\ save = [s \in Saves |-> NoRequest]
    /\ edits = 0
    /\ saved = TRUE /\ mishap = FALSE /\ early = FALSE
-----------------------------------------------------------------------------
(* The SQLite statements *)

GetUserWorkspace      == [Empty EXCEPT !.layout = stored.layout]
SaveUserWorkspace(l)  == [stored EXCEPT !.layout = l]
\* The queries generated before the column was added know no pad.
ListWorkspaceTabs     == [t \in Tabs |-> IF stored.tabs[t] = Absent THEN Absent
                                         ELSE [stored.tabs[t] EXCEPT !.pad = Blank]]
ReplaceWorkspaceTabs  == [stored EXCEPT !.tabs = Empty.tabs]
InsertWorkspaceTab(t, c) == [stored EXCEPT !.tabs[t] = [c EXCEPT !.pad = Blank]]
-----------------------------------------------------------------------------
(* The page: restoreWorkspace and handleWorkspaceGet *)

Raced == UnderWay # {} \/ ~saved

OpenPage ==
    /\ page.at = "closed"
    /\ page' = [NoPage EXCEPT !.at = "layout"]
    /\ UNCHANGED <<stored, save, edits, wanted, saved, mishap, early>>

LoadStep(from, to, read) ==
    /\ page.at = from
    /\ page' = [page EXCEPT !.at = to, !.coming = read]
    /\ mishap' = (mishap \/ Raced)
    /\ UNCHANGED <<stored, save, edits, wanted, saved, early>>

LoadLayout == LoadStep("layout", "tabs", GetUserWorkspace)
LoadTabs   == LoadStep("tabs", "pads", [page.coming EXCEPT !.tabs = ListWorkspaceTabs])

\* The tabs opened on this page that still have an empty panel.
Awaited == {t \in page.opened : page.coming.tabs[t] # Absent /\ page.shown.tabs[t] # Absent}

\* What remains of the answer once its layout is applied and a button and an
\* empty panel stand for every tab.
Arrived(c) == [page EXCEPT !.at = "filling", !.coming = c,
                           !.shown = [layout |-> c.layout,
                                      tabs |-> [t \in Tabs |-> IF c.tabs[t] = Absent THEN Absent
                                                                ELSE NewTab]]]
LoadPads ==
    /\ page.at = "pads"
    /\ page' = Arrived([page.coming EXCEPT !.tabs =
                    [t \in Tabs |-> IF @[t] # Absent /\ stored.tabs[t] # Absent
                                    THEN [@[t] EXCEPT !.pad = stored.tabs[t].pad] ELSE @[t]]])
    /\ mishap' = (mishap \/ Raced)
    /\ UNCHANGED <<stored, save, edits, wanted, saved, early>>

\* The pads are lost with their query, the tabs are not.
PadsFail ==
    /\ page.at = "pads"
    /\ page' = Arrived(page.coming)
    /\ mishap' = TRUE
    /\ UNCHANGED <<stored, save, edits, wanted, saved, early>>

\* An error answer, no answer, or one panel that cannot be fetched ends the
\* restore at once; panels under way still come.
RestoreFails ==
    /\ Restoring
    /\ page' = [page EXCEPT !.at = "open",
                            !.coming = IF page.at = "filling" THEN @ ELSE Empty]
    /\ mishap' = TRUE
    /\ UNCHANGED <<stored, save, edits, wanted, saved, early>>

\* A panel comes, if it comes, for a tab that may be closed by now; scheduleSave
\* does nothing while the page is being restored.
Fill(t) ==
    /\ page.at \in {"filling", "open"} /\ page.coming.tabs[t] # Absent
    /\ page' = [page EXCEPT !.coming.tabs[t] = Absent,
                    !.shown.tabs[t] = IF @ = Absent THEN Absent ELSE page.coming.tabs[t],
                    !.timer = @ \/ page.at = "open",
                    !.missed = @ \/ (page.at = "filling" /\ t \in page.opened)]
    /\ UNCHANGED <<stored, save, edits, wanted, saved, mishap, early>>

\* Only restored tabs are waited for.
Restored ==
    /\ page.at = "filling" /\ TabsOf(page.coming) \subseteq page.opened
    /\ page' = [page EXCEPT !.at = "open", !.coming.layout = Empty.layout]
    /\ UNCHANGED <<stored, save, edits, wanted, saved, mishap, early>>
-----------------------------------------------------------------------------
(* The user, and scheduleSave *)

Shows(t)   == page.at \in {"filling", "open"} /\ page.shown.tabs[t] # Absent
MayEdit(t) == Shows(t) /\ page.coming.tabs[t] = Absent

Schedule_Always(shown) ==
    [page EXCEPT !.shown = shown, !.timer = TRUE]

\* scheduleSave
Schedule(shown) ==
    IF Restoring THEN [page EXCEPT !.shown = shown, !.missed = TRUE]
                 ELSE [page EXCEPT !.shown = shown, !.timer = TRUE]

Change(next, meant) ==
    /\ edits < MaxEdits /\ edits' = edits + 1
    /\ page' = next
    /\ wanted' = meant
    /\ UNCHANGED <<stored, save, saved, mishap, early>>

SetTab(t, c) == Change(Schedule([page.shown EXCEPT !.tabs[t] = c]), [wanted EXCEPT !.tabs[t] = c])

\* newTabId: an id no page, row or save has.
Fresh(t) == /\ page.shown.tabs[t] = Absent /\ page.coming.tabs[t] = Absent
            /\ stored.tabs[t] = Absent
            /\ \A s \in Saves : save[s].body.tabs[t] = Absent

\* The tab is there, and empty, before its panel and its text are.
OpenTab(t) ==
    /\ page.at \in {"filling", "open"} /\ Fresh(t)
    /\ \E x \in Texts :
        LET c == [text |-> x, pad |-> Blank]
        IN  Change([page EXCEPT !.shown.tabs[t] = NewTab, !.coming.tabs[t] = c,
                                !.opened = @ \cup {t}], [wanted EXCEPT !.tabs[t] = c])

\* The click does not reach the tab bar, which would schedule a save.
CloseTab(t) ==
    /\ Shows(t)
    /\ Change([page EXCEPT !.shown.tabs[t] = Absent, !.missed = TRUE],
              [wanted EXCEPT !.tabs[t] = Absent])

Type(t)     == /\ MayEdit(t)
               /\ \E x \in Texts \ {page.shown.tabs[t].text} :
                         SetTab(t, [page.shown.tabs[t] EXCEPT !.text = x])
Note(t)     == /\ MayEdit(t)
               /\ \E x \in Texts \ {page.shown.tabs[t].pad} :
                         SetTab(t, [page.shown.tabs[t] EXCEPT !.pad = x])
\* While it lasts, the restore sets the layout itself.
Arrange     == /\ page.at = "open"
               /\ \E l \in Layouts : Change(Schedule([page.shown EXCEPT !.layout = l]),
                                         [wanted EXCEPT !.layout = l])

\* saveWorkspace: what the page shows now goes out; saves under way are older.
Post(s) ==
    /\ save[s].at = "idle"
    /\ save' = [x \in Saves |-> IF x = s THEN [NoRequest EXCEPT !.at = "sent",
                                                               !.body = page.shown]
                                ELSE [save[x] EXCEPT !.stale = save[x].at # "idle"]]

TimerFires(s) ==
    /\ page.timer /\ Post(s)
    /\ page' = [page EXCEPT !.timer = FALSE, !.missed = FALSE]
    /\ UNCHANGED <<stored, edits, wanted, saved, mishap, early>>

\* pagehide: a beacon goes out whether the page was restored or not.
Leave(s) ==
    /\ page.at # "closed" /\ Post(s)
    /\ page' = NoPage
    /\ early' = (early \/ Restoring)
    /\ mishap' = (mishap \/ Awaited # {})
    /\ UNCHANGED <<stored, edits, wanted, saved>>
-----------------------------------------------------------------------------
(* The server: handleWorkspaceSave, statement by statement *)

SaveFrame == UNCHANGED <<page, edits, wanted, mishap, early>>
Ended(s)  == save' = [save EXCEPT ![s] = NoRequest]

SaveLayout(s) ==
    /\ save[s].at = "sent"
    /\ stored' = SaveUserWorkspace(save[s].body.layout)
    /\ save' = [x \in Saves |-> IF x = s THEN [save[s] EXCEPT !.at = "clear", !.alone = Running = {}]
                                ELSE [save[x] EXCEPT !.alone = @ /\ x \notin Running]]
    /\ SaveFrame /\ UNCHANGED saved

Clear_OwnTabs(s) ==
    /\ save[s].at = "clear"
    /\ stored' = [stored EXCEPT !.tabs = [t \in Tabs |-> IF t \in TabsOf(save[s].body) THEN Absent ELSE @[t]]]
    /\ save' = [save EXCEPT ![s].at = "insert", ![s].todo = TabsOf(save[s].body)]
    /\ SaveFrame /\ UNCHANGED saved

Clear(s) ==
    /\ save[s].at = "clear"
    /\ stored' = ReplaceWorkspaceTabs
    /\ save' = [save EXCEPT ![s].at = "insert", ![s].todo = TabsOf(save[s].body)]
    /\ SaveFrame /\ UNCHANGED saved

\* The id is the primary key: a row another save inserted is an error.
Insert(s) ==
    /\ save[s].at = "insert"
    /\ \E t \in save[s].todo :
        LET c == save[s].body.tabs[t] IN
        /\ stored.tabs[t] = Absent
        /\ stored' = InsertWorkspaceTab(t, c)
        /\ save' = [save EXCEPT ![s].todo = @ \ {t}, ![s].tab = t,
                                ![s].at = IF c.pad = Blank THEN "insert" ELSE "pad"]
    /\ SaveFrame /\ UNCHANGED saved

SavePad(s) ==
    LET t == save[s].tab IN
    /\ save[s].at = "pad"
    /\ stored' = [stored EXCEPT !.tabs[t] = IF @ = Absent THEN Absent
                                            ELSE [@ EXCEPT !.pad = save[s].body.tabs[t].pad]]
    /\ save' = [save EXCEPT ![s].at = "insert"]
    /\ SaveFrame /\ UNCHANGED saved

\* ... whose failure is only logged.
PadFails(s) ==
    /\ save[s].at = "pad"
    /\ save' = [save EXCEPT ![s].at = "insert", ![s].alone = FALSE]
    /\ SaveFrame /\ UNCHANGED <<stored, saved>>

Done(s) ==
    /\ save[s].at = "insert" /\ save[s].todo = {}
    /\ Ended(s)
    /\ saved' = (save[s].alone /\ ~save[s].stale)
    /\ SaveFrame /\ UNCHANGED stored

\* A statement fails, the request is cancelled with its page or the server
\* ends; or the request never reaches the server.  Nobody sends it again.
SaveFails(s) ==
    /\ save[s].at # "idle"
    /\ Ended(s)
    /\ saved' = (saved /\ save[s].at = "sent" /\ save[s].stale)
    /\ SaveFrame /\ UNCHANGED stored
-----------------------------------------------------------------------------
WorkspaceNext ==
    \/ OpenPage \/ LoadLayout \/ LoadTabs \/ LoadPads \/ PadsFail
    \/ RestoreFails \/ Restored \/ Arrange
    \/ \E t \in Tabs : Fill(t) \/ OpenTab(t) \/ CloseTab(t) \/ Type(t) \/ Note(t)
    \/ \E s \in Saves : \/ TimerFires(s) \/ Leave(s)
                        \/ SaveLayout(s) \/ Clear(s) \/ Insert(s) \/ SavePad(s)
                        \/ PadFails(s) \/ Done(s) \/ SaveFails(s)

WorkspaceSpec == WorkspaceInit /\ [][WorkspaceNext]_workspaceVars
-----------------------------------------------------------------------------
(* Properties *)

\* Nothing the user did still waits to be saved, and no new tab for its panel.
Quiet == /\ UnderWay = {} /\ saved
         /\ \/ page.at = "closed"
            \/ page.at = "open" /\ ~page.timer /\ ~page.missed /\ Awaited = {}

\* Unless a page was left before its tabs had their panels, or a load failed or
\* raced a save, SQLite then holds the workspace as the user made it: tabs closed
\* are gone, and texts and pads belong together, after any saves that were lost,
\* failed or overtook each other before the last one (handleWorkspaceSave).
WorkspaceKept == Quiet /\ ~mishap /\ ~early => stored = wanted

\* ... and a restored page shows it, however often it was refreshed: the tabs the
\* user has, and in each what it held, but for new ones that wait for their panel
\* (restoreWorkspace, handleWorkspaceGet, openTab).
RestoredWhole == page.at = "open" /\ ~mishap /\ ~early =>
    /\ page.shown.layout = wanted.layout
    /\ TabsOf(page.shown) = TabsOf(wanted)
    /\ \A t \in Tabs \ Awaited : page.shown.tabs[t] = wanted.tabs[t]

\* The first without the exception of an early leave (workspace.js: "save UI state to
\* sqlite and restore it after refresh").
RefreshKeepsTabs == Quiet /\ ~mishap => stored = wanted
=============================================================================
