---------------------------- MODULE StoreProofs ----------------------------
(***************************************************************************)
(* Proofs about the three parts of Store, each of its own specification.   *)
(* Workspace: the types, what SQLite holds when nothing waits to be saved, *)
(* and what a restored page shows.  History: that no signalled row is      *)
(* missed.  Accounts: what the process serves from, the cookies, the       *)
(* token and the passwords.                                                *)
(***************************************************************************)
EXTENDS Store, TLAPS

-----------------------------------------------------------------------------
(* The workspace.                                                           *)

\* A change that is scheduled, or missed, has been made on a page that shows.
PageInv == /\ page.timer => page.at = "open"
           /\ page.missed => page.at \in {"filling", "open"}
           /\ page.opened # {} => page.at \in {"filling", "open"}

TodoRight(q) ==
    /\ q.at \in {"insert", "pad"} => q.todo \subseteq TabsOf(q.body)
    /\ q.at = "pad" => q.tab \in TabsOf(q.body) \ q.todo
TodoInv == \A s \in Saves : TodoRight(save[s])

\* How far a save that runs alone has come: its row of t.
Written(q, t) == IF t \in q.todo THEN Absent
                 ELSE IF q.at = "pad" /\ t = q.tab THEN [q.body.tabs[t] EXCEPT !.pad = Blank]
                 ELSE q.body.tabs[t]
HasWritten(q) == /\ stored.layout = q.body.layout
                 /\ q.at \in {"insert", "pad"} => \A t \in Tabs : stored.tabs[t] = Written(q, t)
AloneInv == \A s \in Running : save[s].alone => Running = {s} /\ HasWritten(save[s])

Good == ~mishap /\ ~early

\* Page p shows, or will show, the workspace w.
Matches(p, w) ==
    /\ p.shown.layout = w.layout
    /\ \A t \in Tabs : IF p.shown.tabs[t] # Absent /\ p.coming.tabs[t] # Absent
                       THEN w.tabs[t] = p.coming.tabs[t] ELSE w.tabs[t] = p.shown.tabs[t]

\* What a page that loads has read, and what one that shows has to show.
ViewInv == Good =>
    /\ page.at \in {"tabs", "pads"} =>
          UnderWay = {} /\ saved /\ page.coming.layout = stored.layout
    /\ page.at = "pads" => page.coming.tabs = ListWorkspaceTabs
    /\ page.at \in {"filling", "open"} => Matches(page, wanted)
    /\ page.at = "open" => TabsOf(page.coming) \subseteq page.opened

\* Unless a change still waits, the newest save carries what the user made,
\* and SQLite holds it when that save is over and no other runs.
Clean   == ~page.timer /\ ~page.missed /\ Awaited = {}
Settled == saved /\ \A s \in UnderWay : save[s].stale /\ save[s].at = "sent"
SaveInv == Good /\ Clean =>
    /\ \A s \in UnderWay : save[s].stale \/ save[s].body = wanted
    /\ Settled => stored = wanted

WorkspaceInv == WorkspaceTypeOK /\ PageInv /\ TodoInv /\ AloneInv /\ ViewInv /\ SaveInv
-----------------------------------------------------------------------------
(* The records *)

\* An empty store is one, and has no tabs.
LEMMA EmptyState == Empty \in State /\ Empty.tabs = [t \in Tabs |-> Absent]
BY WorkspaceAssumption DEF Empty, State

\* A page that is not open is closed and owes nothing.
LEMMA NoPageIsPage ==
    /\ NoPage \in Page /\ NoPage.at = "closed" /\ ~NoPage.timer /\ ~NoPage.missed
    /\ NoPage.opened = {}
BY EmptyState DEF NoPage, Page, PageSteps

\* A request that was not made is idle.
LEMMA NoRequestIsRequest ==
    /\ NoRequest \in Request /\ NoRequest.at = "idle"
BY EmptyState DEF NoRequest, Request, SaveSteps

\* Two states that agree on the layout and on every tab are the same.
LEMMA SameState ==
    ASSUME NEW a \in State, NEW b \in State, a.layout = b.layout,
           \A t \in Tabs : a.tabs[t] = b.tabs[t]
    PROVE  a = b
<1>1. a.tabs = b.tabs
    BY DEF State
<1> QED BY <1>1 DEF State

\* The texts of a tab, once its pad is cleared and once it is set again.
LEMMA Pads ==
    ASSUME NEW c \in Content
    PROVE  /\ c # Absent
           /\ \A x \in Texts : [c EXCEPT !.pad = x] \in Content
           /\ \A x \in Texts : [[c EXCEPT !.pad = x] EXCEPT !.pad = c.pad] = c
           /\ c.pad = Blank => [c EXCEPT !.pad = Blank] = c
BY WorkspaceAssumption DEF Content

\* A tab without its panel is there, and blank.
LEMMA NewTabType == NewTab \in Content /\ NewTab # Absent
BY WorkspaceAssumption DEF NewTab, Content
-----------------------------------------------------------------------------
(* Steps of the page *)

\* A step that only loads or fills the page preserves what is said of saves.
LEMMA PageStep ==
    ASSUME WorkspaceInv, page' \in Page, mishap' \in BOOLEAN, mishap => mishap',
           UNCHANGED <<stored, save, edits, wanted, saved, early>>,
           PageInv', ViewInv', Good' /\ Clean' => Clean
    PROVE  WorkspaceInv'
<1>1. WorkspaceTypeOK'
    BY DEF WorkspaceInv, WorkspaceTypeOK
<1>2. TodoInv'
    BY DEF WorkspaceInv, TodoInv
<1>3. Running' = Running /\ UnderWay' = UnderWay
    BY DEF Running, UnderWay
<1>4. AloneInv'
    BY <1>3 DEF WorkspaceInv, AloneInv, HasWritten
<1>5. SaveInv'
    BY <1>3 DEF WorkspaceInv, SaveInv, Settled, Good
<1> QED BY <1>1, <1>2, <1>4, <1>5 DEF WorkspaceInv

\* A page opens with nothing of its own to lose.
LEMMA OpenPageKeeps == ASSUME WorkspaceInv, OpenPage PROVE WorkspaceInv'
<1>1. /\ page.at = "closed" /\ page' = [NoPage EXCEPT !.at = "layout"]
      /\ UNCHANGED <<stored, save, edits, wanted, saved, mishap, early>>
    BY DEF OpenPage
<1>2. page' \in Page /\ page'.at = "layout" /\ ~page'.timer /\ ~page'.missed /\ page'.opened = {}
    BY <1>1, NoPageIsPage DEF Page, PageSteps
<1>3. PageInv'
    BY <1>2 DEF PageInv
<1>4. ViewInv'
    BY <1>2 DEF ViewInv
<1>5. Clean
    BY <1>1 DEF WorkspaceInv, PageInv, Clean, Awaited
<1> QED BY <1>1, <1>2, <1>3, <1>4, <1>5, PageStep DEF WorkspaceInv, WorkspaceTypeOK

\* A load that meets no save reads what SQLite holds for good.
LEMMA LoadStepKeeps ==
    ASSUME WorkspaceInv, NEW from \in {"layout", "tabs"}, NEW to \in {"tabs", "pads"},
           NEW read \in State, LoadStep(from, to, read),
           Good => read.layout = stored.layout,
           to = "pads" => read.tabs = ListWorkspaceTabs
    PROVE  WorkspaceInv'
<1>1. /\ page.at = from /\ page' = [page EXCEPT !.at = to, !.coming = read]
      /\ UNCHANGED <<stored, save, edits, wanted, saved, early>>
    BY DEF LoadStep
<1> PICK raced \in BOOLEAN : raced = Raced
    BY DEF Raced
<1>2. mishap' = (mishap \/ raced)
    BY Zenon DEF LoadStep
<1>3. /\ page' \in Page /\ page'.at = to /\ page'.coming = read
      /\ page'.timer = page.timer /\ page'.missed = page.missed /\ page'.opened = page.opened
    BY <1>1 DEF WorkspaceInv, WorkspaceTypeOK, Page, PageSteps
<1>4. ~page.timer /\ ~page.missed /\ page.opened = {}
    BY <1>1 DEF WorkspaceInv, PageInv
<1>5. PageInv'
    BY <1>3, <1>4 DEF PageInv
<1>6. mishap \in BOOLEAN /\ mishap' \in BOOLEAN /\ (mishap => mishap')
    BY <1>2 DEF WorkspaceInv, WorkspaceTypeOK
<1>7. Good' => Good /\ ~raced
    BY <1>1, <1>2, <1>6 DEF Good
<1>8. ~raced => UnderWay = {} /\ saved
    BY DEF Raced
<1>9. UnderWay' = UnderWay /\ ListWorkspaceTabs' = ListWorkspaceTabs
    BY <1>1 DEF UnderWay, ListWorkspaceTabs
<1>10. ViewInv'
    BY <1>1, <1>3, <1>7, <1>8, <1>9 DEF ViewInv
<1>11. Clean
    BY <1>4 DEF Clean, Awaited
<1> QED BY <1>1, <1>3, <1>5, <1>6, <1>10, <1>11, PageStep

\* What the store is read as is of the type of what it holds.
LEMMA ReadTypes ==
    ASSUME stored \in State
    PROVE  /\ GetUserWorkspace \in State /\ GetUserWorkspace.layout = stored.layout
           /\ ListWorkspaceTabs \in [Tabs -> Content \cup {Absent}]
<1>1. GetUserWorkspace \in State /\ GetUserWorkspace.layout = stored.layout
    BY EmptyState DEF GetUserWorkspace, State
<1>2. ASSUME NEW t \in Tabs, stored.tabs[t] # Absent
      PROVE  [stored.tabs[t] EXCEPT !.pad = Blank] \in Content
    BY <1>2, WorkspaceAssumption DEF State, Content
<1> QED BY <1>1, <1>2 DEF ListWorkspaceTabs

\* The page gets the layout as stored.
LEMMA LoadLayoutKeeps == ASSUME WorkspaceInv, LoadLayout PROVE WorkspaceInv'
<1>1. stored \in State
    BY DEF WorkspaceInv, WorkspaceTypeOK
<1>2. LoadStep("layout", "tabs", GetUserWorkspace)
    BY DEF LoadLayout
<1> QED BY <1>1, <1>2, ReadTypes, LoadStepKeeps

\* The page gets the tabs as stored; a save under way makes it a mishap.
LEMMA LoadTabsKeeps == ASSUME WorkspaceInv, LoadTabs PROVE WorkspaceInv'
<1>1. stored \in State /\ page \in Page
    BY DEF WorkspaceInv, WorkspaceTypeOK
<1> DEFINE read == [page.coming EXCEPT !.tabs = ListWorkspaceTabs]
<1>2. LoadStep("tabs", "pads", read)
    BY DEF LoadTabs
<1>3. page.coming \in State /\ page.at = "tabs"
    BY <1>1, <1>2 DEF Page, LoadStep
<1>4. read \in State /\ read.layout = page.coming.layout /\ read.tabs = ListWorkspaceTabs
    BY <1>1, <1>3, ReadTypes DEF State
<1>5. Good => page.coming.layout = stored.layout
    BY <1>3 DEF WorkspaceInv, ViewInv
<1> HIDE DEF read
<1> QED BY <1>2, <1>4, <1>5, LoadStepKeeps

\* The page once an answer has arrived: every tab has a button and an empty
\* panel, and its texts are still to come.
LEMMA ArrivedType ==
    ASSUME page \in Page, NEW c \in State
    PROVE  /\ Arrived(c) \in Page /\ Arrived(c).at = "filling" /\ Arrived(c).coming = c
           /\ Arrived(c).timer = page.timer /\ Arrived(c).missed = page.missed
           /\ Arrived(c).opened = page.opened
           /\ Arrived(c).shown.layout = c.layout
           /\ \A t \in Tabs : Arrived(c).shown.tabs[t] = Absent <=> c.tabs[t] = Absent
<1> DEFINE tabs  == [t \in Tabs |-> IF c.tabs[t] = Absent THEN Absent
                                    ELSE NewTab]
           shown == [layout |-> c.layout, tabs |-> tabs]
<1>1. NewTab \in Content
    BY NewTabType
<1>2. NewTab # Absent
    BY NewTabType
<1>3. /\ tabs \in [Tabs -> Content \cup {Absent}]
      /\ \A t \in Tabs : tabs[t] = Absent <=> c.tabs[t] = Absent
    BY <1>1, <1>2
<1> HIDE DEF tabs
<1>4. shown \in State /\ shown.layout = c.layout /\ shown.tabs = tabs
    BY <1>3 DEF State
<1>5. Arrived(c) = [page EXCEPT !.at = "filling", !.coming = c, !.shown = shown]
    BY DEF Arrived, shown, tabs
<1> HIDE DEF shown
<1>6. /\ Arrived(c) \in Page /\ Arrived(c).at = "filling" /\ Arrived(c).coming = c
      /\ Arrived(c).timer = page.timer /\ Arrived(c).missed = page.missed
      /\ Arrived(c).shown = shown /\ Arrived(c).opened = page.opened
    BY <1>4, <1>5 DEF Page, PageSteps
<1> QED BY <1>3, <1>4, <1>6

\* The answer that arrives when no save is under way is the workspace.
LEMMA LoadPadsKeeps == ASSUME WorkspaceInv, LoadPads PROVE WorkspaceInv'
<1> DEFINE tabs == [t \in Tabs |->
                       IF page.coming.tabs[t] # Absent /\ stored.tabs[t] # Absent
                       THEN [page.coming.tabs[t] EXCEPT !.pad = stored.tabs[t].pad]
                       ELSE page.coming.tabs[t]]
           c == [page.coming EXCEPT !.tabs = tabs]
<1>1. /\ stored \in State /\ wanted \in State /\ page \in Page /\ page.coming \in State
      /\ page.at = "pads" /\ UNCHANGED <<stored, save, edits, wanted, saved, early>>
    BY DEF LoadPads, WorkspaceInv, WorkspaceTypeOK, Page
<1>2. \A t \in Tabs : tabs[t] \in Content \cup {Absent}
    BY <1>1 DEF State, Content
<1>3. c \in State /\ c.layout = page.coming.layout /\ c.tabs = tabs
    BY <1>1, <1>2 DEF State
<1>4. page' = Arrived(c)
    BY <1>1 DEF LoadPads, State
<1> PICK raced \in BOOLEAN : raced = Raced
    BY DEF Raced
<1>5. mishap' = (mishap \/ raced)
    BY Zenon DEF LoadPads
<1>6. ~raced => UnderWay = {} /\ saved
    BY DEF Raced
<1>7. mishap \in BOOLEAN /\ mishap' \in BOOLEAN /\ (mishap => mishap')
    BY <1>5 DEF WorkspaceInv, WorkspaceTypeOK
<1>8. Good' => Good /\ ~raced
    BY <1>1, <1>5, <1>7 DEF Good
<1>9. Clean
    BY <1>1 DEF WorkspaceInv, PageInv, Clean, Awaited
<1>10. Good' => stored = wanted
    BY <1>6, <1>8, <1>9 DEF WorkspaceInv, SaveInv, Settled
<1>11. ASSUME Good, NEW t \in Tabs PROVE tabs[t] = stored.tabs[t]
  <2>1. page.coming.tabs = ListWorkspaceTabs
      BY <1>1, <1>11 DEF WorkspaceInv, ViewInv
  <2>2. CASE stored.tabs[t] = Absent
      BY <2>1, <2>2 DEF ListWorkspaceTabs
  <2>3. CASE stored.tabs[t] # Absent
    <3> PICK d \in Content : d = stored.tabs[t]
        BY <1>1, <2>3 DEF State
    <3>1. page.coming.tabs[t] = [d EXCEPT !.pad = Blank]
        BY <2>1, <2>3 DEF ListWorkspaceTabs
    <3>2. page.coming.tabs[t] # Absent
        BY <3>1, Pads, WorkspaceAssumption
    <3>3. tabs[t] = [[d EXCEPT !.pad = Blank] EXCEPT !.pad = d.pad]
        BY <2>3, <3>1, <3>2
    <3> QED BY <3>3, Pads, WorkspaceAssumption
  <2> QED BY <2>2, <2>3
<1> HIDE DEF tabs, c
<1>12. Good' => page.coming.layout = stored.layout
    BY <1>1, <1>8 DEF WorkspaceInv, ViewInv
<1>13. Good' => c.layout = wanted.layout /\ \A t \in Tabs : c.tabs[t] = wanted.tabs[t]
    BY <1>3, <1>8, <1>10, <1>11, <1>12
<1>14. /\ page' \in Page /\ page'.at = "filling" /\ page'.coming = c
       /\ page'.timer = page.timer /\ page'.missed = page.missed /\ page'.opened = page.opened
       /\ page'.shown.layout = c.layout
       /\ \A t \in Tabs : page'.shown.tabs[t] = Absent <=> c.tabs[t] = Absent
    BY <1>1, <1>3, <1>4, ArrivedType
<1>15. PageInv'
    BY <1>1, <1>14 DEF WorkspaceInv, PageInv
<1>16. ViewInv'
    BY <1>1, <1>13, <1>14 DEF ViewInv, Matches
<1> QED BY <1>1, <1>7, <1>9, <1>14, <1>15, <1>16, PageStep

\* A step that goes wrong keeps the types; nothing is promised after it.
LEMMA MishapStep ==
    ASSUME WorkspaceInv, page' \in Page, mishap' = TRUE, PageInv',
           UNCHANGED <<stored, save, edits, wanted, saved, early>>
    PROVE  WorkspaceInv'
<1>1. ~Good'
    BY DEF Good
<1>2. ViewInv'
    BY <1>1 DEF ViewInv
<1> QED BY <1>1, <1>2, PageStep

\* The pads do not come: a mishap, the tabs are filled without them.
LEMMA PadsFailKeeps == ASSUME WorkspaceInv, PadsFail PROVE WorkspaceInv'
<1>1. /\ page \in Page /\ page.coming \in State /\ page.at = "pads"
      /\ page' = Arrived(page.coming) /\ mishap' = TRUE
      /\ UNCHANGED <<stored, save, edits, wanted, saved, early>>
    BY DEF PadsFail, WorkspaceInv, WorkspaceTypeOK, Page
<1>2. /\ page' \in Page /\ page'.at = "filling" /\ page'.opened = page.opened
      /\ page'.timer = page.timer /\ page'.missed = page.missed
    BY <1>1, ArrivedType
<1>3. PageInv'
    BY <1>1, <1>2 DEF WorkspaceInv, PageInv
<1> QED BY <1>1, <1>2, <1>3, MishapStep

\* The restore ends early, a mishap; the page is open and may save what it shows.
LEMMA RestoreFailsKeeps == ASSUME WorkspaceInv, RestoreFails PROVE WorkspaceInv'
<1> PICK c \in State : c = IF page.at = "filling" THEN page.coming ELSE Empty
    BY EmptyState DEF WorkspaceInv, WorkspaceTypeOK, Page
<1>1. /\ page' = [page EXCEPT !.at = "open", !.coming = c] /\ mishap' = TRUE
      /\ UNCHANGED <<stored, save, edits, wanted, saved, early>>
    BY DEF RestoreFails
<1>2. page' \in Page /\ page'.at = "open"
    BY <1>1 DEF WorkspaceInv, WorkspaceTypeOK, Page, PageSteps
<1>3. PageInv'
    BY <1>2 DEF PageInv
<1> QED BY <1>1, <1>2, <1>3, MishapStep

\* A restored tab gets its panel and text.
LEMMA FillKeeps == ASSUME WorkspaceInv, NEW t \in Tabs, Fill(t) PROVE WorkspaceInv'
<1>1. /\ page \in Page /\ page.at \in {"filling", "open"} /\ page.coming.tabs[t] # Absent
      /\ UNCHANGED <<stored, save, edits, wanted, saved, mishap, early>>
    BY DEF Fill, WorkspaceInv, WorkspaceTypeOK
<1>2. page.coming \in State /\ page.shown \in State
    BY <1>1 DEF Page
<1> DEFINE coming == [page.coming EXCEPT !.tabs[t] = Absent]
           d == IF page.shown.tabs[t] = Absent THEN Absent ELSE page.coming.tabs[t]
           shown == [page.shown EXCEPT !.tabs[t] = d]
<1>3. d \in Content \cup {Absent}
    BY <1>2 DEF State
<1>4. /\ coming \in State
      /\ \A u \in Tabs : coming.tabs[u] = IF u = t THEN Absent ELSE page.coming.tabs[u]
    BY <1>2 DEF State
<1>d. d = IF page.shown.tabs[t] = Absent THEN Absent ELSE page.coming.tabs[t]
    OBVIOUS
<1> HIDE DEF d
<1>5. /\ shown \in State /\ shown.layout = page.shown.layout
      /\ \A u \in Tabs : shown.tabs[u] = IF u = t THEN d ELSE page.shown.tabs[u]
    BY <1>2, <1>3 DEF State
<1> PICK timer \in BOOLEAN : timer = (page.timer \/ page.at = "open")
    OBVIOUS
<1> PICK missed \in BOOLEAN : missed = (page.missed \/ (page.at = "filling" /\ t \in page.opened))
    OBVIOUS
<1>6. page' = [page EXCEPT !.coming = coming, !.shown = shown, !.timer = timer, !.missed = missed]
  <2>1. page' = [page EXCEPT !.coming.tabs[t] = Absent, !.shown.tabs[t] = d,
                             !.timer = (page.timer \/ page.at = "open"),
                             !.missed = (page.missed \/ (page.at = "filling" /\ t \in page.opened))]
      BY DEF Fill, d
  <2>2. page' = [page EXCEPT !.coming.tabs[t] = Absent, !.shown.tabs[t] = d, !.timer = timer,
                             !.missed = missed]
      BY <2>1, Zenon
  <2> QED BY <2>2, <1>1 DEF Page
<1> HIDE DEF coming, shown
<1>7. /\ page' \in Page /\ page'.at = page.at /\ page'.missed = missed
      /\ page'.timer = timer /\ page'.coming = coming /\ page'.shown = shown
      /\ page'.opened = page.opened
    BY <1>1, <1>4, <1>5, <1>6 DEF Page
<1>8. PageInv'
    BY <1>1, <1>7 DEF WorkspaceInv, PageInv
<1>9. Good' => Good /\ Matches(page, wanted) /\ (page.at = "open" => TabsOf(page.coming) \subseteq page.opened)
    BY <1>1 DEF Good, WorkspaceInv, ViewInv
<1>10. ViewInv'
  <2>1. ASSUME Matches(page, wanted) PROVE Matches(page', wanted)
    <3>1. page'.shown.layout = wanted.layout
        BY <1>5, <1>7, <2>1 DEF Matches
    <3>2. ASSUME NEW u \in Tabs
          PROVE  IF shown.tabs[u] # Absent /\ coming.tabs[u] # Absent
                 THEN wanted.tabs[u] = coming.tabs[u] ELSE wanted.tabs[u] = shown.tabs[u]
      <4>1. CASE u = t
          BY <1>1, <1>4, <1>5, <1>d, <2>1, <4>1 DEF Matches
      <4>2. CASE u # t
          BY <1>4, <1>5, <2>1, <4>2 DEF Matches
      <4> QED BY <4>1, <4>2
    <3> QED BY <1>7, <3>1, <3>2 DEF Matches
  <2>2. TabsOf(coming) \subseteq TabsOf(page.coming)
      BY <1>4 DEF TabsOf
  <2> QED BY <1>1, <1>7, <1>9, <2>1, <2>2 DEF ViewInv
<1>11. Good' /\ Clean' => Clean
  <2>1. ASSUME Clean' PROVE Awaited = {}
    <3>1. page.at = "filling" /\ t \notin page.opened
        BY <1>1, <1>7, <2>1 DEF Clean
    <3>2. \A u \in page.opened : u # t => coming.tabs[u] = page.coming.tabs[u] /\ shown.tabs[u] = page.shown.tabs[u]
        BY <1>1, <1>4, <1>5 DEF Page
    <3>3. Awaited' = {}
        BY <2>1 DEF Clean
    <3>4. \A u \in Awaited : u \in Awaited'
        BY <1>7, <3>1, <3>2 DEF Awaited
    <3> QED BY <3>3, <3>4
  <2> QED BY <1>7, <2>1 DEF Clean
<1>12. mishap \in BOOLEAN /\ mishap' \in BOOLEAN /\ (mishap => mishap')
    BY <1>1 DEF WorkspaceInv, WorkspaceTypeOK
<1> QED BY <1>1, <1>7, <1>8, <1>10, <1>11, <1>12, PageStep

\* The restore is over: from here on the page may save.
LEMMA RestoredKeeps == ASSUME WorkspaceInv, Restored PROVE WorkspaceInv'
<1>1. /\ page \in Page /\ page.shown \in State /\ page.coming \in State
      /\ page.at = "filling" /\ TabsOf(page.coming) \subseteq page.opened
      /\ page' = [page EXCEPT !.at = "open", !.coming.layout = Empty.layout]
      /\ UNCHANGED <<stored, save, edits, wanted, saved, mishap, early>>
    BY DEF Restored, WorkspaceInv, WorkspaceTypeOK, Page
<1>2. /\ page' \in Page /\ page'.at = "open" /\ page'.coming.tabs = page.coming.tabs
      /\ page'.shown = page.shown /\ page'.opened = page.opened
      /\ page'.timer = page.timer /\ page'.missed = page.missed
    BY <1>1, EmptyState DEF Page, PageSteps, State
<1>3. PageInv'
    BY <1>2 DEF PageInv
<1>4. Good' => Good /\ Matches(page, wanted)
    BY <1>1 DEF Good, WorkspaceInv, ViewInv
<1>5. ViewInv'
    BY <1>1, <1>2, <1>4 DEF ViewInv, Matches, TabsOf
<1>6. Good' /\ Clean' => Clean
    BY <1>2 DEF Clean, Awaited
<1>7. mishap \in BOOLEAN /\ mishap' \in BOOLEAN /\ (mishap => mishap')
    BY <1>1 DEF WorkspaceInv, WorkspaceTypeOK
<1> QED BY <1>1, <1>2, <1>3, <1>5, <1>6, <1>7, PageStep
-----------------------------------------------------------------------------
(* The user, and the requests the page sends *)

\* A change leaves the page as the user made it, and something to save.
LEMMA ChangeKeeps ==
    ASSUME WorkspaceInv, NEW next \in Page, NEW meant \in State, Change(next, meant),
           page.at \in {"filling", "open"}, next.at = page.at,
           next.timer => page.timer \/ next.at = "open",
           next.timer \/ next.missed \/ Awaited' # {},
           Good => Matches(next, meant),
           Good /\ page.at = "open" => TabsOf(next.coming) \subseteq next.opened
    PROVE  WorkspaceInv'
<1>1. /\ edits < MaxEdits /\ edits' = edits + 1 /\ wanted' = meant /\ page' = next
      /\ UNCHANGED <<stored, save, saved, mishap, early>>
    BY DEF Change
<1>2. PageInv'
    BY <1>1 DEF WorkspaceInv, PageInv
<1>3. ~Clean'
    BY <1>1 DEF Clean
<1>4. Good' <=> Good
    BY <1>1 DEF Good
<1>5. ViewInv'
    BY <1>1, <1>4 DEF ViewInv
<1>6. SaveInv'
    BY <1>3 DEF SaveInv
<1>7. WorkspaceTypeOK'
    BY <1>1, WorkspaceAssumption DEF WorkspaceInv, WorkspaceTypeOK
<1>8. TodoInv'
    BY <1>1 DEF WorkspaceInv, TodoInv
<1>9. AloneInv'
  <2>1. Running' = Running
      BY <1>1 DEF Running
  <2> QED BY <1>1, <2>1 DEF WorkspaceInv, AloneInv, HasWritten
<1> QED BY <1>2, <1>5, <1>6, <1>7, <1>8, <1>9 DEF WorkspaceInv

\* What the page shows is of its type, and it matches what the user made.
LEMMA ShownTypes ==
    ASSUME WorkspaceInv
    PROVE  /\ page \in Page /\ page.shown \in State /\ page.coming \in State /\ wanted \in State
           /\ page.opened \subseteq Tabs
           /\ Good /\ page.at \in {"filling", "open"} => Matches(page, wanted)
           /\ Good /\ page.at = "open" => TabsOf(page.coming) \subseteq page.opened
BY DEF WorkspaceInv, WorkspaceTypeOK, Page, ViewInv

\* A save is scheduled, or missed, for what the page shows.
LEMMA Scheduled ==
    ASSUME page \in Page, page.at \in {"filling", "open"}, NEW shown \in State
    PROVE  /\ Schedule(shown) \in Page /\ Schedule(shown).at = page.at
           /\ Schedule(shown).coming = page.coming /\ Schedule(shown).opened = page.opened
           /\ Schedule(shown).shown = shown
           /\ Schedule(shown).timer => page.timer \/ page.at = "open"
           /\ Schedule(shown).timer \/ Schedule(shown).missed
BY DEF Schedule, Restoring, Page

\* A tab of the page that has its panel changes.
LEMMA SetTabKeeps ==
    ASSUME WorkspaceInv, NEW t \in Tabs, NEW c \in Content \cup {Absent}, MayEdit(t), SetTab(t, c)
    PROVE  WorkspaceInv'
<1>1. page.at \in {"filling", "open"} /\ page.coming.tabs[t] = Absent
    BY DEF MayEdit, Shows
<1> DEFINE shown == [page.shown EXCEPT !.tabs[t] = c]
           meant == [wanted EXCEPT !.tabs[t] = c]
<1>2. Change(Schedule(shown), meant)
    BY DEF SetTab
<1>3. /\ shown \in State /\ shown.layout = page.shown.layout
      /\ \A u \in Tabs : shown.tabs[u] = IF u = t THEN c ELSE page.shown.tabs[u]
    BY ShownTypes DEF State
<1>4. /\ meant \in State /\ meant.layout = wanted.layout
      /\ \A u \in Tabs : meant.tabs[u] = IF u = t THEN c ELSE wanted.tabs[u]
    BY ShownTypes DEF State
<1> HIDE DEF shown, meant
<1> DEFINE next == Schedule(shown)
<1>5. /\ next \in Page /\ next.at = page.at /\ next.coming = page.coming
      /\ next.opened = page.opened /\ next.shown = shown
      /\ next.timer => page.timer \/ page.at = "open"
      /\ next.timer \/ next.missed
    BY <1>1, <1>3, ShownTypes, Scheduled
<1> HIDE DEF next
<1>6. Good => Matches(next, meant)
    BY <1>1, <1>3, <1>4, <1>5, ShownTypes DEF Matches
<1>7. Good /\ page.at = "open" => TabsOf(next.coming) \subseteq next.opened
    BY <1>5, ShownTypes
<1>8. Change(next, meant)
    BY <1>2 DEF next
<1> QED BY <1>1, <1>4, <1>5, <1>6, <1>7, <1>8, ChangeKeeps

\* A new tab is there before its panel is.
LEMMA OpenTabKeeps == ASSUME WorkspaceInv, NEW t \in Tabs, OpenTab(t) PROVE WorkspaceInv'
<1> PICK x \in Texts :
      LET c == [text |-> x, pad |-> Blank]
      IN  Change([page EXCEPT !.shown.tabs[t] = NewTab, !.coming.tabs[t] = c, !.opened = @ \cup {t}],
                 [wanted EXCEPT !.tabs[t] = c])
    BY Zenon DEF OpenTab
<1> DEFINE c      == [text |-> x, pad |-> Blank]
           shown  == [page.shown EXCEPT !.tabs[t] = NewTab]
           coming == [page.coming EXCEPT !.tabs[t] = c]
           meant  == [wanted EXCEPT !.tabs[t] = c]
           next   == [page EXCEPT !.shown = shown, !.coming = coming, !.opened = page.opened \cup {t}]
<1>1. page.at \in {"filling", "open"}
    BY DEF OpenTab
<1>2. c \in Content /\ c # Absent
    BY WorkspaceAssumption DEF Content
<1> HIDE DEF c
<1>3. /\ shown \in State /\ shown.layout = page.shown.layout
      /\ \A u \in Tabs : shown.tabs[u] = IF u = t THEN NewTab ELSE page.shown.tabs[u]
    BY ShownTypes, NewTabType DEF State
<1>4. /\ coming \in State
      /\ \A u \in Tabs : coming.tabs[u] = IF u = t THEN c ELSE page.coming.tabs[u]
    BY <1>2, ShownTypes DEF State
<1>5. /\ meant \in State /\ meant.layout = wanted.layout
      /\ \A u \in Tabs : meant.tabs[u] = IF u = t THEN c ELSE wanted.tabs[u]
    BY <1>2, ShownTypes DEF State
<1>6. Change(next, meant)
  <2>1. next = [page EXCEPT !.shown.tabs[t] = NewTab, !.coming.tabs[t] = c, !.opened = @ \cup {t}]
      BY ShownTypes DEF Page
  <2> QED BY <2>1 DEF c
<1> HIDE DEF shown, coming, meant
<1>7. /\ next \in Page /\ next.at = page.at /\ next.shown = shown /\ next.coming = coming
      /\ next.timer = page.timer /\ next.opened = page.opened \cup {t}
    BY <1>3, <1>4, ShownTypes DEF Page
<1> HIDE DEF next
<1>8. Awaited' # {}
  <2>1. page' = next
      BY <1>6 DEF Change
  <2>2. t \in Awaited'
      BY <1>2, <1>3, <1>4, <1>7, <2>1, NewTabType DEF Awaited
  <2> QED BY <2>2
<1>9. Good => Matches(next, meant)
    BY <1>1, <1>2, <1>3, <1>4, <1>5, <1>7, ShownTypes, NewTabType DEF Matches
<1>10. Good /\ page.at = "open" => TabsOf(next.coming) \subseteq next.opened
    BY <1>4, <1>7, ShownTypes DEF TabsOf
<1> QED BY <1>1, <1>5, <1>6, <1>7, <1>8, <1>9, <1>10, ChangeKeeps

\* A tab is closed, with or without its panel.
LEMMA CloseTabKeeps == ASSUME WorkspaceInv, NEW t \in Tabs, CloseTab(t) PROVE WorkspaceInv'
<1> DEFINE shown == [page.shown EXCEPT !.tabs[t] = Absent]
           meant == [wanted EXCEPT !.tabs[t] = Absent]
           next  == [page EXCEPT !.shown = shown, !.missed = TRUE]
<1>1. page.at \in {"filling", "open"}
    BY DEF CloseTab, Shows
<1>2. /\ shown \in State /\ shown.layout = page.shown.layout
      /\ \A u \in Tabs : shown.tabs[u] = IF u = t THEN Absent ELSE page.shown.tabs[u]
    BY ShownTypes DEF State
<1>3. /\ meant \in State /\ meant.layout = wanted.layout
      /\ \A u \in Tabs : meant.tabs[u] = IF u = t THEN Absent ELSE wanted.tabs[u]
    BY ShownTypes DEF State
<1>4. Change(next, meant)
  <2>1. next = [page EXCEPT !.shown.tabs[t] = Absent, !.missed = TRUE]
      BY ShownTypes DEF Page
  <2> QED BY <2>1 DEF CloseTab
<1> HIDE DEF shown, meant
<1>5. /\ next \in Page /\ next.at = page.at /\ next.shown = shown /\ next.coming = page.coming
      /\ next.timer = page.timer /\ next.opened = page.opened /\ next.missed
    BY <1>2, ShownTypes DEF Page
<1> HIDE DEF next
<1>6. Good => Matches(next, meant)
    BY <1>1, <1>2, <1>3, <1>5, ShownTypes DEF Matches
<1>7. Good /\ page.at = "open" => TabsOf(next.coming) \subseteq next.opened
    BY <1>5, ShownTypes
<1> QED BY <1>1, <1>3, <1>4, <1>5, <1>6, <1>7, ChangeKeeps

\* The user opens, closes or edits a tab.
LEMMA EditKeeps ==
    ASSUME WorkspaceInv, NEW t \in Tabs, OpenTab(t) \/ CloseTab(t) \/ Type(t) \/ Note(t)
    PROVE  WorkspaceInv'
<1>1. CASE OpenTab(t)
    BY <1>1, OpenTabKeeps
<1>2. CASE CloseTab(t)
    BY <1>2, CloseTabKeeps
<1>3. CASE Type(t)
  <2> PICK x \in Texts : SetTab(t, [page.shown.tabs[t] EXCEPT !.text = x])
      BY <1>3 DEF Type
  <2>1. [page.shown.tabs[t] EXCEPT !.text = x] \in Content /\ MayEdit(t)
      BY <1>3, ShownTypes DEF Type, MayEdit, Shows, State, Content
  <2> QED BY <2>1, SetTabKeeps
<1>4. CASE Note(t)
  <2> PICK x \in Texts : SetTab(t, [page.shown.tabs[t] EXCEPT !.pad = x])
      BY <1>4 DEF Note
  <2>1. [page.shown.tabs[t] EXCEPT !.pad = x] \in Content /\ MayEdit(t)
      BY <1>4, ShownTypes DEF Note, MayEdit, Shows, State, Content
  <2> QED BY <2>1, SetTabKeeps
<1> QED BY <1>1, <1>2, <1>3, <1>4

\* The user moves the panels.
LEMMA ArrangeKeeps == ASSUME WorkspaceInv, Arrange PROVE WorkspaceInv'
<1>1. page.at = "open"
    BY DEF Arrange
<1> PICK l \in Layouts :
      Change(Schedule([page.shown EXCEPT !.layout = l]), [wanted EXCEPT !.layout = l])
    BY DEF Arrange
<1> DEFINE shown == [page.shown EXCEPT !.layout = l]
           meant == [wanted EXCEPT !.layout = l]
           next  == Schedule(shown)
<1>2. /\ shown \in State /\ shown.layout = l /\ shown.tabs = page.shown.tabs
      /\ meant \in State /\ meant.layout = l /\ meant.tabs = wanted.tabs
    BY ShownTypes DEF State
<1>3. Change(next, meant)
    OBVIOUS
<1> HIDE DEF shown, meant
<1>4. /\ next \in Page /\ next.at = page.at /\ next.coming = page.coming
      /\ next.opened = page.opened /\ next.shown = shown
      /\ next.timer => page.timer \/ page.at = "open"
      /\ next.timer \/ next.missed
    BY <1>1, <1>2, ShownTypes, Scheduled
<1> HIDE DEF next
<1>5. Good => Matches(next, meant)
    BY <1>1, <1>2, <1>4, ShownTypes DEF Matches
<1>6. Good /\ page.at = "open" => TabsOf(next.coming) \subseteq next.opened
    BY <1>4, ShownTypes
<1> QED BY <1>1, <1>2, <1>3, <1>4, <1>5, <1>6, ChangeKeeps

\* A page without tabs to wait for is what the user made.
LEMMA ShownWhole ==
    ASSUME WorkspaceInv, Good, page.at = "open", Awaited = {} PROVE page.shown = wanted
<1>1. \A t \in Tabs : page.shown.tabs[t] = Absent \/ page.coming.tabs[t] = Absent
    BY ShownTypes DEF Awaited, TabsOf
<1>2. page.shown.layout = wanted.layout /\ \A t \in Tabs : page.shown.tabs[t] = wanted.tabs[t]
    BY <1>1, ShownTypes DEF Matches
<1> QED BY <1>2, ShownTypes, SameState

\* The request that goes out carries the page; those under way become stale.
LEMMA PostShape ==
    ASSUME WorkspaceInv, NEW s \in Saves, Post(s)
    PROVE  /\ save' \in [Saves -> Request]
           /\ save'[s].at = "sent" /\ save'[s].body = page.shown /\ ~save'[s].stale
           /\ \A x \in Saves \ {s} :
                 /\ save'[x].at = save[x].at /\ save'[x].body = save[x].body
                 /\ save'[x].todo = save[x].todo /\ save'[x].tab = save[x].tab
                 /\ save'[x].alone = save[x].alone
                 /\ save'[x].at # "idle" => save'[x].stale
<1>1. save \in [Saves -> Request] /\ page.shown \in State
    BY DEF WorkspaceInv, WorkspaceTypeOK, Page
<1> DEFINE q == [NoRequest EXCEPT !.at = "sent", !.body = page.shown]
<1>2. q \in Request /\ q.at = "sent" /\ q.body = page.shown /\ ~q.stale
    BY <1>1, EmptyState DEF NoRequest, Request, SaveSteps
<1>3. ASSUME NEW x \in Saves
      PROVE  LET m == [save[x] EXCEPT !.stale = save[x].at # "idle"]
             IN  /\ m \in Request
                 /\ m.at = save[x].at /\ m.body = save[x].body /\ m.todo = save[x].todo
                 /\ m.tab = save[x].tab /\ m.alone = save[x].alone
                 /\ m.at # "idle" => m.stale
    BY <1>1 DEF Request
<1>4. save' = [x \in Saves |-> IF x = s THEN q
                               ELSE [save[x] EXCEPT !.stale = save[x].at # "idle"]]
    BY DEF Post
<1> HIDE DEF q
<1> QED BY <1>2, <1>3, <1>4

\* The newest save carries what the user made, when the page shows it.
LEMMA PostKeeps ==
    ASSUME WorkspaceInv, NEW s \in Saves, Post(s), page' \in Page, early' \in BOOLEAN,
           UNCHANGED <<stored, edits, wanted, saved>>, mishap' \in BOOLEAN,
           PageInv', ViewInv', Good' /\ Clean' => page.shown = wanted
    PROVE  WorkspaceInv'
<1>1. WorkspaceTypeOK'
    BY PostShape DEF WorkspaceInv, WorkspaceTypeOK
<1>2. save[s].at = "idle"
    BY DEF Post
<1>3. \A x \in Saves : save'[x].at # save[x].at => x = s
    BY PostShape
<1>4. Running' = Running /\ s \notin Running
    BY <1>2, <1>3, PostShape DEF Running
<1>5. TodoInv'
  <2> SUFFICES ASSUME NEW x \in Saves PROVE TodoRight(save[x])'
      BY DEF TodoInv
  <2>1. CASE x = s
      BY <2>1, PostShape DEF TodoRight
  <2>2. CASE x # s
      BY <2>2, PostShape DEF WorkspaceInv, TodoInv, TodoRight
  <2> QED BY <2>1, <2>2
<1>6. AloneInv'
  <2> SUFFICES ASSUME NEW x \in Running, save'[x].alone
               PROVE  Running = {x} /\ HasWritten(save[x])'
      BY <1>4 DEF AloneInv
  <2>1. x \in Saves \ {s}
      BY <1>4 DEF Running
  <2>2. Running = {x} /\ HasWritten(save[x])
      BY <2>1, PostShape DEF WorkspaceInv, AloneInv
  <2> QED BY <2>1, <2>2, PostShape DEF HasWritten, Written
<1>7. SaveInv'
  <2> SUFFICES ASSUME Good', Clean'
               PROVE  /\ \A x \in UnderWay' : save'[x].stale \/ save'[x].body = wanted'
                      /\ Settled' => stored' = wanted'
      BY DEF SaveInv
  <2>1. \A x \in UnderWay' : save'[x].stale \/ save'[x].body = wanted'
      BY PostShape DEF UnderWay
  <2>2. ~Settled'
    <3>1. s \in UnderWay' /\ ~save'[s].stale
        BY PostShape DEF UnderWay
    <3> QED BY <3>1 DEF Settled
  <2> QED BY <2>1, <2>2
<1> QED BY <1>1, <1>5, <1>6, <1>7 DEF WorkspaceInv

\* The timer of the page sends what it shows.
LEMMA TimerFiresKeeps == ASSUME WorkspaceInv, NEW s \in Saves, TimerFires(s) PROVE WorkspaceInv'
<1>1. /\ page \in Page /\ page.timer /\ Post(s)
      /\ page' = [page EXCEPT !.timer = FALSE, !.missed = FALSE]
      /\ UNCHANGED <<stored, edits, wanted, saved, mishap, early>>
    BY DEF TimerFires, WorkspaceInv, WorkspaceTypeOK
<1>2. page.at = "open"
    BY <1>1 DEF WorkspaceInv, PageInv
<1>3. /\ page' \in Page /\ page'.at = "open" /\ page'.shown = page.shown
      /\ page'.coming = page.coming /\ page'.opened = page.opened /\ ~page'.timer /\ ~page'.missed
    BY <1>1, <1>2 DEF Page
<1>4. PageInv'
    BY <1>3 DEF PageInv
<1>5. early' \in BOOLEAN /\ mishap' \in BOOLEAN /\ (Good' <=> Good)
    BY <1>1 DEF Good, WorkspaceInv, WorkspaceTypeOK
<1>6. Good' /\ Clean' => page.shown = wanted
  <2>1. Awaited' = Awaited
      BY <1>3 DEF Awaited
  <2> QED BY <1>2, <1>5, <2>1, ShownWhole DEF Clean
<1>7. ViewInv'
    BY <1>1, <1>2, <1>3, <1>5, ShownTypes DEF ViewInv, Matches
<1> QED BY <1>1, <1>3, <1>4, <1>5, <1>6, <1>7, PostKeeps

\* A page that is left sends what it shows, restored or not.
LEMMA LeaveKeeps == ASSUME WorkspaceInv, NEW s \in Saves, Leave(s) PROVE WorkspaceInv'
<1>1. /\ page \in Page /\ page.at # "closed" /\ Post(s) /\ page' = NoPage
      /\ UNCHANGED <<stored, edits, wanted, saved>>
    BY DEF Leave, WorkspaceInv, WorkspaceTypeOK
<1>0. (Restoring \/ ~Restoring) /\ (Awaited # {} \/ Awaited = {})
    OBVIOUS
<1> PICK r \in BOOLEAN : r <=> Restoring
    BY <1>0
<1> PICK w \in BOOLEAN : w <=> Awaited # {}
    BY <1>0
<1>2. (early' <=> (early \/ r)) /\ (mishap' <=> (mishap \/ w))
    BY DEF Leave
<1>b. early' \in BOOLEAN /\ mishap' \in BOOLEAN
    BY DEF Leave, WorkspaceInv, WorkspaceTypeOK
<1>3. Good' => Good /\ ~r /\ ~w
    BY <1>1, <1>2, <1>b DEF Good, WorkspaceInv, WorkspaceTypeOK
<1>4. ~r => page.at = "open"
    BY <1>1 DEF Restoring, Page, PageSteps
<1>5. Good' => page.shown = wanted
    BY <1>3, <1>4, ShownWhole
<1>6. page' \in Page /\ PageInv' /\ ViewInv'
    BY <1>1, NoPageIsPage DEF PageInv, ViewInv
<1> QED BY <1>1, <1>b, <1>5, <1>6, PostKeeps
-----------------------------------------------------------------------------
(* The server *)

\* What is said of the page holds after any step of a save: a page that has
\* read nothing but SQLite met no save.
LEMMA ServerStep ==
    ASSUME WorkspaceInv, NEW s \in UnderWay, SaveFrame,
           stored' \in State, save' \in [Saves -> Request], saved' \in BOOLEAN,
           TodoInv', AloneInv', SaveInv'
    PROVE  WorkspaceInv'
<1>1. UNCHANGED <<page, edits, wanted, mishap, early>>
    BY DEF SaveFrame
<1>2. WorkspaceTypeOK' /\ PageInv'
    BY <1>1 DEF WorkspaceInv, WorkspaceTypeOK, PageInv
<1>3. Good' <=> Good
    BY <1>1 DEF Good
<1>4. Good => page.at \notin {"tabs", "pads"}
    BY DEF WorkspaceInv, ViewInv
<1>5. ViewInv'
    BY <1>1, <1>3, <1>4 DEF WorkspaceInv, ViewInv
<1> QED BY <1>2, <1>5 DEF WorkspaceInv

\* ... and while save s goes on, SQLite need not hold anything yet.
LEMMA Progress ==
    ASSUME WorkspaceInv, NEW s \in UnderWay, SaveFrame, UNCHANGED saved,
           stored' \in State, save' \in [Saves -> Request],
           \A x \in Saves : /\ save'[x].body = save[x].body /\ save'[x].stale = save[x].stale
                            /\ save'[x].at = "idle" <=> save[x].at = "idle",
           save'[s].at # "sent", TodoInv', AloneInv'
    PROVE  WorkspaceInv'
<1>1. UNCHANGED <<page, wanted, mishap, early>>
    BY DEF SaveFrame
<1>2. UnderWay' = UnderWay
    BY DEF UnderWay
<1>3. ~Settled'
    BY <1>2 DEF Settled
<1>4. Good' /\ Clean' => Good /\ Clean
    BY <1>1 DEF Good, Clean, Awaited
<1>5. SaveInv'
    BY <1>1, <1>2, <1>3, <1>4 DEF WorkspaceInv, SaveInv, UnderWay
<1>6. saved' \in BOOLEAN
    BY DEF WorkspaceInv, WorkspaceTypeOK
<1> QED BY <1>5, <1>6, ServerStep

\* A statement of a running save: q is what becomes of the request.
LEMMA Statement ==
    ASSUME WorkspaceInv, NEW s \in Running, SaveFrame, UNCHANGED saved, stored' \in State,
           NEW q \in Request, save' = [save EXCEPT ![s] = q],
           q.body = save[s].body, q.stale = save[s].stale, q.alone => save[s].alone,
           q.at \in {"insert", "pad"}, TodoRight(q),
           q.alone => HasWritten(q)'
    PROVE  WorkspaceInv'
<1>1. s \in UnderWay /\ save \in [Saves -> Request] /\ s \in Saves
    BY DEF Running, UnderWay, WorkspaceInv, WorkspaceTypeOK
<1>2. /\ save' \in [Saves -> Request] /\ save'[s] = q
      /\ \A x \in Saves \ {s} : save'[x] = save[x]
    BY <1>1
<1>3. TodoInv'
  <2> SUFFICES ASSUME NEW x \in Saves PROVE TodoRight(save[x])'
      BY DEF TodoInv
  <2>1. CASE x = s
      BY <1>2, <2>1 DEF TodoRight
  <2>2. CASE x # s
      BY <1>2, <2>2 DEF WorkspaceInv, TodoInv, TodoRight
  <2> QED BY <2>1, <2>2
<1>4. Running' = Running
    BY <1>2 DEF Running
<1>5. AloneInv'
  <2> SUFFICES ASSUME NEW x \in Running, save'[x].alone
               PROVE  Running = {x} /\ HasWritten(save[x])'
      BY <1>4 DEF AloneInv
  <2>1. save[x].alone
      BY <1>2 DEF Running
  <2>2. Running = {x}
      BY <2>1 DEF WorkspaceInv, AloneInv
  <2>3. x = s
      BY <2>2
  <2>4. q.alone
      BY <1>2, <2>3
  <2> QED BY <1>2, <2>2, <2>3, <2>4 DEF HasWritten, Written
<1>6. \A x \in Saves : /\ save'[x].body = save[x].body /\ save'[x].stale = save[x].stale
                       /\ save'[x].at = "idle" <=> save[x].at = "idle"
    BY <1>1, <1>2 DEF UnderWay
<1>7. save'[s].at # "sent"
    BY <1>2
<1> QED BY <1>1, <1>2, <1>3, <1>5, <1>6, <1>7, Progress

\* A save writes the layout row.
LEMMA SaveLayoutKeeps == ASSUME WorkspaceInv, NEW s \in Saves, SaveLayout(s) PROVE WorkspaceInv'
<1>1. /\ save \in [Saves -> Request] /\ stored \in State /\ save[s].at = "sent"
      /\ SaveFrame /\ UNCHANGED saved /\ save[s].body \in State
    BY DEF SaveLayout, WorkspaceInv, WorkspaceTypeOK, Request
<1> DEFINE q == [save[s] EXCEPT !.at = "clear", !.alone = Running = {}]
           f(x) == [save[x] EXCEPT !.alone = @ /\ x \notin Running]
<1>2. /\ q \in Request /\ q.at = "clear" /\ q.body = save[s].body /\ q.stale = save[s].stale
      /\ q.alone => Running = {}
    BY <1>1 DEF Request, SaveSteps
<1>3. ASSUME NEW x \in Saves
      PROVE  /\ f(x) \in Request /\ f(x).at = save[x].at /\ f(x).body = save[x].body
             /\ f(x).todo = save[x].todo /\ f(x).tab = save[x].tab
             /\ f(x).stale = save[x].stale
             /\ f(x).alone => x \notin Running
    BY <1>1 DEF Request
<1>4. save' = [x \in Saves |-> IF x = s THEN q ELSE f(x)]
    BY DEF SaveLayout
<1> HIDE DEF q, f
<1>5. save' \in [Saves -> Request] /\ save'[s] = q /\ \A x \in Saves \ {s} : save'[x] = f(x)
    BY <1>2, <1>3, <1>4
<1>6. stored' \in State /\ stored'.layout = save[s].body.layout
    BY <1>1 DEF SaveLayout, SaveUserWorkspace, State
<1>7. TodoInv'
  <2> SUFFICES ASSUME NEW x \in Saves PROVE TodoRight(save[x])'
      BY DEF TodoInv
  <2>1. CASE x = s
      BY <1>2, <1>5, <2>1 DEF TodoRight
  <2>2. CASE x # s
      BY <1>3, <1>5, <2>2 DEF WorkspaceInv, TodoInv, TodoRight
  <2> QED BY <2>1, <2>2
<1>8. AloneInv'
  <2> SUFFICES ASSUME NEW x \in Running', save'[x].alone
               PROVE  Running' = {x} /\ HasWritten(save[x])'
      BY DEF AloneInv
  <2>1. x \in Saves
      BY DEF Running
  <2>2. x = s
      BY <1>3, <1>5, <2>1 DEF Running
  <2>3. Running = {}
      BY <1>2, <1>5, <2>2
  <2>4. Running' = {x}
      BY <1>2, <1>3, <1>5, <2>2, <2>3 DEF Running
  <2> QED BY <1>2, <1>5, <1>6, <2>2, <2>4 DEF HasWritten
<1>9. s \in UnderWay
    BY <1>1 DEF UnderWay
<1>10. \A x \in Saves : /\ save'[x].body = save[x].body /\ save'[x].stale = save[x].stale
                        /\ save'[x].at = "idle" <=> save[x].at = "idle"
    BY <1>1, <1>2, <1>3, <1>5
<1>11. save'[s].at # "sent"
    BY <1>2, <1>5
<1> QED BY <1>1, <1>5, <1>6, <1>7, <1>8, <1>9, <1>10, <1>11, Progress

\* A save deletes the tabs: from here on rows are missing.
LEMMA ClearKeeps == ASSUME WorkspaceInv, NEW s \in Saves, Clear(s) PROVE WorkspaceInv'
<1>1. /\ save \in [Saves -> Request] /\ stored \in State /\ save[s].at = "clear"
      /\ SaveFrame /\ UNCHANGED saved /\ save[s].body \in State /\ s \in Running
    BY DEF Clear, WorkspaceInv, WorkspaceTypeOK, Request, Running
<1>q. [save[s] EXCEPT !.at = "insert", !.todo = TabsOf(save[s].body)] \in Request
    BY <1>1 DEF Request, SaveSteps, TabsOf
<1> PICK q \in Request : q = [save[s] EXCEPT !.at = "insert", !.todo = TabsOf(save[s].body)]
    BY <1>q
<1>2. /\ q.at = "insert" /\ q.body = save[s].body /\ q.stale = save[s].stale
      /\ q.alone = save[s].alone /\ q.todo = TabsOf(save[s].body)
    BY <1>1 DEF Request, SaveSteps, TabsOf
<1>3. save' = [save EXCEPT ![s] = q]
    BY <1>1 DEF Clear
<1>4. /\ stored' \in State /\ stored'.layout = stored.layout
      /\ \A t \in Tabs : stored'.tabs[t] = Absent
    BY <1>1, EmptyState DEF Clear, ReplaceWorkspaceTabs, State
<1>5. TodoRight(q)
    BY <1>2 DEF TodoRight
<1>6. ASSUME q.alone PROVE HasWritten(q)'
  <2>1. stored.layout = q.body.layout
      BY <1>1, <1>2, <1>6 DEF WorkspaceInv, AloneInv, HasWritten
  <2>2. \A t \in Tabs : Written(q, t) = Absent
      BY <1>2 DEF Written, TabsOf
  <2> QED BY <1>4, <2>1, <2>2 DEF HasWritten
<1> QED BY <1>1, <1>2, <1>3, <1>4, <1>5, <1>6, Statement

\* A save inserts the next tab.
LEMMA InsertKeeps == ASSUME WorkspaceInv, NEW s \in Saves, Insert(s) PROVE WorkspaceInv'
<1>1. /\ save \in [Saves -> Request] /\ stored \in State /\ save[s].at = "insert"
      /\ SaveFrame /\ UNCHANGED saved /\ save[s].body \in State /\ s \in Running
      /\ save[s].todo \subseteq TabsOf(save[s].body)
    BY DEF Insert, WorkspaceInv, WorkspaceTypeOK, Request, Running, TodoInv, TodoRight
<1> PICK t \in save[s].todo :
        LET c == save[s].body.tabs[t] IN
        /\ stored.tabs[t] = Absent
        /\ stored' = InsertWorkspaceTab(t, c)
        /\ save' = [save EXCEPT ![s].todo = @ \ {t}, ![s].tab = t,
                                ![s].at = IF c.pad = Blank THEN "insert" ELSE "pad"]
    BY DEF Insert
<1>2. t \in Tabs /\ save[s].body.tabs[t] \in Content
    BY <1>1 DEF TabsOf, State
<1> PICK c \in Content : c = save[s].body.tabs[t]
    BY <1>2
<1> PICK at \in {"insert", "pad"} : at = IF c.pad = Blank THEN "insert" ELSE "pad"
    OBVIOUS
<1>q. [save[s] EXCEPT !.at = at, !.todo = @ \ {t}, !.tab = t] \in Request
    BY <1>1, <1>2, ZenonT(60) DEF Request, SaveSteps
<1> PICK q \in Request : q = [save[s] EXCEPT !.at = at, !.todo = @ \ {t}, !.tab = t]
    BY <1>q
<1>3. /\ q.at = at /\ q.body = save[s].body /\ q.stale = save[s].stale
      /\ q.alone = save[s].alone /\ q.todo = save[s].todo \ {t} /\ q.tab = t
    BY <1>1, <1>2 DEF Request, SaveSteps
<1>4. save' = [save EXCEPT ![s] = q]
    BY <1>1 DEF Request
<1> DEFINE row == [c EXCEPT !.pad = Blank]
<1>5. row \in Content
    BY Pads, WorkspaceAssumption
<1>6. stored' = [stored EXCEPT !.tabs[t] = row]
    BY DEF InsertWorkspaceTab
<1>7. at = "insert" => row = c
    BY Pads
<1> HIDE DEF row
<1>8. /\ stored' \in State /\ stored'.layout = stored.layout
      /\ \A u \in Tabs : stored'.tabs[u] = IF u = t THEN row ELSE stored.tabs[u]
    BY <1>1, <1>2, <1>5, <1>6 DEF State
<1>9. TodoRight(q)
    BY <1>1, <1>3 DEF TodoRight
<1>10. ASSUME q.alone PROVE HasWritten(q)'
  <2>1. HasWritten(save[s])
      BY <1>1, <1>3, <1>10 DEF WorkspaceInv, AloneInv
  <2>2. stored'.layout = q.body.layout
      BY <1>3, <1>8, <2>1 DEF HasWritten
  <2>3. ASSUME NEW u \in Tabs PROVE stored'.tabs[u] = Written(q, u)
    <3>1. CASE u = t
      <4>1. Written(q, u) = IF at = "pad" THEN row ELSE c
          BY <1>3, <3>1 DEF Written, row
      <4> QED BY <1>7, <1>8, <3>1, <4>1
    <3>2. CASE u # t
      <4>1. Written(q, u) = Written(save[s], u)
          BY <1>1, <1>3, <3>2 DEF Written
      <4> QED BY <1>1, <1>8, <2>1, <3>2, <4>1 DEF HasWritten
    <3> QED BY <3>1, <3>2
  <2> QED BY <2>2, <2>3 DEF HasWritten, Written
<1>11. /\ q.at \in {"insert", "pad"} /\ q.body = save[s].body /\ q.stale = save[s].stale
       /\ q.alone => save[s].alone
    BY <1>3
<1>12. stored' \in State
    BY <1>8
<1>13. s \in Running /\ SaveFrame /\ UNCHANGED saved
    BY <1>1
<1> QED BY <1>4, <1>9, <1>10, <1>11, <1>12, <1>13, Statement

\* A save of one text writes its row.
LEMMA SavePadKeeps == ASSUME WorkspaceInv, NEW s \in Saves, SavePad(s) PROVE WorkspaceInv'
<1>1. /\ save \in [Saves -> Request] /\ stored \in State /\ save[s].at = "pad"
      /\ SaveFrame /\ UNCHANGED saved /\ save[s].body \in State /\ s \in Running
      /\ TodoRight(save[s])
    BY DEF SavePad, WorkspaceInv, WorkspaceTypeOK, Request, Running, TodoInv
<1> PICK t \in Tabs : t = save[s].tab
    BY <1>1 DEF TodoRight, TabsOf
<1>2. t \in TabsOf(save[s].body) \ save[s].todo
    BY <1>1 DEF TodoRight
<1> PICK c \in Content : c = save[s].body.tabs[t]
    BY <1>1, <1>2 DEF TabsOf, State
<1>q. [save[s] EXCEPT !.at = "insert"] \in Request
    BY <1>1 DEF Request, SaveSteps
<1> PICK q \in Request : q = [save[s] EXCEPT !.at = "insert"]
    BY <1>q
<1>3. /\ q.at = "insert" /\ q.body = save[s].body /\ q.stale = save[s].stale
      /\ q.alone = save[s].alone /\ q.todo = save[s].todo
    BY <1>1 DEF Request, SaveSteps
<1>4. save' = [save EXCEPT ![s] = q]
    BY <1>1 DEF SavePad
<1> DEFINE row == IF stored.tabs[t] = Absent THEN Absent ELSE [stored.tabs[t] EXCEPT !.pad = c.pad]
<1>5. row \in Content \cup {Absent}
    BY <1>1 DEF State, Content
<1>6. stored' = [stored EXCEPT !.tabs[t] = row]
    BY <1>1 DEF SavePad, State
<1>7. ASSUME save[s].alone PROVE HasWritten(save[s]) /\ row = c
  <2>1. HasWritten(save[s])
      BY <1>1, <1>7 DEF WorkspaceInv, AloneInv
  <2>2. stored.tabs[t] = [c EXCEPT !.pad = Blank]
      BY <1>1, <1>2, <2>1 DEF HasWritten, Written
  <2>3. stored.tabs[t] # Absent
      BY <2>2, Pads, WorkspaceAssumption
  <2>4. row = [[c EXCEPT !.pad = Blank] EXCEPT !.pad = c.pad]
      BY <2>2, <2>3
  <2> QED BY <2>1, <2>4, Pads, WorkspaceAssumption
<1> HIDE DEF row
<1>8. /\ stored' \in State /\ stored'.layout = stored.layout
      /\ \A u \in Tabs : stored'.tabs[u] = IF u = t THEN row ELSE stored.tabs[u]
    BY <1>1, <1>5, <1>6 DEF State
<1>9. TodoRight(q)
    BY <1>1, <1>3 DEF TodoRight
<1>10. ASSUME q.alone PROVE HasWritten(q)'
  <2>1. HasWritten(save[s]) /\ row = c
      BY <1>3, <1>7, <1>10
  <2>2. stored'.layout = q.body.layout
      BY <1>3, <1>8, <2>1 DEF HasWritten
  <2>3. ASSUME NEW u \in Tabs PROVE stored'.tabs[u] = Written(q, u)
    <3>1. CASE u = t
        BY <1>2, <1>3, <1>8, <2>1, <3>1 DEF Written
    <3>2. CASE u # t
      <4>1. Written(q, u) = Written(save[s], u)
          BY <1>3, <3>2 DEF Written
      <4> QED BY <1>1, <1>8, <2>1, <3>2, <4>1 DEF HasWritten
    <3> QED BY <3>1, <3>2
  <2> QED BY <2>2, <2>3 DEF HasWritten, Written
<1> QED BY <1>1, <1>3, <1>4, <1>8, <1>9, <1>10, Statement

\* A save of one text fails and leaves the row.
LEMMA PadFailsKeeps == ASSUME WorkspaceInv, NEW s \in Saves, PadFails(s) PROVE WorkspaceInv'
<1>1. /\ save \in [Saves -> Request] /\ stored \in State /\ save[s].at = "pad"
      /\ SaveFrame /\ UNCHANGED <<stored, saved>> /\ s \in Running /\ TodoRight(save[s])
    BY DEF PadFails, WorkspaceInv, WorkspaceTypeOK, Running, TodoInv
<1>q. [save[s] EXCEPT !.at = "insert", !.alone = FALSE] \in Request
    BY <1>1 DEF Request, SaveSteps
<1> PICK q \in Request : q = [save[s] EXCEPT !.at = "insert", !.alone = FALSE]
    BY <1>q
<1>2. /\ q.at = "insert" /\ q.body = save[s].body /\ q.stale = save[s].stale
      /\ ~q.alone /\ q.todo = save[s].todo
    BY <1>1 DEF Request, SaveSteps
<1>3. save' = [save EXCEPT ![s] = q]
    BY <1>1 DEF PadFails
<1>4. TodoRight(q)
    BY <1>1, <1>2 DEF TodoRight
<1> QED BY <1>1, <1>2, <1>3, <1>4, Statement

\* A save that ends leaves the others as they are.
LEMMA EndedShape ==
    ASSUME WorkspaceInv, NEW s \in UnderWay, Ended(s), stored' = stored
    PROVE  /\ save' \in [Saves -> Request] /\ UnderWay' = UnderWay \ {s}
           /\ \A x \in Saves \ {s} : save'[x] = save[x]
           /\ TodoInv' /\ AloneInv'
<1>1. save \in [Saves -> Request] /\ s \in Saves
    BY DEF UnderWay, WorkspaceInv, WorkspaceTypeOK
<1>2. /\ save' \in [Saves -> Request] /\ save'[s] = NoRequest
      /\ \A x \in Saves \ {s} : save'[x] = save[x]
    BY <1>1, NoRequestIsRequest DEF Ended
<1>3. UnderWay' = UnderWay \ {s} /\ Running' = Running \ {s}
    BY <1>2, NoRequestIsRequest DEF UnderWay, Running
<1>4. TodoInv'
  <2> SUFFICES ASSUME NEW x \in Saves PROVE TodoRight(save[x])'
      BY DEF TodoInv
  <2>1. CASE x = s
      BY <1>2, <2>1, NoRequestIsRequest DEF TodoRight
  <2>2. CASE x # s
      BY <1>2, <2>2 DEF WorkspaceInv, TodoInv, TodoRight
  <2> QED BY <2>1, <2>2
<1>5. AloneInv'
  <2> SUFFICES ASSUME NEW x \in Running', save'[x].alone
               PROVE  Running' = {x} /\ HasWritten(save[x])'
      BY DEF AloneInv
  <2>1. x \in Running \ {s} /\ save'[x] = save[x]
      BY <1>2, <1>3 DEF Running
  <2>2. Running = {x} /\ HasWritten(save[x])
      BY <2>1 DEF WorkspaceInv, AloneInv
  <2> QED BY <1>3, <2>1, <2>2 DEF HasWritten, Written
<1> QED BY <1>2, <1>3, <1>4, <1>5

\* The newest save that ran alone leaves SQLite as the user made it.
LEMMA DoneKeeps == ASSUME WorkspaceInv, NEW s \in Saves, Done(s) PROVE WorkspaceInv'
<1>1. /\ save \in [Saves -> Request] /\ stored \in State /\ wanted \in State
      /\ save[s].at = "insert" /\ save[s].todo = {} /\ Ended(s) /\ save[s].body \in State
      /\ SaveFrame /\ UNCHANGED stored /\ s \in Running /\ s \in UnderWay
      /\ save[s].alone \in BOOLEAN /\ save[s].stale \in BOOLEAN
    BY DEF Done, WorkspaceInv, WorkspaceTypeOK, Request, Running, UnderWay
<1>2. saved' \in BOOLEAN /\ (saved' => save[s].alone /\ ~save[s].stale)
    BY <1>1 DEF Done
<1>3. UNCHANGED <<page, wanted, mishap, early>>
    BY <1>1 DEF SaveFrame
<1>4. /\ save' \in [Saves -> Request] /\ UnderWay' = UnderWay \ {s}
      /\ \A x \in Saves \ {s} : save'[x] = save[x]
      /\ TodoInv' /\ AloneInv'
    BY <1>1, EndedShape
<1>5. SaveInv'
  <2> SUFFICES ASSUME Good', Clean'
               PROVE  /\ \A x \in UnderWay' : save'[x].stale \/ save'[x].body = wanted'
                      /\ Settled' => stored' = wanted'
      BY DEF SaveInv
  <2>1. \A x \in UnderWay : save[x].stale \/ save[x].body = wanted
      BY <1>3 DEF WorkspaceInv, SaveInv, Good, Clean, Awaited
  <2>2. \A x \in UnderWay' : save'[x].stale \/ save'[x].body = wanted'
      BY <1>3, <1>4, <2>1 DEF UnderWay
  <2>3. ASSUME Settled' PROVE stored = wanted
    <3>1. save[s].alone /\ save[s].body = wanted
        BY <1>1, <1>2, <2>1, <2>3 DEF Settled
    <3>2. HasWritten(save[s])
        BY <1>1, <3>1 DEF WorkspaceInv, AloneInv
    <3>3. stored.layout = wanted.layout /\ \A t \in Tabs : stored.tabs[t] = wanted.tabs[t]
        BY <1>1, <3>1, <3>2 DEF HasWritten, Written
    <3> QED BY <1>1, <3>3, SameState
  <2> QED BY <1>1, <1>3, <2>2, <2>3
<1>6. stored' \in State
    BY <1>1
<1> QED BY <1>1, <1>2, <1>4, <1>5, <1>6, ServerStep

\* A save fails where it stands.
LEMMA SaveFailsKeeps == ASSUME WorkspaceInv, NEW s \in Saves, SaveFails(s) PROVE WorkspaceInv'
<1>1. /\ save \in [Saves -> Request] /\ stored \in State /\ save[s].at # "idle"
      /\ Ended(s) /\ SaveFrame /\ UNCHANGED stored /\ s \in UnderWay
      /\ save[s].stale \in BOOLEAN /\ saved \in BOOLEAN
    BY DEF SaveFails, WorkspaceInv, WorkspaceTypeOK, Request, UnderWay
<1>2. saved' \in BOOLEAN /\ (saved' => saved /\ save[s].at = "sent" /\ save[s].stale)
    BY <1>1 DEF SaveFails
<1>3. UNCHANGED <<page, wanted, mishap, early>>
    BY <1>1 DEF SaveFrame
<1>4. /\ save' \in [Saves -> Request] /\ UnderWay' = UnderWay \ {s}
      /\ \A x \in Saves \ {s} : save'[x] = save[x]
      /\ TodoInv' /\ AloneInv'
    BY <1>1, EndedShape
<1>5. \A x \in UnderWay \ {s} : x \in Saves /\ save'[x] = save[x]
    BY <1>4 DEF UnderWay
<1>6. Settled' => Settled
    BY <1>1, <1>2, <1>4, <1>5 DEF Settled
<1>7. SaveInv'
    BY <1>1, <1>3, <1>4, <1>5, <1>6 DEF WorkspaceInv, SaveInv, Good, Clean, Awaited
<1>8. stored' \in State
    BY <1>1
<1> QED BY <1>1, <1>2, <1>4, <1>7, <1>8, ServerStep
-----------------------------------------------------------------------------
(* The specification *)

\* At the start the store is empty and no page is open.
LEMMA WorkspaceInitInv == WorkspaceInit => WorkspaceInv
<1> SUFFICES ASSUME WorkspaceInit PROVE WorkspaceInv
    OBVIOUS
<1>0. save \in [Saves -> Request] /\ edits \in 0..MaxEdits
    BY NoRequestIsRequest, WorkspaceAssumption DEF WorkspaceInit
<1>1. WorkspaceTypeOK
    BY <1>0, EmptyState, NoPageIsPage DEF WorkspaceInit, WorkspaceTypeOK
<1>2. \A s \in Saves : save[s].at = "idle"
    BY NoRequestIsRequest DEF WorkspaceInit
<1>3. TodoInv /\ AloneInv
    BY <1>2 DEF TodoInv, TodoRight, AloneInv, Running
<1>4. PageInv /\ ViewInv
    BY NoPageIsPage DEF WorkspaceInit, PageInv, ViewInv
<1>5. SaveInv
    BY <1>2 DEF WorkspaceInit, SaveInv, UnderWay
<1> QED BY <1>1, <1>3, <1>4, <1>5 DEF WorkspaceInv

\* The inductive invariant of the workspace is kept by every step.
LEMMA WorkspaceNextInv == WorkspaceInv /\ [WorkspaceNext]_workspaceVars => WorkspaceInv'
<1> SUFFICES ASSUME WorkspaceInv, [WorkspaceNext]_workspaceVars PROVE WorkspaceInv'
    OBVIOUS
<1>1. CASE OpenPage
    BY <1>1, OpenPageKeeps
<1>2. CASE LoadLayout
    BY <1>2, LoadLayoutKeeps
<1>3. CASE LoadTabs
    BY <1>3, LoadTabsKeeps
<1>4. CASE LoadPads
    BY <1>4, LoadPadsKeeps
<1>5. CASE PadsFail
    BY <1>5, PadsFailKeeps
<1>6. CASE RestoreFails
    BY <1>6, RestoreFailsKeeps
<1>7. CASE Restored
    BY <1>7, RestoredKeeps
<1>8. CASE Arrange
    BY <1>8, ArrangeKeeps
<1>9. ASSUME NEW t \in Tabs, Fill(t) \/ OpenTab(t) \/ CloseTab(t) \/ Type(t) \/ Note(t)
      PROVE  WorkspaceInv'
    BY <1>9, FillKeeps, EditKeeps
<1>10. ASSUME NEW s \in Saves, TimerFires(s) \/ Leave(s)
       PROVE  WorkspaceInv'
    BY <1>10, TimerFiresKeeps, LeaveKeeps
<1>11. ASSUME NEW s \in Saves, SaveLayout(s) \/ Clear(s) \/ Insert(s) \/ SavePad(s)
       PROVE  WorkspaceInv'
    BY <1>11, SaveLayoutKeeps, ClearKeeps, InsertKeeps, SavePadKeeps
<1>12. ASSUME NEW s \in Saves, PadFails(s) \/ Done(s) \/ SaveFails(s)
       PROVE  WorkspaceInv'
    BY <1>12, PadFailsKeeps, DoneKeeps, SaveFailsKeeps
<1>13. CASE UNCHANGED workspaceVars
  <2>1. PageInv' /\ ListWorkspaceTabs' = ListWorkspaceTabs
      BY <1>13 DEF workspaceVars, WorkspaceInv, PageInv, ListWorkspaceTabs
  <2>2. UnderWay' = UnderWay /\ (Good' <=> Good) /\ (Clean' <=> Clean)
      BY <1>13 DEF workspaceVars, UnderWay, Good, Clean, Awaited
  <2>3. ViewInv'
      BY <1>13, <2>1, <2>2 DEF workspaceVars, WorkspaceInv, ViewInv, Matches
  <2>4. page' \in Page /\ mishap' \in BOOLEAN /\ (mishap => mishap')
      BY <1>13 DEF workspaceVars, WorkspaceInv, WorkspaceTypeOK
  <2>5. UNCHANGED <<stored, save, edits, wanted, saved, early>>
      BY <1>13 DEF workspaceVars
  <2> QED BY <2>1, <2>2, <2>3, <2>4, <2>5, PageStep
<1> QED BY <1>1, <1>2, <1>3, <1>4, <1>5, <1>6, <1>7, <1>8, <1>9, <1>10, <1>11, <1>12, <1>13
        DEF WorkspaceNext

\* The workspace's invariant holds in every reachable state.
LEMMA WorkspaceInvAlways == WorkspaceSpec => []WorkspaceInv
BY WorkspaceInitInv, WorkspaceNextInv, PTL DEF WorkspaceSpec

\* Every variable of the workspace keeps its type.
THEOREM WorkspaceTypeCorrect == WorkspaceSpec => []WorkspaceTypeOK
<1>1. WorkspaceInv => WorkspaceTypeOK
    BY DEF WorkspaceInv
<1> QED BY <1>1, WorkspaceInvAlways, PTL

\* Once nothing waits to be saved SQLite holds the workspace as the user made
\* it, after any saves that were lost, failed or overtook each other, unless a
\* load failed or raced a save, or a page was left before its tabs had their
\* panels (handleWorkspaceSave, scheduleSave, openTab, closeTab).
THEOREM WorkspaceSurvives == WorkspaceSpec => []WorkspaceKept
<1>1. WorkspaceInv => WorkspaceKept
  <2> SUFFICES ASSUME WorkspaceInv, Quiet, Good PROVE stored = wanted
      BY DEF WorkspaceKept, Good
  <2>1. UnderWay = {} /\ saved
      BY DEF Quiet
  <2>2. Clean
      BY DEF Quiet, Clean, Awaited, WorkspaceInv, PageInv
  <2> QED BY <2>1, <2>2 DEF WorkspaceInv, SaveInv, Settled
<1> QED BY <1>1, WorkspaceInvAlways, PTL

\* ... and a page whose restore has ended shows it, but for the texts of new
\* tabs that wait for their panel (restoreWorkspace, handleWorkspaceGet, openTab).
THEOREM RestoredPageWhole == WorkspaceSpec => []RestoredWhole
<1>1. WorkspaceInv => RestoredWhole
  <2> SUFFICES ASSUME WorkspaceInv, Good, page.at = "open"
               PROVE  /\ page.shown.layout = wanted.layout
                      /\ TabsOf(page.shown) = TabsOf(wanted)
                      /\ \A t \in Tabs \ Awaited : page.shown.tabs[t] = wanted.tabs[t]
      BY DEF RestoredWhole, Good
  <2>1. Matches(page, wanted) /\ TabsOf(page.coming) \subseteq page.opened
      BY ShownTypes
  <2>2. TabsOf(page.shown) = TabsOf(wanted)
      BY <2>1 DEF Matches, TabsOf
  <2>3. \A t \in Tabs \ Awaited : page.shown.tabs[t] = wanted.tabs[t]
      BY <2>1 DEF Matches, TabsOf, Awaited
  <2> QED BY <2>1, <2>2, <2>3 DEF Matches
<1> QED BY <1>1, WorkspaceInvAlways, PTL

-----------------------------------------------------------------------------
(* The query history and its stream.                                        *)

\* A run is inserted before it is signalled, for a connection.
RunInv == \A r \in Runs :
    /\ r \in rows => run[r].at \in {"notify", "over"} /\ run[r].db \in DBs
    /\ run[r].at = "insert" => run[r].db \in DBs
SignalInv == \A r \in Runs : run[r].at = "notify" => r \in rows

\* What is owed to a panel is a row.
OwedInv == \A p \in Panels : owed[p] \subseteq rows

\* A stream the browser has open is a panel's; only a subscribed one is
\* signalled and writes.
StreamInv == \A s \in Streams :
    /\ stream[s].at \in {"asked", "on"} => stream[s].panel \in Panels
    /\ stream[s].pending \/ stream[s].events > 0 => stream[s].at = "on"

FetchInv == \A f \in Fetches : fetch[f].at # "off" => fetch[f].panel \in Panels

HistoryInv == /\ HistoryTypeOK /\ RunInv /\ SignalInv /\ OwedInv /\ StreamInv /\ FetchInv
       /\ NothingMissed

\* Panel p shows a list, of the connection of row r.
Lists(p, r) == panel[p].open /\ ~panel[p].detail /\ run[r].db = panel[p].listed
-----------------------------------------------------------------------------
(* Records.                                                                *)

\* A stream, a request and a panel that are off are such.
LEMMA OffType ==
    /\ Off \in StreamOf /\ Off.at = "off" /\ ~Off.pending /\ Off.events = 0
    /\ NoFetch \in FetchOf /\ NoFetch.at = "off"
    /\ Closed \in PanelOf /\ ~Closed.open
BY DEF Off, StreamOf, NoFetch, FetchOf, Closed, PanelOf

\* Asking replaces no request under way.
LEMMA AskKeeps ==
    ASSUME HistoryTypeOK, FetchInv, NEW f \in Fetches, NEW p \in Panels,
           NEW d \in DBs \cup {NoDB}, NEW at \in {"asked", "detail"},
           fetch[f].at = "off", Ask(f, p, at, d)
    PROVE  /\ fetch' \in [Fetches -> FetchOf] /\ FetchInv'
           /\ fetch'[f].at = at /\ fetch'[f].panel = p /\ fetch'[f].db = d
           /\ \A g \in Fetches : fetch[g].at # "off" => fetch'[g] = fetch[g]
<1> DEFINE m == [NoFetch EXCEPT !.at = at, !.panel = p, !.db = d]
<1>0. m \in FetchOf /\ m.at = at /\ m.panel = p /\ m.db = d
      BY OffType DEF FetchOf
<1>1. fetch' = [fetch EXCEPT ![f] = m]
      BY DEF Ask
<1> HIDE DEF m
<1>3. \A g \in Fetches : fetch'[g] = IF g = f THEN m ELSE fetch[g]
      BY <1>0, <1>1 DEF HistoryTypeOK
<1>4. FetchInv'
      BY <1>0, <1>1, <1>3 DEF FetchInv
<1> QED BY <1>0, <1>1, <1>3, <1>4 DEF HistoryTypeOK

\* A panel that stops watching closes its streams and no other.
LEMMA UnwatchedType ==
    ASSUME HistoryTypeOK, StreamInv, NEW p \in Panels
    PROVE  /\ Unwatched(p) \in [Streams -> StreamOf]
           /\ \A s \in Streams :
                 /\ stream[s].panel # p => Unwatched(p)[s] = stream[s]
                 /\ Unwatched(p)[s].at \in {"asked", "on"} => Unwatched(p)[s].panel \in Panels
                 /\ Unwatched(p)[s].pending \/ Unwatched(p)[s].events > 0
                    => Unwatched(p)[s].at = "on"
<1> DEFINE m == [Off EXCEPT !.at = "closed"]
<1>1. m \in StreamOf /\ m.at = "closed" /\ ~m.pending /\ m.events = 0
      BY OffType DEF StreamOf
<1>2. \A s \in Streams : Unwatched(p)[s] = IF stream[s].panel = p THEN m ELSE stream[s]
      BY DEF Unwatched
<1>3. Unwatched(p) = [s \in Streams |-> Unwatched(p)[s]]
      BY DEF Unwatched
<1> HIDE DEF m
<1>4. \A s \in Streams : Unwatched(p)[s] \in StreamOf
      BY <1>1, <1>2 DEF HistoryTypeOK
<1>5. Unwatched(p) \in [Streams -> StreamOf]
      BY <1>3, <1>4
<1> QED BY <1>1, <1>2, <1>5 DEF StreamInv
-----------------------------------------------------------------------------
(* Runs.                                                                   *)

\* A run ends; its row is not there yet.
LEMMA EndsKeeps == ASSUME HistoryInv, NEW r \in Runs, Ends(r) PROVE HistoryInv'
<1>1. PICK d \in DBs : run' = [run EXCEPT ![r] = [at |-> "insert", db |-> d]]
      BY DEF Ends
<1>2. run[r].at = "runs" /\ UNCHANGED <<rows, panel, stream, fetch, owed>>
      BY DEF Ends
<1>3. /\ run' \in [Runs -> RunOf] /\ run'[r].at = "insert" /\ run'[r].db = d
      /\ \A x \in Runs : x # r => run'[x] = run[x]
      BY <1>1 DEF HistoryInv, HistoryTypeOK, RunOf
<1>4. r \notin rows
      BY <1>2 DEF HistoryInv, RunInv
<1>5. HistoryTypeOK'
      BY <1>2, <1>3 DEF HistoryInv, HistoryTypeOK
<1>6. RunInv' /\ SignalInv'
      BY <1>2, <1>3, <1>4 DEF HistoryInv, RunInv, SignalInv
<1>7. OwedInv' /\ StreamInv' /\ FetchInv'
      BY <1>2 DEF HistoryInv, OwedInv, StreamInv, FetchInv
<1>8. NothingMissed'
  <2> SUFFICES ASSUME NEW p \in Panels, NEW x \in owed[p], Lists(p, x)' PROVE Coming(p, x)'
      BY <1>2 DEF NothingMissed, Lists
  <2>1. x \in Runs /\ x # r /\ run'[x] = run[x]
        BY <1>3, <1>4 DEF HistoryInv, HistoryTypeOK, OwedInv
  <2>2. Coming(p, x)
        BY <1>2, <2>1 DEF HistoryInv, NothingMissed, Lists
  <2> QED BY <1>2, <2>1, <2>2 DEF Coming
<1> QED BY <1>5, <1>6, <1>7, <1>8 DEF HistoryInv

\* The row is inserted, or SQLite fails and nobody is told.
LEMMA RecordKeeps == ASSUME HistoryInv, NEW r \in Runs, Record(r) PROVE HistoryInv'
<1>1. /\ run[r].at = "insert" /\ UNCHANGED <<panel, stream, fetch, owed>>
      /\ \/ rows' = rows \cup {r} /\ run' = [run EXCEPT ![r].at = "notify"]
         \/ rows' = rows /\ run' = [run EXCEPT ![r] = [at |-> "over", db |-> NoDB]]
      BY DEF Record, RecordQueryHistory
<1>2. r \notin rows /\ run[r].db \in DBs
      BY <1>1 DEF HistoryInv, RunInv
<1>3. /\ run' \in [Runs -> RunOf]
      /\ \A x \in Runs : x # r => run'[x] = run[x]
      /\ \/ rows' = rows \cup {r} /\ run'[r].at = "notify" /\ run'[r].db = run[r].db
         \/ rows' = rows /\ run'[r].at = "over"
      BY <1>1 DEF HistoryInv, HistoryTypeOK, RunOf
<1>4. HistoryTypeOK'
      BY <1>1, <1>3 DEF HistoryInv, HistoryTypeOK
<1>5. RunInv' /\ SignalInv'
      BY <1>2, <1>3 DEF HistoryInv, RunInv, SignalInv
<1>6. OwedInv'
      BY <1>1, <1>3 DEF HistoryInv, OwedInv
<1>7. StreamInv' /\ FetchInv'
      BY <1>1 DEF HistoryInv, StreamInv, FetchInv
<1>8. NothingMissed'
  <2> SUFFICES ASSUME NEW p \in Panels, NEW x \in owed[p], Lists(p, x)' PROVE Coming(p, x)'
      BY <1>1 DEF NothingMissed, Lists
  <2>1. x \in Runs /\ x # r /\ run'[x] = run[x]
        BY <1>2, <1>3 DEF HistoryInv, HistoryTypeOK, OwedInv
  <2>2. Coming(p, x)
        BY <1>1, <2>1 DEF HistoryInv, NothingMissed, Lists
  <2> QED BY <1>1, <2>1, <2>2 DEF Coming
<1> QED BY <1>4, <1>5, <1>6, <1>7, <1>8 DEF HistoryInv

\* Whoever is owed the row now has a signal for it.
LEMMA NotifyKeeps == ASSUME HistoryInv, NEW r \in Runs, Notify(r) PROVE HistoryInv'
<1> DEFINE told == Subscribed(run[r].db)
<1>1. /\ run[r].at = "notify" /\ UNCHANGED <<rows, panel, fetch>>
      /\ stream' = [s \in Streams |-> IF s \in told THEN [stream[s] EXCEPT !.pending = TRUE]
                                      ELSE stream[s]]
      /\ owed' = [p \in Panels |-> IF \E s \in told : stream[s].panel = p
                                   THEN owed[p] \cup {r} ELSE owed[p]]
      /\ run' = [run EXCEPT ![r].at = "over"]
      BY DEF Notify, Signal
<1>2. /\ run' \in [Runs -> RunOf] /\ run'[r].at = "over"
      /\ \A x \in Runs : run'[x].db = run[x].db /\ (x # r => run'[x] = run[x])
      BY <1>1 DEF HistoryInv, HistoryTypeOK, RunOf
<1>3. \A s \in Streams : /\ stream'[s] \in StreamOf
                         /\ stream'[s].at = stream[s].at
                         /\ stream'[s].panel = stream[s].panel
                         /\ stream'[s].events = stream[s].events
                         /\ stream[s].pending => stream'[s].pending
                         /\ s \in told => stream'[s].pending
                         /\ s \notin told => stream'[s].pending = stream[s].pending
      BY <1>1 DEF HistoryInv, HistoryTypeOK, StreamOf
<1>4. \A s \in told : s \in Streams /\ stream[s].at = "on"
      BY DEF Subscribed
<1>5. r \in rows
      BY <1>1 DEF HistoryInv, SignalInv
<1> HIDE DEF told
<1>6. HistoryTypeOK'
  <2>1. stream' \in [Streams -> StreamOf]
        BY <1>1, <1>3
  <2>2. owed' \in [Panels -> SUBSET Runs]
        BY <1>1 DEF HistoryInv, HistoryTypeOK
  <2> QED BY <1>1, <1>2, <2>1, <2>2 DEF HistoryInv, HistoryTypeOK
<1>7. RunInv' /\ SignalInv'
      BY <1>1, <1>2 DEF HistoryInv, RunInv, SignalInv
<1>8. StreamInv'
      BY <1>3, <1>4 DEF HistoryInv, StreamInv
<1>9. FetchInv'
      BY <1>1 DEF HistoryInv, FetchInv
<1>10. ASSUME NEW p \in Panels, NEW x \in owed'[p]
       PROVE  x \in owed[p] \/ (x = r /\ \E s \in told : stream[s].panel = p)
      BY <1>1, <1>10
<1>11. OwedInv'
      BY <1>1, <1>5, <1>10 DEF HistoryInv, OwedInv
<1>12. NothingMissed'
  <2> SUFFICES ASSUME NEW p \in Panels, NEW x \in owed'[p], Lists(p, x)' PROVE Coming(p, x)'
      BY DEF NothingMissed, Lists
  <2>1. CASE x \in owed[p]
    <3>1. x \in Runs
          BY <2>1 DEF HistoryInv, HistoryTypeOK
    <3>2. Coming(p, x)
          BY <1>1, <1>2, <2>1, <3>1 DEF HistoryInv, NothingMissed, Lists
    <3> QED BY <1>1, <1>2, <1>3, <3>1, <3>2 DEF Coming
  <2>2. CASE x = r /\ \E s \in told : stream[s].panel = p
        BY <1>3, <1>4, <2>2 DEF Coming
  <2> QED BY <1>10, <2>1, <2>2
<1> QED BY <1>6, <1>7, <1>8, <1>9, <1>11, <1>12 DEF HistoryInv
-----------------------------------------------------------------------------
(* Panels, lists and streams: nothing is recorded, nothing more is owed.   *)

\* A step of panels and streams: a panel that lists what it did keeps what
\* is coming, and any other has asked anew.
LEMMA Onward ==
    ASSUME HistoryInv, run' = run, rows' = rows,
           panel' \in [Panels -> PanelOf], stream' \in [Streams -> StreamOf],
           fetch' \in [Fetches -> FetchOf], owed' \in [Panels -> SUBSET Runs],
           StreamInv', FetchInv',
           \A p \in Panels : owed'[p] \subseteq owed[p],
           \A p \in Panels : \A r \in owed'[p] :
               Lists(p, r)' => \/ Lists(p, r) /\ (Coming(p, r) => Coming(p, r)')
                               \/ Coming(p, r)'
    PROVE  HistoryInv'
<1>1. HistoryTypeOK' /\ RunInv' /\ SignalInv'
      BY DEF HistoryInv, HistoryTypeOK, RunInv, SignalInv
<1>2. OwedInv'
      BY DEF HistoryInv, OwedInv
<1>3. NothingMissed'
  <2> SUFFICES ASSUME NEW p \in Panels, NEW r \in owed'[p], Lists(p, r)' PROVE Coming(p, r)'
      BY DEF NothingMissed, Lists
  <2>1. r \in owed[p]
        OBVIOUS
  <2>2. Lists(p, r) => Coming(p, r)
        BY <2>1 DEF HistoryInv, NothingMissed, Lists
  <2> QED BY <2>2
<1> QED BY <1>1, <1>2, <1>3 DEF HistoryInv

\* A panel that loads a list has asked for every row owed to it.
LEMMA LoadListKeeps ==
    ASSUME HistoryInv, NEW p \in Panels, NEW d \in DBs \cup {NoDB}, NEW f \in Fetches,
           LoadList(f, p, d), UNCHANGED <<run, rows, owed>>,
           stream' \in [Streams -> StreamOf], StreamInv',
           \A s \in Streams : stream[s].panel # p /\ (stream[s].pending \/ stream[s].events > 0)
                              => stream'[s] = stream[s]
    PROVE  HistoryInv'
<1> DEFINE n == [panel[p] EXCEPT !.open = TRUE, !.detail = FALSE, !.listed = d,
                                 !.pane = "list", !.list = {}]
<1>1. /\ panel' \in [Panels -> PanelOf] /\ panel'[p].listed = d
      /\ \A q \in Panels : q # p => panel'[q] = panel[q]
  <2>1. panel[p] \in PanelOf /\ panel \in [Panels -> PanelOf]
        BY DEF HistoryInv, HistoryTypeOK
  <2>2. n \in PanelOf /\ n.listed = d
        BY <2>1 DEF PanelOf
  <2>3. panel' = [panel EXCEPT ![p] = n]
        BY <2>1 DEF LoadList
  <2> HIDE DEF n
  <2> QED BY <2>1, <2>2, <2>3
<1>2. /\ fetch' \in [Fetches -> FetchOf] /\ FetchInv'
      /\ \A g \in Fetches : fetch[g].at # "off" => fetch'[g] = fetch[g]
      /\ d # NoDB => fetch'[f].at = "asked" /\ fetch'[f].panel = p /\ fetch'[f].db = d
  <2>1. CASE d = NoDB
        BY <2>1 DEF LoadList, HistoryInv, HistoryTypeOK, FetchInv
  <2>2. CASE d # NoDB
        BY <2>2, AskKeeps DEF LoadList, HistoryInv
  <2> QED BY <2>1, <2>2
<1>3. owed' \in [Panels -> SUBSET Runs] /\ \A q \in Panels : owed'[q] = owed[q]
      BY DEF HistoryInv, HistoryTypeOK
<1>4. ASSUME NEW q \in Panels, NEW r \in owed'[q], Lists(q, r)'
      PROVE  \/ Lists(q, r) /\ (Coming(q, r) => Coming(q, r)')
             \/ Coming(q, r)'
  <2>1. r \in owed[q] /\ r \in rows /\ r \in Runs /\ run'[r] = run[r]
        BY <1>3 DEF HistoryInv, OwedInv, HistoryTypeOK
  <2>2. CASE q = p
    <3>1. run'[r].db = d /\ run[r].db \in DBs
          BY <1>1, <1>4, <2>1, <2>2 DEF Lists, HistoryInv, RunInv
    <3>2. d # NoDB
          BY <2>1, <3>1, HistoryAssumption
    <3> QED BY <1>2, <2>2, <3>1, <3>2 DEF Coming
  <2>3. CASE q # p
    <3>1. Lists(q, r)
          BY <1>1, <1>4, <2>1, <2>3 DEF Lists
    <3>2. ASSUME Coming(q, r) PROVE Coming(q, r)'
      <4>1. CASE r \in panel[q].list
            BY <1>1, <2>3, <4>1 DEF Coming
      <4>2. CASE \E s \in Streams : /\ stream[s].panel = q
                                    /\ stream[s].pending \/ stream[s].events > 0
            BY <2>3, <4>2 DEF Coming
      <4>3. CASE \E g \in Fetches : /\ fetch[g].panel = q
                                    /\ \/ fetch[g].at = "asked" /\ fetch[g].db = run[r].db
                                       \/ fetch[g].at = "read" /\ r \in fetch[g].rows
            BY <1>2, <2>1, <4>3 DEF Coming
      <4> QED BY <3>2, <4>1, <4>2, <4>3 DEF Coming
    <3> QED BY <3>1, <3>2
  <2> QED BY <2>2, <2>3
<1> QED BY <1>1, <1>2, <1>3, <1>4, Onward

\* A panel opens or its tab changes: a list is asked for, a stream opened.
LEMMA WatchKeeps ==
    ASSUME HistoryInv, NEW p \in Panels, NEW d \in DBs \cup {NoDB}, NEW s \in Streams,
           NEW f \in Fetches, Watch(p, d, s, f)
    PROVE  HistoryInv'
<1> DEFINE m == [Off EXCEPT !.at = "asked", !.panel = p, !.db = d]
<1>1. /\ stream[s].at = "off" /\ LoadList(f, p, d) /\ UNCHANGED <<run, rows, owed>>
      /\ stream' = IF d = NoDB THEN Unwatched(p) ELSE [Unwatched(p) EXCEPT ![s] = m]
      BY DEF Watch
<1>2. m \in StreamOf /\ m.at = "asked" /\ m.panel = p /\ ~m.pending /\ m.events = 0
      BY OffType DEF StreamOf
<1> HIDE DEF m
<1>3. stream' \in [Streams -> StreamOf]
      BY <1>1, <1>2, UnwatchedType DEF HistoryInv
<1>4. \A x \in Streams : stream'[x] = IF d # NoDB /\ x = s THEN m ELSE Unwatched(p)[x]
      BY <1>1, UnwatchedType DEF HistoryInv
<1>5. StreamInv'
  <2> SUFFICES ASSUME NEW x \in Streams
               PROVE  /\ stream'[x].at \in {"asked", "on"} => stream'[x].panel \in Panels
                      /\ stream'[x].pending \/ stream'[x].events > 0 => stream'[x].at = "on"
      BY DEF StreamInv
  <2>1. CASE stream'[x] = m
        BY <1>2, <2>1
  <2>2. CASE stream'[x] = Unwatched(p)[x]
        BY <2>2, UnwatchedType DEF HistoryInv
  <2> QED BY <1>4, <2>1, <2>2
<1>6. \A x \in Streams : stream[x].panel # p /\ (stream[x].pending \/ stream[x].events > 0)
                         => stream'[x] = stream[x]
  <2> SUFFICES ASSUME NEW x \in Streams, stream[x].panel # p,
                      stream[x].pending \/ stream[x].events > 0
               PROVE  stream'[x] = stream[x]
      OBVIOUS
  <2>1. x # s
        BY <1>1 DEF HistoryInv, StreamInv
  <2> QED BY <1>4, <2>1, UnwatchedType DEF HistoryInv
<1> QED BY <1>1, <1>3, <1>5, <1>6, LoadListKeeps

\* A panel that closes is owed nothing more.
LEMMA ClosePanelKeeps == ASSUME HistoryInv, NEW p \in Panels, ClosePanel(p) PROVE HistoryInv'
<1>1. /\ panel' = [panel EXCEPT ![p] = Closed] /\ stream' = Unwatched(p)
      /\ owed' = [owed EXCEPT ![p] = {}] /\ run' = run /\ rows' = rows /\ fetch' = fetch
      BY DEF ClosePanel
<1>2. /\ panel' \in [Panels -> PanelOf] /\ ~panel'[p].open
      /\ \A q \in Panels : q # p => panel'[q] = panel[q]
      BY <1>1, OffType DEF HistoryInv, HistoryTypeOK
<1>3. stream' \in [Streams -> StreamOf] /\ StreamInv'
      BY <1>1, UnwatchedType DEF HistoryInv, StreamInv
<1>4. /\ FetchInv' /\ fetch' \in [Fetches -> FetchOf] /\ owed' \in [Panels -> SUBSET Runs]
      /\ \A q \in Panels : owed'[q] \subseteq owed[q]
      BY <1>1 DEF HistoryInv, FetchInv, HistoryTypeOK
<1>5. ASSUME NEW q \in Panels, NEW r \in owed'[q], Lists(q, r)'
      PROVE  Lists(q, r) /\ (Coming(q, r) => Coming(q, r)')
  <2>1. q # p
        BY <1>2, <1>5 DEF Lists
  <2>2. \A x \in Streams : stream[x].panel = q => stream'[x] = stream[x]
        BY <1>1, <2>1, UnwatchedType DEF HistoryInv
  <2>3. Lists(q, r)
        BY <1>1, <1>2, <1>5, <2>1 DEF Lists
  <2>4. Coming(q, r) => Coming(q, r)'
        BY <1>1, <1>2, <2>1, <2>2 DEF Coming
  <2> QED BY <2>3, <2>4
<1> QED BY <1>1, <1>2, <1>3, <1>4, <1>5, Onward

\* A panel asks for one entry of its list.
LEMMA DetailKeeps ==
    ASSUME HistoryInv, NEW p \in Panels, NEW f \in Fetches, Detail(p, f) PROVE HistoryInv'
<1>1. /\ fetch[f].at = "off" /\ Ask(f, p, "detail", NoDB)
      /\ panel' = [panel EXCEPT ![p].detail = TRUE]
      /\ UNCHANGED <<run, rows, stream, owed>>
      BY DEF Detail
<1>2. /\ panel' \in [Panels -> PanelOf] /\ panel'[p].detail
      /\ \A q \in Panels : q # p => panel'[q] = panel[q]
      BY <1>1 DEF HistoryInv, HistoryTypeOK, PanelOf
<1>3. /\ fetch' \in [Fetches -> FetchOf] /\ FetchInv'
      /\ \A g \in Fetches : fetch[g].at # "off" => fetch'[g] = fetch[g]
      BY <1>1, AskKeeps DEF HistoryInv
<1>4. StreamInv'
      BY <1>1 DEF HistoryInv, StreamInv
<1>5. ASSUME NEW q \in Panels, NEW r \in owed'[q], Lists(q, r)'
      PROVE  Lists(q, r) /\ (Coming(q, r) => Coming(q, r)')
  <2>1. q # p
        BY <1>2, <1>5 DEF Lists
  <2>2. Lists(q, r)
        BY <1>1, <1>2, <1>5, <2>1 DEF Lists
  <2>3. Coming(q, r) => Coming(q, r)'
        BY <1>1, <1>2, <1>3, <2>1 DEF Coming
  <2> QED BY <2>2, <2>3
<1> QED BY <1>1, <1>2, <1>3, <1>4, <1>5, Onward DEF HistoryInv, HistoryTypeOK

\* Back from an entry, a list is asked for.
LEMMA BackKeeps ==
    ASSUME HistoryInv, NEW p \in Panels, NEW d \in DBs \cup {NoDB}, NEW f \in Fetches,
           Back(p, d, f)
    PROVE  HistoryInv'
<1>1. LoadList(f, p, d) /\ UNCHANGED <<run, rows, stream, owed>>
      BY DEF Back
<1>2. stream' \in [Streams -> StreamOf] /\ StreamInv'
      BY <1>1 DEF HistoryInv, HistoryTypeOK, StreamInv
<1> QED BY <1>1, <1>2, LoadListKeeps

\* A list read now holds every row owed on its connection.
LEMMA ReadListKeeps == ASSUME HistoryInv, NEW f \in Fetches, ReadList(f) PROVE HistoryInv'
<1> DEFINE seen == ListQueryHistory(fetch[f].db)
           m == [fetch[f] EXCEPT !.at = "read", !.db = NoDB, !.rows = seen]
<1>1. /\ fetch[f].at = "asked" /\ fetch[f].panel \in Panels
      /\ fetch[f] \in FetchOf /\ fetch \in [Fetches -> FetchOf] /\ seen \in SUBSET Runs
      /\ UNCHANGED <<run, rows, panel, stream, owed>>
      BY DEF ReadList, HistoryInv, FetchInv, HistoryTypeOK, ListQueryHistory
<1>2. fetch' = [fetch EXCEPT ![f] = m]
      BY <1>1 DEF ReadList
<1>3. \A r \in rows : run[r].db = fetch[f].db => r \in seen
      BY DEF ListQueryHistory
<1> HIDE DEF seen
<1>4. m \in FetchOf /\ m.panel = fetch[f].panel /\ m.at = "read" /\ m.rows = seen
      BY <1>1 DEF FetchOf
<1> HIDE DEF m
<1>5. /\ fetch' \in [Fetches -> FetchOf] /\ fetch'[f] = m
      /\ \A g \in Fetches : g # f => fetch'[g] = fetch[g]
      BY <1>1, <1>2, <1>4
<1>6. StreamInv' /\ FetchInv'
      BY <1>1, <1>4, <1>5 DEF HistoryInv, StreamInv, FetchInv
<1>7. ASSUME NEW q \in Panels, NEW r \in owed'[q], Lists(q, r)'
      PROVE  Lists(q, r) /\ (Coming(q, r) => Coming(q, r)')
  <2>1. r \in rows
        BY <1>1 DEF HistoryInv, OwedInv
  <2>2. Lists(q, r)
        BY <1>1, <1>7 DEF Lists
  <2>3. ASSUME Coming(q, r) PROVE Coming(q, r)'
    <3>1. CASE \/ r \in panel[q].list
               \/ \E s \in Streams : /\ stream[s].panel = q
                                     /\ stream[s].pending \/ stream[s].events > 0
          BY <1>1, <3>1 DEF Coming
    <3>2. CASE \E g \in Fetches : /\ fetch[g].panel = q
                                  /\ \/ fetch[g].at = "asked" /\ fetch[g].db = run[r].db
                                     \/ fetch[g].at = "read" /\ r \in fetch[g].rows
      <4> PICK g \in Fetches : /\ fetch[g].panel = q
                               /\ \/ fetch[g].at = "asked" /\ fetch[g].db = run[r].db
                                  \/ fetch[g].at = "read" /\ r \in fetch[g].rows
          BY <3>2
      <4>1. CASE g # f
            BY <1>1, <1>5, <4>1 DEF Coming
      <4>2. CASE g = f
            BY <1>1, <1>3, <1>4, <1>5, <2>1, <4>2 DEF Coming
      <4> QED BY <4>1, <4>2
    <3> QED BY <2>3, <3>1, <3>2 DEF Coming
  <2> QED BY <2>2, <2>3
<1> QED BY <1>1, <1>5, <1>6, <1>7, Onward DEF HistoryInv, HistoryTypeOK

\* What a pane shows takes the place of what it showed: a row it showed and
\* shows no longer is lost, or comes with the next list if an entry is open.
LEMMA DisplayKeeps ==
    ASSUME HistoryInv, NEW f \in Fetches, fetch[f].at # "off",
           NEW what \in {"list", "detail"}, NEW new \in SUBSET Runs, NEW lost,
           Display(f, what, new, lost),
           panel[fetch[f].panel].list \ new \subseteq lost
              \/ owed[fetch[f].panel] \subseteq lost,
           fetch[f].at = "read" => fetch[f].rows \subseteq new \/ owed[fetch[f].panel] \subseteq lost,
           fetch[f].at = "asked" => owed[fetch[f].panel] \subseteq lost
    PROVE  HistoryInv'
<1> DEFINE p == fetch[f].panel
<1>1. /\ p \in Panels /\ UNCHANGED <<run, rows, stream>>
      /\ fetch' = [fetch EXCEPT ![f] = NoFetch]
      /\ panel' = IF panel[p].open THEN [panel EXCEPT ![p].pane = what, ![p].list = new] ELSE panel
      /\ owed' = [owed EXCEPT ![p] = IF panel[p].detail THEN owed[p] ELSE owed[p] \ lost]
      BY DEF Display, HistoryInv, FetchInv
<1>2. /\ panel' \in [Panels -> PanelOf]
      /\ \A q \in Panels : q # p => panel'[q] = panel[q]
      /\ panel'[p].open = panel[p].open /\ panel'[p].detail = panel[p].detail
      /\ panel'[p].listed = panel[p].listed
      /\ panel[p].open => panel'[p].list = new
  <2> DEFINE n == [panel[p] EXCEPT !.pane = what, !.list = new]
  <2>1. panel[p] \in PanelOf /\ panel \in [Panels -> PanelOf]
        BY <1>1 DEF HistoryInv, HistoryTypeOK
  <2>2. /\ n \in PanelOf /\ n.open = panel[p].open /\ n.detail = panel[p].detail
        /\ n.listed = panel[p].listed /\ n.list = new
        BY <2>1 DEF PanelOf
  <2>3. panel' = IF panel[p].open THEN [panel EXCEPT ![p] = n] ELSE panel
        BY <1>1, <2>1
  <2> HIDE DEF n
  <2> QED BY <1>1, <2>1, <2>2, <2>3
<1>3. /\ fetch' \in [Fetches -> FetchOf] /\ fetch'[f] = NoFetch
      /\ \A g \in Fetches : g # f => fetch'[g] = fetch[g]
      BY <1>1, OffType DEF HistoryInv, HistoryTypeOK
<1>4. StreamInv' /\ FetchInv'
      BY <1>1, <1>3, OffType DEF HistoryInv, StreamInv, FetchInv
<1>5. /\ owed' \in [Panels -> SUBSET Runs] /\ \A q \in Panels : owed'[q] \subseteq owed[q]
      /\ ~panel[p].detail => owed'[p] \cap lost = {}
      BY <1>1 DEF HistoryInv, HistoryTypeOK
<1>6. ASSUME NEW q \in Panels, NEW r \in owed'[q], Lists(q, r)'
      PROVE  Lists(q, r) /\ (Coming(q, r) => Coming(q, r)')
  <2>1. Lists(q, r) /\ panel[q].open /\ ~panel[q].detail /\ r \in owed[q]
        BY <1>1, <1>2, <1>5, <1>6 DEF Lists
  <2>2. ASSUME Coming(q, r) PROVE Coming(q, r)'
    <3>1. CASE \E s \in Streams : /\ stream[s].panel = q
                                  /\ stream[s].pending \/ stream[s].events > 0
          BY <1>1, <3>1 DEF Coming
    <3>2. CASE r \in panel[q].list
      <4>1. CASE q # p
            BY <1>2, <3>2, <4>1 DEF Coming
      <4>2. CASE q = p
            BY <1>2, <1>5, <2>1, <3>2, <4>2 DEF Coming
      <4> QED BY <4>1, <4>2
    <3>3. CASE \E g \in Fetches : /\ fetch[g].panel = q
                                  /\ \/ fetch[g].at = "asked" /\ fetch[g].db = run[r].db
                                     \/ fetch[g].at = "read" /\ r \in fetch[g].rows
      <4> PICK g \in Fetches : /\ fetch[g].panel = q
                               /\ \/ fetch[g].at = "asked" /\ fetch[g].db = run[r].db
                                  \/ fetch[g].at = "read" /\ r \in fetch[g].rows
          BY <3>3
      <4>1. CASE g # f
            BY <1>1, <1>3, <4>1 DEF Coming
      <4>2. CASE g = f
            BY <1>2, <1>5, <2>1, <4>2 DEF Coming
      <4> QED BY <4>1, <4>2
    <3> QED BY <2>2, <3>1, <3>2, <3>3 DEF Coming
  <2> QED BY <2>1, <2>2
<1>7. run' = run /\ rows' = rows /\ stream' \in [Streams -> StreamOf]
      BY <1>1 DEF HistoryInv, HistoryTypeOK
<1> HIDE DEF p
<1> QED BY <1>2, <1>3, <1>4, <1>5, <1>6, <1>7, Onward

\* A list or an entry is shown, or the request failed.
LEMMA AnswerKeeps ==
    ASSUME HistoryInv, NEW f \in Fetches, Answer(f) \/ FetchFails(f) PROVE HistoryInv'
<1> DEFINE was == panel[fetch[f].panel].list
<1>1. fetch[f].rows \in SUBSET Runs
      BY DEF HistoryInv, HistoryTypeOK, FetchOf
<1>2. CASE fetch[f].at = "read" /\ Display(f, "list", fetch[f].rows, was \ fetch[f].rows)
      BY <1>1, <1>2, DisplayKeeps
<1>3. CASE fetch[f].at = "detail" /\ Display(f, "detail", {}, was)
      BY <1>3, DisplayKeeps
<1>4. CASE FetchFails(f)
      BY <1>4, DisplayKeeps DEF FetchFails
<1> QED BY <1>2, <1>3, <1>4 DEF Answer
-----------------------------------------------------------------------------
(* Streams by themselves.                                                   *)

\* A record takes the place of a stream's: no signal or event is lost but
\* with rows that are not owed any more.
LEMMA StreamGoesOn ==
    ASSUME HistoryInv, NEW s \in Streams, NEW m \in StreamOf, stream' = [stream EXCEPT ![s] = m],
           UNCHANGED <<run, rows, panel, fetch>>,
           m.at \in {"asked", "on"} => m.panel \in Panels,
           m.pending \/ m.events > 0 => m.at = "on",
           owed' \in [Panels -> SUBSET Runs],
           \A q \in Panels : owed'[q] \subseteq owed[q],
           stream[s].pending \/ stream[s].events > 0 =>
               \/ (m.pending \/ m.events > 0) /\ m.panel = stream[s].panel
               \/ stream[s].panel \in Panels /\ panel[stream[s].panel].detail
               \/ \A r \in owed'[stream[s].panel] : r \in panel[stream[s].panel].list
    PROVE  HistoryInv'
<1>1. /\ stream' \in [Streams -> StreamOf] /\ stream'[s] = m
      /\ \A x \in Streams : x # s => stream'[x] = stream[x]
      BY DEF HistoryInv, HistoryTypeOK
<1>2. StreamInv' /\ FetchInv'
      BY <1>1 DEF HistoryInv, StreamInv, FetchInv
<1>3. ASSUME NEW q \in Panels, NEW r \in owed'[q], Lists(q, r)'
      PROVE  Lists(q, r) /\ (Coming(q, r) => Coming(q, r)')
  <2>1. Lists(q, r) /\ ~panel[q].detail
        BY <1>3 DEF Lists
  <2>2. ASSUME Coming(q, r) PROVE Coming(q, r)'
    <3>1. CASE \/ r \in panel[q].list
               \/ \E g \in Fetches : /\ fetch[g].panel = q
                                     /\ \/ fetch[g].at = "asked" /\ fetch[g].db = run[r].db
                                        \/ fetch[g].at = "read" /\ r \in fetch[g].rows
          BY <3>1 DEF Coming
    <3>2. CASE \E x \in Streams : /\ stream[x].panel = q
                                  /\ stream[x].pending \/ stream[x].events > 0
      <4> PICK x \in Streams : /\ stream[x].panel = q
                               /\ stream[x].pending \/ stream[x].events > 0
          BY <3>2
      <4>1. CASE x # s
            BY <1>1, <4>1 DEF Coming
      <4>2. CASE x = s
            BY <1>1, <1>3, <2>1, <4>2 DEF Coming
      <4> QED BY <4>1, <4>2
    <3> QED BY <2>2, <3>1, <3>2 DEF Coming
  <2> QED BY <2>1, <2>2
<1> QED BY <1>1, <1>2, <1>3, Onward DEF HistoryInv, HistoryTypeOK

\* A stream subscribes: from here on rows are signalled to it.
LEMMA SubscribeKeeps == ASSUME HistoryInv, NEW s \in Streams, Subscribe(s) PROVE HistoryInv'
<1> DEFINE m == [stream[s] EXCEPT !.at = "on", !.pending = FALSE]
<1>1. stream[s] \in StreamOf /\ stream \in [Streams -> StreamOf] /\ stream[s].at = "asked"
      BY DEF HistoryInv, HistoryTypeOK, Subscribe
<1>2. /\ m \in StreamOf /\ m.at = "on" /\ m.panel = stream[s].panel
      BY <1>1 DEF StreamOf
<1>3. stream' = [stream EXCEPT ![s] = m]
      BY <1>1 DEF Subscribe
<1> HIDE DEF m
<1>4. /\ ~(stream[s].pending \/ stream[s].events > 0) /\ stream[s].panel \in Panels
      BY <1>1 DEF HistoryInv, StreamInv
<1>5. /\ UNCHANGED <<run, rows, panel, fetch>> /\ owed' = owed
      /\ owed' \in [Panels -> SUBSET Runs]
      BY DEF Subscribe, HistoryInv, HistoryTypeOK
<1> QED BY <1>2, <1>3, <1>4, <1>5, StreamGoesOn

\* The stream writes an event for what was pending.
LEMMA WriteKeeps == ASSUME HistoryInv, NEW s \in Streams, Write(s) PROVE HistoryInv'
<1> DEFINE e == stream[s].events + 1
           m == [stream[s] EXCEPT !.pending = FALSE, !.events = e]
<1>1. stream[s] \in StreamOf /\ stream \in [Streams -> StreamOf] /\ stream[s].at = "on"
      BY DEF HistoryInv, HistoryTypeOK, Write
<1>2. e \in Nat /\ e > 0
      BY <1>1 DEF StreamOf
<1>3. stream' = [stream EXCEPT ![s] = m]
      BY <1>1 DEF Write
<1> HIDE DEF e
<1>4. /\ m \in StreamOf /\ m.at = "on" /\ m.panel = stream[s].panel /\ m.events = e
      BY <1>1, <1>2 DEF StreamOf
<1> HIDE DEF m
<1>5. /\ UNCHANGED <<run, rows, panel, fetch>> /\ owed' = owed
      /\ owed' \in [Panels -> SUBSET Runs] /\ stream[s].panel \in Panels
      BY <1>1 DEF Write, HistoryInv, HistoryTypeOK, StreamInv
<1> QED BY <1>2, <1>3, <1>4, <1>5, StreamGoesOn

\* An event finds an entry open, or has a list asked for.
LEMMA EventKeeps ==
    ASSUME HistoryInv, NEW s \in Streams, NEW d \in DBs \cup {NoDB}, NEW f \in Fetches,
           Event(s, d, f)
    PROVE  HistoryInv'
<1> DEFINE p == stream[s].panel
           e == stream[s].events - 1
           m == [stream[s] EXCEPT !.events = e]
<1>1. /\ stream[s] \in StreamOf /\ stream \in [Streams -> StreamOf] /\ stream[s].events > 0
      BY DEF HistoryInv, HistoryTypeOK, Event
<1>2. p \in Panels /\ stream[s].at = "on"
      BY <1>1 DEF HistoryInv, StreamInv
<1>3. e \in Nat
      BY <1>1 DEF StreamOf
<1>4. stream' = [stream EXCEPT ![s] = m]
      BY <1>1 DEF Event
<1> HIDE DEF e
<1>5. m \in StreamOf /\ m.at = "on" /\ m.panel = p
      BY <1>1, <1>2, <1>3 DEF StreamOf
<1> HIDE DEF m
<1>6. CASE panel[p].detail
  <2>1. UNCHANGED <<run, rows, panel, fetch>> /\ owed' = owed
        /\ owed' \in [Panels -> SUBSET Runs]
        BY <1>6 DEF Event, HistoryInv, HistoryTypeOK
  <2> QED BY <1>2, <1>4, <1>5, <1>6, <2>1, StreamGoesOn
<1>7. CASE ~panel[p].detail
  <2>1. LoadList(f, p, d) /\ UNCHANGED <<run, rows, owed>>
        BY <1>7 DEF Event
  <2>2. /\ stream' \in [Streams -> StreamOf] /\ stream'[s] = m
        /\ \A x \in Streams : x # s => stream'[x] = stream[x]
        BY <1>1, <1>4, <1>5
  <2>3. StreamInv'
        BY <1>2, <1>5, <2>2 DEF HistoryInv, StreamInv
  <2>4. \A x \in Streams : stream[x].panel # p => stream'[x] = stream[x]
        BY <2>2
  <2> QED BY <1>2, <2>1, <2>2, <2>3, <2>4, LoadListKeeps
<1> QED BY <1>6, <1>7

\* A stream that its panel has given up ends.
LEMMA UnsubscribeKeeps == ASSUME HistoryInv, NEW s \in Streams, Unsubscribe(s) PROVE HistoryInv'
<1>1. stream[s].at = "closed" /\ stream' = [stream EXCEPT ![s] = Off]
      BY DEF Unsubscribe
<1>2. /\ UNCHANGED <<run, rows, panel, fetch>> /\ owed' = owed
      /\ owed' \in [Panels -> SUBSET Runs]
      BY DEF Unsubscribe, HistoryInv, HistoryTypeOK
<1>3. ~(stream[s].pending \/ stream[s].events > 0)
      BY <1>1 DEF HistoryInv, StreamInv
<1>4. /\ Off.at \in {"asked", "on"} => Off.panel \in Panels
      /\ Off.pending \/ Off.events > 0 => Off.at = "on"
      /\ \A q \in Panels : owed'[q] \subseteq owed[q]
      BY <1>2, OffType
<1> QED BY <1>1, <1>2, <1>3, <1>4, OffType, StreamGoesOn

\* A lost stream is opened again by the browser; what it was to bring is lost.
LEMMA ReconnectKeeps == ASSUME HistoryInv, NEW s \in Streams, Reconnect(s) PROVE HistoryInv'
<1> DEFINE p == stream[s].panel
           m == [stream[s] EXCEPT !.at = "asked", !.pending = FALSE, !.events = 0]
<1>1. /\ stream[s] \in StreamOf /\ stream \in [Streams -> StreamOf] /\ p \in Panels
      BY DEF HistoryInv, HistoryTypeOK, Reconnect, StreamInv
<1>2. /\ m \in StreamOf /\ m.at = "asked" /\ m.panel = p /\ ~m.pending /\ m.events = 0
      BY <1>1 DEF StreamOf
<1>3. stream' = [stream EXCEPT ![s] = m]
      BY <1>1 DEF Reconnect
<1> HIDE DEF m
<1>4. /\ UNCHANGED <<run, rows, panel, fetch>>
      /\ owed' = [owed EXCEPT ![p] = IF stream[s].pending \/ stream[s].events > 0
                                     THEN owed[p] \cap panel[p].list ELSE owed[p]]
      BY DEF Reconnect
<1>5. /\ owed' \in [Panels -> SUBSET Runs]
      /\ stream[s].pending \/ stream[s].events > 0 => owed'[p] \subseteq panel[p].list
      /\ \A q \in Panels : owed'[q] \subseteq owed[q]
      BY <1>1, <1>4 DEF HistoryInv, HistoryTypeOK
<1>6. /\ m.at \in {"asked", "on"} => m.panel \in Panels
      /\ m.pending \/ m.events > 0 => m.at = "on"
      /\ stream[s].pending \/ stream[s].events > 0 =>
             \A r \in owed'[p] : r \in panel[p].list
      BY <1>1, <1>2, <1>5
<1> QED BY <1>2, <1>3, <1>4, <1>5, <1>6, StreamGoesOn
-----------------------------------------------------------------------------
\* At the start no panel is open and there is no row.
LEMMA HistoryInitInv == HistoryInit => HistoryInv
<1> SUFFICES ASSUME HistoryInit PROVE HistoryInv
    OBVIOUS
<1>1. HistoryTypeOK
      BY OffType DEF HistoryInit, HistoryTypeOK, RunOf
<1>2. RunInv /\ SignalInv /\ OwedInv
      BY DEF HistoryInit, RunInv, SignalInv, OwedInv
<1>3. StreamInv /\ FetchInv
      BY OffType DEF HistoryInit, StreamInv, FetchInv
<1>4. NothingMissed
      BY DEF HistoryInit, NothingMissed
<1> QED BY <1>1, <1>2, <1>3, <1>4 DEF HistoryInv

\* The inductive invariant of the history is kept by every step.
LEMMA HistoryNextInv == HistoryInv /\ [HistoryNext]_historyVars => HistoryInv'
<1> SUFFICES ASSUME HistoryInv, [HistoryNext]_historyVars PROVE HistoryInv'
    OBVIOUS
<1>1. ASSUME NEW r \in Runs, Ends(r) \/ Record(r) \/ Notify(r) PROVE HistoryInv'
      BY <1>1, EndsKeeps, RecordKeeps, NotifyKeeps
<1>2. ASSUME NEW p \in Panels, ClosePanel(p) PROVE HistoryInv'
      BY <1>2, ClosePanelKeeps
<1>3. ASSUME NEW p \in Panels, NEW f \in Fetches, Detail(p, f) PROVE HistoryInv'
      BY <1>3, DetailKeeps
<1>4. ASSUME NEW p \in Panels, NEW d \in DBs \cup {NoDB}, NEW f \in Fetches, Back(p, d, f)
      PROVE  HistoryInv'
      BY <1>4, BackKeeps
<1>5. ASSUME NEW p \in Panels, NEW d \in DBs \cup {NoDB}, NEW f \in Fetches,
             NEW s \in Streams, Watch(p, d, s, f)
      PROVE  HistoryInv'
      BY <1>5, WatchKeeps
<1>6. ASSUME NEW f \in Fetches, ReadList(f) \/ Answer(f) \/ FetchFails(f) PROVE HistoryInv'
      BY <1>6, ReadListKeeps, AnswerKeeps
<1>7. ASSUME NEW s \in Streams, Subscribe(s) \/ Write(s) \/ Unsubscribe(s) \/ Reconnect(s)
      PROVE  HistoryInv'
      BY <1>7, SubscribeKeeps, WriteKeeps, UnsubscribeKeeps, ReconnectKeeps
<1>8. ASSUME NEW s \in Streams, NEW d \in DBs \cup {NoDB}, NEW f \in Fetches, Event(s, d, f)
      PROVE  HistoryInv'
      BY <1>8, EventKeeps
<1>9. CASE UNCHANGED historyVars
  <2>1. HistoryTypeOK' /\ RunInv' /\ SignalInv' /\ OwedInv'
        BY <1>9 DEF HistoryInv, HistoryTypeOK, RunInv, SignalInv, OwedInv, historyVars
  <2>2. StreamInv' /\ FetchInv' /\ NothingMissed'
        BY <1>9 DEF HistoryInv, StreamInv, FetchInv, NothingMissed, Coming, historyVars
  <2> QED BY <2>1, <2>2 DEF HistoryInv
<1> QED BY <1>1, <1>2, <1>3, <1>4, <1>5, <1>6, <1>7, <1>8, <1>9 DEF HistoryNext

\* So it holds throughout.
LEMMA HistoryInvAlways == HistorySpec => []HistoryInv
BY HistoryInitInv, HistoryNextInv, PTL DEF HistorySpec
-----------------------------------------------------------------------------
(* Theorems.                                                               *)

\* The history's rows, streams and panels keep their types.
THEOREM HistoryTypeCorrect == HistorySpec => []HistoryTypeOK
<1>1. HistoryInv => HistoryTypeOK
      BY DEF HistoryInv
<1> QED BY <1>1, HistoryInvAlways, PTL

\* No row signalled to a panel's stream is forgotten while the panel lists its
\* connection: it is on the screen, or a signal, an event or a request that
\* brings it is on its way (recordQueryHistory inserts before notify; a full
\* channel is skipped), whatever was selected and read meanwhile.
THEOREM NoRowMissed == HistorySpec => []NothingMissed
<1>1. HistoryInv => NothingMissed
      BY DEF HistoryInv
<1> QED BY <1>1, HistoryInvAlways, PTL

-----------------------------------------------------------------------------
(* The accounts: the login, the token and the passwords.                    *)

\* What Open has done when it is past a step.
Opened ==
    /\ up # Down => file.no > 0
    /\ \A i \in 1..Len(Migrations) : up > i =>
         IF Migrations[i] = Dropped THEN Dropped \notin file.columns
                                    ELSE Migrations[i] \in file.columns
    /\ up > User  => user.here /\ user.creds = env
    /\ up > Token => user.token # 0
    /\ up > Group => group

\* Tokens are used once; a cookie that fits was made for this file.
CookieInv ==
    /\ user.token <= made
    /\ \A c \in cookies : c.token <= made /\ (c.token = user.token => c.file = file.no)
    /\ \A l \in Logins : login[l] => up = Serving

\* A registration that is past memory.
PasswordInv ==
    /\ \A s \in Servers : /\ adding[s] # "idle" => s \in memory /\ up = Serving
                          /\ adding[s] = "row" => known[s] = "none"
                          /\ known[s] = "nopass" /\ s \notin forgotten => s \in memory

AccountsInv == AccountsTypeOK /\ Opened /\ CookieInv /\ PasswordInv
-----------------------------------------------------------------------------
\* The steps of Open in numbers.
LEMMA Numbers == /\ Len(Migrations) = 7 /\ Down = 0 /\ User = 8 /\ Token = 9 /\ Group = 10 /\ Serving = 11
                 /\ \A i \in 1..7 : Migrations[i] \in Columns
                 /\ Columns = {Migrations[i] : i \in 1..7}
BY DEF Migrations, Down, User, Token, Group, Serving, Columns

\* The row NoUser, and one a file of an earlier version has, are of their type.
LEMMA UserTypes == \A u : u = NoUser \/ u = [creds |-> NoUser.creds, here |-> TRUE, token |-> 0] =>
                     u \in [creds: Creds, here: BOOLEAN, token: 0..MaxTokens] /\ u.token = 0
<1> SUFFICES ASSUME NEW u, u = NoUser \/ u = [creds |-> NoUser.creds, here |-> TRUE, token |-> 0]
             PROVE  u \in [creds: Creds, here: BOOLEAN, token: 0..MaxTokens] /\ u.token = 0
    OBVIOUS
<1> DEFINE c == CHOOSE x \in Creds : TRUE
<1>1. c \in Creds /\ 0 \in 0..MaxTokens
      BY AccountsAssumption
<1>2. NoUser = [creds |-> c, here |-> FALSE, token |-> 0]
      BY DEF NoUser
<1> HIDE DEF c
<1>3. CASE u = NoUser
      BY <1>1, <1>2, <1>3
<1>4. CASE u = [creds |-> NoUser.creds, here |-> TRUE, token |-> 0]
      BY <1>1, <1>2, <1>4
<1> QED BY <1>3, <1>4

\* At the start the server is down and there are no cookies; the file may be an old one.
LEMMA AccountsInitInv == AccountsInit => AccountsInv
<1> SUFFICES ASSUME AccountsInit PROVE AccountsInv
    OBVIOUS
<1> USE Numbers, UserTypes, AccountsAssumption
<1>0. user \in [creds: Creds, here: BOOLEAN, token: 0..MaxTokens] /\ user.token = 0
      BY DEF AccountsInit
<1>f. file \in [no: 0..MaxFiles, columns: SUBSET Columns] /\ group = user.here
      BY DEF AccountsInit
<1>1. AccountsTypeOK
      BY <1>0, <1>f DEF AccountsInit, AccountsTypeOK
<1>2. Opened
      BY <1>1 DEF AccountsInit, AccountsTypeOK, Opened
<1>3. CookieInv
      BY <1>0 DEF AccountsInit, CookieInv
<1>4. PasswordInv
      BY DEF AccountsInit, PasswordInv
<1> QED BY <1>1, <1>2, <1>3, <1>4 DEF AccountsInv

\* Every step keeps the invariant.
LEMMA AccountsNextInv == AccountsInv /\ [AccountsNext]_accountsVars => AccountsInv'
<1> SUFFICES ASSUME AccountsInv, [AccountsNext]_accountsVars PROVE AccountsInv'
    OBVIOUS
<1> USE Numbers, AccountsAssumption
<1>0. AccountsTypeOK /\ Opened /\ CookieInv /\ PasswordInv
      BY DEF AccountsInv
<1>1. CASE Schema
  <2>1. AccountsTypeOK'
        BY <1>0, <1>1 DEF Schema, Current, serverVars, AccountsTypeOK
  <2>2. Opened'
        BY <1>0, <1>1 DEF Schema, serverVars, AccountsTypeOK, Opened
  <2>3. CookieInv'
        BY <1>0, <1>1 DEF Schema, serverVars, AccountsTypeOK, CookieInv
  <2>4. PasswordInv'
        BY <1>0, <1>1 DEF Schema, serverVars, AccountsTypeOK, PasswordInv
  <2> QED BY <2>1, <2>2, <2>3, <2>4 DEF AccountsInv
<1>2. CASE Migrate
  <2>1. AccountsTypeOK'
        BY <1>0, <1>2 DEF Migrate, Applied, serverVars, AccountsTypeOK
  <2>2. Opened'
        BY <1>0, <1>2 DEF Migrate, Applied, serverVars, AccountsTypeOK, Opened
  <2>3. CookieInv'
        BY <1>0, <1>2 DEF Migrate, Applied, serverVars, AccountsTypeOK, CookieInv
  <2>4. PasswordInv'
        BY <1>0, <1>2 DEF Migrate, Applied, serverVars, AccountsTypeOK, PasswordInv
  <2> QED BY <2>1, <2>2, <2>3, <2>4 DEF AccountsInv
<1>3. CASE SeedUser
  <2>1. AccountsTypeOK'
        BY <1>0, <1>3 DEF SeedUser, serverVars, AccountsTypeOK
  <2>2. Opened'
        BY <1>0, <1>3 DEF SeedUser, serverVars, AccountsTypeOK, Opened
  <2>3. CookieInv'
        BY <1>0, <1>3 DEF SeedUser, serverVars, AccountsTypeOK, CookieInv
  <2>4. PasswordInv'
        BY <1>0, <1>3 DEF SeedUser, serverVars, AccountsTypeOK, PasswordInv
  <2> QED BY <2>1, <2>2, <2>3, <2>4 DEF AccountsInv
<1>4. CASE SeedToken
  <2>1. AccountsTypeOK'
        BY <1>0, <1>4 DEF SeedToken, serverVars, AccountsTypeOK
  <2>2. Opened'
        BY <1>0, <1>4 DEF SeedToken, serverVars, AccountsTypeOK, Opened
  <2>3. CookieInv'
        BY <1>0, <1>4 DEF SeedToken, serverVars, AccountsTypeOK, CookieInv
  <2>4. PasswordInv'
        BY <1>0, <1>4 DEF SeedToken, serverVars, AccountsTypeOK, PasswordInv
  <2> QED BY <2>1, <2>2, <2>3, <2>4 DEF AccountsInv
<1>5. CASE SeedGroup
  <2>1. AccountsTypeOK'
        BY <1>0, <1>5 DEF SeedGroup, serverVars, AccountsTypeOK
  <2>2. Opened'
        BY <1>0, <1>5 DEF SeedGroup, serverVars, AccountsTypeOK, Opened
  <2>3. CookieInv'
        BY <1>0, <1>5 DEF SeedGroup, serverVars, AccountsTypeOK, CookieInv
  <2>4. PasswordInv'
        BY <1>0, <1>5 DEF SeedGroup, serverVars, AccountsTypeOK, PasswordInv
  <2> QED BY <2>1, <2>2, <2>3, <2>4 DEF AccountsInv
<1>6. CASE Logout
  <2>1. AccountsTypeOK'
        BY <1>0, <1>6 DEF Logout, serverVars, AccountsTypeOK
  <2>2. Opened'
        BY <1>0, <1>6 DEF Logout, serverVars, AccountsTypeOK, Opened
  <2>3. CookieInv'
        BY <1>0, <1>6 DEF Logout, serverVars, AccountsTypeOK, CookieInv
  <2>4. PasswordInv'
        BY <1>0, <1>6 DEF Logout, serverVars, AccountsTypeOK, PasswordInv
  <2> QED BY <2>1, <2>2, <2>3, <2>4 DEF AccountsInv
<1>7. CASE \E l \in Logins : Verify(l)
  <2>1. AccountsTypeOK'
        BY <1>0, <1>7 DEF Verify, serverVars, AccountsTypeOK
  <2>2. Opened'
        BY <1>0, <1>7 DEF Verify, serverVars, AccountsTypeOK, Opened
  <2>3. CookieInv'
        BY <1>0, <1>7 DEF Verify, serverVars, AccountsTypeOK, CookieInv
  <2>4. PasswordInv'
        BY <1>0, <1>7 DEF Verify, serverVars, AccountsTypeOK, PasswordInv
  <2> QED BY <2>1, <2>2, <2>3, <2>4 DEF AccountsInv
<1>8. CASE \E l \in Logins : SetToken(l)
  <2>1. AccountsTypeOK'
        BY <1>0, <1>8 DEF SetToken, SetUserSessionToken, serverVars, AccountsTypeOK, Opened, CookieInv
  <2>2. Opened'
        BY <1>0, <1>8 DEF SetToken, SetUserSessionToken, serverVars, AccountsTypeOK, Opened
  <2>3. CookieInv'
        BY <1>0, <1>8 DEF SetToken, SetUserSessionToken, serverVars, AccountsTypeOK, CookieInv
  <2>4. PasswordInv'
        BY <1>0, <1>8 DEF SetToken, SetUserSessionToken, serverVars, AccountsTypeOK, PasswordInv
  <2> QED BY <2>1, <2>2, <2>3, <2>4 DEF AccountsInv
<1>9. CASE \E s \in Servers : Remember(s)
  <2>1. AccountsTypeOK'
        BY <1>0, <1>9 DEF Remember, AddFrame, serverVars, AccountsTypeOK
  <2>2. Opened'
        BY <1>0, <1>9 DEF Remember, AddFrame, serverVars, AccountsTypeOK, Opened
  <2>3. CookieInv'
        BY <1>0, <1>9 DEF Remember, AddFrame, serverVars, AccountsTypeOK, CookieInv
  <2>4. PasswordInv'
        BY <1>0, <1>9 DEF Remember, AddFrame, serverVars, AccountsTypeOK, PasswordInv
  <2> QED BY <2>1, <2>2, <2>3, <2>4 DEF AccountsInv
<1>10. CASE \E s \in Servers : StoreServer(s)
  <2>1. AccountsTypeOK'
        BY <1>0, <1>10 DEF StoreServer, AddFrame, CreateServer, serverVars, AccountsTypeOK
  <2>2. Opened'
        BY <1>0, <1>10 DEF StoreServer, AddFrame, CreateServer, serverVars, AccountsTypeOK, Opened
  <2>3. CookieInv'
        BY <1>0, <1>10 DEF StoreServer, AddFrame, CreateServer, serverVars, AccountsTypeOK, CookieInv
  <2>4. PasswordInv'
        BY <1>0, <1>10 DEF StoreServer, AddFrame, CreateServer, serverVars, AccountsTypeOK, PasswordInv
  <2> QED BY <2>1, <2>2, <2>3, <2>4 DEF AccountsInv
<1>11. CASE \E s \in Servers : SavePassword(s)
  <2>1. AccountsTypeOK'
        BY <1>0, <1>11 DEF SavePassword, AddFrame, serverVars, AccountsTypeOK
  <2>2. Opened'
        BY <1>0, <1>11 DEF SavePassword, AddFrame, serverVars, AccountsTypeOK, Opened
  <2>3. CookieInv'
        BY <1>0, <1>11 DEF SavePassword, AddFrame, serverVars, AccountsTypeOK, CookieInv
  <2>4. PasswordInv'
        BY <1>0, <1>11 DEF SavePassword, AddFrame, serverVars, AccountsTypeOK, PasswordInv
  <2> QED BY <2>1, <2>2, <2>3, <2>4 DEF AccountsInv
<1>12. CASE Crash
  <2>1. AccountsTypeOK'
        BY <1>0, <1>12 DEF Crash, serverVars, AccountsTypeOK
  <2>2. Opened'
        BY <1>0, <1>12 DEF Crash, serverVars, AccountsTypeOK, Opened
  <2>3. CookieInv'
        BY <1>0, <1>12 DEF Crash, serverVars, AccountsTypeOK, CookieInv
  <2>4. PasswordInv'
        BY <1>0, <1>12 DEF Crash, serverVars, AccountsTypeOK, PasswordInv
  <2> QED BY <2>1, <2>2, <2>3, <2>4 DEF AccountsInv
<1>13. CASE DeleteFile
  <2>1. AccountsTypeOK'
    <3>1. user' \in [creds: Creds, here: BOOLEAN, token: 0..MaxTokens]
          BY <1>13, UserTypes DEF DeleteFile
    <3>2. file' \in [no: 0..MaxFiles, columns: SUBSET Columns]
          BY <1>13 DEF DeleteFile
    <3>3. known' \in [Servers -> {"none", "nopass", "pass"}] /\ forgotten' \in SUBSET Servers
          BY <1>13 DEF DeleteFile
    <3> QED BY <1>0, <1>13, <3>1, <3>2, <3>3 DEF DeleteFile, serverVars, AccountsTypeOK
  <2>2. Opened'
        BY <1>0, <1>13 DEF DeleteFile, serverVars, AccountsTypeOK, Opened
  <2>3. CookieInv'
        BY <1>0, <1>13, UserTypes DEF DeleteFile, serverVars, AccountsTypeOK, CookieInv
  <2>4. PasswordInv'
        BY <1>0, <1>13 DEF DeleteFile, serverVars, AccountsTypeOK, PasswordInv
  <2> QED BY <2>1, <2>2, <2>3, <2>4 DEF AccountsInv
<1>14. CASE Configure
  <2>1. AccountsTypeOK'
        BY <1>0, <1>14 DEF Configure, serverVars, AccountsTypeOK
  <2>2. Opened'
        BY <1>0, <1>14 DEF Configure, serverVars, AccountsTypeOK, Opened
  <2>3. CookieInv'
        BY <1>0, <1>14 DEF Configure, serverVars, AccountsTypeOK, CookieInv
  <2>4. PasswordInv'
        BY <1>0, <1>14 DEF Configure, serverVars, AccountsTypeOK, PasswordInv
  <2> QED BY <2>1, <2>2, <2>3, <2>4 DEF AccountsInv
<1>15. CASE UNCHANGED accountsVars
      BY <1>0, <1>15 DEF AccountsInv, AccountsTypeOK, Opened, CookieInv, PasswordInv, accountsVars, serverVars
<1> QED BY <1>1, <1>2, <1>3, <1>4, <1>5, <1>6, <1>7, <1>8, <1>9, <1>10, <1>11, <1>12, <1>13, <1>14, <1>15 DEF AccountsNext

\* Every behaviour of Accounts has the invariant.
LEMMA AccountsInvAlways == AccountsSpec => []AccountsInv
<1> QED BY AccountsInitInv, AccountsNextInv, PTL DEF AccountsSpec

\* Open, the accounts and the registrations keep their types.
THEOREM AccountsTypeCorrect == AccountsSpec => []AccountsTypeOK
<1>1. AccountsInv => AccountsTypeOK
      BY DEF AccountsInv
<1> QED BY <1>1, AccountsInvAlways, PTL

\* However often Open was cut short and on a file of whatever version, the
\* process serves only from a file that has every column, the configured
\* user, a token and a group (db.go).
THEOREM ServesFromWholeFile == AccountsSpec => []ServesWhole
<1>1. AccountsInv => ServesWhole
  <2> SUFFICES ASSUME AccountsInv, up = Serving PROVE ServesWhole
      BY DEF ServesWhole
  <2> USE Numbers DEF AccountsInv, Opened, AccountsTypeOK
  <2>1. file.no > 0 /\ user.here /\ user.creds = env /\ user.token # 0 /\ group
        OBVIOUS
  <2>2. \A c \in Columns : c = Dropped <=> c \notin file.columns
        OBVIOUS
  <2>3. file.columns = Current
        BY <2>2 DEF Current
  <2> QED BY <2>1, <2>3 DEF ServesWhole
<1> QED BY <1>1, AccountsInvAlways, PTL

\* A cookie opens only the file it was made for, however many files there
\* were (NewSessionToken, sessionUser).
THEOREM CookiesFitTheirFile == AccountsSpec => []CookiesOfThisFile
<1>1. AccountsInv => CookiesOfThisFile
      BY DEF AccountsInv, CookieInv, CookiesOfThisFile, Accepted, GetUserByToken
<1> QED BY <1>1, AccountsInvAlways, PTL

\* Nothing but a login changes the token of a file (seedDefaults).
THEOREM OnlyLoginsEndSessions == AccountsSpec => TokenKept
<1> DEFINE Kept == user.token # 0 /\ user'.token # user.token /\ file'.no = file.no
                   => \E l \in Logins : login[l] /\ ~login'[l]
<1>1. AccountsInv /\ [AccountsNext]_accountsVars => Kept \/ UNCHANGED accountsVars
  <2> SUFFICES ASSUME AccountsInv, AccountsNext PROVE Kept
      OBVIOUS
  <2> USE DEF serverVars
  <2>1. CASE \E l \in Logins : SetToken(l)
        BY <2>1 DEF SetToken, AccountsInv, AccountsTypeOK
  <2>2. CASE SeedToken
        BY <2>2 DEF SeedToken, SetUserSessionToken, AccountsInv, AccountsTypeOK
  <2>3. CASE SeedUser
        BY <2>3 DEF SeedUser
  <2>4. CASE DeleteFile
        BY <2>4 DEF DeleteFile, AccountsInv, AccountsTypeOK
  <2>5. CASE Schema \/ Migrate \/ SeedGroup \/ Logout \/ Crash \/ Configure
        BY <2>5 DEF Schema, Migrate, SeedGroup, Logout, Crash, Configure
  <2>6. CASE \E l \in Logins : Verify(l)
        BY <2>6 DEF Verify
  <2>7. CASE \E s \in Servers : Remember(s) \/ StoreServer(s) \/ SavePassword(s)
        BY <2>7 DEF Remember, StoreServer, SavePassword, AddFrame
  <2> QED BY <2>1, <2>2, <2>3, <2>4, <2>5, <2>6, <2>7 DEF AccountsNext
<1>2. AccountsInv /\ [AccountsNext]_accountsVars => [Kept]_accountsVars
      BY <1>1
<1> QED BY <1>2, AccountsInvAlways, PTL DEF AccountsSpec, TokenKept

\* The password of every server that was stored without it is in memory, as
\* long as the process lives (handleAddServer).
THEOREM PasswordsAtHand == AccountsSpec => []DialHasPassword
<1>1. AccountsInv => DialHasPassword
      BY DEF AccountsInv, PasswordInv, DialHasPassword
<1> QED BY <1>1, AccountsInvAlways, PTL

-----------------------------------------------------------------------------
(* The three in one specification.                                         *)

\* Initially each of the three is in one of its initial states, and a step of
\* the store is a step of one of them and of no other (db.go: one file, and
\* tables that nothing else writes).
THEOREM StoreComposes == Spec => WorkspaceSpec /\ HistorySpec /\ AccountsSpec
<1>1. Init => WorkspaceInit /\ HistoryInit /\ AccountsInit
      BY DEF Init
<1>2. [Next]_vars => /\ [WorkspaceNext]_workspaceVars /\ [HistoryNext]_historyVars
                     /\ [AccountsNext]_accountsVars
      BY DEF Next, vars
<1> QED BY <1>1, <1>2, PTL DEF Spec, WorkspaceSpec, HistorySpec, AccountsSpec

\* What is proved of each of the three holds of the store as the runs check it.
THEOREM StoreCorrect ==
    Spec => /\ [](WorkspaceKept /\ RestoredWhole /\ NothingMissed)
            /\ [](ServesWhole /\ CookiesOfThisFile /\ DialHasPassword)
            /\ TokenKept
<1> QED BY StoreComposes, WorkspaceSurvives, RestoredPageWhole, NoRowMissed,
           ServesFromWholeFile, CookiesFitTheirFile, PasswordsAtHand, OnlyLoginsEndSessions, PTL
=============================================================================
