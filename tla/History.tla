------------------------------ MODULE History ------------------------------
(***************************************************************************)
(* The query history: history.go, the hub and the streams of               *)
(* history_stream.go, and the history panel of static/js/tabs.js.          *)
(*                                                                         *)
(* A run that ended inserts a row and then signals the streams subscribed  *)
(* to its connection, each through a channel of one.  The panel asks for   *)
(* the list of the connection selected then: when it is opened, with every *)
(* switch of tabs, at every event of its stream and on the way back from   *)
(* an entry.  The stream stays with the connection it was opened for.      *)
(* Requests, answers and events travel on their own and overtake each      *)
(* other, and the pane shows what came last.                               *)
(*                                                                         *)
(* Only the latest 50 rows of a connection are listed: the model has fewer *)
(* runs than that.                                                         *)
(*                                                                         *)
(* An operator Name_Slip is Name with the slip a change of the code could  *)
(* bring; each property is checked to be violated by one of them.          *)
(***************************************************************************)
EXTENDS Naturals

CONSTANTS
    Runs,       \* query runs that end
    DBs,        \* connections, "server:database"
    Panels,     \* history panels, one per browser page
    Streams,    \* EventSources, each with its handleHistoryStream
    Fetches,    \* bound: requests of the panels under way
    NoPanel, NoDB

ASSUME HistoryAssumption == NoPanel \notin Panels /\ NoDB \notin DBs

VARIABLES
    run,        \* runs being recorded
    rows,       \* query_history
    panel,      \* the panels
    stream,     \* the streams, at both ends
    fetch,      \* requests for a list or an entry
    owed        \* panel -> rows signalled to its streams, but for those lost
                \*          with a broken stream, with a request that failed, or
                \*          to an older answer that came after a newer one
                \*          (history)

historyVars == <<run, rows, panel, stream, fetch, owed>>
-----------------------------------------------------------------------------
RunOf    == [at: {"runs", "insert", "notify", "over"}, db: DBs \cup {NoDB}]
\* detail: historyDetailOpen; listed: the connection a list was last asked for;
\* pane, list: what is on the screen.
PanelOf  == [open: BOOLEAN, detail: BOOLEAN, listed: DBs \cup {NoDB}, pane: {"list", "detail"},
             list: SUBSET Runs]
Closed   == [open |-> FALSE, detail |-> FALSE, listed |-> NoDB, pane |-> "list", list |-> {}]
\* asked, on: the browser has it open; pending: the channel is full; events:
\* written and not handled.
StreamOf == [at: {"off", "asked", "on", "closed"}, panel: Panels \cup {NoPanel},
             db: DBs \cup {NoDB}, pending: BOOLEAN, events: Nat]
Off      == [at |-> "off", panel |-> NoPanel, db |-> NoDB,
             pending |-> FALSE, events |-> 0]
\* asked, read: a list; detail: an entry.
FetchOf  == [at: {"off", "asked", "read", "detail"}, panel: Panels \cup {NoPanel},
             db: DBs \cup {NoDB}, rows: SUBSET Runs]
NoFetch  == [at |-> "off", panel |-> NoPanel, db |-> NoDB, rows |-> {}]

HistoryTypeOK ==
    /\ run \in [Runs -> RunOf] /\ rows \in SUBSET Runs
    /\ panel \in [Panels -> PanelOf]
    /\ stream \in [Streams -> StreamOf]
    /\ fetch \in [Fetches -> FetchOf]
    /\ owed \in [Panels -> SUBSET Runs]

HistoryInit ==
    /\ run = [r \in Runs |-> [at |-> "runs", db |-> NoDB]] /\ rows = {}
    /\ panel = [p \in Panels |-> Closed]
    /\ stream = [s \in Streams |-> Off]
    /\ fetch = [f \in Fetches |-> NoFetch]
    /\ owed = [p \in Panels |-> {}]
-----------------------------------------------------------------------------
(* recordQueryHistory and notify *)

RecordQueryHistory(r) == rows \cup {r}
ListQueryHistory(d)   == {r \in rows : run[r].db = d}

Ends(r) ==
    /\ run[r].at = "runs"
    /\ \E d \in DBs : run' = [run EXCEPT ![r] = [at |-> "insert", db |-> d]]
    /\ UNCHANGED <<rows, panel, stream, fetch, owed>>

\* The context is detached from the request: only SQLite can fail, which is
\* logged and signals nobody.
Record(r) ==
    /\ run[r].at = "insert"
    /\ \/ rows' = RecordQueryHistory(r) /\ run' = [run EXCEPT ![r].at = "notify"]
       \/ UNCHANGED rows /\ run' = [run EXCEPT ![r] = [at |-> "over", db |-> NoDB]]
    /\ UNCHANGED <<panel, stream, fetch, owed>>

Subscribed(d) == {s \in Streams : stream[s].at = "on" /\ stream[s].db = d}

Signal(r, next) ==
    LET told == Subscribed(run[r].db) IN
    /\ stream' = [s \in Streams |-> IF s \in told THEN [stream[s] EXCEPT !.pending = TRUE]
                                    ELSE stream[s]]
    /\ owed' = [p \in Panels |-> IF \E s \in told : stream[s].panel = p
                                 THEN owed[p] \cup {r} ELSE owed[p]]
    /\ run' = [run EXCEPT ![r].at = next]

Notify_First(r) ==
    \/ /\ run[r].at = "insert"
       /\ Signal(r, "notify") /\ UNCHANGED <<rows, panel, fetch>>
    \/ /\ run[r].at = "notify"
       /\ rows' = rows \cup {r} /\ run' = [run EXCEPT ![r].at = "over"]
       /\ UNCHANGED <<panel, stream, fetch, owed>>

\* A subscriber that has not taken its last signal needs no other.
Notify(r) ==
    /\ run[r].at = "notify"
    /\ Signal(r, "over")
    /\ UNCHANGED <<rows, panel, fetch>>
-----------------------------------------------------------------------------
(* The panel: toggleHistoryPanel, switchTab, loadQueryHistory *)

Unwatched(p) == [s \in Streams |-> IF stream[s].panel = p
                                   THEN [Off EXCEPT !.at = "closed"] ELSE stream[s]]

Ask(f, p, at, d) ==
    fetch' = [fetch EXCEPT ![f] = [NoFetch EXCEPT !.at = at, !.panel = p, !.db = d]]

\* loadQueryHistory: d is the connection currentHistoryConnection finds now: any,
\* for the form of the tab that is shown and the node of the tree that is
\* selected change it without a word to the panel.  "Loading..." takes the place
\* of what the pane showed; without a connection nothing is asked for.
LoadList(f, p, d) ==
    /\ fetch[f].at = "off"
    /\ IF d = NoDB THEN UNCHANGED fetch ELSE Ask(f, p, "asked", d)
    /\ panel' = [panel EXCEPT ![p].open = TRUE, ![p].detail = FALSE,
                              ![p].listed = d, ![p].pane = "list", ![p].list = {}]

\* Opening the panel, or another tab while it is open: a list is asked for
\* and the stream of the tab's connection takes the place of the old one.
Watch(p, d, s, f) ==
    /\ stream[s].at = "off"
    /\ LoadList(f, p, d)
    /\ stream' = IF d = NoDB THEN Unwatched(p)
                 ELSE [Unwatched(p) EXCEPT ![s] = [Off EXCEPT !.at = "asked", !.panel = p,
                                                              !.db = d]]
    /\ UNCHANGED <<run, rows, owed>>

\* What the hidden pane holds is of no account: opening it loads a list.
ClosePanel(p) ==
    /\ panel[p].open
    /\ panel' = [panel EXCEPT ![p] = Closed]
    /\ stream' = Unwatched(p)
    /\ owed' = [owed EXCEPT ![p] = {}]
    /\ UNCHANGED <<run, rows, fetch>>

\* useHistoryItem
Detail(p, f) ==
    /\ panel[p].open /\ panel[p].list # {} /\ fetch[f].at = "off"
    /\ panel' = [panel EXCEPT ![p].detail = TRUE]
    /\ Ask(f, p, "detail", NoDB)
    /\ UNCHANGED <<run, rows, stream, owed>>

\* historyBack
Back(p, d, f) ==
    /\ panel[p].open /\ panel[p].pane = "detail"
    /\ LoadList(f, p, d)
    /\ UNCHANGED <<run, rows, stream, owed>>

\* handleQueryHistory
ReadList(f) ==
    /\ fetch[f].at = "asked"
    /\ fetch' = [fetch EXCEPT ![f].at = "read", ![f].db = NoDB,
                               ![f].rows = ListQueryHistory(fetch[f].db)]
    /\ UNCHANGED <<run, rows, panel, stream, owed>>

\* Answers are shown as they come, whatever was asked for since.
Display(f, pane, list, lost) ==
    LET p == fetch[f].panel IN
    /\ panel' = IF panel[p].open THEN [panel EXCEPT ![p].pane = pane, ![p].list = list]
                ELSE panel
    /\ owed' = [owed EXCEPT ![p] = IF panel[p].detail THEN @ ELSE @ \ lost]
    /\ fetch' = [fetch EXCEPT ![f] = NoFetch]
    /\ UNCHANGED <<run, rows, stream>>

Answer(f) ==
    LET was == panel[fetch[f].panel].list IN
    \/ fetch[f].at = "read" /\ Display(f, "list", fetch[f].rows, was \ fetch[f].rows)
    \/ fetch[f].at = "detail" /\ Display(f, "detail", {}, was)

FetchFails(f) == fetch[f].at # "off" /\ Display(f, "list", {}, owed[fetch[f].panel])
-----------------------------------------------------------------------------
(* The stream: handleHistoryStream and the EventSource *)

Subscribe(s) ==
    /\ stream[s].at = "asked"
    /\ stream' = [stream EXCEPT ![s].at = "on", ![s].pending = FALSE]
    /\ UNCHANGED <<run, rows, panel, fetch, owed>>

Write(s) ==
    /\ stream[s].at = "on" /\ stream[s].pending
    /\ stream' = [stream EXCEPT ![s].pending = FALSE,
                                ![s].events = @ + 1]
    /\ UNCHANGED <<run, rows, panel, fetch, owed>>

\* An open detail view is left untouched: the event is dropped.  The list asked
\* for is that of the connection selected now, which may not be the stream's.
Event(s, d, f) ==
    LET p == stream[s].panel IN
    /\ stream[s].events > 0
    /\ stream' = [stream EXCEPT ![s].events = @ - 1]
    /\ IF panel[p].detail THEN UNCHANGED <<panel, fetch>> ELSE LoadList(f, p, d)
    /\ UNCHANGED <<run, rows, owed>>

\* ctx.Done: the deferred unsubscribe; what is signalled until then reaches
\* nobody.
Unsubscribe(s) ==
    /\ stream[s].at = "closed"
    /\ stream' = [stream EXCEPT ![s] = Off]
    /\ UNCHANGED <<run, rows, panel, fetch, owed>>

\* A broken stream is opened again by the browser; what was signalled or
\* written and not delivered is lost with it.
Reconnect(s) ==
    /\ stream[s].at = "on"
    /\ stream' = [stream EXCEPT ![s].at = "asked", ![s].pending = FALSE, ![s].events = 0]
    /\ owed' = [owed EXCEPT ![stream[s].panel] =
                    IF stream[s].pending \/ stream[s].events > 0
                    THEN @ \cap panel[stream[s].panel].list ELSE @]
    /\ UNCHANGED <<run, rows, panel, fetch>>
-----------------------------------------------------------------------------
HistoryNext ==
    \/ \E r \in Runs : Ends(r) \/ Record(r) \/ Notify(r)
    \/ \E p \in Panels : ClosePanel(p) \/ \E f \in Fetches : Detail(p, f)
    \/ \E p \in Panels, d \in DBs \cup {NoDB}, f \in Fetches :
           Back(p, d, f) \/ \E s \in Streams : Watch(p, d, s, f)
    \/ \E f \in Fetches : ReadList(f) \/ Answer(f) \/ FetchFails(f)
    \/ \E s \in Streams : Subscribe(s) \/ Write(s) \/ Unsubscribe(s) \/ Reconnect(s)
    \/ \E s \in Streams, d \in DBs \cup {NoDB}, f \in Fetches : Event(s, d, f)

HistorySpec == HistoryInit /\ [][HistoryNext]_historyVars
-----------------------------------------------------------------------------
(* Properties *)

\* While a panel shows no entry, a row of the connection listed that was
\* signalled to the panel's stream is on the screen, or a signal, an event or a
\* request of that connection that will bring it is still on its way, however
\* signals coalesce (notify: "subscriber is already pending an update; skip"),
\* whatever is selected meanwhile and in whichever order lists are read.
Coming(p, r) ==
    \/ r \in panel[p].list
    \/ \E s \in Streams : /\ stream[s].panel = p
                          /\ stream[s].pending \/ stream[s].events > 0
    \/ \E f \in Fetches : /\ fetch[f].panel = p
                          /\ \/ fetch[f].at = "asked" /\ fetch[f].db = run[r].db
                             \/ fetch[f].at = "read" /\ r \in fetch[f].rows
NothingMissed == \A p \in Panels : panel[p].open /\ ~panel[p].detail =>
    \A r \in owed[p] : run[r].db = panel[p].listed => Coming(p, r)
=============================================================================
