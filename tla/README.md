# Specifications of pg_htmx_admin

TLA+ models of the server side of pg_htmx_admin, a pgAdmin-like web application:
Go handlers that serve HTMX requests, PostgreSQL servers reached through pgx
pools, and a SQLite file for the application's own data. The models are checked
by TLC on small instances; the theorems are checked by TLAPS for all instances.

Contents: [components](#components) · [modules](#modules) · [TabSessions](#tabsessions) ·
[BackupJobs](#backupjobs) · [Listeners](#listeners) · [ServerPools](#serverpools) · [Store](#store) · [Forms](#forms) ·
[runs](#runs) · [fairness](#fairness) · [findings](#findings) · [proofs](#proofs) ·
[plan](#plan) · [not modelled](#not-modelled)

## Components

Every handler runs in its own goroutine, so any two of them may interleave, and a
client may open several connections and send any request at any time. Shared
state is in memory under a handful of mutexes; it is lost at a restart. SQLite
holds the user, the servers, the workspace and the history.

| Component (source in `src/internal/web`) | State it keeps | Operations | What is hard, and what must hold |
|---|---|---|---|
| **Tab sessions** `session.go` | `sessions`: tab → the connection pinned by its open transaction; `txNotes` (both under `sessMu`) | `acquireTabConn`, `finishFunc`, `takeSessions`/`endSessions`, janitor, `handleTxStatus`, `handleTxClose` | A connection must have one user; every open transaction must be known to somebody who ends it; the pool must keep a free connection. Five kinds of goroutine race for a session, and `sessMu` is released around every exchange with PostgreSQL. |
| **Server-side cursors** `cursor.go` | `cursors`: tab → connection and whether the cursor's transaction is the application's | `cursorFor`, `endCursor`, `declareCursor`, `fetchCursorPage`, `renderCursorPage` | Entries are compared with the pooled connection by pointer; a stale entry must not FETCH from, or COMMIT, another transaction. |
| **Script execution** `handlers.go` `multi.go` `views.go` | none of its own | `handleExecuteQuery`, `renderMulti`, splitting and paging | Order of cursor end, BEGIN, statements, finish; implicit transactions of multi-statement scripts. |
| **Pools and servers** `server_manager.go` | `pools`, `dbSpecificPools`, disconnected flags (memory under `mu`, and SQLite) | `getOrCreatePool`, `getOrCreateDbPool`, `probeServer`, `dropDatabasePool`, `dropServerPools`, disconnect, reconnect | `pool.Close` waits for connections with `mu` held; flags live in two stores; dials happen outside the lock. |
| **Stop button** `cancel.go` `explain.go` `export.go` | `runningQueries`: tab → backend pid and pool (`queryMu`) | register, unregister, `cancelQuery` | The pid may serve somebody else when the cancel arrives; three kinds of request share a tab's entry. |
| **LISTEN/NOTIFY** `listen.go` | listeners: connection, channels, subscribers, pending commands | `getListener`, `run`, `listen`, `unlisten`, subscribe, broadcast, `end`, janitor | One goroutine owns the connection and is woken by cancelling its wait; ending must happen once; the limit is tested before the dial. |
| **Backup jobs** `jobs.go` `backup.go` `storage.go` | job list, status, output; dump directory | `startJob`, `wait`, `requestCancel`, prune, run, upload, delete | A cancel races the exit of the process; a name is checked and reserved in different steps. |
| **Workspace** `workspace.go`, `static/js/workspace.js` | SQLite rows of the user's tabs; the page's own flags and timer | save (delete all, insert one by one), load, restore, edit | No SQL transaction: an error, a crash or a second save in between loses tabs. The page saves while it is still being filled. |
| **History** `history.go` `history_stream.go` | SQLite rows; subscribers with channels of one | record, notify, stream | Notifications coalesce; the last entry must still reach every stream. |
| **Notices** `notices.go` | per-backend sink | start, stop | The sink must be gone before the connection is someone else's. |
| **Login and start** `auth.go`, `internal/db` | the SQLite file with its version, the token in the user's row | open, migrate, seed, login, `sessionUser`, logout | Migration and seed are separate statements; one token per user; a file may be deleted between two starts. |
| **Import, export** `copy_data.go` | none | COPY through a pooled connection | Holds a connection while it asks for another lock. |
| **Alter panels** `ddl.go`, `ddl-panel.js` | the form in the browser, with the originals it was loaded with | load, edit, preview, run | The catalog changes under the form; statements are committed one by one and each names the object as the earlier ones left it. |
| **Privileges, Grant Wizard** `privileges.go` `grant_wizard.go` | the grid and its originals | load, edit, preview, run | The difference is applied to another list than the one it was made from. |
| **Script splitting** `ddl.go` `multi.go` | none | `splitStatements`, `scriptStatements` | Every quote and comment must begin and end where the server thinks it does. |
| **Create panels, properties, scripts** `ddl.go` `properties.go` `script.go` | none | create, read in several queries, rebuild the CREATE statement | A script stops half way; reads are torn or fail alone; what is lost in the rebuilt script. |
| **Other panels** `tree.go` `monitoring*.go` `activity.go` `maintenance.go` ... | none | catalog queries and rendering | - |
| **Browser client** `static/js` | DOM, `localStorage` | sends the requests | Order of its requests is not trusted by the models. |

Interactions: script execution takes its connection from tab sessions, which take
it from a pool; a run registers itself with the Stop button and installs a notice
sink on its connection; a disconnect first releases the sessions and the listeners
of the pools it is going to close, then closes them with `mu` held; backup jobs
and listeners use connections of their own. The hazards of all components, at their
lines, are in `PROJECT.json`.

## Modules

| Module | What it is |
|---|---|
| `TabSessions` | Sessions and cursors of the tabs, the runs that use them, and the dropping of a database's pool. |
| `MCTabSessions` | Its instances for TLC: which pool each connection slot belongs to, and symmetry. |
| `ConnLease` | What a pooled connection goes through: the abstract specification of `TabSessions`. |
| `TabSessionsProofs` | Type correctness, the exclusive use of connections, busy and dropped sessions, the state of a pinned session, the limit on them, cursors, and that it implements `ConnLease`. |
| `JobLife` | What a background job promises: the abstract specification of `BackupJobs`. |
| `BackupJobs` | Jobs, their processes, the job list, and the storage directory with uploads and deletions. |
| `MCBackupJobs` | Its instances for TLC. |
| `BackupJobsProofs` | Its safety properties, and that it implements `JobLife`. |
| `Listeners` | LISTEN/NOTIFY: the dedicated connections, their wait loops, commands, streams, and all that ends a listener. |
| `MCListeners` | Its instances for TLC. |
| `ServerPools` | The pools of a server and its databases, the disconnected flags, probes, imports and the Stop button. |
| `MCServerPools` | Its instances for TLC. |
| `Workspace`, `History`, `Accounts` | The workspace with its page; the history with panels and streams; the SQLite file, tokens and registered servers. |
| `Store`, `MCStore` | These three in one specification, and its instances. |
| `ListenersProofs`, `ServerPoolsProofs`, `StoreProofs` | The safety properties of these, but for the two of `ServerPools` that are about deadlock. |
| `AlterForms`, `PrivForms`, `SplitScript`, `Definitions` | The Alter panels; privileges and Grant Wizard; the splitter; Create panels and SQL tabs. |
| `Forms`, `MCForms` | These four in one specification, and its instance. |
| `AlterFormsProofs` | The safety and action properties of `AlterForms`. |
| `FormsProofs` | Those of `PrivForms` and `Definitions`, and all of them, with those of `AlterForms` and `SplitScript`, for `Forms`. |
| `SplitScriptProofs` | Lemmas about sequences, `FlattenSeq` and `SetToSeq`, which the scripts of all forms are built with, and the proofs about `SplitScript`. |

`TabSessions`, `BackupJobs` and `Listeners` share no variable: jobs and listeners use
connections of their own. Where they meet, at the disconnect of a database, each module has
the disconnect as one of its actors. `ServerPools` and `TabSessions` both have pools: the
first knows which pools there are and when requests look them up, the second knows one
database's connections and who holds them between requests.

## TabSessions

**State and its counterpart in the code.**

| Variable | Code |
|---|---|
| `sessions[t]` | `sessions` of `session.go`: connection, reported state, age of `lastUsed`, `busy`. A null record stands for no entry. |
| `cursors[t]` | `cursors` of `cursor.go`. An entry whose connection was released names `Stale`: the `*pgxpool.Conn` it points to is dead and equals no later one. |
| `txNotes[t]` | whether a note is waiting; its text is left out. |
| `backend[c]` | what PostgreSQL and pgx know of the connection: `TxStatus` or closed, whether `pgh_cur` is open, and (history, read by properties only) whether `declareCursor` began the transaction. |
| `free` | the idle connections of the pools. |
| `pools[p]` | absent, open, or being closed with `mu` held. |
| `run[r]` | a goroutine serving a request: where it is, its tab, pool, connection, `reuse` (it runs on the tab's pinned session), and `owns` of the cursor entry it looked up. |
| `task[e]` | the janitor, a tab-close request or a disconnect: the sessions it took out of the map and has still to end. |

Time is an age in three steps: fresh, past `cursorIdleTimeout`, past `txIdleTimeout`.

**Steps.** `acquireTabConn` is `RejectBusy` (409), `ReusePinned`, `RefuseTx` (429),
`EnterPool`, then `TakeConn` (with the BEGIN of a run without auto-commit) or
`AcquireFails`. The run then looks its cursor up (`LookupCursor`), closes it
(`EndCursor`), executes its statements (`Statement`) or asks for a page
(`PageLookup`, `MayDeclare`/`RefuseDeclare`, `DeclareCursor`/`DeclareFails`,
`FetchPage`). Each way ends in `Finish`: `PinConn` keeps the connection for the
tab, `DropConn` rolls back, and `Release` returns it. `Take` is `takeSessions`, used by
`JanitorTick`, `TxClose` and `DropPool`; `EndSession` and `ForgetEnded` are the two
halves of an iteration of `endSessions`, between which `sessMu` is not held;
`BeginClose` and `PoolClosed` are `pool.Close` under `mu`.

**Granularity.** A step is one critical section under `sessMu`, or one operation on
the pool, together with this goroutine's exchanges with its backend next to it.
That is as fine as it needs to be: the backend of a held connection is touched by
its holder only (this is what `ConnExclusive` shows), so such an exchange commutes
with every step of the other goroutines. `pinnedCountLocked` reads a
connection's pool from its slot, as the code reads it from the session.

**Abstractions.** The statements of a script are any change to the transaction
that PostgreSQL allows (`ScriptAnswers`), including losing the connection. A
script cannot open a cursor named `pgh_cur` of its own. Acquiring may fail at any
time, which covers timeouts, abandoned requests and a failed BEGIN. The number of
connection slots is the pool's `MaxConns`; a replaced connection takes the slot
of its predecessor. Requests without a tab stand for every other handler that
takes a connection, uses it and gives it back. The branch of `renderCursorPage` that
declares the cursor again after SQLSTATE 34000 is left out, because
`FetchFindsCursor` shows that it is never taken.

**Bounds.** There is no counter to cap: ages stop at `MaxAge`, everything else is
finite by the constants.

A failed DECLARE rolls its BEGIN back, or leaves an aborted transaction behind (`DeclareFailures`): the ROLLBACK has the
context of the request (`cursor.go:98`), and is not sent when that is done.

**Abstract specification.** `ConnLease` has one variable, who has each connection and for which tab: the pool, a
request that took it from there, the tab (pinned and idle), a request that uses a pinned one again, the same after
its session was removed, a task that ends the session, or nobody. `LeaseKept` maps `free`, `run`, `sessions` and
`task` to it (`LeaseOf`). It says how a connection may pass from one to the next: a pinned one is
used again for its own tab only, one whose session was removed meanwhile only goes back to the pool, and it is lost
only when another request of its tab pins over it (the finding of `orphan`).

## BackupJobs

| Variable | Code |
|---|---|
| `order` | `jobsOrder`, and with it `jobsByID`, which has the same jobs |
| `at[j]` | where `handleBackupRun`, `startJob` and later the goroutine of `wait` are with the job |
| `status[j]` | `job.status` |
| `live[j]` | the job's context: neither cancelled nor past `backupTimeout` |
| `proc[j]` | the process of the client tool: starting, its output open, or how it exited |
| `out[w]` | `job.Out`, or the path of an upload |
| `files[n]` | the storage directory: whose output the file holds |
| `upload[u]` | where `handleStorageUpload` is |

**Steps.** `CheckName` is the test of the name (a dump's must be free, the file of a restore
must exist), `StartProcess`/`StartFails` and `Register` are `startJob`, the last with its
pruning. `SetOutcome` and `RemoveOutput` are `wait`, `RequestCancel` is the cancel request and
`Expire` the deadline. `Open` and `Exit` are what the tool does: it truncates an existing
file. `CreateUpload`, `EndCopy`, `RemoveUpload` are an upload, `DeleteFile` a deletion.

**Abstractions.** A file is known by its writers, so that a mixture of two outputs and the
removal of somebody else's file can be told. A directory dump is treated like a file. Not
modelled: argument lists, messages and the output tail, downloads, symlinks,
and a restart of the server, which forgets the jobs. After a job has exited, its
process writes no more; that a killed process exits is an assumption of `LiveSpec`.

**Abstract specification.** `JobLife` has two variables: whether a job has begun or how it
ended, and whose output is stored. A job ends once, and what does not end well
leaves nothing. `KeepsPromise` maps the steps `idle`, `checked` to "none", `over` to the
status, the others to "active".

## Listeners

| Variable | Code |
|---|---|
| `reg[t]` | `listeners` |
| `tabOf[l]`, `channels[l]`, `closed[l]`, `done[l]` | the fields of the listener of these names |
| `conn[l]`, `heard[l]` | the dedicated connection, and what its backend listens to |
| `recent[l]` | `lastSeen` is within `listenIdleTimeout` |
| `cut[l]` | `cancelWait` was called for the wait in progress |
| `pc[p]`, `lis[p]` | where a goroutine is, and its listener: a request, the janitor, a tab close, a disconnect, or `run` |
| `cmd[c]` | the statement a request runs |
| `todo[e]` | the slice `doomed` of `closeListeners` and of the janitor |
| `stream[s]` | a request to `handleListenStream`; `subs` of a listener are its open streams |

**Steps.** A LISTEN goes `Look`, `Dial`, `Register` (`getListener`), `Ask` (announce and cut
the wait, `lockCmd`), `Exec` (the statement, under `cmdMu`), `Track` (the channel set). An
UNLISTEN enters at `Look`, leaves at once without a listener, and goes on with `end` if it
finds the set empty. `end` is `Mark`, `Unregister`, `AskClose`, `Close`, for whoever
calls it. The loop is `Top`, `StartWait`, then `Waited`, `Notified` or `WaitFails`.

**Abstractions.** A command takes, uses and gives back `cmdMu` in one step; between
`Ask` and that step it is pending. The loop holds `cmdMu` over several steps. A request
that finds it pending gives it back at once, so `Top` is only seen to take it.
Payloads and the subscribers' buffers are left out: a slow stream loses events by
design. All listeners belong to one database. `conn` is "broken" from the moment it
is lost or closed by pgx because the context of a statement ended. A request may
start while its pool is open, and may then outlive the disconnect up to `pool.Close`.

## ServerPools

| Variable | Code |
|---|---|
| `pool[k]` | `dbPools[Srv]` and `dbSpecificPools[k]`: absent, cached, or out of the map and being closed |
| `mu` | the request that holds `mu` across the closing of pools; shorter sections are one step |
| `mem[k]`, `disk[k]` | `disconnectedServers`/`disconnectedDatabases`, and the column or row in SQLite |
| `entry[t]` | `runningQueries`: the connection whose pid is registered for the tab |
| `req[r]` | a goroutine in a handler: which, where, its database, the connections it holds, whether its pool is open, what Stop read |
| `settled[k]` | history: no overlap or failed write since the flag changed |

**Steps.** `Start…` are the handlers. `Look`, `Dial`, `Store` are `getOrCreatePool` and
`getOrCreateDbPool`, with the dial outside the lock; `Peek` and `Ping` the reconnect's probe of the
cached pool; `WriteDisk`, `WriteMem` the two halves of a flag; `Lock`, `BeginClose`, `Closed`,
`Unlock`, `ClearDisk` are `dropDatabasePool` and `dropServerPools`. `Acquire`, `Finish` and `Release`
are a run with its entry, `Check`, `Copied`, `Renders` and `Acquire2` the import and the dialog it
renders, also when it was refused, `Find` and `Cancel` the Stop button.
`Restart` ends the process at any point and reads the flags again.

**Properties.** `FlagsAgree`: memory and disk differ only while a flag is being written, or after two
writers overlapped or one failed, which the code does not repair.
`EntryNamesRun`: an entry is never left behind on a connection given back. `SomebodyMoves`: but for
an import that holds a connection while it waits, the requests cannot block each other for ever:
`SomebodyReady`, some request under way has what it waits for, and such a request has a step to take.

## Store

What the program keeps in SQLite. `Store` plays one of three scenes, chosen at the start; they
share no state, so the states to check are the sum of theirs.

*Workspace.* `stored` is the rows, `page` the browser page (the steps of `restoreWorkspace`, what it shows,
the panels still to come, the tabs opened on it, the save timer), `save[s]` the requests under way, statement by
statement. Answers and saves overtake each other; any statement fails, and a failed save is not
repeated. `wanted` is the workspace as the user made it. `WorkspaceKept` and `RestoredWhole` say that
SQLite and a restored page agree with it once the last save has gone through. What the code cannot repair
is excluded by name: `mishap` (a load failed, or met a save that was not complete, or a page was left before a new tab
had its panel) and `early` (a page was left before it was restored). A new tab is there, and blank, before its panel
and its text are (`OpenTab`, `Fill`; the panel may never come): until then, `Awaited`, it may be saved blank.
Closing a tab schedules no save (`CloseTab`), so that SQLite has the tab until the next change or until the page is left
(`missed`).

*History.* A run inserts its row and signals the streams of its connection through channels of one. The panel asks for
a list when it is opened, at every event and on the way back from an entry, each time of the connection selected by then
(`LoadList`); its stream stays with the connection of the last `Watch`. Answers are displayed in any order, lists and
entries over each other (`Display`). `owed[p]` are the rows signalled to the panel's streams, but for those a later answer
wiped off the screen. `NothingMissed`: each of the connection listed is on the screen, or announced by a full channel or an
event, or in a list under way, however they coalesce.

*Accounts.* `up` is the step of `Open`: the schema, seven migrations, three seeds, then serving. The
process ends between any two statements; while it is down the file may be deleted and the credentials
changed. The file may be one of any earlier version; a new one is given all columns at once, where the code leaves
`scratch_text` to `migrate`, which the files of earlier versions show. `ServesWhole`, `CookiesOfThisFile`, `TokenKept`;
`DialHasPassword` is about `handleAddServer`, whose password goes to memory, then (with the row
already there) to a column.

**Bounds.** `MaxEdits` user actions (three allow: open, type, close or a second tab, with refreshes
between), two saves, two tabs; two runs, two streams, two lists, two databases of history, one panel; two SQLite
files, five tokens, two logins, one server. The runs of `store` carry the constraint `Promised`: `mishap` and `early` stay
set, and the two properties they guard promise nothing in such states and their successors.

## Forms

The panels that write SQL. `Forms` plays one of four scenes.

*AlterForms.* A panel is loaded in two reads (`DdlDropdowns`, `Prefill`), edited, and previewed: every
edit posts the form and the answer replaces the editor's text. The requests of the form's own fields, for the columns of a
referenced table and for rows of new columns, share the slot of the previews (`hx-sync` on the form): `Fetch` aborts the
preview under way, and `behind` says so until another is asked for. `BuildAlter…` are the builders: the
list of statements they make of a form. They run one at a time, each committed, beside one change of another session.
The object has a name, a schema, attributes, and, by its kind, columns or memberships. A value
says whose it is ("old", "new", "theirs"). `EditorInStep`: once nothing is due, the editor shows the SQL of
the form on the screen, unless the form has an error or it is `behind`. `UntouchedKept`: what the user did not touch is not changed, within what
the code can know. `AsAsked`: a script nothing interfered with makes the object the form, and
the server refuses it only where a table moves or is renamed before its columns, or column names collide.

*PrivForms.* A cell is 0, granted, or granted with the option, by the owner, with whose rights scripts run; `passed` is
what grantees passed on to others, without the option. `PrivDiff` is the editor's difference, `BuildGrantWizard`
the wizard's statements, with CASCADE if ticked. The server refuses to take a grant option away that others depend on, but
for CASCADE, which takes theirs, too (`Allowed`, `PassedAfter`). `ListIsAsAsked`: a script that ran alone leaves the
owner's grants as the form asks, and is refused for a named reason only. `CellsLeftAlone`: no statement changes a
cell nobody changed or chose, but what CASCADE takes from those the chosen passed it on to.

*SplitScript.* The loop of `splitStatements` over texts put together of the pieces that matter, four at most
(16105 sequences): a semicolon after an opening quote, its closing, and something behind it fit into four. The
reference definition (`Lexemes`, `Stretches`) is how PostgreSQL reads the text. Excluded by `Odd`: comments
in comments and names with `$$`, where the code differs.

*Definitions.* An object of one of 25 sorts, made by a Create panel or there before; the panel that reads
it in up to five queries between which others alter or drop it, and each of which may fail; the script. The fields
of an object are those that a form sets or a panel names, and "options" for all others (storage parameters, settings, security barriers).
They are default, given in the form, or put there by others; the names of objects, and their privileges, are no fields. `CreatedAsSaid`: a Create script that
stopped half way has made the object without its owner, and otherwise as the form says.
`SqlRebuilds`: the script of the SQL tab, run where the object is not, makes an object every field of which the
object had while it was read, but for the losses of `Omitted` and of its conclusion, which also says what the server refuses.
It bounds what is lost; it does not say that the script is right, which the findings deny.

**Bounds.** Two columns, two roles, three edits, mishaps and runs together (`MaxChanges`); three kinds of
object, three privileges, two grantees and three steps (`MaxPrivSteps`); two changes of others or
failures (`MaxMeddling`), and Create forms that say, or leave out, one field at most beside what the kind requires (`MaxSaid`). A form that renames, changes and drops needs one row of two columns; the smallest
race needs one edit, one run and one change.

## Runs

| Run | Instance | Shows |
|---|---|---|
| `tabs` | 2 tabs, 2 requests, 2 connections, janitor | `PinnedWithinLimit`, `ConnExclusive`, `BusyHasRun`, `SessionInTx`, `FetchFindsCursor`, `CommitsOnlyOwnTx` |
| `dropping` | 1 tab, 1 request, 1 connection, janitor, tab close, disconnect; fair | `LeaseKept`, `DropReturns`, `AbandonedTabReleased` |
| `jobs` | 2 jobs, a list of 1, 1 upload, 2 names; fair | `RunningListed`, `StatusTellsExit`, `NoPartialLeft`, `KeepsPromise`, `JobEnds` |
| `listeners` | 1 tab, 2 requests, 2 listeners, tab close | `OneEnder`, `NoLeak` |
| `listen_live` | 1 listener, a request, a stream, disconnect, janitor; fair | `EndedCloses`, `CommandsRun`, `AbandonedEnds`, `StreamsTold` |
| `pools` | 2 requests of any kind, 1 server, 1 database, pools of 2, 1 tab | `FlagsAgree`, `EntryNamesRun`, `SomebodyMoves` |
| `store` | see [Store](#store) | `WorkspaceKept`, `RestoredWhole`, `NothingMissed`, `ServesWhole`, `CookiesOfThisFile`, `DialHasPassword`, `TokenKept` |
| `forms` | see [Forms](#forms) | `TypeOK`, `EditorInStep`, `AsAsked`, `UntouchedKept`, `ListIsAsAsked`, `CellsLeftAlone`, `SplitAsServer`, `CreatedAsSaid`, `SqlRebuilds` |
| `orphan`, `names`, `import`, `workspace` | see [findings](#findings) | a comment the code does not keep |

Why these bounds are enough to be interesting. With two requests of one tab, both can be past the look
at the map before either is pinned, which is where the races between `acquireTabConn` and `finish`
are; the second request of a tab is also the one that finds a session busy. Two tabs share the
limit, which is 1 of 2. Overwriting a session needs a limit of two, hence the three connections of `orphan`.
`dropping` has one request, because an orphaned transaction makes `pool.Close` wait for ever. Several pools,
and a tab that moves between them, are covered by the theorems only.

A list of one with two jobs is pruned with a running job at its head and without; two
jobs and an upload on two names meet under one name and apart. Losing the race in
`getListener` takes two requests and two listeners. A listener is used once, so that the
number of LISTENs that dial is bounded by the listeners, and those after find no
connection (`Dial` fails). `listen_live` does not check deadlock, because once the
database is disconnected nothing starts; neither do `store` and `forms`, whose users stop at the bounds.

In `pools`, two requests are two disconnects, a disconnect and a dial, an import and a disconnect, a
query and a Stop; a pool of two lets an import and a query of one database hold a connection each. `import` has pools of one.

Requests, tabs, connections (without liveness), saves and jobs are symmetric: no action names one.

Each property is also checked against a mutant: the module has, before the
operator it changes, `Name_Slip`, the operator as a plausible slip would have it
(the session is not unregistered, the limit is not tested again, only grants are compared,
...), and TLC then finds the property violated.

## Fairness

`LiveSpec` of `TabSessions` adds to `Spec`:

* weak fairness of the janitor's steps: its goroutine loops over a ticker and each
  of its statements has a timeout of 5 s;
* weak fairness of the steps of a started request: handlers have no unbounded wait
  other than for the pool, and a client that goes away cancels the request's
  context, which `AcquireFails` and `Lost` model. No fairness for starting requests;
* weak fairness of time (`Grow`) and of the steps of a disconnect or a tab close, strong fairness
  only of taking `mu` (`BeginClose`): a Go mutex in starvation mode is handed to
  its oldest waiter, so a goroutine that asks for it again and again gets it.

`LiveSpec` of `BackupJobs` has goroutines run and killed processes exit; a process that is
not killed may hang. No timer is assumed to fire: `JobEnds` is about jobs
cancelled or past their deadline. `LiveSpec` of `Listeners` has the
goroutines, the clock and the janitor's ticker go on. Two strong fairness
assumptions stand for chance: the loop does not find a command pending at every look, and
a lost connection, on which the wait fails at once, is not cut short before it every
time. With two requests that never leave a gap the first does not hold, and
a lost connection may go unnoticed (`EndedCloses` fails); the run therefore has one. `ServerPools`, `Store` and `Forms` need none: they
have safety properties only, and `SomebodyMoves` says with ENABLED what liveness would need; its first half, `SomebodyReady`, is proved.

## Findings

Each is a run that TLC must find violated.

* `orphan`: two runs of one tab end in a transaction at the same time; `finishFunc`
  stores its session over the other's (`session.go:154`), and the first
  connection stays in its transaction, known to no map. The janitor never finds it.
* `import`: the import dialog is rendered before the deferred `conn.Release`
  (`copy_data.go:320`); it asks for `mu`, which a disconnect holds in `pool.Close` until that
  connection comes back. Both wait for ever, and every handler that needs `mu` with them.
* `workspace`: `pagehide` saves as soon as a restore has begun (`workspace.js:144`). A page left
  before its tabs are filled stores them with blank texts.
* `names`: two dumps of one name pass the existence test before either tool creates the
  file; the one that fails removes the other's output.

Seen without a run, in the traces of these models:

* `endSessions` deletes `cursors[id]` after it has released the connection (`session.go:200`); a
  run that declared a new cursor meanwhile loses its entry, and the tab's next statement
  executes in the cursor's transaction (`StatementOutsideAppTx`).
* A run in flight pins its connection after `releaseSessions`, and `pool.Close` waits for the
  janitor with `mu` held (`ClosingPoolHasNoSession`). `DropReturns` shows that the wait ends.
* Stop reads a pid and cancels it later; by then the connection may execute another tab's query
  (`cancel.go:55`, `StopHitsOwnRun`).

* The limit on pinned connections counts sessions, not runs that have passed the test
  (`session.go:113`): three runs without auto-commit can hold all three connections of a
  pool in transactions. `listen.go:90` tests its limit before the dial only, too.
* `handleTxClose` does not unregister a session whose query is running, contrary to the
  comment in `finishFunc` (`session.go:144`).
* Pruning returns at the first running job and keeps finished ones after it beyond the
  limit (`jobs.go:118`).
* A LISTEN between the emptiness test of `unlisten` and `end` succeeds and is lost
  (`listen.go:263`).
* LISTEN and UNLISTEN of one channel may update the channel set in the other order than
  the backend (`listen.go:244`).
* The janitor ends a listener a browser has subscribed to after it was chosen
  (`listen.go:308`).
* A LISTEN in flight registers its listener after `closeListeners`, and it survives the
  disconnect (`server_manager.go:266`).
* The panel of the history asks for its list and opens its stream at once: a row recorded between the
  reading of the list and the subscription is not shown until the next one (`history_stream.go:22`).
* Its stream stays with the connection it was opened for when a node of the tree is selected, or the form of a new tab
  arrives (`monitoring.js:351`, `tabs.js:804`), while the next list is of the new one: rows of that are not signalled, contrary
  to the comment "Reconnects if the connection changes while open" (`tabs.js:629`). Answers that come out of order put an
  older list, or one of another connection, over a newer one (`tabs.js:689`).
* Closing a tab stops the click before it reaches the tab bar and schedules no save (`tabs.js:874`): the tab comes
  back unless something else changes or `pagehide` gets its save through.
* A new tab is saved blank by any save while its panel is under way, and stays blank if that fails (`tabs.js:801`).
* A request that dials while the server is being disconnected stores its pool afterwards (`server_manager.go:153`); so does
  the dialog of an import that was refused because the server is disconnected (`copy_data.go:309`), and nothing closes
  such a pool until the next disconnect.
* Two writers of one disconnected flag that overlap, or a write that fails half way, leave memory and SQLite different until a
  restart (`server_manager.go:187`); a process that ends between a server's row and its password forgets the password
  (`server_manager.go:483`).
* A tab's failed restore counts as a restore, and the next save stores what is left
  (`workspace.js:111`).
* `handleServerDatabases` looks a pool up twice; a disconnect in between leaves a nil pool to ping
  (`handlers.go:585`).
* A Create Role script is always, and a Create Database script with two options is, refused: the options
  are joined with commas (`ddl.go:403`). The panels of sequences and views offer an owner no builder uses.
* `buildAlterTableForm` moves and renames the table first and then names it as before; the later
  statements fail, contrary to the comment on `joinStatements` (`ddl.go:1440`).
* The dropdown of roles and the memberships are read apart: a role that appeared in between is shown
  unticked, and an unedited Alter Role revokes it.
* An expiry is shown to the minute, a trigger for replicas as enabled; an unedited script rewrites both.
* "+ Add column", or the answer to "Remove column" when it fails, aborts a preview under way and nothing asks for it again
  (`ddl_alter_panel.html:12`, `:230`): the editor keeps the SQL of an earlier form until the next edit. The select of a
  referenced table has its request and a preview in one slot, too; a browser sends the preview second, so that
  the columns never come. The model lets either come first.
* A builder that reports an error leaves the SQL of the earlier form in the editor. A script that stopped half way
  leaves the originals as they were, and a second run repeats what was done.
* The CREATE TABLE of the SQL tab says ARRAY or USER-DEFINED for such columns, drops precisions and
  generated expressions, unique constraints (`script.go:379`) and the schema of a collation (`script.go:309`), does not
  quote reserved words (`script.go:333`), and of a table with capitals has no
  columns at all: the key query finds its table by an unquoted name. Enumerations, composites
  and domains whose second query failed get a script without their labels, attributes or checks;
  the options of a wrapper are written without quotes. A CREATE DATABASE names encoding and locale but not
  `TEMPLATE template0`, and is refused where they are not template1's (`properties.go:1001`). The SQL tab of a table
  differs from its CREATE script when a read failed, contrary to the comment "always matches" (`properties.go:163`). The rest
  of what no script says is `Omitted`.
* The wizard treats a grantee typed with quotes as another one than the same without; two grantors of one
  privilege show as one, and a cell held from another grantee cannot be revoked by the grid: the server takes away
  nothing, and the reloaded grid shows it again. With CASCADE the wizard takes privileges from grantees nobody chose.
* `splitStatements` differs from the server in nested comments, in names that contain `$$`, and in
  `E'...\'...'` strings.

## Proofs

TLAPS proves the following for every value of the constants that satisfies the
module's assumption. These assumptions are all there is to trust beside the prover:
`ConstantsAssumption` of `TabSessions` (slots belong to pools, the null values are
apart, tabs and slots are finite, the tasks are distinct); a list limit of at least one in
`BackupJobs`; finite sets of columns, of roles (one at least) and of grantees, and kinds of objects that
`privKinds` knows, in the forms (`AlterAssumption`, `PrivAssumption`); at least one connection in a pool (`ServerAssumption`; pgxpool
has no pool without); a number of pieces in the splitter (`SplitAssumption`); distinct null values and bounds that are numbers
in the others.

| Module | Theorem | Property |
|---|---|---|
| `TabSessionsProofs` | `TypeCorrect` | `TypeOK` |
| | `ConnectionsExclusive` | `ConnExclusive` |
| | `BusySessionHasRun` | `BusyHasRun` |
| | `DroppedSessionGone` | `DroppedStaysDropped` |
| | `SessionsInTx` | `SessionInTx` |
| | `PinnedLimit` | `PinnedWithinLimit` |
| | `FetchesFindCursor` | `FetchFindsCursor` |
| | `CommitsOwnTx` | `CommitsOnlyOwnTx` |
| | `ImplementsConnLease` | `LeaseKept` |
| `BackupJobsProofs` | `TypeCorrect` | `TypeOK` |
| | `RunningJobsListed` | `RunningListed` |
| | `StatusIsExit` | `StatusTellsExit` |
| | `NothingLeft` | `NoPartialLeft` |
| | `EndsAreFinal` | `EndIsFinal` |
| | `ImplementsJobLife` | `KeepsPromise` |
| `ListenersProofs` | `TypeCorrect` | `TypeOK` |
| | `EndedOnce` | `OneEnder` |
| | `NoConnectionForgotten` | `NoLeak` |
| `ServerPoolsProofs` | `TypeCorrect` | `TypeOK` |
| | `EntriesNameRuns` | `EntryNamesRun` |
| | `FlagsTogether` | `FlagsAgree` |
| | `NoCircle` | `SomebodyReady`, the part of `SomebodyMoves` without ENABLED |
| `StoreProofs` | `WorkspaceTypeCorrect` | `WorkspaceTypeOK` |
| | `WorkspaceSurvives` | `WorkspaceKept` |
| | `RestoredPageWhole` | `RestoredWhole` |
| | `HistoryTypeCorrect` | `HistoryTypeOK` |
| | `NoRowMissed` | `NothingMissed` |
| | `AccountsTypeCorrect` | `AccountsTypeOK` |
| | `ServesFromWholeFile` | `ServesWhole` |
| | `CookiesFitTheirFile` | `CookiesOfThisFile` |
| | `OnlyLoginsEndSessions` | `TokenKept` |
| | `PasswordsAtHand` | `DialHasPassword` |
| | `StoreComposes`, `StoreCorrect` | `Store` behaves as each of the three, and has all seven properties |
| `AlterFormsProofs` | `AlterTypeCorrect` | `AlterTypeOK` |
| | `EditorInStepAlways` | `EditorInStep` |
| | `UntouchedKeptAlways` | `UntouchedKept` |
| | `AsAskedAlways` | `AsAsked` |
| `SplitScriptProofs` | `SplitTypeCorrect` | `SplitTypeOK` |
| | `SplitAsServerAlways` | `SplitAsServer` |
| `FormsProofs` | `PrivTypeCorrect` | `PrivTypeOK` |
| | `PrivListCorrect` | `ListIsAsAsked` |
| | `PrivCellsCorrect` | `CellsLeftAlone` |
| | `DefinitionTypeCorrect`, `DefinitionInvariant` | `DefinitionTypeOK`, `DInv` |
| | `CreatedAsSaidAlways` | `CreatedAsSaid` |
| | `SqlRebuildsAlways` | `SqlRebuilds` |
| | `FormsTypeCorrect` | `TypeOK` of `Forms` |
| | `FormsComposes`, `FormsCorrect` | `Forms` behaves as each of the four, and has all the properties above |

The theorems of `Workspace`, `History`, `Accounts`, `AlterForms`, `PrivForms`, `Definitions` and `SplitScript` are about
their own specifications, of which `Store` and `Forms` play one; `StoreComposes` and `FormsComposes` carry them over.

*Types.* `TypeOK` is not inductive: that a run which finishes has a tab and a
connection depends on where it is. `RunShape` adds that.

*Exclusive use.* `ConnExclusive` is not inductive. When a run releases its
connection, the connection must be in nobody's session, yet a run and a
(busy) session do share one while the run executes. `Holders` makes the sharing
precise: a connection shared by a session and a run is that of a busy session of
the run's own tab which the run reuses and has not begun to release (`TabOrRun`);
runs, sessions and lists of tasks do not otherwise meet (`OneRun`, `OneTab`,
`OneTask`, `TabOrTask`, `RunOrTask`, `FreeUnheld`). `TaskShape` says that a task
that closes a pool has no session left to end. Most actions change no holder and are covered by one
lemma, `SameHolders`; the eight hand-overs have a lemma each. `XInv`, the
conjunction, was also checked by TLC on the instance `tabs`.

*Leases.* `LeaseOf` chooses among the holders of a connection; with `Holders` there is one at most, so that it becomes a
fact about each (`LeaseFacts`, lemma `LeasesKnown`). `UntouchedKeeps` says that a connection keeps its lease when its
holder stays, and what is left is the lease of the connection a step moves, one lemma per hand-over. The instance of
the run `dropping` is too small for a connection to get lost; the theorem is for all.

*Pinned sessions.* `StepKeeps`: only `PinConn` creates a session or makes one
idle. With exclusive use this gives that a dropped session is not pinned again and
that the reported state is that of the backend, which nobody else touches
(`BackendKept`). For the limit, a run that is not on a pinned session must know the pool
its connection belongs to (`PoolKnown`): a pool cannot be replaced under it, because
closing waits for the connection.

*Cursors.* `CInv` relates a tab's entry to the connection it names: the connection is not in its pool, and only a
request or session of that tab has it (`EntryHeld`); until a request is about to release it, its transaction
has the cursor unless it is aborted, and was begun by the application if the entry says so (`EntryBackend`);
and a request past the look at its entry either is its owner or knows that it has none (`CursorOf`). The step that
could break this, a release by a task before it deletes the entry, leaves an entry of a dead connection. TLC checked
`CInv` on the instance `tabs` first.

*Jobs.* One inductive invariant, `IInv`, serves all of `BackupJobs`: `Flows` ties the place
of a job to its process, its context and its status (a job is over only after its process
has exited), `OrderInv` says that the list holds each job once, that all of
them are registered, and that a job still running is in it, and `FilesInv` that a file holds
output only of writers that were given its name and have opened it. TLC checked it as an invariant first. The
refinement follows: `SetOutcome` of a job without output and `RemoveOutput` map to the end
of the abstract job, everything else to its begin, a write, a deletion or a stutter.

*Listeners.* `OneEnder` and `NoLeak` need `Places` (each kind of goroutine keeps to its code, and has a
listener in hand wherever it needs one), `ClosedFirst` (`done` is closed, and the connection asked for, only
after `closed` is set), `OwnListener` (a request registers the listener it dialed, for its own tab) and `Dialed`.
Which of several ends proceeds is decided in one step, `Mark`; all others leave it alone.

*Pools.* `FlagInv` is the heart: a flag that is settled has at most one writer, and between the
writer's two steps the store written first already holds the new value. `Places` says which flag an operation is about.
`EntryNamesRun` is inductive beside them; most
steps touch no flag and no entry, and are covered by one lemma each time.

That requests never wait in a circle (`NoCircle`) takes an invariant of its own, `Turns`: `mu` is held over several steps
by the one request that closes pools, which never waits for it again; a pool it waits for is in no map; and the
steps at which a request has a connection are those of `HoldingSteps`. Who holds a connection then
waits for nothing, unless it is an import dialog (`HolderGoesOn`), so the closing of a pool ends, and with it the wait for `mu` and, as a
pool has a connection at least, that for a connection.

*Workspace.* The invariant says how far a save that runs alone has come, row by row (`Written`,
`AloneInv`); that the newest request carries what the user made, unless a change still waits for
the timer, and that SQLite holds it once this request has ended alone and no request that started is under way
(`SaveInv`); and what a page that loads has read and still has to show (`ViewInv`). A load that counts
as good met no save, and so read what the last good save left. TLC checked it first.

*History.* What is owed to a panel is a row (`OwedInv`), so that a list of its connection that is read has it, and
only a subscribed stream is signalled (`StreamInv`); then each step that uses up a full channel, an event or a list
leaves the next link of the chain behind it, or the panel lists another connection.

*Accounts.* `Opened` says what the file has at each step of `Open`; `CookieInv` that tokens are used once and a
cookie whose token is the user's was made for this file; `PasswordInv` that a registration past its first step is
in memory, and that a row without a password belongs to a server that memory still has.

*Alter panels.* `AInv` has four parts. `Shape`: every form about, be it in the panel, on its way to a preview,
in the script tab or under a run, was rendered by some load and differs from it only where it was touched
(`Snapshot`, `Told`), and what is left of a run consists of statements its form is made into. `InStep` is `EditorInStep`
with the answer that is still on its way. `Unaltered`: as long as nothing but its own script altered the object since
the load `quiet`, the object has the untouched attributes as they were loaded and, before the script starts, its
place and columns. `Progress`: such a script is at one of three stages, before the move, between move and rename, or after
both, with the object at the place the rest of the script names (`Staged`), and all the form says is done or
still to come (`AllDone`); for a column this needs that no statement follows the one that renames or drops it (`Sorted`).
What each of the sixteen kinds of forms is made into is a lemma of its own. `UntouchedKept` follows from `Shape`
alone: a statement names only what was touched, no matter what other sessions did. TLC checked `AInv` on the
run's instance before the proof.

*Privileges.* `PInv` says which statements a script is made of and, while nobody else grants, that each cell is as the
form asks, or held from another grantee, or as it was loaded with a statement before it that changes it (`RowsLeft`,
`NewLeft`, `WizardWork`).
The row of a new grantee comes last, and may name one whose row is in the grid: its statements take each cell to the
higher of the two, so that they need the rows to be done first (`GridWork`). A statement done twice changes
nothing (`DiffMeans`, `GroupLevel`), which is why the order of the wizard's groups does not matter.

*Create panels and SQL tabs.* `DInv` has three parts. `DShape`: what is left of a Create script is the script of its
form, its tail or nothing. `Making`: unless others meddled, the object is what the statements that ran make of the form.
`Reading`: every field of every section that was read is a value the object had since the panel was opened (`had` records
them), and the only field the script branches on before the last read, whether a publication is of all tables, was seen as
it was. What the sixteen builders make of a form is a lemma each (`CreateTable`, ...), in terms of `Wanted`; so is what
each of the scripts of the SQL tab says (`FaithfulRole`, `RebuildsTable`, ...). A script says the last thing it says of a
field (`MakesSaid`). Nothing bounds what others change, nor how often: the theorem holds for any `MaxMeddling`, where the
run has two. TLC checked `DInv` first. The proof found what TLC had not: the CASE that chooses a script had two guards that
both held for a view whose definition could not be read. TLC takes the first and never looks at the second; the module
now says which comes first, as the code does.

*Splitter.* `SplitTypeOK` (the position stays within the text and one past it, a dollar quote has a tag) needs that the tag
found is a part of the text (`TagThere`) and that an opening or closing word is matched within it (`BeginsWith`); both for
texts of any length.

`SplitAsServer` compares two readings of a text: that of the loop, one character or opening word at a time, and that of
the server, lexeme by lexeme (`Lexemes`). `ReadsAsServer` is the invariant that relates them. `Boundaries` are the positions where
lexemes begin; the loop is at one of them, within a name, or within a lexeme which ends where the loop will find what closes the mode it is in
(`Place`). No step goes past a boundary with a semicolon at it (`Advances`; `NormalMoves`, `InsideMoves`), and a semicolon met in
normal mode is a lexeme, because a name has none (`NameIs`). What the loop has cut is what the server's cuts make of the text so far
(`Cutting`), one stretch more at each (`CutOne`, `CutLast`). A dollar sign that follows a name opens nothing for
either: this is the test of `Opens` the mutant drops. Apart from the loop, `StripLeavesNothing` shows that stripping line comments leaves
nothing of a statement just when its lexemes are line comments and blanks. `Lexemes` and the stripping are recursive
functions; they are unfolded with sets of positions (`Onward`, `NextLine`) and `NatSetInduction`.

*Sequences.* The scripts are built with `FlattenSeq` and `SetToSeq` of the community modules, whose definitions
recurse over the length of a sequence. `NatSetInduction`, induction for a set of numbers, comes from the
well-foundedness of `<` without a theorem that takes an operator, and gives what is needed of both for sequences of any length.

*Only model-checked.* Liveness (`AbandonedTabReleased`, `DropReturns`, `JobEnds`, and those of
`listen_live`), and that a request which has what it waits for has a step to take, the second half of `SomebodyMoves`: it
is said with ENABLED. Both are outside TLAPS' reach.

## Plan

Done, in this order: `TabSessions` with `ConnLease`, `BackupJobs` with `JobLife`, `Listeners`, `ServerPools`, `Workspace`,
`History`, `Accounts`, `AlterForms`, `PrivForms`, `SplitScript`, `Definitions`.

Left:

1. Several databases in `Listeners`, so that a disconnect spares the listeners of another one.
2. The paging arithmetic of `renderCursorPage`; the Drop panels.

## Not modelled

Rendering, and the SQL text beyond which statements it has and what they change; the trees, the
monitoring panels, maintenance and the explain plan, which are stateless queries; notices, whose sink belongs to
the holder of a connection; scripts saved to disk; the templates for SELECT, INSERT, UPDATE and DELETE. The
browser client beyond the workspace, the history panel and the previews is any order of requests. PostgreSQL, pgx
and SQLite are modelled only by how the code uses them.
