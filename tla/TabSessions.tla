---------------------------- MODULE TabSessions ----------------------------
(***************************************************************************)
(* Per-tab transactions of the query tool: internal/web/session.go with    *)
(* the cursor map of cursor.go, the run of a script (handleExecuteQuery)   *)
(* and the dropping of a pool (dropDatabasePool).                          *)
(*                                                                         *)
(* A step is a critical section under sessMu, or an operation on a pool,   *)
(* with the exchanges of this goroutine with its backend next to it: they  *)
(* touch only a connection no other goroutine uses, so they commute with   *)
(* every step of the others.  Between two steps another handler may run.   *)
(*                                                                         *)
(* A *tabSession lives exactly as long as one acquisition of its           *)
(* connection, so the pointer comparison cur == sess of the code is the    *)
(* comparison of the two connections.  Likewise a *pgxpool.Conn is a fresh *)
(* pointer at each Acquire: releasing a connection turns the cursor        *)
(* entries that name it into entries of no live connection (Stale).        *)
(*                                                                         *)
(* Name_Slip is Name as a plausible slip would have it; each property is  *)
(* checked to be violated by one of them.                                  *)
(***************************************************************************)
EXTENDS Integers, FiniteSets

CONSTANTS
    Tabs,       \* script tabs (the tab_id of a request)
    Runs,       \* goroutines serving requests that use a pooled connection
    Conns,      \* connection slots of all pools
    Pools,      \* one per database
    PoolOf,     \* the pool each slot belongs to
    Janitor,    \* the goroutine of startSessionJanitor
    Closers,    \* goroutines serving POST /api/tx/close
    Droppers,   \* goroutines disconnecting a database
    None,       \* no tab, no connection, no pool
    Stale       \* a released *pgxpool.Conn, a closed *pgxpool.Pool

ASSUME ConstantsAssumption ==
    /\ PoolOf \in [Conns -> Pools]
    /\ None \notin Tabs \cup Conns \cup Pools
    /\ Stale \notin Conns \cup Pools
    /\ IsFiniteSet(Tabs) /\ IsFiniteSet(Conns)
    /\ Janitor \notin Closers \cup Droppers
    /\ Closers \cap Droppers = {}

VARIABLES
    sessions,   \* tab -> pinned session           (sessions, under sessMu)
    cursors,    \* tab -> open cursor              (cursors, under sessMu)
    txNotes,    \* tab -> a note waits for it      (txNotes, under sessMu)
    backend,    \* connection -> its PostgreSQL session
    free,       \* connections idle in their pool
    pools,      \* pool -> "absent" | "open" | "closing"
    run,        \* goroutine -> its request
    task        \* goroutine -> the sessions it is ending

vars == <<sessions, cursors, txNotes, backend, free, pools, run, task>>
-----------------------------------------------------------------------------
(* Types *)

\* PgConn.TxStatus, or the connection is closed.
TxStatus == {"idle", "active", "aborted", "closed"}
InTx == {"active", "aborted"}

\* cursor: pgh_cur is open there; app: the transaction was begun by
\* declareCursor, not by the user (history, no code reads it).
Backend == [tx: TxStatus, cursor: BOOLEAN, app: BOOLEAN]
Fresh   == [tx |-> "idle", cursor |-> FALSE, app |-> FALSE]

\* age: 0 recently used, 1 past cursorIdleTimeout, 2 past txIdleTimeout.
MaxAge == 2
Session   == [conn: Conns \cup {None}, state: InTx, age: 0..MaxAge, busy: BOOLEAN]
NoSession == [conn |-> None, state |-> "active", age |-> 0, busy |-> FALSE]

CursorEntry == [conn: Conns \cup {None, Stale}, owns: BOOLEAN]
NoCursor    == [conn |-> None, owns |-> FALSE]
DeadCursor  == [conn |-> Stale, owns |-> FALSE]

\* Steps of a request up to its response, in order of the code.
RunSteps == {"idle", "acquire", "wait", "lookup", "endCursor", "statement",
             "page", "declare", "open", "fetch", "finish", "release"}
Run   == [at: RunSteps, tab: Tabs \cup {None}, pool: Pools \cup {None, Stale},
          auto: BOOLEAN, conn: Conns \cup {None}, reuse: BOOLEAN, owns: BOOLEAN]
NoRun == [at |-> "idle", tab |-> None, pool |-> None, auto |-> TRUE,
          conn |-> None, reuse |-> FALSE, owns |-> FALSE]

\* cur: the tab whose connection was just released and whose cursor entry
\* is still to be deleted.
Tasks  == {Janitor} \cup Closers \cup Droppers
TaskSteps == {"idle", "ending", "closing"}
Task   == [at: TaskSteps, todo: SUBSET (Tabs \X Conns), cur: Tabs \cup {None},
           tab: Tabs \cup {None}, pool: Pools \cup {None}]
NoTask == [at |-> "idle", todo |-> {}, cur |-> None, tab |-> None, pool |-> None]

TypeOK ==
    /\ sessions \in [Tabs -> Session]
    /\ cursors \in [Tabs -> CursorEntry]
    /\ txNotes \in [Tabs -> BOOLEAN]
    /\ backend \in [Conns -> Backend]
    /\ free \in SUBSET Conns
    /\ pools \in [Pools -> {"absent", "open", "closing"}]
    /\ run \in [Runs -> Run]
    /\ task \in [Tasks -> Task]

Init ==
    /\ sessions = [t \in Tabs |-> NoSession]
    /\ cursors = [t \in Tabs |-> NoCursor]
    /\ txNotes = [t \in Tabs |-> FALSE]
    /\ backend = [c \in Conns |-> Fresh]
    /\ free = Conns
    /\ pools = [p \in Pools |-> "absent"]
    /\ run = [r \in Runs |-> NoRun]
    /\ task = [e \in Tasks |-> NoTask]
-----------------------------------------------------------------------------
(* Helpers *)

Pinned(t) == sessions[t].conn # None

\* pinnedCountLocked and maxPinned.
PinnedTabs(p) == {t \in Tabs : Pinned(t) /\ PoolOf[sessions[t].conn] = p}
ConnsOf(p)    == {c \in Conns : PoolOf[c] = p}
MaxPinned(p)  == LET n == Cardinality(ConnsOf(p)) - 1 IN IF n > 1 THEN n ELSE 1
Full(p)       == Cardinality(PinnedTabs(p)) >= MaxPinned(p)

\* The server-wide mutex mu is held while a pool is closing, so no request
\* gets past getOrCreateDbPool and no other pool starts to close.
MuFree == \A p \in Pools : pools[p] # "closing"

\* Conn.Release: the slot is idle again (or replaced by a fresh connection
\* when it was closed or still in a transaction) and every *Conn naming it is
\* dead.
ReleaseConn(c) ==
    /\ free' = free \cup {c}
    /\ backend' = [backend EXCEPT ![c] = Fresh]
    /\ cursors' = [t \in Tabs |->
                     IF cursors[t].conn = c THEN DeadCursor ELSE cursors[t]]

Goto(r, step) == run' = [run EXCEPT ![r].at = step]

\* Exchanges of run r with the backend b of its connection.  A failure inside
\* a transaction aborts it; a lost connection or an ended request context
\* leaves the connection closed.  An abort counts as closing the cursor: only
\* ROLLBACK TO a savepoint leaves it, and every savepoint is older than the
\* cursor, because the run that sets one closes the cursor first.
Lost(b)   == [tx |-> "closed", cursor |-> FALSE, app |-> FALSE]
Failed(b) == IF b.tx = "active" THEN [b EXCEPT !.tx = "aborted", !.cursor = FALSE] ELSE b
Sent(b, answers) == IF b.tx = "closed" THEN {b} ELSE answers \cup {Lost(b)}

\* Whatever the statements of a script do to the transaction.
ScriptAnswers(b) ==
    Sent(b, {x \in Backend :
               /\ x.cursor => b.cursor /\ b.tx = "active" /\ x.tx = "active"
               /\ x.app => b.app /\ x.tx \in InTx})

\* CLOSE pgh_cur, and COMMIT if declareCursor began the transaction.
EndAnswers(b, owns) ==
    Sent(b, {IF owns THEN Fresh
             ELSE IF b.cursor THEN [b EXCEPT !.cursor = FALSE] ELSE Failed(b)})

\* MOVE and FETCH.
FetchAnswers(b) == Sent(b, {Failed(b)} \cup IF b.cursor THEN {b} ELSE {})

\* BEGIN if idle, then DECLARE pgh_cur; a second cursor of that name is refused.
Declared(b)       == [tx |-> "active", cursor |-> TRUE, app |-> b.app \/ b.tx = "idle"]
CanDeclare(b)     == b.tx = "idle" \/ (b.tx = "active" /\ ~b.cursor)
\* A failed DECLARE; the ROLLBACK of its BEGIN is not sent once the request is gone.
DeclareFailures(b) ==
    Sent(b, {Failed(b)} \cup IF b.tx = "idle"
                             THEN {[tx |-> "aborted", cursor |-> FALSE, app |-> TRUE]} ELSE {})

-----------------------------------------------------------------------------
(* acquireTabConn *)

OpenPool(p) ==
    /\ MuFree /\ pools[p] = "absent"
    /\ pools' = [pools EXCEPT ![p] = "open"]
    /\ UNCHANGED <<sessions, cursors, txNotes, backend, free, run, task>>

\* A request has parsed its form and found its pool (getOrCreateDbPool).
\* A request without a tab is a query of another handler: it takes a
\* connection of the pool and returns it.
StartRun(r) ==
    /\ run[r].at = "idle" /\ MuFree
    /\ \E t \in Tabs \cup {None}, p \in Pools, auto \in BOOLEAN :
         /\ pools[p] = "open"
         /\ t = None => auto
         /\ run' = [run EXCEPT ![r] =
              [at |-> "acquire", tab |-> t, pool |-> p, auto |-> auto,
               conn |-> None, reuse |-> FALSE, owns |-> FALSE]]
    /\ UNCHANGED <<sessions, cursors, txNotes, backend, free, pools, task>>

AtAcquire(r, pinned) ==
    /\ run[r].at = "acquire"
    /\ pinned <=> run[r].tab # None /\ Pinned(run[r].tab)

\* 409, a query is already running in this tab.
RejectBusy(r) ==
    /\ AtAcquire(r, TRUE) /\ sessions[run[r].tab].busy
    /\ run' = [run EXCEPT ![r] = NoRun]
    /\ UNCHANGED <<sessions, cursors, txNotes, backend, free, pools, task>>

ReusePinned_NotBusy(r) ==
    /\ AtAcquire(r, TRUE) /\ ~sessions[run[r].tab].busy
    /\ run' = [run EXCEPT ![r] = [@ EXCEPT !.at = "lookup", !.reuse = TRUE, !.auto = TRUE,
                                           !.conn = sessions[run[r].tab].conn]]
    /\ UNCHANGED <<sessions, cursors, txNotes, backend, free, pools, task>>

\* The age of a busy session is not read until finish renews it.
ReusePinned(r) ==
    /\ AtAcquire(r, TRUE) /\ ~sessions[run[r].tab].busy
    /\ sessions' = [sessions EXCEPT ![run[r].tab] = [@ EXCEPT !.busy = TRUE, !.age = 0]]
    /\ run' = [run EXCEPT ![r] = [@ EXCEPT !.at = "lookup", !.reuse = TRUE, !.auto = TRUE,
                                           !.conn = sessions[run[r].tab].conn]]
    /\ UNCHANGED <<cursors, txNotes, backend, free, pools, task>>

\* 429, too many open transactions.
RefuseTx(r) ==
    /\ AtAcquire(r, FALSE) /\ ~run[r].auto /\ Full(run[r].pool)
    /\ run' = [run EXCEPT ![r] = NoRun]
    /\ UNCHANGED <<sessions, cursors, txNotes, backend, free, pools, task>>

EnterPool(r) ==
    /\ AtAcquire(r, FALSE) /\ (run[r].auto \/ ~Full(run[r].pool))
    /\ run' = [run EXCEPT ![r].at = "wait"]
    /\ UNCHANGED <<sessions, cursors, txNotes, backend, free, pools, task>>

\* pool.Acquire returns a connection; without auto-commit BEGIN follows.  A
\* request without a tab then runs its query and has only to release.
TakeConn(r) ==
    /\ run[r].at = "wait" /\ run[r].pool \in Pools /\ pools[run[r].pool] = "open"
    /\ \E c \in free \cap ConnsOf(run[r].pool) :
         /\ free' = free \ {c}
         /\ backend' = IF run[r].auto THEN backend
                       ELSE [backend EXCEPT ![c].tx = "active"]
         /\ run' = [run EXCEPT ![r] =
              [@ EXCEPT !.at = IF run[r].tab = None THEN "release" ELSE "lookup",
                        !.conn = c, !.auto = TRUE]]
    /\ UNCHANGED <<sessions, cursors, txNotes, pools, task>>

\* pool.Acquire fails (the pool closed, the request was abandoned), or BEGIN
\* does and the connection goes straight back.
AcquireFails(r) ==
    /\ run[r].at = "wait"
    /\ run' = [run EXCEPT ![r] = NoRun]
    /\ UNCHANGED <<sessions, cursors, txNotes, backend, free, pools, task>>
-----------------------------------------------------------------------------
(* finishFunc *)

Registered(r) == run[r].reuse /\ sessions[run[r].tab].conn = run[r].conn

\* b is the state the run leaves its backend in: the transaction is open and
\* still the tab's.
OpenTx_Unregistered(r, b) == b.tx \in InTx
OpenTx(r, b)  == b.tx \in InTx /\ (run[r].reuse => Registered(r))
OverLimit_NotRechecked(r) == FALSE
OverLimit(r) == ~run[r].reuse /\ Full(run[r].pool)

PinConn_KeepsState(r, b) ==
    /\ OpenTx(r, b) /\ ~OverLimit(r)
    /\ sessions' = [sessions EXCEPT ![run[r].tab] =
                      [conn |-> run[r].conn, state |-> IF run[r].reuse THEN @.state ELSE b.tx,
                       age |-> 0, busy |-> FALSE]]
    /\ backend' = [backend EXCEPT ![run[r].conn] = b]
    /\ run' = [run EXCEPT ![r] = NoRun]
    /\ UNCHANGED <<cursors, txNotes, free, pools, task>>

PinConn(r, b) ==
    /\ OpenTx(r, b) /\ ~OverLimit(r)
    /\ sessions' = [sessions EXCEPT ![run[r].tab] =
                      [conn |-> run[r].conn, state |-> b.tx, age |-> 0, busy |-> FALSE]]
    /\ backend' = [backend EXCEPT ![run[r].conn] = b]
    /\ run' = [run EXCEPT ![r] = NoRun]
    /\ UNCHANGED <<cursors, txNotes, free, pools, task>>

DropConn_KeepsSession(r, b) ==
    /\ ~OpenTx(r, b) \/ OverLimit(r)
    /\ txNotes' = IF OpenTx(r, b) THEN [txNotes EXCEPT ![run[r].tab] = TRUE] ELSE txNotes
    /\ backend' = [backend EXCEPT ![run[r].conn] = Fresh]
    /\ run' = [run EXCEPT ![r].at = "release"]
    /\ UNCHANGED <<sessions, cursors, free, pools, task>>

\* ROLLBACK follows if the transaction is open.
DropConn(r, b) ==
    /\ ~OpenTx(r, b) \/ OverLimit(r)
    /\ sessions' = IF Registered(r) THEN [sessions EXCEPT ![run[r].tab] = NoSession]
                                    ELSE sessions
    /\ txNotes' = IF OpenTx(r, b) THEN [txNotes EXCEPT ![run[r].tab] = TRUE] ELSE txNotes
    /\ backend' = [backend EXCEPT ![run[r].conn] = Fresh]
    /\ run' = [run EXCEPT ![r].at = "release"]
    /\ UNCHANGED <<cursors, free, pools, task>>

Finish(r, b) == PinConn(r, b) \/ DropConn(r, b)

Release(r) ==
    /\ run[r].at = "release"
    /\ ReleaseConn(run[r].conn)
    /\ run' = [run EXCEPT ![r] = NoRun]
    /\ UNCHANGED <<sessions, txNotes, pools, task>>
-----------------------------------------------------------------------------
(* handleExecuteQuery and the cursor of cursor.go *)

\* cursorFor: the tab's entry names the connection of this run; any other
\* entry is dropped.
HasCursor_AnyConn(r) == cursors[run[r].tab] # NoCursor
HasCursor(r) == cursors[run[r].tab].conn = run[r].conn
CursorFor(r) ==
    cursors' = IF HasCursor(r) THEN cursors
               ELSE [cursors EXCEPT ![run[r].tab] = NoCursor]

\* What a run asks for (a page of the open cursor's query, a new cursor, or
\* anything else) is chosen where it is first told apart.
LookupCursor(r) ==
    /\ run[r].at = "lookup"
    /\ CursorFor(r)
    /\ \E next \in {"page", IF HasCursor(r) THEN "endCursor" ELSE "statement"} :
         run' = [run EXCEPT ![r] =
           [@ EXCEPT !.at = next,
                     !.owns = IF next = "endCursor" THEN cursors[run[r].tab].owns ELSE FALSE]]
    /\ UNCHANGED <<sessions, txNotes, backend, free, pools, task>>

\* endCursor: CLOSE, perhaps COMMIT, then the entry is deleted if it is still
\* the one that was looked up.
EndCursor(r) ==
    LET c == run[r].conn
    IN  /\ run[r].at = "endCursor"
        /\ \E b \in EndAnswers(backend[c], run[r].owns) :
             backend' = [backend EXCEPT ![c] = b]
        /\ cursors' = IF cursors[run[r].tab] = [conn |-> c, owns |-> run[r].owns]
                      THEN [cursors EXCEPT ![run[r].tab] = NoCursor] ELSE cursors
        /\ \E next \in {"statement", "page"} :
             run' = [run EXCEPT ![r] = [@ EXCEPT !.at = next, !.owns = FALSE]]
        /\ UNCHANGED <<sessions, txNotes, free, pools, task>>

\* The statements of the script, in any of the ways they are executed, then
\* the deferred finish.
Statement(r) ==
    /\ run[r].at = "statement"
    /\ \E b \in ScriptAnswers(backend[run[r].conn]) : Finish(r, b)

\* renderCursorPage looks the cursor up again.  Its answer to SQLSTATE 34000
\* is left out: by FetchFindsCursor no FETCH gets that answer.
PageLookup(r) ==
    /\ run[r].at = "page"
    /\ CursorFor(r)
    /\ run' = [run EXCEPT ![r].at = IF HasCursor(r) THEN "fetch" ELSE "declare"]
    /\ UNCHANGED <<sessions, txNotes, backend, free, pools, task>>

\* declareCursor: 429 when it would open a transaction too many.
TxTooMany(r) == backend[run[r].conn].tx = "idle" /\ Full(run[r].pool)

MayDeclare(r) ==
    /\ run[r].at = "declare" /\ ~TxTooMany(r)
    /\ run' = [run EXCEPT ![r].at = "open"]
    /\ UNCHANGED <<sessions, cursors, txNotes, backend, free, pools, task>>

RefuseDeclare(r) ==
    /\ run[r].at = "declare" /\ TxTooMany(r)
    /\ run' = [run EXCEPT ![r].at = "finish"]
    /\ UNCHANGED <<sessions, cursors, txNotes, backend, free, pools, task>>

FinishRefused(r) == run[r].at = "finish" /\ Finish(r, backend[run[r].conn])

DeclareCursor_AlwaysOwns(r) ==
    LET c == run[r].conn
    IN  /\ run[r].at = "open" /\ CanDeclare(backend[c])
        /\ backend' = [backend EXCEPT ![c] = Declared(backend[c])]
        /\ cursors' = [cursors EXCEPT ![run[r].tab] = [conn |-> c, owns |-> TRUE]]
        /\ run' = [run EXCEPT ![r].at = "fetch"]
        /\ UNCHANGED <<sessions, txNotes, free, pools, task>>

DeclareCursor(r) ==
    LET c == run[r].conn
    IN  /\ run[r].at = "open" /\ CanDeclare(backend[c])
        /\ backend' = [backend EXCEPT ![c] = Declared(backend[c])]
        /\ cursors' = [cursors EXCEPT ![run[r].tab] =
                         [conn |-> c, owns |-> backend[c].tx = "idle"]]
        /\ run' = [run EXCEPT ![r].at = "fetch"]
        /\ UNCHANGED <<sessions, txNotes, free, pools, task>>

DeclareFails(r) ==
    /\ run[r].at = "open"
    /\ \E b \in DeclareFailures(backend[run[r].conn]) : Finish(r, b)

FetchPage(r) ==
    /\ run[r].at = "fetch"
    /\ \E b \in FetchAnswers(backend[run[r].conn]) : Finish(r, b)
-----------------------------------------------------------------------------
(* takeSessions and endSessions *)

\* Goroutine e takes the idle sessions among the tabs S; the busy ones are
\* only unregistered, and only if dropBusy.
Take(e, S, dropBusy, t, p) ==
    LET found == {x \in S : Pinned(x)}
        idle  == {x \in found : ~sessions[x].busy}
        gone  == IF dropBusy THEN found ELSE idle
    IN  /\ task[e].at = "idle"
        /\ sessions' = [x \in Tabs |-> IF x \in gone THEN NoSession ELSE sessions[x]]
        /\ task' = [task EXCEPT ![e] =
                      [at |-> "ending", todo |-> {<<x, sessions[x].conn>> : x \in idle},
                       cur |-> None, tab |-> t, pool |-> p]]
        /\ UNCHANGED <<cursors, txNotes, backend, free, pools, run>>

Expired_OffByOne(t) == Pinned(t) /\ sessions[t].age > IF cursors[t] # NoCursor THEN 1 ELSE MaxAge

\* A session expires sooner while its tab has a cursor entry.
Expired(t) == Pinned(t) /\ sessions[t].age >= IF cursors[t] # NoCursor THEN 1 ELSE MaxAge
Endable    == {t \in Tabs : Expired(t) /\ ~sessions[t].busy}

\* A tick that finds nothing changes nothing and is no step.
JanitorTick ==
    /\ Endable # {}
    /\ Take(Janitor, {t \in Tabs : Expired(t)}, FALSE, None, None)

\* handleTxClose
TxClose(e, t) == Take(e, {t}, FALSE, t, None)

\* dropDatabasePool: releaseSessions, then the pool.
DropPool(e, p) ==
    /\ pools[p] # "absent"
    /\ Take(e, {t \in Tabs : sessions[t].conn \in ConnsOf(p)}, TRUE, None, p)

EndSession(e) ==
    /\ task[e].cur = None
    /\ \E t \in Tabs, c \in Conns :
         /\ <<t, c>> \in task[e].todo
         /\ ReleaseConn(c)
         /\ task' = [task EXCEPT ![e] = [@ EXCEPT !.todo = task[e].todo \ {<<t, c>>}, !.cur = t]]
    /\ UNCHANGED <<sessions, txNotes, pools, run>>

\* The second half of an iteration of endSessions; handleTxClose has no note.
ForgetEnded(e) ==
    /\ task[e].cur # None
    /\ cursors' = [cursors EXCEPT ![task[e].cur] = NoCursor]
    /\ txNotes' = IF e \in Closers THEN txNotes ELSE [txNotes EXCEPT ![task[e].cur] = TRUE]
    /\ task' = [task EXCEPT ![e].cur = None]
    /\ UNCHANGED <<sessions, backend, free, pools, run>>

Ended(e) == task[e].at = "ending" /\ task[e].todo = {} /\ task[e].cur = None

JanitorDone ==
    /\ Ended(Janitor)
    /\ task' = [task EXCEPT ![Janitor] = NoTask]
    /\ UNCHANGED <<sessions, cursors, txNotes, backend, free, pools, run>>

CloseDone(e) ==
    /\ Ended(e)
    /\ txNotes' = [txNotes EXCEPT ![task[e].tab] = FALSE]
    /\ task' = [task EXCEPT ![e] = NoTask]
    /\ UNCHANGED <<sessions, cursors, backend, free, pools, run>>

\* With mu held, pool.Close waits for every connection of the pool.
BeginClose(e) ==
    /\ Ended(e) /\ MuFree
    /\ IF pools[task[e].pool] = "open"
       THEN /\ pools' = [pools EXCEPT ![task[e].pool] = "closing"]
            /\ task' = [task EXCEPT ![e].at = "closing"]
       ELSE /\ task' = [task EXCEPT ![e] = NoTask]
            /\ UNCHANGED pools
    /\ UNCHANGED <<sessions, cursors, txNotes, backend, free, run>>

PoolClosed_NoUnlock(e) ==
    /\ task[e].at = "closing" /\ ConnsOf(task[e].pool) \subseteq free
    /\ task' = [task EXCEPT ![e] = NoTask]
    /\ UNCHANGED <<sessions, cursors, txNotes, backend, free, pools, run>>

\* A request that still has the pool's pointer now has that of a closed pool.
PoolClosed(e) ==
    /\ task[e].at = "closing" /\ ConnsOf(task[e].pool) \subseteq free
    /\ pools' = [pools EXCEPT ![task[e].pool] = "absent"]
    /\ run' = [r \in Runs |-> IF run[r].pool = task[e].pool
                              THEN [run[r] EXCEPT !.pool = Stale] ELSE run[r]]
    /\ task' = [task EXCEPT ![e] = NoTask]
    /\ UNCHANGED <<sessions, cursors, txNotes, backend, free>>
-----------------------------------------------------------------------------
(* handleTxStatus, and time *)

ReadStatus(t) ==
    /\ txNotes[t]
    /\ txNotes' = [txNotes EXCEPT ![t] = FALSE]
    /\ UNCHANGED <<sessions, cursors, backend, free, pools, run, task>>

Grow(t) ==
    /\ Pinned(t) /\ ~sessions[t].busy /\ sessions[t].age < MaxAge
    /\ sessions' = [sessions EXCEPT ![t].age = @ + 1]
    /\ UNCHANGED <<cursors, txNotes, backend, free, pools, run, task>>
-----------------------------------------------------------------------------
\* A request once it has been started.
RunStep(r) ==
    \/ RejectBusy(r) \/ ReusePinned(r) \/ RefuseTx(r) \/ EnterPool(r)
    \/ TakeConn(r) \/ AcquireFails(r)
    \/ LookupCursor(r) \/ EndCursor(r) \/ Statement(r)
    \/ PageLookup(r) \/ MayDeclare(r) \/ RefuseDeclare(r) \/ FinishRefused(r)
    \/ DeclareCursor(r) \/ DeclareFails(r) \/ FetchPage(r)
    \/ Release(r)

EndStep(e) == EndSession(e) \/ ForgetEnded(e)

Next ==
    \/ \E p \in Pools : OpenPool(p)
    \/ \E r \in Runs : StartRun(r) \/ RunStep(r)
    \/ JanitorTick \/ JanitorDone
    \/ \E e \in Closers : CloseDone(e) \/ \E t \in Tabs : TxClose(e, t)
    \/ \E e \in Droppers : BeginClose(e) \/ PoolClosed(e) \/ \E p \in Pools : DropPool(e, p)
    \/ \E e \in Tasks : EndStep(e)
    \/ \E t \in Tabs : ReadStatus(t) \/ Grow(t)

Spec == Init /\ [][Next]_vars
-----------------------------------------------------------------------------
(* Safety *)

HeldByRun(c)  == \E r \in Runs : run[r].conn = c
HeldByTab(c)  == \E t \in Tabs : sessions[t].conn = c /\ ~sessions[t].busy
HeldByTask(c) == \E e \in Tasks, t \in Tabs : <<t, c>> \in task[e].todo

\* A connection is used by one party at a time: a pooled one by nobody, one
\* being used by exactly one request, pinned idle session or ending task.  The
\* code never checks this; it follows from what each hand-over removes first.
ConnExclusive ==
    \A c \in Conns :
      /\ c \in free => ~HeldByRun(c) /\ ~HeldByTab(c) /\ ~HeldByTask(c)
      /\ HeldByTab(c) => ~HeldByRun(c) /\ ~HeldByTask(c)
      /\ HeldByRun(c) => ~HeldByTask(c)
      /\ \A r, s \in Runs : run[r].conn = c /\ run[s].conn = c => r = s
      /\ \A t, u \in Tabs : sessions[t].conn = c /\ sessions[u].conn = c => t = u
      /\ \A d, e \in Tasks, t, u \in Tabs :
           <<t, c>> \in task[d].todo /\ <<u, c>> \in task[e].todo => d = e /\ t = u

\* A busy session is in use by a request of its tab that will finish it; were
\* there none, the tab would answer 409 for ever and the janitor skip it.
BusyHasRun ==
    \A t \in Tabs : Pinned(t) /\ sessions[t].busy =>
      \E r \in Runs : run[r].tab = t /\ run[r].reuse /\ run[r].conn = sessions[t].conn

\* A pinned idle session is inside a transaction and the state it reports to
\* the tab (handleTxStatus) is the one its connection is in.
SessionInTx ==
    \A t \in Tabs : Pinned(t) /\ ~sessions[t].busy =>
      backend[sessions[t].conn].tx = sessions[t].state

\* At most maxPinned sessions are pinned on a pool, however requests of
\* different tabs interleave between the check on entry and the pinning.
PinnedWithinLimit == \A p \in Pools : Cardinality(PinnedTabs(p)) <= MaxPinned(p)

\* A session unregistered while its query ran (dropBusy) stays so: finish of
\* that query rolls back and releases instead of pinning again.
DroppedStaysDropped ==
    [][\A r \in Runs : run[r].reuse /\ ~Registered(r) =>
         sessions'[run[r].tab].conn # run[r].conn]_vars

\* FETCH finds the cursor unless the transaction is aborted or the connection
\* lost: neither the removal of entries by ending tasks nor another run of the
\* tab leaves an entry without its cursor, so the second declaration of
\* renderCursorPage (SQLSTATE 34000) is not needed.
FetchFindsCursor ==
    \A r \in Runs : run[r].at = "fetch" /\ backend[run[r].conn].tx \in {"idle", "active"}
                      => backend[run[r].conn].cursor

\* The COMMIT of endCursor never commits a transaction the user opened.
CommitsOnlyOwnTx ==
    \A r \in Runs : run[r].at = "endCursor" /\ run[r].owns
                      /\ backend[run[r].conn].tx \in InTx => backend[run[r].conn].app
-----------------------------------------------------------------------------
(* The abstract specification of a connection *)

\* Who has connection c, and for which tab.  A busy session has a request
\* (BusyHasRun), so what is pinned and used by no request is idle.
Held(by, t) == [by |-> by, tab |-> t]

Manner(r) == IF ~run[r].reuse THEN "used" ELSE IF Registered(r) THEN "reused" ELSE "revoked"

LeaseOf(c) ==
    IF c \in free THEN Held("pool", None)
    ELSE IF HeldByRun(c)
    THEN LET r == CHOOSE r \in Runs : run[r].conn = c IN Held(Manner(r), run[r].tab)
    ELSE IF \E t \in Tabs : sessions[t].conn = c
    THEN Held("idle", CHOOSE t \in Tabs : sessions[t].conn = c)
    ELSE IF HeldByTask(c)
    THEN Held("ending", CHOOSE t \in Tabs : \E e \in Tasks : <<t, c>> \in task[e].todo)
    ELSE Held("lost", None)

Leases == [c \in Conns |-> LeaseOf(c)]

CL == INSTANCE ConnLease WITH NoTab <- None, lease <- Leases

\* However requests, the janitor, the closing of tabs and disconnects
\* interleave, a connection goes from hand to hand as ConnLease says: what is
\* pinned is used again for its own tab only, what was unpinned while in use
\* is returned and never pinned again (finish compares the pointers), and no
\* connection gets lost except to another session of the same tab.
LeaseKept == CL!Spec
-----------------------------------------------------------------------------
(* Statements of the comments that the code does not keep *)

\* session.go:217, an abandoned tab cannot hold locks forever: every open
\* transaction is known to a request, to a session or to an ending task.
NoOrphanTx ==
    \A c \in Conns : backend[c].tx \in InTx =>
      HeldByRun(c) \/ HeldByTask(c) \/ \E t \in Tabs : sessions[t].conn = c

\* cursor.go:26, a later statement never executes inside a transaction the
\* user did not ask for.
StatementOutsideAppTx ==
    \A r \in Runs : run[r].at = "statement" => ~backend[run[r].conn].app

\* session.go:208, releaseSessions runs before a pool is closed, so that the
\* closing pool does not wait for a pinned connection.
ClosingPoolHasNoSession ==
    \A t \in Tabs : Pinned(t) /\ ~sessions[t].busy =>
      pools[PoolOf[sessions[t].conn]] # "closing"
-----------------------------------------------------------------------------
(* Liveness *)

\* Time passes; the janitor goroutine runs (its statements time out after 5s);
\* requests do not stop: a statement ends, or the client goes away and pgx
\* gives it up.  Go's mutexes hand over in order after a while, so a goroutine
\* that keeps asking for mu gets it.
Fairness ==
    /\ WF_vars(JanitorTick) /\ WF_vars(JanitorDone) /\ WF_vars(EndStep(Janitor))
    /\ \A t \in Tabs : WF_vars(Grow(t))
    /\ \A r \in Runs : WF_vars(RunStep(r))
    /\ \A e \in Closers : WF_vars(EndStep(e)) /\ WF_vars(CloseDone(e))
    /\ \A e \in Droppers :
         WF_vars(EndStep(e)) /\ SF_vars(BeginClose(e)) /\ WF_vars(PoolClosed(e))

LiveSpec == Spec /\ Fairness

\* A tab that starts no further run ends up without a pinned session: its
\* busy mark is cleared, and the janitor finds the session (startTxJanitor).
AbandonedTabReleased ==
    \A t \in Tabs : (<>[](\A r \in Runs : run[r].tab # t)) => <>[](~Pinned(t))

\* Disconnecting a database returns, and mu is free again: pool.Close waits
\* for a request that pinned a connection after releaseSessions, and the
\* janitor ends that session.  (Not so with an orphaned transaction, see
\* NoOrphanTx.)
DropReturns == \A e \in Droppers : task[e].at # "idle" ~> task[e].at = "idle"
=============================================================================
