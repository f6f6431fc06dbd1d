---------------------------- MODULE ServerPools ----------------------------
(***************************************************************************)
(* The connection pools of one registered server (server_manager.go), the  *)
(* requests that connect and disconnect it (handlers.go), and the requests *)
(* that use its pools: the tree and the query tool, the import dialog      *)
(* (copy_data.go) and the Stop button (cancel.go).                         *)
(*                                                                         *)
(* A request is a goroutine that runs one handler from its first step to   *)
(* its response.  A step is a critical section under mu or queryMu, one    *)
(* SQLite statement, one dial, or one operation on a pool.  mu is held     *)
(* over several steps by a request that closes pools, because              *)
(* pgxpool.Close waits for every acquired connection.                      *)
(*                                                                         *)
(* Transactions pinned by tabs, which releaseSessions ends before a pool   *)
(* is closed, are the subject of TabSessions.                              *)
(*                                                                         *)
(* An operator Name_Slip is Name with the slip a change of the code could  *)
(* bring; each property is checked to be violated by one of them.          *)
(***************************************************************************)
EXTENDS Naturals, FiniteSets

CONSTANTS
    Reqs,       \* goroutines serving requests
    Srv,        \* the maintenance database: the key of dbPools
    Dbs,        \* the other databases: the keys of dbSpecificPools
    Tabs,       \* script tabs (the tab_id of a request)
    Slots,      \* the connections of one pool
    None        \* no request, no tab, no connection

Keys  == Dbs \cup {Srv}
Conns == Keys \X Slots

ASSUME ServerAssumption ==
    /\ Srv \notin Dbs
    /\ None \notin Reqs \cup Tabs \cup Conns
    /\ Slots # {}

VARIABLES
    pool,       \* key -> "absent" | "open" (cached) | "closing"
    mu,         \* the request that holds mu for writing over several steps
    mem,        \* key -> disconnectedServers, disconnectedDatabases
    disk,       \* key -> the flag's column or row in SQLite
    entry,      \* tab -> the connection of its runningQueries entry
    req,        \* request -> where it is
    settled     \* key -> no overlap or failure since its last flag change
                \*        (history, read by properties only)

vars == <<pool, mu, mem, disk, entry, req, settled>>
flags == <<mem, disk, settled>>
-----------------------------------------------------------------------------
(* Types *)

Ops == {"disconnect", "reconnect", "dbDisconnect", "dbReconnect", "probe",
        "query", "import", "stop"}

\* Steps in the order of the code.
Steps == {"idle", "check", "peek", "ping", "look", "dial", "store",
          "acquire", "work", "leave", "acquire2", "find", "cancel",
          "disk", "mem", "lock", "close", "closing", "clearDisk"}

\* key: the database it is about; live: the *pgxpool.Pool it is going to
\* acquire from is not closed;
\* conn, second: the connections it holds; pid: what Stop read.
Request == [op: Ops, at: Steps, key: Keys, tab: Tabs \cup {None},
            live: BOOLEAN, conn: Conns \cup {None}, second: Conns \cup {None},
            pid: Conns \cup {None}]
NoReq   == [op |-> "query", at |-> "idle", key |-> Srv, tab |-> None,
            live |-> FALSE, conn |-> None, second |-> None, pid |-> None]

TypeOK ==
    /\ pool \in [Keys -> {"absent", "open", "closing"}]
    /\ mu \in Reqs \cup {None}
    /\ mem \in [Keys -> BOOLEAN] /\ disk \in [Keys -> BOOLEAN]
    /\ entry \in [Tabs -> Conns \cup {None}]
    /\ req \in [Reqs -> Request]
    /\ settled \in [Keys -> BOOLEAN]

Init ==
    /\ pool = [k \in Keys |-> "absent"]
    /\ mu = None
    /\ mem = [k \in Keys |-> FALSE] /\ disk = mem
    /\ entry = [t \in Tabs |-> None]
    /\ req = [r \in Reqs |-> NoReq]
    /\ settled = [k \in Keys |-> TRUE]
-----------------------------------------------------------------------------
(* Helpers *)

\* An RLock section is one step, taken while no request holds mu.
MuFree == mu = None

Cached(k) == pool[k] = "open"
Idle(r)   == req[r].at = "idle"
At(r, s)  == req[r].at = s

Held == {req[r].conn : r \in Reqs} \cup {req[r].second : r \in Reqs}
FreeOf(k) == {c \in Conns : c[1] = k} \ Held

Goto(r, s) == req' = [req EXCEPT ![r].at = s]
End(r)     == req' = [req EXCEPT ![r] = NoReq]

\* An import without a connection renders its dialog: it reads the table's
\* columns as a request without a tab does, whatever made it fail.
Renders(r) == req' = [req EXCEPT ![r].op = "query", ![r].at = "look", ![r].live = FALSE]
FirstOfImport(r) == req[r].op = "import" /\ req[r].conn = None

\* Where a request goes with the pool it asked for.
WithPool(op, conn) ==
    CASE op = "query"                     -> "acquire"
      [] op = "import" /\ conn = None     -> "acquire"
      [] op = "import" /\ conn # None     -> "acquire2"
      [] op \in {"reconnect", "dbReconnect"} -> "disk"
      [] OTHER                            -> "idle"

\* ... and when it could not be dialed: a reconnect still lowers the flag, a
\* dialog goes without columns.
WithoutPool(op) == IF op \in {"reconnect", "dbReconnect"} THEN "disk" ELSE "idle"

GotPool(r) == LET s == WithPool(req[r].op, req[r].conn)
              IN  req' = [req EXCEPT ![r] = IF s = "idle" THEN NoReq
                                            ELSE [@ EXCEPT !.at = s, !.live = (s # "disk")]]
NoPool(r)  == LET s == WithoutPool(req[r].op)
              IN  IF FirstOfImport(r) THEN Renders(r)
                  ELSE req' = [req EXCEPT ![r] = IF s = "idle" THEN NoReq
                                                 ELSE [@ EXCEPT !.at = s]]

\* Between its two writes of the flag of k.
MidFlag(r, k) == \/ At(r, "mem") /\ req[r].key = k
                 \/ At(r, "clearDisk") /\ k \in Dbs
OthersMid(r, k) == \E x \in Reqs \ {r} : MidFlag(x, k)
-----------------------------------------------------------------------------
(* The start of a handler *)

Starting(r, op, k, t, s) ==
    /\ Idle(r)
    /\ req' = [req EXCEPT ![r] = [NoReq EXCEPT !.op = op, !.key = k,
                                               !.tab = t, !.at = s]]
    /\ UNCHANGED <<pool, mu, entry, flags>>

StartDisconnect(r)      == Starting(r, "disconnect", Srv, None, "disk")
StartReconnect(r)       == Starting(r, "reconnect", Srv, None, "peek")
StartDbDisconnect(r, k) == Starting(r, "dbDisconnect", k, None, "disk")
StartDbReconnect(r, k)  == Starting(r, "dbReconnect", k, None, "look")
StartProbe(r)           == Starting(r, "probe", Srv, None, "check")
StartBrowse(r)          == Starting(r, "query", Srv, None, "look")
StartQuery(r, k, t)     == Starting(r, "query", k, t, "look")
StartDialog(r, k)       == Starting(r, "query", k, None, "look")
StartExport(r, k)       == Starting(r, "query", k, None, "check")
StartImport(r, k)       == Starting(r, "import", k, None, "check")
StartStop(r, t)         == Starting(r, "stop", Srv, t, "find")

\* isDisconnected: the sidebar does not probe a gray server, copyConn refuses
\* it.  The dialog that tells of a refused import connects to it all the same.
Check(r) ==
    /\ At(r, "check") /\ MuFree
    /\ IF ~mem[Srv] THEN Goto(r, "look")
       ELSE IF FirstOfImport(r) THEN Renders(r) ELSE End(r)
    /\ UNCHANGED <<pool, mu, entry, flags>>
-----------------------------------------------------------------------------
(* getOrCreatePool, getOrCreateDbPool: two critical sections around a dial *)

Look(r) ==
    /\ At(r, "look") /\ MuFree
    /\ IF Cached(req[r].key) THEN GotPool(r) ELSE Goto(r, "dial")
    /\ UNCHANGED <<pool, mu, entry, flags>>

Dial(r) ==
    /\ At(r, "dial")
    /\ Goto(r, "store") \/ NoPool(r)
    /\ UNCHANGED <<pool, mu, entry, flags>>

\* The pool of whoever stores second is closed; it has no connection in use.
Store(r) ==
    LET k == req[r].key IN
    /\ At(r, "store") /\ MuFree
    /\ pool' = [pool EXCEPT ![k] = "open"]
    /\ GotPool(r)
    /\ UNCHANGED <<mu, entry, flags>>
-----------------------------------------------------------------------------
(* Requests on a connection: a tree folder, a run, an explain, an export *)

\* Acquire on a closed pool fails at once; otherwise it may fail because the
\* client went away or the connection could not be opened.
Fails(r) ==
    /\ At(r, "acquire") \/ At(r, "acquire2")
    /\ IF FirstOfImport(r) THEN Renders(r) ELSE End(r)
    /\ UNCHANGED <<pool, mu, entry, flags>>

\* registerQuery follows Acquire at once; requests without a tab have none.
Acquire(r) ==
    /\ At(r, "acquire") /\ req[r].live
    /\ \E c \in FreeOf(req[r].key) :
        /\ req' = [req EXCEPT ![r].conn = c, ![r].live = FALSE,
                              ![r].at = IF req[r].op = "stop" THEN "cancel" ELSE "work"]
        /\ entry' = IF req[r].op = "query" /\ req[r].tab # None
                    THEN [entry EXCEPT ![req[r].tab] = c] ELSE entry
    /\ UNCHANGED <<pool, mu, flags>>

Finish_KeepsEntry(r) ==
    /\ At(r, "work") /\ req[r].op = "query"
    /\ Goto(r, "leave")
    /\ UNCHANGED <<pool, mu, entry, flags>>

\* The statements end.  The deferred unregisterQuery comes before the release
\* of the connection, and deletes the tab's entry whoever made it.
Finish(r) ==
    /\ At(r, "work") /\ req[r].op = "query"
    /\ entry' = IF req[r].tab # None THEN [entry EXCEPT ![req[r].tab] = None] ELSE entry
    /\ Goto(r, "leave")
    /\ UNCHANGED <<pool, mu, flags>>

\* COPY ... FROM STDIN has ended.  The dialog is rendered before the deferred
\* release, and asks for the table's columns: through mu, on a connection of
\* its own.
Copied(r) ==
    /\ At(r, "work") /\ req[r].op = "import"
    /\ Goto(r, "look")
    /\ UNCHANGED <<pool, mu, entry, flags>>

Acquire2(r) ==
    /\ At(r, "acquire2") /\ req[r].live
    /\ \E c \in FreeOf(req[r].key) :
        req' = [req EXCEPT ![r].second = c, ![r].live = FALSE, ![r].at = "leave"]
    /\ UNCHANGED <<pool, mu, entry, flags>>

Release(r) ==
    /\ At(r, "leave")
    /\ End(r)
    /\ UNCHANGED <<pool, mu, entry, flags>>
-----------------------------------------------------------------------------
(* The Stop button: cancelQuery *)

\* The entry's pool is that of the connection: the entry goes before the
\* connection is released, so the pool is not closed, but it may be closing.
Find(r) ==
    LET c == entry[req[r].tab] IN
    /\ At(r, "find")
    /\ IF c = None THEN End(r)
       ELSE req' = [req EXCEPT ![r].pid = c, ![r].key = c[1], ![r].at = "acquire",
                               ![r].live = Cached(c[1])]
    /\ UNCHANGED <<pool, mu, entry, flags>>

\* pg_cancel_backend(pid) ends what the backend executes now.
Victims(r) == {x \in Reqs : At(x, "work") /\ req[x].conn = req[r].pid}
Cancel(r) ==
    /\ At(r, "cancel")
    /\ \E hit \in SUBSET Victims(r) :
        /\ req' = [x \in Reqs |-> IF x = r THEN [req[r] EXCEPT !.at = "leave"]
                                  ELSE IF x \notin hit THEN req[x]
                                  ELSE [req[x] EXCEPT !.at = IF @ = "work" /\ req[x].op = "import"
                                                             THEN "look" ELSE "leave"]]
        /\ entry' = [t \in Tabs |-> IF \E x \in hit : req[x].op = "query" /\ req[x].tab = t
                                    THEN None ELSE entry[t]]
    /\ UNCHANGED <<pool, mu, flags>>
-----------------------------------------------------------------------------
(* setDisconnected, setDatabaseDisconnected: SQLite first, then memory *)

Raises(r) == req[r].op \in {"disconnect", "dbDisconnect"}

SetDatabaseDisconnected(k)   == [disk EXCEPT ![k] = TRUE]
ClearDatabaseDisconnected(k) == [disk EXCEPT ![k] = FALSE]

\* A failed write is logged and the flag in memory changes all the same.
WriteDisk(r) ==
    LET k == req[r].key IN
    /\ At(r, "disk")
    /\ \E done \in BOOLEAN :
        /\ disk' = IF ~done THEN disk ELSE IF Raises(r) THEN SetDatabaseDisconnected(k)
                                           ELSE ClearDatabaseDisconnected(k)
        /\ settled' = [settled EXCEPT ![k] = done /\ ~OthersMid(r, k)]
    /\ Goto(r, "mem")
    /\ UNCHANGED <<pool, mu, mem, entry>>

WriteMem(r) ==
    LET k == req[r].key IN
    /\ At(r, "mem") /\ MuFree
    /\ mem' = [mem EXCEPT ![k] = Raises(r)]
    /\ IF Raises(r) THEN Goto(r, "lock") ELSE End(r)
    /\ UNCHANGED <<pool, mu, disk, entry, settled>>
-----------------------------------------------------------------------------
(* ensureServerConnection *)

Peek(r) ==
    /\ At(r, "peek") /\ MuFree
    /\ Goto(r, IF Cached(Srv) THEN "ping" ELSE "look")
    /\ UNCHANGED <<pool, mu, entry, flags>>

\* A cached pool that does not answer is dropped and dialed again.
Ping(r) ==
    /\ At(r, "ping")
    /\ Goto(r, "disk") \/ Goto(r, "lock")
    /\ UNCHANGED <<pool, mu, entry, flags>>
-----------------------------------------------------------------------------
(* dropServerPools, dropDatabasePool *)

WholeServer(r) == req[r].op \in {"disconnect", "reconnect"}

Lock(r) ==
    /\ At(r, "lock") /\ MuFree
    /\ mu' = r
    /\ Goto(r, "close")
    /\ UNCHANGED <<pool, entry, flags>>

\* The pools still to close: the server's own first.
ToClose(r) ==
    IF ~WholeServer(r) THEN {k \in {req[r].key} : Cached(k)}
    ELSE IF Cached(Srv) THEN {Srv} ELSE {k \in Dbs : Cached(k)}

\* The pool leaves the map and Close begins; who still has it as a pointer
\* gets an error from Acquire, waiting or not.
BeginClose(r) ==
    /\ At(r, "close")
    /\ \E k \in ToClose(r) :
        /\ pool' = [pool EXCEPT ![k] = "closing"]
        /\ req' = [x \in Reqs |-> IF x = r THEN [req[r] EXCEPT !.at = "closing"]
                                  ELSE [req[x] EXCEPT !.live = @ /\ req[x].key # k]]
    /\ UNCHANGED <<mu, entry, flags>>

\* Close returns when every connection has been given back.
Closed(r) ==
    /\ At(r, "closing")
    /\ \E k \in Keys :
        /\ pool[k] = "closing"
        /\ \A c \in Held \ {None} : c[1] # k
        /\ pool' = [pool EXCEPT ![k] = "absent"]
    /\ Goto(r, "close")
    /\ UNCHANGED <<mu, entry, flags>>

Unlock_ServerOnly(r) ==
    /\ At(r, "close") /\ ToClose(r) = {}
    /\ mu' = IF WholeServer(r) THEN None ELSE mu
    /\ IF WholeServer(r)
       THEN /\ mem' = [k \in Keys |-> k = Srv /\ mem[k]]
            /\ settled' = [k \in Keys |-> IF k = Srv THEN settled[k] ELSE ~OthersMid(r, k)]
            /\ Goto(r, "clearDisk")
       ELSE UNCHANGED <<mem, settled>> /\ End(r)
    /\ UNCHANGED <<pool, disk, entry>>

\* Dropping a server also clears the flags of its databases, in memory under
\* the same lock.
Unlock(r) ==
    /\ At(r, "close") /\ ToClose(r) = {}
    /\ mu' = None
    /\ IF WholeServer(r)
       THEN /\ mem' = [k \in Keys |-> k = Srv /\ mem[k]]
            /\ settled' = [k \in Keys |-> IF k = Srv THEN settled[k] ELSE ~OthersMid(r, k)]
            /\ Goto(r, "clearDisk")
       ELSE UNCHANGED <<mem, settled>> /\ End(r)
    /\ UNCHANGED <<pool, disk, entry>>

ClearDisk_Forgotten(r) ==
    /\ At(r, "clearDisk")
    /\ IF req[r].op = "reconnect" THEN Goto(r, "look") ELSE End(r)
    /\ UNCHANGED <<pool, mu, entry, flags>>

ClearDatabaseDisconnectedForServer == [k \in Keys |-> IF k # Srv THEN FALSE ELSE disk[k]]

\* After the lock is given back.
ClearDisk(r) ==
    /\ At(r, "clearDisk")
    /\ \E done \in BOOLEAN :
        /\ disk' = IF done THEN ClearDatabaseDisconnectedForServer ELSE disk
        /\ settled' = [k \in Keys |-> settled[k] /\ (done \/ k = Srv)]
    /\ IF req[r].op = "reconnect" THEN Goto(r, "look") ELSE End(r)
    /\ UNCHANGED <<pool, mu, mem, entry>>
-----------------------------------------------------------------------------
(* The process ends at any point and is started again: memory is lost and
   loadDisconnectedServers, loadDisconnectedDatabases read the flags, or
   fail, which is logged. *)
Restart ==
    \E loaded \in BOOLEAN :
        /\ pool' = [k \in Keys |-> "absent"]
        /\ mu' = None
        /\ mem' = [k \in Keys |-> loaded /\ disk[k]]
        /\ settled' = [k \in Keys |-> loaded]
        /\ entry' = [t \in Tabs |-> None]
        /\ req' = [r \in Reqs |-> NoReq]
        /\ UNCHANGED disk
-----------------------------------------------------------------------------
Start(r) ==
    \/ StartDisconnect(r) \/ StartReconnect(r) \/ StartProbe(r) \/ StartBrowse(r)
    \/ \E k \in Dbs : \/ StartDbDisconnect(r, k) \/ StartDbReconnect(r, k)
                      \/ StartDialog(r, k) \/ StartExport(r, k) \/ StartImport(r, k)
                      \/ \E t \in Tabs : StartQuery(r, k, t)
    \/ \E t \in Tabs : StartStop(r, t)

\* Steps that end a wait for mu or for a connection, and all others.
TakesTurn(r) == Lock(r) \/ Acquire(r) \/ Acquire2(r) \/ Check(r) \/ Look(r)
                \/ Store(r) \/ WriteMem(r) \/ Peek(r)
GoesOn(r) == \/ Dial(r) \/ Finish(r) \/ Copied(r) \/ Release(r)
             \/ Find(r) \/ Cancel(r) \/ WriteDisk(r) \/ Ping(r)
             \/ BeginClose(r) \/ Closed(r) \/ Unlock(r) \/ ClearDisk(r)

Next == Restart \/ \E r \in Reqs : Start(r) \/ Fails(r) \/ TakesTurn(r) \/ GoesOn(r)

Spec == Init /\ [][Next]_vars

\* What happens whatever the clients do: Acquire on a closed pool returns at
\* once, giving up on an open one is the client's choice.
Moves(r) == TakesTurn(r) \/ GoesOn(r) \/ (~req[r].live /\ Fails(r))
-----------------------------------------------------------------------------
(* Properties *)

\* A flag in memory is the one a restart will read, unless two changes of it
\* overlapped, or a write failed, since (setDisconnected: "the flag is
\* persisted in the server table so it survives across application restarts").
FlagsAgree == \A k \in Keys : settled[k] /\ (\A r \in Reqs : ~MidFlag(r, k))
                               => mem[k] = disk[k]

\* A runningQueries entry names a connection on which a request of that tab
\* is executing (registerQuery and the order of the deferred calls), so Stop
\* never reads the pid of a connection that is already somebody else's.
EntryNamesRun == \A t \in Tabs : entry[t] # None =>
                    \E r \in Reqs : /\ req[r].op = "query" /\ req[r].tab = t
                                    /\ At(r, "work") /\ req[r].conn = entry[t]

\* Stop interrupts only what its own tab executes (cancel.go: "asks PostgreSQL
\* to cancel the backend running tabID's query").
StopHitsOwnRun == \A r \in Reqs : At(r, "cancel") =>
                     \A x \in Victims(r) : req[x].tab = req[r].tab

\* The import dialog, still on its connection, waits for mu or for another.
HoldsAndWaits(r) == /\ req[r].op = "import" /\ req[r].conn # None
                    /\ req[r].at \in {"look", "store", "acquire2"}

\* Nobody who waits for mu holds a connection of a pool that is being closed
\* under mu (releaseSessions: "pgxpool.Close blocks until every acquired
\* connection has been returned").
NoCircularWait == \A r \in Reqs : HoldsAndWaits(r) => pool[req[r].conn[1]] # "closing"

\* What a request waits for has come: mu, a connection, those of the pool it
\* is closing.  All other steps wait for nothing.
Ready(r) ==
    CASE req[r].at \in {"check", "look", "store", "mem", "peek", "lock"} -> MuFree
      [] req[r].at \in {"acquire", "acquire2"} -> ~req[r].live \/ FreeOf(req[r].key) # {}
      [] req[r].at = "closing" -> \E k \in Keys : /\ pool[k] = "closing"
                                                /\ \A c \in Held \ {None} : c[1] # k
      [] OTHER -> ~Idle(r)

\* Requests wait for each other, but not in a circle.
SomebodyReady ==
    \/ \A r \in Reqs : Idle(r)
    \/ \E r \in Reqs : HoldsAndWaits(r)
    \/ \E r \in Reqs : Ready(r)

\* Nothing else can stop the requests for ever: disconnects, probes, runs and
\* Stops wait for each other, but not in a circle, and who need not wait has
\* a step to take.  A handler has no loop other than that over the pools, so
\* each request then comes to its end.
SomebodyMoves == SomebodyReady /\ \A r \in Reqs : Ready(r) => ENABLED Moves(r)
=============================================================================
