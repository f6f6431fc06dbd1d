------------------------- MODULE ServerPoolsProofs -------------------------
(***************************************************************************)
(* Proofs about ServerPools: the types, the entries of the Stop button,    *)
(* the flags in memory and on disk, and who waits for whom, for any number *)
(* of requests, databases, tabs and connections.                           *)
(***************************************************************************)
EXTENDS ServerPools, TLAPS

\* What a request is about, by its operation.
PlaceOf(q) ==
    /\ q.at = "find" => q.op = "stop" /\ q.tab \in Tabs
    /\ q.op = "disconnect" => q.key = Srv
    /\ q.op = "dbDisconnect" => q.key \in Dbs
Places == \A r \in Reqs : PlaceOf(req[r])

\* Between its two writes of a flag, and between which.
Mid == {"mem", "clearDisk"}

\* A settled flag has at most one writer; between its two writes the first
\* store holds the new value.
FlagInv == \A k \in Keys : settled[k] =>
    /\ \A r, x \in Reqs : MidFlag(r, k) /\ MidFlag(x, k) => r = x
    /\ \A r \in Reqs : req[r].at = "mem" /\ req[r].key = k => (disk[k] <=> Raises(r))
    /\ \A r \in Reqs : req[r].at = "clearDisk" /\ k \in Dbs => ~mem[k]
    /\ (\A r \in Reqs : ~MidFlag(r, k)) => (mem[k] <=> disk[k])

Parts == TypeOK /\ Places /\ EntryNamesRun /\ FlagInv
-----------------------------------------------------------------------------
(* Requests.                                                               *)

\* The request that has not started.
LEMMA NoReqType == NoReq \in Request /\ NoReq.at = "idle" /\ NoReq.op = "query"
BY DEF NoReq, Request, Ops, Steps, Keys

\* A request that takes a step stays about what it was.
LEMMA Moved ==
    ASSUME NEW q \in Request, NEW s \in Steps, NEW m, m = [q EXCEPT !.at = s]
    PROVE  m \in Request /\ m.at = s /\ m.op = q.op /\ m.key = q.key /\ m.tab = q.tab
BY DEF Request
-----------------------------------------------------------------------------
(* Steps that touch neither flags nor entries.                             *)

\* Such a step may change mu and the pools as well.
Milder ==
    /\ UNCHANGED <<entry, flags>>
    /\ mu' \in Reqs \cup {None}
    /\ pool' \in [Keys -> {"absent", "open", "closing"}]

\* The request is not about to write a flag, nor at its statements.
Quiet(r) == req[r].at \notin Mid /\ ~(req[r].at = "work" /\ req[r].op = "query")

\* A request q may stand where r stood.
Follows(q, r) == /\ q.at \notin Mid
                 /\ PlaceOf(q)

Bland(r) == \E q \in Request :
    req' = [req EXCEPT ![r] = q] /\ Quiet(r) /\ Follows(q, r) /\ Milder

\* They keep everything.
LEMMA BlandKeeps == ASSUME Parts, NEW r \in Reqs, Bland(r) PROVE Parts'
<1> PICK q \in Request : req' = [req EXCEPT ![r] = q] /\ Quiet(r) /\ Follows(q, r) /\ Milder
    BY DEF Bland
<1>1. TypeOK'
      BY DEF Parts, TypeOK, Milder, flags
<1>2. \A x \in Reqs : req'[x] = IF x = r THEN q ELSE req[x]
      BY DEF Parts, TypeOK
<1>3. Places'
      BY <1>2 DEF Parts, Places, PlaceOf, Follows
<1>4. EntryNamesRun'
      BY <1>2 DEF Parts, EntryNamesRun, At, Quiet, Milder
<1>5. \A x \in Reqs : /\ x = r => req[x].at \notin Mid /\ req'[x].at \notin Mid
                      /\ x # r => req'[x] = req[x]
      BY <1>2 DEF Quiet, Follows
<1>6. \A x \in Reqs, k \in Keys : MidFlag(x, k)' <=> MidFlag(x, k)
      BY <1>5 DEF MidFlag, At, Mid
<1>7. FlagInv'
      BY <1>5, <1>6 DEF Parts, FlagInv, Raises, Mid, Milder, flags
<1> QED BY <1>1, <1>3, <1>4, <1>7 DEF Parts

\* The steps that leave the pools and mu alone, too.
Frame == UNCHANGED <<pool, mu, entry, flags>>

\* A step that leaves pools, flags and mutex alone makes nothing worse.
LEMMA FrameIsMilder == ASSUME Parts, Frame PROVE Milder
BY DEF Parts, TypeOK, Frame, Milder, flags

\* A request without duties left may end.
LEMMA BlandEnd ==
    ASSUME Parts, NEW r \in Reqs, Quiet(r), End(r), Milder PROVE Bland(r)
<1>1. PlaceOf(NoReq) /\ NoReq.at \notin Mid
      BY NoReqType DEF PlaceOf, Mid
<1> QED BY <1>1, NoReqType DEF Bland, Follows, End

\* A request without duties may go on to a step without duties.
LEMMA BlandGoto ==
    ASSUME Parts, NEW r \in Reqs, Quiet(r), NEW s \in Steps \ (Mid \cup {"find"}),
           Goto(r, s), Milder
    PROVE  Bland(r)
<1> DEFINE q == [req[r] EXCEPT !.at = s]
<1>1. req[r] \in Request
      BY DEF Parts, TypeOK
<1>2. q \in Request /\ q.at = s /\ q.op = req[r].op /\ q.key = req[r].key /\ q.tab = req[r].tab
      BY <1>1, Moved
<1>3. req' = [req EXCEPT ![r] = q]
      BY DEF Parts, TypeOK, Goto
<1> HIDE DEF q
<1>4. PlaceOf(q)
      BY <1>2 DEF Parts, Places, PlaceOf
<1> QED BY <1>2, <1>3, <1>4 DEF Bland, Quiet, Follows

\* An import that did not get its connection renders its dialog.
LEMMA BlandRenders ==
    ASSUME Parts, NEW r \in Reqs, Quiet(r), req[r].op = "import", Renders(r), Milder PROVE Bland(r)
<1> DEFINE q == [req[r] EXCEPT !.op = "query", !.at = "look", !.live = FALSE]
<1>1. req[r] \in Request
      BY DEF Parts, TypeOK
<1>2. q \in Request /\ q.at = "look" /\ q.op = "query"
      BY <1>1 DEF Request, Ops, Steps
<1>3. req' = [req EXCEPT ![r] = q]
      BY DEF Parts, TypeOK, Renders
<1> HIDE DEF q
<1>4. PlaceOf(q) /\ q.at \notin Mid
      BY <1>2 DEF PlaceOf, Mid
<1> QED BY <1>2, <1>3, <1>4 DEF Bland, Quiet, Follows

\* A request that gets its pool, or does not.
LEMMA BlandPool ==
    ASSUME Parts, NEW r \in Reqs, req[r].at \in {"look", "dial", "store"}, Milder,
           GotPool(r) \/ NoPool(r)
    PROVE  Bland(r)
<1> DEFINE o == req[r].op
<1>1. req[r] \in Request
      BY DEF Parts, TypeOK
<1>2. Quiet(r)
      BY DEF Quiet, Mid
<1>3. CASE End(r)
      BY <1>2, <1>3, BlandEnd
<1>4. CASE NoPool(r)
  <2>1. CASE FirstOfImport(r)
        BY <1>2, <1>4, <2>1, BlandRenders DEF NoPool, FirstOfImport
  <2>2. CASE ~FirstOfImport(r)
        BY <1>2, <1>3, <1>4, <2>2, BlandGoto DEF NoPool, WithoutPool, End, Goto, Mid, Steps
  <2> QED BY <2>1, <2>2
<1>5. ASSUME GotPool(r), ~End(r) PROVE Bland(r)
  <2> DEFINE s == WithPool(o, req[r].conn)
             q == [req[r] EXCEPT !.at = s, !.live = (s # "disk")]
  <2>1. s \in Steps \ (Mid \cup {"find"})
        BY DEF WithPool, Steps, Mid
  <2>2. q \in Request /\ q.at = s /\ q.op = o /\ q.key = req[r].key /\ q.tab = req[r].tab
        BY <1>1, <2>1 DEF Request
  <2>3. req' = [req EXCEPT ![r] = q]
        BY <1>5 DEF Parts, TypeOK, GotPool, End
  <2> HIDE DEF q, s
  <2>4. PlaceOf(q)
        BY <2>1, <2>2 DEF Parts, Places, PlaceOf
  <2> QED BY <1>2, <2>1, <2>2, <2>3, <2>4 DEF Bland, Quiet, Follows
<1> QED BY <1>3, <1>4, <1>5

\* A request starts without duties.
LEMMA BlandStart == ASSUME Parts, NEW r \in Reqs, Start(r) PROVE Bland(r)
<1>1. PICK op \in Ops, k \in Keys, t \in Tabs \cup {None}, s \in Steps :
        /\ Starting(r, op, k, t, s)
        /\ s \notin Mid
        /\ op = "disconnect" => k = Srv
        /\ op = "dbDisconnect" => k \in Dbs
        /\ s = "find" => op = "stop" /\ t \in Tabs
      BY DEF Start, StartDisconnect, StartReconnect, StartDbDisconnect, StartDbReconnect,
             StartProbe, StartBrowse, StartQuery, StartDialog, StartExport, StartImport, StartStop, Ops, Keys, Steps, Mid
<1> DEFINE q == [NoReq EXCEPT !.op = op, !.key = k, !.tab = t, !.at = s]
<1>2. q \in Request /\ q.at = s /\ q.op = op /\ q.key = k /\ q.tab = t
      BY NoReqType DEF Request
<1>3. req' = [req EXCEPT ![r] = q]
      BY <1>1 DEF Starting
<1> HIDE DEF q
<1>4. PlaceOf(q)
      BY <1>1, <1>2 DEF PlaceOf
<1>5. Quiet(r) /\ Milder
      BY <1>1, FrameIsMilder DEF Starting, Frame, Idle, Quiet, Mid
<1> QED BY <1>1, <1>2, <1>3, <1>4, <1>5 DEF Bland, Quiet, Follows

BlandStep(r) == \/ Start(r) \/ Fails(r) \/ Check(r) \/ Look(r) \/ Dial(r) \/ Copied(r)
                \/ Acquire2(r) \/ Release(r) \/ Find(r) \/ Peek(r) \/ Ping(r)
                \/ Lock(r) \/ Closed(r) \/ Store(r)

\* The steps that take on no duty and drop none.
LEMMA BlandSteps == ASSUME Parts, NEW r \in Reqs, BlandStep(r) PROVE Bland(r)
<1>1. req[r] \in Request
      BY DEF Parts, TypeOK
<1>2. CASE Start(r)
      BY <1>2, BlandStart
<1>3. CASE Fails(r)
  <2>1. Quiet(r) /\ Milder
        BY <1>3, FrameIsMilder DEF Fails, Frame, At, Quiet, Mid
  <2> QED BY <1>3, <2>1, BlandEnd, BlandRenders DEF Fails, FirstOfImport
<1>4. CASE Check(r)
  <2>1. Quiet(r) /\ Milder
        BY <1>4, FrameIsMilder DEF Check, Frame, At, Quiet, Mid
  <2> QED BY <1>4, <2>1, BlandEnd, BlandRenders, BlandGoto DEF Check, FirstOfImport, Mid, Steps
<1>5. CASE Look(r)
  <2>1. Quiet(r) /\ Milder /\ req[r].at = "look"
        BY <1>5, FrameIsMilder DEF Look, Frame, At, Quiet, Mid
  <2>2. CASE GotPool(r)
        BY <2>1, <2>2, BlandPool
  <2>3. CASE Goto(r, "dial")
        BY <2>1, <2>3, BlandGoto DEF Mid, Steps
  <2> QED BY <1>5, <2>2, <2>3 DEF Look
<1>6. CASE Dial(r)
  <2>1. Quiet(r) /\ Milder /\ req[r].at = "dial"
        BY <1>6, FrameIsMilder DEF Dial, Frame, At, Quiet, Mid
  <2>2. CASE NoPool(r)
        BY <2>1, <2>2, BlandPool
  <2>3. CASE Goto(r, "store")
        BY <2>1, <2>3, BlandGoto DEF Mid, Steps
  <2> QED BY <1>6, <2>2, <2>3 DEF Dial
<1>7. CASE Copied(r)
  <2>1. Quiet(r) /\ Milder
        BY <1>7, FrameIsMilder DEF Copied, Frame, At, Quiet, Mid
  <2> QED BY <1>7, <2>1, BlandGoto DEF Copied, Mid, Steps
<1>8. CASE Acquire2(r)
  <2>1. Quiet(r) /\ Milder
        BY <1>8, FrameIsMilder DEF Acquire2, Frame, At, Quiet, Mid
  <2>2. PICK c \in Conns : req' = [req EXCEPT ![r].second = c, ![r].live = FALSE,
                                              ![r].at = "leave"]
        BY <1>8 DEF Acquire2, FreeOf
  <2> DEFINE q == [req[r] EXCEPT !.second = c, !.live = FALSE, !.at = "leave"]
  <2>3. q \in Request /\ q.at = "leave" /\ q.op = req[r].op /\ q.key = req[r].key
        BY <1>1 DEF Request, Steps
  <2>4. req' = [req EXCEPT ![r] = q]
        BY <2>2 DEF Parts, TypeOK
  <2> HIDE DEF q
  <2>5. PlaceOf(q)
        BY <2>3 DEF Parts, Places, PlaceOf
  <2> QED BY <2>1, <2>3, <2>4, <2>5 DEF Bland, Quiet, Follows, Mid
<1>9. CASE Release(r)
      BY <1>9, BlandEnd, FrameIsMilder DEF Release, Frame, At, Quiet, Mid
<1>10. CASE Find(r)
  <2> DEFINE c == entry[req[r].tab]
             q == [req[r] EXCEPT !.pid = c, !.key = c[1], !.at = "acquire",
                                 !.live = Cached(c[1])]
  <2>1. Quiet(r) /\ Milder
        BY <1>10, FrameIsMilder DEF Find, Frame, At, Quiet, Mid
  <2>2. CASE c = None
        BY <1>10, <2>1, <2>2, BlandEnd DEF Find
  <2>3. ASSUME c # None PROVE Bland(r)
    <3>1. req[r].op = "stop" /\ req[r].tab \in Tabs
          BY <1>10 DEF Find, At, Parts, Places, PlaceOf
    <3>2. c \in Conns /\ c[1] \in Keys
          BY <2>3, <3>1 DEF Parts, TypeOK, Conns
    <3>3. Cached(c[1]) \in BOOLEAN
          BY DEF Cached
    <3> HIDE DEF c
    <3>4. q \in Request /\ q.at = "acquire" /\ q.op = "stop"
          BY <1>1, <3>1, <3>2, <3>3 DEF Request, Steps
    <3>5. req' = [req EXCEPT ![r] = q]
          BY <1>10, <2>3 DEF Find, Parts, TypeOK, c
    <3> HIDE DEF q
    <3>6. PlaceOf(q)
          BY <3>4 DEF PlaceOf
    <3> QED BY <2>1, <3>4, <3>5, <3>6 DEF Bland, Quiet, Follows, Mid
  <2> QED BY <2>2, <2>3
<1>11. CASE Peek(r)
  <2>1. Quiet(r) /\ Milder
        BY <1>11, FrameIsMilder DEF Peek, Frame, At, Quiet, Mid
  <2> QED BY <1>11, <2>1, BlandGoto DEF Peek, Mid, Steps
<1>12. CASE Ping(r)
  <2>1. Quiet(r) /\ Milder
        BY <1>12, FrameIsMilder DEF Ping, Frame, At, Quiet, Mid
  <2> QED BY <1>12, <2>1, BlandGoto DEF Ping, Mid, Steps
<1>13. CASE Lock(r)
  <2>1. Quiet(r) /\ Milder
        BY <1>13 DEF Lock, At, Quiet, Milder, Mid, Parts, TypeOK, flags
  <2> QED BY <1>13, <2>1, BlandGoto DEF Lock, Mid, Steps
<1>14. CASE Closed(r)
  <2>1. Quiet(r) /\ Milder
        BY <1>14 DEF Closed, At, Quiet, Milder, Mid, Parts, TypeOK, flags
  <2> QED BY <1>14, <2>1, BlandGoto DEF Closed, Mid, Steps
<1>15. CASE Store(r)
  <2>1. req[r].key \in Keys /\ Srv \in Keys
        BY <1>1 DEF Request, Keys
  <2>2. Milder
        BY <1>15, <2>1 DEF Store, Milder, Parts, TypeOK, Cached, flags
  <2> QED BY <1>15, <2>2, BlandPool DEF Store, At
<1> QED BY <1>2, <1>3, <1>4, <1>5, <1>6, <1>7, <1>8, <1>9, <1>10, <1>11, <1>12, <1>13,
           <1>14, <1>15 DEF BlandStep
-----------------------------------------------------------------------------
(* Steps that touch entries.                                               *)

\* The flags are out of reach of a step that moves requests between steps at
\* which they write no flag.
LEMMA FlagsKept ==
    ASSUME Parts, UNCHANGED flags,
           NEW moving \in SUBSET Reqs,
           \A x \in Reqs \ moving : req'[x] = req[x],
           \A x \in moving : {req[x].at, req'[x].at} \cap Mid = {}
    PROVE  FlagInv'
<1>1. \A x \in Reqs, k \in Keys : MidFlag(x, k)' <=> MidFlag(x, k)
      BY DEF MidFlag, At, Mid
<1>2. \A x \in Reqs : req'[x].at \in Mid => req'[x] = req[x]
      OBVIOUS
<1>3. FlagInv'
      BY <1>1, <1>2 DEF Parts, FlagInv, Raises, Mid, flags
<1> QED BY <1>3

\* A request gets a connection of an open pool.
LEMMA AcquireKeeps == ASSUME Parts, NEW r \in Reqs, Acquire(r) PROVE Parts'
<1>1. req[r] \in Request /\ req \in [Reqs -> Request]
      BY DEF Parts, TypeOK
<1>2. PICK c \in Conns :
        /\ c \notin Held
        /\ req' = [req EXCEPT ![r].conn = c, ![r].live = FALSE,
                              ![r].at = IF req[r].op = "stop" THEN "cancel" ELSE "work"]
        /\ entry' = IF req[r].op = "query" /\ req[r].tab # None
                    THEN [entry EXCEPT ![req[r].tab] = c] ELSE entry
      BY DEF Acquire, FreeOf
<1> DEFINE s == IF req[r].op = "stop" THEN "cancel" ELSE "work"
           q == [req[r] EXCEPT !.conn = c, !.live = FALSE, !.at = s]
<1>3. /\ q \in Request /\ q.op = req[r].op /\ q.key = req[r].key /\ q.tab = req[r].tab
      /\ q.conn = c /\ q.at = s
  <2>1. s \in Steps
        BY DEF Steps
  <2> HIDE DEF s
  <2> QED BY <1>1, <2>1 DEF Request
<1>4. req' = [req EXCEPT ![r] = q]
      BY <1>1, <1>2
<1> HIDE DEF q
<1>5. /\ req'[r] = q
      /\ \A x \in Reqs : x # r => req'[x] = req[x]
      BY <1>1, <1>4
<1>6. req[r].tab \in Tabs \cup {None} /\ req[r].at = "acquire"
      BY <1>1 DEF Request, Acquire, At
<1>7. TypeOK'
  <2>1. req' \in [Reqs -> Request]
        BY <1>1, <1>3, <1>4
  <2>2. entry' \in [Tabs -> Conns \cup {None}]
        BY <1>2 DEF Parts, TypeOK
  <2> QED BY <2>1, <2>2 DEF Parts, TypeOK, Acquire, flags
<1>8. Places'
      BY <1>3, <1>5 DEF Parts, Places, PlaceOf
<1>9. EntryNamesRun'
  <2> SUFFICES ASSUME NEW t \in Tabs, entry'[t] # None
               PROVE  \E x \in Reqs : /\ req'[x].op = "query" /\ req'[x].tab = t
                                     /\ req'[x].at = "work" /\ req'[x].conn = entry'[t]
      BY DEF EntryNamesRun, At
  <2>1. CASE req[r].op = "query" /\ req[r].tab = t
    <3>1. t # None
          BY ServerAssumption
    <3>2. entry'[t] = c
          BY <1>2, <2>1, <3>1 DEF Parts, TypeOK
    <3> QED BY <1>3, <1>5, <2>1, <3>2
  <2>2. CASE ~(req[r].op = "query" /\ req[r].tab = t)
    <3>1. entry'[t] = entry[t]
          BY <1>2, <2>2 DEF Parts, TypeOK
    <3> QED BY <1>5, <1>6, <3>1 DEF Parts, EntryNamesRun, At
  <2> QED BY <2>1, <2>2
<1>10. FlagInv'
  <2>1. \A x \in Reqs \ {r} : req'[x] = req[x]
        BY <1>5
  <2>2. {r} \in SUBSET Reqs /\ \A x \in {r} : {req[x].at, req'[x].at} \cap Mid = {}
        BY <1>3, <1>5, <1>6 DEF Mid
  <2>3. UNCHANGED flags
        BY DEF Acquire
  <2> QED BY <2>1, <2>2, <2>3, FlagsKept
<1> QED BY <1>7, <1>8, <1>9, <1>10 DEF Parts

\* A request removes its entry and returns its connection.
LEMMA FinishKeeps == ASSUME Parts, NEW r \in Reqs, Finish(r) PROVE Parts'
<1>1. req[r] \in Request /\ req \in [Reqs -> Request]
      BY DEF Parts, TypeOK
<1> DEFINE q == [req[r] EXCEPT !.at = "leave"]
<1>2. q \in Request /\ q.at = "leave" /\ q.op = req[r].op /\ q.key = req[r].key
      BY <1>1 DEF Request, Steps
<1>3. req' = [req EXCEPT ![r] = q]
      BY <1>1 DEF Finish, Goto
<1> HIDE DEF q
<1>4. /\ req'[r] = q
      /\ \A x \in Reqs : x # r => req'[x] = req[x]
      BY <1>1, <1>3
<1>5. req[r].tab \in Tabs \cup {None} /\ req[r].at = "work" /\ req[r].op = "query"
      BY <1>1 DEF Request, Finish, At
<1>6. TypeOK'
      BY <1>2, <1>3, <1>5 DEF Parts, TypeOK, Finish, flags
<1>7. Places'
      BY <1>2, <1>4 DEF Parts, Places, PlaceOf
<1>8. EntryNamesRun'
  <2> SUFFICES ASSUME NEW t \in Tabs, entry'[t] # None
               PROVE  \E x \in Reqs : /\ req'[x].op = "query" /\ req'[x].tab = t
                                     /\ req'[x].at = "work" /\ req'[x].conn = entry'[t]
      BY DEF EntryNamesRun, At
  <2>1. t # None
        BY ServerAssumption
  <2>2. req[r].tab # t /\ entry'[t] = entry[t]
        BY <1>5, <2>1 DEF Finish, Parts, TypeOK
  <2> QED BY <1>4, <2>2 DEF Parts, EntryNamesRun, At
<1>9. FlagInv'
  <2>1. \A x \in Reqs \ {r} : req'[x] = req[x]
        BY <1>4
  <2>2. {r} \in SUBSET Reqs /\ \A x \in {r} : {req[x].at, req'[x].at} \cap Mid = {}
        BY <1>2, <1>4, <1>5 DEF Mid
  <2>3. UNCHANGED flags
        BY DEF Finish
  <2> QED BY <2>1, <2>2, <2>3, FlagsKept
<1> QED BY <1>6, <1>7, <1>8, <1>9 DEF Parts

\* A cancelled statement ends with its entry; Stop itself had none.
LEMMA CancelKeeps == ASSUME Parts, NEW r \in Reqs, Cancel(r) PROVE Parts'
<1>1. req \in [Reqs -> Request] /\ req[r].at = "cancel"
      BY DEF Parts, TypeOK, Cancel, At
<1> DEFINE to(x) == IF x = r THEN "leave"
                    ELSE IF req[x].at = "work" /\ req[x].op = "import" THEN "look" ELSE "leave"
<1>2. PICK hit \in SUBSET Victims(r) :
        /\ req' = [x \in Reqs |-> IF x = r THEN [req[r] EXCEPT !.at = "leave"]
                                  ELSE IF x \notin hit THEN req[x]
                                  ELSE [req[x] EXCEPT !.at = IF @ = "work" /\ req[x].op = "import"
                                                             THEN "look" ELSE "leave"]]
        /\ entry' = [t \in Tabs |-> IF \E x \in hit : req[x].op = "query" /\ req[x].tab = t
                                    THEN None ELSE entry[t]]
      BY DEF Cancel
<1>3. hit \subseteq Reqs /\ \A x \in hit : req[x].at = "work"
      BY DEF Victims, At
<1> DEFINE moving == hit \cup {r}
<1>4. \A x \in Reqs \ moving : req'[x] = req[x]
      BY <1>2
<1>5. \A x \in moving : req'[x] = [req[x] EXCEPT !.at = to(x)]
      BY <1>2, <1>3
<1>6. \A x \in moving : /\ req'[x] \in Request /\ req'[x].at \in {"look", "leave"}
                        /\ req'[x].op = req[x].op /\ req'[x].key = req[x].key
  <2> SUFFICES ASSUME NEW x \in moving
               PROVE  /\ req'[x] \in Request /\ req'[x].at \in {"look", "leave"}
                      /\ req'[x].op = req[x].op /\ req'[x].key = req[x].key
      OBVIOUS
  <2>1. req[x] \in Request /\ to(x) \in Steps /\ to(x) \in {"look", "leave"}
        BY <1>1, <1>3 DEF Steps
  <2>2. req'[x] = [req[x] EXCEPT !.at = to(x)]
        BY <1>5
  <2> HIDE DEF to
  <2> QED BY <2>1, <2>2, Moved
<1> HIDE DEF to, moving
<1>7. TypeOK'
  <2>1. \A x \in Reqs : req'[x] \in Request
        BY <1>1, <1>4, <1>6
  <2>2. req' \in [Reqs -> Request]
        BY <1>2, <2>1
  <2> QED BY <1>2, <2>2 DEF Parts, TypeOK, Cancel, flags
<1>8. Places'
      BY <1>4, <1>6 DEF Parts, Places, PlaceOf
<1>9. EntryNamesRun'
  <2> SUFFICES ASSUME NEW t \in Tabs, entry'[t] # None
               PROVE  \E x \in Reqs : /\ req'[x].op = "query" /\ req'[x].tab = t
                                     /\ req'[x].at = "work" /\ req'[x].conn = entry'[t]
      BY DEF EntryNamesRun, At
  <2>1. entry'[t] = entry[t] /\ ~\E x \in hit : req[x].op = "query" /\ req[x].tab = t
        BY <1>2
  <2>2. PICK x \in Reqs : /\ req[x].op = "query" /\ req[x].tab = t
                          /\ req[x].at = "work" /\ req[x].conn = entry[t]
        BY <2>1 DEF Parts, EntryNamesRun, At
  <2>3. x \notin moving
        BY <1>1, <2>1, <2>2 DEF moving
  <2> QED BY <1>4, <2>1, <2>2, <2>3
<1>10. FlagInv'
  <2>1. \A x \in moving : {req[x].at, req'[x].at} \cap Mid = {}
        BY <1>1, <1>3, <1>6 DEF Mid, moving
  <2>2. moving \in SUBSET Reqs /\ UNCHANGED flags
        BY <1>3 DEF Cancel, moving
  <2> QED BY <1>4, <2>1, <2>2, FlagsKept
<1> QED BY <1>7, <1>8, <1>9, <1>10 DEF Parts
-----------------------------------------------------------------------------
(* Steps that write flags or close pools.                                  *)

\* All but the flags and the pools.
LEMMA RestKept ==
    ASSUME Parts, NEW r \in Reqs, NEW q \in Request, req' = [req EXCEPT ![r] = q],
           ~(req[r].at = "work" /\ req[r].op = "query"), PlaceOf(q),
           entry' = entry, pool' = pool, mu' \in Reqs \cup {None},
           mem' \in [Keys -> BOOLEAN], disk' \in [Keys -> BOOLEAN],
           settled' \in [Keys -> BOOLEAN]
    PROVE  /\ TypeOK' /\ Places' /\ EntryNamesRun'
           /\ req'[r] = q
           /\ \A x \in Reqs : x # r => req'[x] = req[x]
<1>1. \A x \in Reqs : req'[x] = IF x = r THEN q ELSE req[x]
      BY DEF Parts, TypeOK
<1>2. TypeOK'
      BY DEF Parts, TypeOK
<1>3. Places'
      BY <1>1 DEF Parts, Places, PlaceOf
<1>4. EntryNamesRun'
      BY <1>1 DEF Parts, EntryNamesRun, At
<1> QED BY <1>1, <1>2, <1>3, <1>4

\* The flag goes to the table: from here on memory may differ.
LEMMA WriteDiskKeeps == ASSUME Parts, NEW r \in Reqs, WriteDisk(r) PROVE Parts'
<1>0. req[r] \in Request /\ req \in [Reqs -> Request] /\ req[r].key \in Keys
      BY DEF Parts, TypeOK, Request
<1> PICK k \in Keys : k = req[r].key
    BY <1>0
<1> PICK raises \in BOOLEAN : raises <=> Raises(r)
    BY DEF Raises
<1>1. req[r].at = "disk"
      BY DEF WriteDisk, At
<1> DEFINE q == [req[r] EXCEPT !.at = "mem"]
<1>2. q \in Request /\ q.at = "mem" /\ q.op = req[r].op /\ q.key = k
      BY <1>0 DEF Request, Steps
<1>3. req' = [req EXCEPT ![r] = q]
      BY <1>0 DEF WriteDisk, Goto
<1> HIDE DEF q
<1>4. PICK done \in BOOLEAN :
        /\ disk' = IF ~done THEN disk ELSE [disk EXCEPT ![k] = raises]
        /\ settled' = [settled EXCEPT ![k] = done /\ ~OthersMid(r, k)]
  <2>1. CASE raises
        BY <2>1 DEF WriteDisk, SetDatabaseDisconnected
  <2>2. CASE ~raises
        BY <2>2 DEF WriteDisk, ClearDatabaseDisconnected
  <2> QED BY <2>1, <2>2
<1> PICK calm \in BOOLEAN : calm <=> done /\ ~OthersMid(r, k)
    OBVIOUS
<1>4a. settled' = [settled EXCEPT ![k] = calm]
      BY <1>4, Zenon
<1>5. disk' \in [Keys -> BOOLEAN] /\ settled' \in [Keys -> BOOLEAN]
      BY <1>4, <1>4a DEF Parts, TypeOK
<1>6. PlaceOf(q)
      BY <1>1, <1>2 DEF Parts, Places, PlaceOf
<1>7. /\ TypeOK' /\ Places' /\ EntryNamesRun'
      /\ req'[r] = q
      /\ \A x \in Reqs : x # r => req'[x] = req[x]
      BY <1>1, <1>2, <1>3, <1>5, <1>6, RestKept DEF WriteDisk, Parts, TypeOK
<1>8. FlagInv'
  <2>1. \A x \in Reqs, j \in Keys : j # k => (MidFlag(x, j)' <=> MidFlag(x, j))
        BY <1>1, <1>2, <1>7 DEF MidFlag, At
  <2>2. \A j \in Keys : j # k => disk'[j] = disk[j] /\ settled'[j] = settled[j]
        BY <1>4, <1>4a DEF Parts, TypeOK
  <2>0. settled'[k] = calm
        BY <1>4a DEF Parts, TypeOK
  <2>3. settled'[k] => (disk'[k] <=> Raises(r)) /\ \A x \in Reqs : x # r => ~MidFlag(x, k)'
        BY <1>4, <1>7, <2>0 DEF Parts, TypeOK, OthersMid, MidFlag, At
  <2>4. MidFlag(r, k)' /\ (Raises(r)' <=> Raises(r))
        BY <1>2, <1>7 DEF MidFlag, At, Raises
  <2>5. \A x \in Reqs : x # r => (Raises(x)' <=> Raises(x))
        BY <1>7 DEF Raises
  <2> SUFFICES ASSUME NEW j \in Keys, settled'[j]
               PROVE  /\ \A y, x \in Reqs : MidFlag(y, j)' /\ MidFlag(x, j)' => y = x
                      /\ \A x \in Reqs : req'[x].at = "mem" /\ req'[x].key = j
                                         => (disk'[j] <=> Raises(x)')
                      /\ \A x \in Reqs : req'[x].at = "clearDisk" /\ j \in Dbs => ~mem'[j]
                      /\ (\A x \in Reqs : ~MidFlag(x, j)') => (mem'[j] <=> disk'[j])
        BY DEF FlagInv
  <2>6. CASE j = k
        BY <1>2, <1>7, <2>3, <2>4, <2>6 DEF MidFlag, At
  <2>7. CASE j # k
        BY <1>2, <1>7, <2>1, <2>2, <2>5, <2>7 DEF Parts, FlagInv, WriteDisk
  <2> QED BY <2>6, <2>7
<1> QED BY <1>7, <1>8 DEF Parts

\* The flag goes to memory: they agree again, unless two writers met.
LEMMA WriteMemKeeps == ASSUME Parts, NEW r \in Reqs, WriteMem(r) PROVE Parts'
<1>0. req[r] \in Request /\ req \in [Reqs -> Request] /\ req[r].key \in Keys
      BY DEF Parts, TypeOK, Request
<1> PICK k \in Keys : k = req[r].key
    BY <1>0
<1> PICK raises \in BOOLEAN : raises <=> Raises(r)
    BY DEF Raises
<1>1. req[r].at = "mem" /\ MidFlag(r, k)
      BY DEF WriteMem, At, MidFlag
<1>2. PICK q \in Request :
        /\ req' = [req EXCEPT ![r] = q]
        /\ q.at \notin Mid \cup {"find"}
        /\ Raises(r) => q.op = req[r].op /\ q.key = req[r].key /\ q.at = "lock"
        /\ ~Raises(r) => q = NoReq
  <2>1. CASE Raises(r)
    <3> DEFINE q == [req[r] EXCEPT !.at = "lock"]
    <3>1. q \in Request /\ q.at = "lock" /\ q.op = req[r].op /\ q.key = k
          BY <1>0 DEF Request, Steps
    <3>2. req' = [req EXCEPT ![r] = q]
          BY <1>0, <2>1 DEF WriteMem, Goto
    <3> HIDE DEF q
    <3> QED BY <2>1, <3>1, <3>2 DEF Mid
  <2>2. CASE ~Raises(r)
        BY <2>2, NoReqType DEF WriteMem, End, Mid
  <2> QED BY <2>1, <2>2
<1>3. mem' = [mem EXCEPT ![k] = raises] /\ mem' \in [Keys -> BOOLEAN]
  <2>0. raises = Raises(r)
        BY Zenon DEF Raises
  <2>1. mem' = [mem EXCEPT ![k] = raises]
        BY <2>0, Zenon DEF WriteMem
  <2> QED BY <2>1 DEF Parts, TypeOK
<1>4. PlaceOf(q)
      BY <1>2, NoReqType DEF Parts, Places, PlaceOf
<1>5. /\ TypeOK' /\ Places' /\ EntryNamesRun'
      /\ req'[r] = q
      /\ \A x \in Reqs : x # r => req'[x] = req[x]
      BY <1>1, <1>2, <1>3, <1>4, RestKept DEF WriteMem, Parts, TypeOK
<1>6. \A x \in Reqs : /\ x = r => req'[x].at \notin Mid
                      /\ x # r => req'[x] = req[x]
      BY <1>2, <1>5
<1>7. FlagInv'
  <2>1. \A x \in Reqs, j \in Keys : MidFlag(x, j)' <=> x # r /\ MidFlag(x, j)
        BY <1>6 DEF MidFlag, At, Mid
  <2>2. \A x \in Reqs : x # r => (Raises(x)' <=> Raises(x))
        BY <1>6 DEF Raises
  <2>3. \A j \in Keys : j # k => mem'[j] = mem[j] /\ ~MidFlag(r, j)
    <3> SUFFICES ASSUME NEW j \in Keys, j # k PROVE mem'[j] = mem[j] /\ ~MidFlag(r, j)
        OBVIOUS
    <3> QED BY <1>1, <1>3 DEF Parts, TypeOK, MidFlag, At
  <2>4. mem'[k] <=> Raises(r)
        BY <1>1, <1>3 DEF Parts, TypeOK
  <2> SUFFICES ASSUME NEW j \in Keys, settled'[j]
               PROVE  /\ \A y, x \in Reqs : MidFlag(y, j)' /\ MidFlag(x, j)' => y = x
                      /\ \A x \in Reqs : req'[x].at = "mem" /\ req'[x].key = j
                                         => (disk'[j] <=> Raises(x)')
                      /\ \A x \in Reqs : req'[x].at = "clearDisk" /\ j \in Dbs => ~mem'[j]
                      /\ (\A x \in Reqs : ~MidFlag(x, j)') => (mem'[j] <=> disk'[j])
        BY DEF FlagInv
  <2>5. settled[j] /\ disk'[j] = disk[j]
        BY DEF WriteMem
  <2>6. CASE j = k
    <3>1. \A x \in Reqs : x # r => ~MidFlag(x, k)
          BY <1>1, <2>5, <2>6 DEF Parts, FlagInv
    <3>2. disk[k] <=> Raises(r)
          BY <1>1, <2>5, <2>6 DEF Parts, FlagInv
    <3>3. \A x \in Reqs : ~MidFlag(x, k)'
          BY <2>1, <3>1
    <3> QED BY <2>4, <2>5, <2>6, <3>2, <3>3 DEF MidFlag, At
  <2>7. CASE j # k
        BY <1>6, <2>1, <2>2, <2>3, <2>5, <2>7 DEF Parts, FlagInv, Mid
  <2> QED BY <2>6, <2>7
<1> QED BY <1>5, <1>7 DEF Parts

\* A pool leaves the map; who points to it will get an error.
LEMMA BeginCloseKeeps == ASSUME Parts, NEW r \in Reqs, BeginClose(r) PROVE Parts'
<1>1. req \in [Reqs -> Request] /\ req[r] \in Request /\ req[r].at = "close"
      BY DEF Parts, TypeOK, BeginClose, At
<1>2. PICK k \in Keys :
        /\ pool' = [pool EXCEPT ![k] = "closing"]
        /\ req' = [x \in Reqs |-> IF x = r THEN [req[r] EXCEPT !.at = "closing"]
                                  ELSE [req[x] EXCEPT !.live = @ /\ req[x].key # k]]
  <2>1. ToClose(r) \subseteq Keys
        BY <1>1 DEF ToClose, Request, Keys
  <2> QED BY <2>1, Zenon DEF BeginClose
<1>3. /\ req'[r] \in Request /\ req'[r].at = "closing"
      /\ req'[r].op = req[r].op /\ req'[r].key = req[r].key
      BY <1>1, <1>2 DEF Request, Steps
<1>4. \A x \in Reqs : x # r =>
        /\ req'[x] \in Request /\ req'[x].at = req[x].at /\ req'[x].op = req[x].op
        /\ req'[x].key = req[x].key /\ req'[x].tab = req[x].tab /\ req'[x].conn = req[x].conn
  <2> SUFFICES ASSUME NEW x \in Reqs, x # r
               PROVE  /\ req'[x] \in Request /\ req'[x].at = req[x].at
                      /\ req'[x].op = req[x].op /\ req'[x].key = req[x].key
                      /\ req'[x].tab = req[x].tab /\ req'[x].conn = req[x].conn
      OBVIOUS
  <2>1. req[x] \in Request
        BY <1>1
  <2> PICK b \in BOOLEAN : b = (req[x].live /\ req[x].key # k)
      OBVIOUS
  <2>2. req'[x] = [req[x] EXCEPT !.live = req[x].live /\ req[x].key # k]
        BY <1>2
  <2>3. req'[x] = [req[x] EXCEPT !.live = b]
        BY <2>2, Zenon
  <2> QED BY <2>1, <2>3 DEF Request
<1>5. TypeOK'
  <2>1. req' \in [Reqs -> Request]
        BY <1>2, <1>3, <1>4
  <2> QED BY <1>2, <2>1 DEF Parts, TypeOK, BeginClose, flags
<1>6. Places'
      BY <1>3, <1>4 DEF Parts, Places, PlaceOf
<1>7. EntryNamesRun'
      BY <1>1, <1>4 DEF Parts, EntryNamesRun, At, BeginClose
<1>8. FlagInv'
  <2>1. \A x \in Reqs : /\ x = r => req[x].at \notin Mid /\ req'[x].at \notin Mid
                        /\ x # r => /\ req'[x].at = req[x].at /\ req'[x].op = req[x].op
                                    /\ req'[x].key = req[x].key
        BY <1>1, <1>3, <1>4 DEF Mid
  <2>2. \A x \in Reqs, j \in Keys : MidFlag(x, j)' <=> MidFlag(x, j)
        BY <2>1 DEF MidFlag, At, Mid
  <2> QED BY <2>1, <2>2 DEF Parts, FlagInv, Raises, Mid, BeginClose, flags
<1> QED BY <1>5, <1>6, <1>7, <1>8 DEF Parts

\* A disconnect that gives mu back leaves no pool, and its databases' flags
\* lowered in memory.
LEMMA UnlockKeeps == ASSUME Parts, NEW r \in Reqs, Unlock(r) PROVE Parts'
<1>1. req[r] \in Request /\ req \in [Reqs -> Request] /\ req[r].at = "close"
      BY DEF Parts, TypeOK, Unlock, At
<1>2. CASE WholeServer(r)
  <2> DEFINE q == [req[r] EXCEPT !.at = "clearDisk"]
  <2>1. q \in Request /\ q.at = "clearDisk" /\ q.op = req[r].op /\ q.key = req[r].key
        BY <1>1 DEF Request, Steps
  <2>2. req' = [req EXCEPT ![r] = q]
        BY <1>1, <1>2 DEF Unlock, Goto
  <2> HIDE DEF q
  <2>3. /\ mem' = [k \in Keys |-> k = Srv /\ mem[k]]
        /\ settled' = [k \in Keys |-> IF k = Srv THEN settled[k] ELSE ~OthersMid(r, k)]
        BY <1>2, Zenon DEF Unlock
  <2>4. PlaceOf(q)
        BY <2>1 DEF Parts, Places, PlaceOf
  <2>5. mem' \in [Keys -> BOOLEAN] /\ mem'[Srv] = mem[Srv] /\ \A k \in Dbs : ~mem'[k]
    <3>1. \A k \in Keys : mem'[k] <=> k = Srv /\ mem[k]
          BY <2>3
    <3>2. \A k \in Keys : mem'[k] \in BOOLEAN
          BY <2>3
    <3>3. mem' \in [Keys -> BOOLEAN]
          BY <2>3, <3>2
    <3> QED BY <3>1, <3>3, ServerAssumption DEF Parts, TypeOK, Keys
  <2>6. /\ settled' \in [Keys -> BOOLEAN] /\ settled'[Srv] = settled[Srv]
        /\ \A k \in Dbs : settled'[k] => ~OthersMid(r, k)
    <3>1. \A k \in Keys : settled'[k] \in BOOLEAN
          BY <2>3 DEF Parts, TypeOK
    <3>2. settled' \in [Keys -> BOOLEAN]
          BY <2>3, <3>1
    <3>3. settled'[Srv] = settled[Srv]
          BY <2>3 DEF Keys
    <3>4. \A k \in Dbs : settled'[k] => ~OthersMid(r, k)
          BY <2>3, ServerAssumption DEF Keys
    <3> QED BY <3>2, <3>3, <3>4
  <2>7. /\ TypeOK' /\ Places' /\ EntryNamesRun'
        /\ req'[r] = q
        /\ \A x \in Reqs : x # r => req'[x] = req[x]
        BY <1>1, <2>1, <2>2, <2>4, <2>5, <2>6, RestKept DEF Unlock, Parts, TypeOK
  <2>8. FlagInv'
    <3>1. \A x \in Reqs, j \in Keys : x # r \/ j = Srv => (MidFlag(x, j)' <=> MidFlag(x, j))
          BY <1>1, <2>1, <2>7, ServerAssumption DEF MidFlag, At
    <3>2. \A x \in Reqs : x # r => (Raises(x)' <=> Raises(x))
          BY <2>7 DEF Raises
    <3> SUFFICES ASSUME NEW j \in Keys, settled'[j]
                 PROVE  /\ \A y, x \in Reqs : MidFlag(y, j)' /\ MidFlag(x, j)' => y = x
                        /\ \A x \in Reqs : req'[x].at = "mem" /\ req'[x].key = j
                                           => (disk'[j] <=> Raises(x)')
                        /\ \A x \in Reqs : req'[x].at = "clearDisk" /\ j \in Dbs => ~mem'[j]
                        /\ (\A x \in Reqs : ~MidFlag(x, j)') => (mem'[j] <=> disk'[j])
        BY DEF FlagInv
    <3>3. CASE j = Srv
          BY <2>1, <2>5, <2>6, <2>7, <3>1, <3>2, <3>3, ServerAssumption
          DEF Parts, FlagInv, Unlock
    <3>4. CASE j \in Dbs
      <4>1. \A x \in Reqs : x # r => ~MidFlag(x, j)'
            BY <2>6, <3>1, <3>4 DEF OthersMid
      <4>2. MidFlag(r, j)' /\ ~mem'[j]
            BY <2>1, <2>5, <2>7, <3>4 DEF MidFlag, At
      <4> QED BY <2>1, <2>7, <4>1, <4>2 DEF MidFlag, At
    <3> QED BY <3>3, <3>4 DEF Keys
  <2> QED BY <2>7, <2>8 DEF Parts
<1>3. CASE ~WholeServer(r)
  <2>1. Quiet(r) /\ End(r) /\ Milder
        BY <1>1, <1>3 DEF Unlock, Quiet, WholeServer, Milder, Mid, Parts, TypeOK, flags
  <2> QED BY <2>1, BlandEnd, BlandKeeps
<1> QED BY <1>2, <1>3

\* The second store follows, or the flag is no longer settled.
LEMMA ClearDiskKeeps == ASSUME Parts, NEW r \in Reqs, ClearDisk(r) PROVE Parts'
<1>1. req[r] \in Request /\ req \in [Reqs -> Request] /\ req[r].at = "clearDisk"
      BY DEF Parts, TypeOK, ClearDisk, At
<1>2. PICK q \in Request :
        req' = [req EXCEPT ![r] = q] /\ q.at \notin Mid /\ PlaceOf(q)
  <2>1. CASE req[r].op = "reconnect"
    <3> DEFINE q == [req[r] EXCEPT !.at = "look"]
    <3>1. q \in Request /\ q.at = "look" /\ q.op = req[r].op /\ q.key = req[r].key
          BY <1>1 DEF Request, Steps
    <3>2. req' = [req EXCEPT ![r] = q]
          BY <1>1, <2>1 DEF ClearDisk, Goto
    <3> HIDE DEF q
    <3>3. PlaceOf(q)
          BY <3>1 DEF Parts, Places, PlaceOf
    <3> QED BY <3>1, <3>2, <3>3 DEF Mid
  <2>2. CASE req[r].op # "reconnect"
        BY <2>2, NoReqType DEF ClearDisk, End, PlaceOf, Mid
  <2> QED BY <2>1, <2>2
<1>3. PICK done \in BOOLEAN :
        /\ disk' = IF done THEN ClearDatabaseDisconnectedForServer ELSE disk
        /\ settled' = [k \in Keys |-> settled[k] /\ (done \/ k = Srv)]
      BY Zenon DEF ClearDisk
<1>4. /\ disk' \in [Keys -> BOOLEAN] /\ disk'[Srv] = disk[Srv]
      /\ done => \A k \in Dbs : ~disk'[k]
      BY <1>3, ServerAssumption DEF ClearDatabaseDisconnectedForServer, Parts, TypeOK, Keys
<1>5. settled' \in [Keys -> BOOLEAN] /\ \A k \in Keys : settled'[k] => settled[k] /\ (done \/ k = Srv)
  <2>1. \A k \in Keys : settled'[k] <=> settled[k] /\ (done \/ k = Srv)
        BY <1>3
  <2>2. \A k \in Keys : settled'[k] \in BOOLEAN
        BY <1>3
  <2>3. settled' \in [Keys -> BOOLEAN]
        BY <1>3, <2>2
  <2> QED BY <2>1, <2>3
<1>6. /\ TypeOK' /\ Places' /\ EntryNamesRun'
      /\ req'[r] = q
      /\ \A x \in Reqs : x # r => req'[x] = req[x]
      BY <1>1, <1>2, <1>4, <1>5, RestKept DEF ClearDisk, Parts, TypeOK
<1>7. FlagInv'
  <2>1. \A x \in Reqs, j \in Keys : MidFlag(x, j)' <=> x # r /\ MidFlag(x, j)
        BY <1>2, <1>6 DEF MidFlag, At, Mid
  <2>2. \A x \in Reqs : x # r => (Raises(x)' <=> Raises(x))
        BY <1>6 DEF Raises
  <2> SUFFICES ASSUME NEW j \in Keys, settled'[j]
               PROVE  /\ \A y, x \in Reqs : MidFlag(y, j)' /\ MidFlag(x, j)' => y = x
                      /\ \A x \in Reqs : req'[x].at = "mem" /\ req'[x].key = j
                                         => (disk'[j] <=> Raises(x)')
                      /\ \A x \in Reqs : req'[x].at = "clearDisk" /\ j \in Dbs => ~mem'[j]
                      /\ (\A x \in Reqs : ~MidFlag(x, j)') => (mem'[j] <=> disk'[j])
        BY DEF FlagInv
  <2>3. settled[j] /\ (done \/ j = Srv) /\ mem' = mem
        BY <1>5 DEF ClearDisk
  <2>4. CASE j = Srv
    <3>1. ~MidFlag(r, j)
          BY <1>1, <2>4, ServerAssumption DEF MidFlag, At
    <3> QED BY <1>2, <1>4, <1>6, <2>1, <2>2, <2>3, <2>4, <3>1 DEF Parts, FlagInv, Mid
  <2>5. CASE j \in Dbs
    <3>1. MidFlag(r, j) /\ ~mem[j]
          BY <1>1, <2>3, <2>5 DEF MidFlag, At, Parts, FlagInv
    <3>2. \A x \in Reqs : ~MidFlag(x, j)'
          BY <2>1, <2>3, <3>1 DEF Parts, FlagInv
    <3>3. ~disk'[j]
          BY <1>4, <2>3, <2>5, ServerAssumption
    <3> QED BY <2>3, <3>1, <3>2, <3>3 DEF MidFlag, At
  <2> QED BY <2>4, <2>5 DEF Keys
<1> QED BY <1>6, <1>7 DEF Parts

\* After a restart memory is what the table says, and nothing runs.
LEMMA RestartKeeps == ASSUME Parts, Restart PROVE Parts'
<1> PICK loaded \in BOOLEAN :
      /\ pool' = [k \in Keys |-> "absent"]
      /\ mu' = None
      /\ mem' = [k \in Keys |-> loaded /\ disk[k]]
      /\ settled' = [k \in Keys |-> loaded]
      /\ entry' = [t \in Tabs |-> None]
      /\ req' = [r \in Reqs |-> NoReq]
      /\ UNCHANGED disk
    BY Zenon DEF Restart
<1>1. mem' \in [Keys -> BOOLEAN] /\ \A k \in Keys : loaded => (mem'[k] <=> disk[k])
  <2>1. \A k \in Keys : mem'[k] \in BOOLEAN
        OBVIOUS
  <2>2. mem' \in [Keys -> BOOLEAN]
        BY <2>1
  <2> QED BY <2>2
<1>2. TypeOK'
      BY <1>1, NoReqType DEF Parts, TypeOK
<1>3. \A r \in Reqs : req'[r] = NoReq
      OBVIOUS
<1>4. Places'
      BY <1>3, NoReqType DEF Places, PlaceOf
<1>5. EntryNamesRun'
      BY DEF EntryNamesRun
<1>6. FlagInv'
      BY <1>1, <1>3, NoReqType DEF FlagInv, MidFlag, At
<1> QED BY <1>2, <1>4, <1>5, <1>6 DEF Parts
-----------------------------------------------------------------------------
\* At the start no pool is open and the flags agree.
LEMMA InitParts == Init => Parts
<1> SUFFICES ASSUME Init PROVE Parts
    OBVIOUS
<1>1. \A r \in Reqs : req[r] = NoReq
      BY DEF Init
<1>2. TypeOK
      BY NoReqType DEF Init, TypeOK
<1>3. Places /\ EntryNamesRun
      BY <1>1, NoReqType DEF Init, Places, PlaceOf, EntryNamesRun
<1>4. FlagInv
      BY <1>1, NoReqType DEF Init, FlagInv, MidFlag, At
<1> QED BY <1>2, <1>3, <1>4 DEF Parts

\* The inductive invariant is kept by every step.
LEMMA NextKeeps == Parts /\ [Next]_vars => Parts'
<1> SUFFICES ASSUME Parts, [Next]_vars PROVE Parts'
    OBVIOUS
<1>1. CASE Restart
      BY <1>1, RestartKeeps
<1>2. ASSUME NEW r \in Reqs, Start(r) \/ Fails(r) \/ TakesTurn(r) \/ GoesOn(r) PROVE Parts'
  <2>1. CASE BlandStep(r)
        BY <2>1, BlandSteps, BlandKeeps
  <2>2. CASE Acquire(r)
        BY <2>2, AcquireKeeps
  <2>3. CASE Finish(r)
        BY <2>3, FinishKeeps
  <2>4. CASE Cancel(r)
        BY <2>4, CancelKeeps
  <2>5. CASE WriteDisk(r)
        BY <2>5, WriteDiskKeeps
  <2>6. CASE WriteMem(r)
        BY <2>6, WriteMemKeeps
  <2>7. CASE BeginClose(r)
        BY <2>7, BeginCloseKeeps
  <2>8. CASE Unlock(r)
        BY <2>8, UnlockKeeps
  <2>9. CASE ClearDisk(r)
        BY <2>9, ClearDiskKeeps
  <2> QED BY <1>2, <2>1, <2>2, <2>3, <2>4, <2>5, <2>6, <2>7, <2>8, <2>9
          DEF TakesTurn, GoesOn, BlandStep
<1>3. CASE UNCHANGED vars
  <2>1. TypeOK'
        BY <1>3 DEF Parts, TypeOK, vars
  <2>2. Places' /\ EntryNamesRun'
        BY <1>3 DEF Parts, Places, PlaceOf, EntryNamesRun, At, vars
  <2>3. FlagInv'
        BY <1>3 DEF Parts, FlagInv, MidFlag, At, Raises, vars
  <2> QED BY <2>1, <2>2, <2>3 DEF Parts
<1> QED BY <1>1, <1>2, <1>3 DEF Next

\* So it holds throughout.
LEMMA PartsAlways == Spec => []Parts
BY InitParts, NextKeeps, PTL DEF Spec
-----------------------------------------------------------------------------
(* Who holds what, and who waits.                                          *)

Closers == {"close", "closing"}

\* The steps at which a request of an operation has a connection.
HoldingSteps(op) ==
    CASE op = "query"  -> {"work", "leave"}
      [] op = "stop"   -> {"cancel", "leave"}
      [] op = "import" -> {"work", "look", "dial", "store", "acquire2", "leave"}
      [] OTHER         -> {}

HoldOf(q) ==
    /\ q.conn # None => q.at \in HoldingSteps(q.op)
    /\ q.second # None => q.at = "leave"
    /\ q.at = "work" => q.op \in {"query", "import"}
    /\ q.at = "acquire" => q.op \in {"query", "import", "stop"}

\* mu is held over several steps by the one request that closes pools, and
\* Close is called on a pool that is in no map any more.
Turns ==
    /\ \A r \in Reqs : /\ req[r].at \in Closers <=> mu = r
                       /\ req[r].at = "closing" => \E k \in Keys : pool[k] = "closing"
                       /\ HoldOf(req[r])

\* A request that takes a step and stays outside of the closing of pools.
LEMMA TurnsMove ==
    ASSUME Parts, Turns, NEW r \in Reqs, NEW q, req' = [req EXCEPT ![r] = q], HoldOf(q),
           q.at \notin Closers, req[r].at \notin Closers, mu' = mu, pool' = pool \/ MuFree
    PROVE  Turns'
<1>1. \A x \in Reqs : req'[x] = IF x = r THEN q ELSE req[x] BY DEF Parts, TypeOK
<1>2. MuFree => \A x \in Reqs : req[x].at \notin Closers BY ServerAssumption DEF MuFree, Turns
<1>3. SUFFICES ASSUME NEW x \in Reqs
      PROVE  /\ req'[x].at \in Closers <=> mu' = x
             /\ req'[x].at = "closing" => \E k \in Keys : pool'[k] = "closing"
             /\ HoldOf(req'[x])
      BY DEF Turns, HoldOf
<1>4. CASE x = r BY <1>1, <1>4 DEF Turns, Closers
<1>5. CASE x # r
  <2>1. req'[x] = req[x] BY <1>1, <1>5
  <2>2. req[x].at = "closing" => pool' = pool BY <1>2 DEF Closers
  <2> QED BY <2>1, <2>2 DEF Turns
<1> QED BY <1>4, <1>5

\* One that ends.
LEMMA TurnsEnd ==
    ASSUME Parts, Turns, NEW r \in Reqs, End(r), req[r].at \notin Closers, mu' = mu, pool' = pool \/ MuFree
    PROVE  Turns'
<1>1. HoldOf(NoReq) /\ NoReq.at \notin Closers BY DEF HoldOf, NoReq, Closers
<1> QED BY <1>1, TurnsMove DEF End

\* An import without a connection that renders its dialog.
LEMMA TurnsRenders ==
    ASSUME Parts, Turns, NEW r \in Reqs, FirstOfImport(r), Renders(r), req[r].at \notin Closers,
           req[r].second = None, mu' = mu, pool' = pool \/ MuFree
    PROVE  Turns'
<1> DEFINE q == [req[r] EXCEPT !.op = "query", !.at = "look", !.live = FALSE]
<1>1. req[r] \in Request BY DEF Parts, TypeOK
<1>2. q.at = "look" /\ q.conn = None /\ q.second = None BY <1>1 DEF Request, FirstOfImport
<1>3. req' = [req EXCEPT ![r] = q] BY DEF Parts, TypeOK, Renders
<1> HIDE DEF q
<1>4. HoldOf(q) /\ q.at \notin Closers BY <1>2 DEF HoldOf, Closers
<1> QED BY <1>3, <1>4, TurnsMove

\* One that goes on with what it holds.
LEMMA TurnsGoto ==
    ASSUME Parts, Turns, NEW r \in Reqs, NEW s, Goto(r, s), req[r].at \notin Closers, s \notin Closers,
           s \notin {"work", "acquire"},
           req[r].conn # None => s \in HoldingSteps(req[r].op), req[r].second # None => s = "leave",
           mu' = mu, pool' = pool \/ MuFree
    PROVE  Turns'
<1> DEFINE q == [req[r] EXCEPT !.at = s]
<1>1. req[r] \in Request BY DEF Parts, TypeOK
<1>2. q.at = s /\ q.op = req[r].op /\ q.conn = req[r].conn /\ q.second = req[r].second BY <1>1 DEF Request
<1>3. req' = [req EXCEPT ![r] = q] BY DEF Parts, TypeOK, Goto
<1> HIDE DEF q
<1>4. HoldOf(q) BY <1>2 DEF HoldOf
<1> QED BY <1>2, <1>3, <1>4, TurnsMove

\* One that gets a pool, or does not.
LEMMA TurnsPool ==
    ASSUME Parts, Turns, NEW r \in Reqs, req[r].at \in {"look", "dial", "store"}, GotPool(r) \/ NoPool(r),
           mu' = mu, pool' = pool \/ MuFree
    PROVE  Turns'
<1>1. req[r] \in Request /\ HoldOf(req[r]) BY DEF Parts, TypeOK, Turns
<1>2. /\ req[r].at \notin Closers /\ req[r].second = None
      /\ req[r].conn # None => req[r].op = "import"
      BY <1>1 DEF Closers, HoldOf, HoldingSteps
<1>3. CASE End(r) BY <1>2, <1>3, TurnsEnd
<1>4. ASSUME NoPool(r), ~End(r) PROVE Turns'
  <2>1. CASE FirstOfImport(r) BY <1>2, <1>4, <2>1, TurnsRenders DEF NoPool
  <2>2. CASE ~FirstOfImport(r)
    <3>1. Goto(r, "disk") /\ req[r].op # "import" BY <1>4, <2>2 DEF NoPool, WithoutPool, End, Goto
    <3> QED BY <3>1, <1>2, TurnsGoto DEF Closers
  <2> QED BY <2>1, <2>2
<1>5. ASSUME GotPool(r), ~End(r) PROVE Turns'
  <2> DEFINE s == WithPool(req[r].op, req[r].conn)
             q == [req[r] EXCEPT !.at = s, !.live = (s # "disk")]
  <2>1. req' = [req EXCEPT ![r] = q] BY <1>5 DEF Parts, TypeOK, GotPool, End
  <2>2. q.at = s /\ q.op = req[r].op /\ q.conn = req[r].conn /\ q.second = req[r].second BY <1>1 DEF Request
  <2>3. /\ s \in {"acquire", "acquire2", "disk", "idle"}
        /\ req[r].conn # None => s = "acquire2"
        /\ s = "acquire" => req[r].op \in {"query", "import"}
        BY <1>2 DEF WithPool
  <2> HIDE DEF q, s
  <2>4. HoldOf(q) BY <1>2, <2>2, <2>3 DEF HoldOf, HoldingSteps
  <2>5. q.at \notin Closers BY <2>2, <2>3 DEF Closers
  <2> QED BY <1>2, <2>1, <2>4, <2>5, TurnsMove
<1> QED BY <1>3, <1>4, <1>5

\* A request starts with no connection and outside of the closing of pools.
LEMMA TurnsStart == ASSUME Parts, Turns, NEW r \in Reqs, Start(r) PROVE Turns'
<1>1. PICK op \in Ops, k \in Keys, t \in Tabs \cup {None}, s \in Steps :
        /\ Starting(r, op, k, t, s)
        /\ s \in {"disk", "peek", "look", "check", "find"}
      BY DEF Start, StartDisconnect, StartReconnect, StartDbDisconnect, StartDbReconnect,
             StartProbe, StartBrowse, StartQuery, StartDialog, StartExport, StartImport, StartStop, Ops, Keys, Steps
<1> DEFINE q == [NoReq EXCEPT !.op = op, !.key = k, !.tab = t, !.at = s]
<1>2. q.at = s /\ q.conn = None /\ q.second = None BY DEF NoReq
<1>3. req' = [req EXCEPT ![r] = q] /\ mu' = mu /\ pool' = pool /\ req[r].at = "idle"
      BY <1>1 DEF Starting, Idle
<1> HIDE DEF q
<1>4. HoldOf(q) /\ q.at \notin Closers BY <1>1, <1>2 DEF HoldOf, Closers
<1>5. req[r].at \notin Closers BY <1>3 DEF Closers
<1> QED BY <1>3, <1>4, <1>5, TurnsMove

\* A request that gets a connection.
LEMMA TurnsAcquire == ASSUME Parts, Turns, NEW r \in Reqs, Acquire(r) \/ Acquire2(r) \/ Find(r) PROVE Turns'
<1>1. req[r] \in Request /\ HoldOf(req[r]) BY DEF Parts, TypeOK, Turns
<1>2. mu' = mu /\ pool' = pool BY DEF Acquire, Acquire2, Find
<1>3. CASE Acquire(r)
  <2>1. PICK c : req' = [req EXCEPT ![r].conn = c, ![r].live = FALSE,
                                    ![r].at = IF req[r].op = "stop" THEN "cancel" ELSE "work"]
        BY <1>3 DEF Acquire
  <2> DEFINE q == [req[r] EXCEPT !.conn = c, !.live = FALSE, !.at = IF req[r].op = "stop" THEN "cancel" ELSE "work"]
  <2>2. req' = [req EXCEPT ![r] = q] BY <2>1 DEF Parts, TypeOK
  <2>3. q.op = req[r].op /\ q.second = req[r].second /\ q.at = IF req[r].op = "stop" THEN "cancel" ELSE "work"
        BY <1>1 DEF Request
  <2>4. req[r].at = "acquire" BY <1>3 DEF Acquire, At
  <2>5. req[r].second = None /\ req[r].op \in {"query", "import", "stop"} BY <1>1, <2>4 DEF HoldOf
  <2> HIDE DEF q
  <2>6. HoldOf(q) BY <2>3, <2>5 DEF HoldOf, HoldingSteps
  <2>7. q.at \notin Closers /\ req[r].at \notin Closers BY <2>3, <2>4 DEF Closers
  <2> QED BY <1>2, <2>2, <2>6, <2>7, TurnsMove
<1>4. CASE Acquire2(r)
  <2>1. PICK c : req' = [req EXCEPT ![r].second = c, ![r].live = FALSE, ![r].at = "leave"]
        BY <1>4 DEF Acquire2
  <2> DEFINE q == [req[r] EXCEPT !.second = c, !.live = FALSE, !.at = "leave"]
  <2>2. req' = [req EXCEPT ![r] = q] BY <2>1 DEF Parts, TypeOK
  <2>3. q.op = req[r].op /\ q.conn = req[r].conn /\ q.at = "leave" BY <1>1 DEF Request
  <2>4. req[r].at = "acquire2" BY <1>4 DEF Acquire2, At
  <2>5. req[r].conn # None => req[r].op = "import" BY <1>1, <2>4 DEF HoldOf, HoldingSteps
  <2> HIDE DEF q
  <2>6. HoldOf(q) BY <2>3, <2>5 DEF HoldOf, HoldingSteps
  <2>7. q.at \notin Closers /\ req[r].at \notin Closers BY <2>3, <2>4 DEF Closers
  <2> QED BY <1>2, <2>2, <2>6, <2>7, TurnsMove
<1>5. CASE Find(r)
  <2> DEFINE c == entry[req[r].tab]
             q == [req[r] EXCEPT !.pid = c, !.key = c[1], !.at = "acquire", !.live = Cached(c[1])]
  <2>1. req[r].at = "find" /\ req[r].op = "stop" BY <1>5 DEF Find, At, Parts, Places, PlaceOf
  <2>2. req[r].at \notin Closers /\ req[r].conn = None /\ req[r].second = None
        BY <1>1, <2>1 DEF HoldOf, HoldingSteps, Closers
  <2>3. CASE End(r) BY <1>2, <2>2, <2>3, TurnsEnd
  <2>4. ASSUME ~End(r) PROVE Turns'
    <3>1. req' = [req EXCEPT ![r].pid = c, ![r].key = c[1], ![r].at = "acquire", ![r].live = Cached(c[1])]
          BY <1>5, <2>4 DEF Find
    <3>2. req' = [req EXCEPT ![r] = q] BY <3>1 DEF Parts, TypeOK
    <3>3. q.op = "stop" /\ q.conn = None /\ q.second = None /\ q.at = "acquire" BY <1>1, <2>1, <2>2 DEF Request
    <3> HIDE DEF q
    <3>4. HoldOf(q) /\ q.at \notin Closers BY <3>3 DEF HoldOf, Closers
    <3> QED BY <1>2, <2>2, <3>2, <3>4, TurnsMove
  <2> QED BY <2>3, <2>4
<1> QED BY <1>3, <1>4, <1>5

\* What Cancel interrupts leaves its statements, as it would have.
LEMMA TurnsCancel == ASSUME Parts, Turns, NEW r \in Reqs, Cancel(r) PROVE Turns'
<1>1. PICK hit \in SUBSET Victims(r) :
        req' = [x \in Reqs |-> IF x = r THEN [req[r] EXCEPT !.at = "leave"]
                               ELSE IF x \notin hit THEN req[x]
                               ELSE [req[x] EXCEPT !.at = IF @ = "work" /\ req[x].op = "import"
                                                          THEN "look" ELSE "leave"]]
      BY DEF Cancel
<1>2. mu' = mu /\ pool' = pool /\ req[r].at = "cancel" BY DEF Cancel, At
<1>3. SUFFICES ASSUME NEW x \in Reqs
      PROVE  /\ req'[x].at \in Closers <=> mu' = x
             /\ req'[x].at = "closing" => \E k \in Keys : pool'[k] = "closing"
             /\ HoldOf(req'[x])
      BY DEF Turns, HoldOf
<1>4. req[x] \in Request /\ HoldOf(req[x]) BY DEF Parts, TypeOK, Turns
<1>5. CASE x = r
  <2>1. req'[x] = [req[x] EXCEPT !.at = "leave"] BY <1>1, <1>5
  <2>2. req'[x].at = "leave" /\ req'[x].op = req[x].op /\ req'[x].conn = req[x].conn BY <2>1, <1>4 DEF Request
  <2>3. req[x].conn # None => req[x].op = "stop" BY <1>2, <1>4, <1>5 DEF HoldOf, HoldingSteps
  <2>4. HoldOf(req'[x]) BY <2>2, <2>3 DEF HoldOf, HoldingSteps
  <2> QED BY <1>2, <1>5, <2>2, <2>4 DEF Turns, Closers
<1>6. CASE x # r /\ x \notin hit
  <2>1. req'[x] = req[x] BY <1>1, <1>6
  <2> QED BY <1>2, <2>1 DEF Turns
<1>7. CASE x # r /\ x \in hit
  <2>1. req[x].at = "work" BY <1>7 DEF Victims, At
  <2>2. req'[x] = [req[x] EXCEPT !.at = IF req[x].op = "import" THEN "look" ELSE "leave"] BY <1>1, <1>7, <2>1
  <2>3. /\ req'[x].at = IF req[x].op = "import" THEN "look" ELSE "leave"
        /\ req'[x].op = req[x].op /\ req'[x].conn = req[x].conn /\ req'[x].second = req[x].second
        BY <2>2, <1>4 DEF Request
  <2>4. req[x].second = None /\ req[x].op \in {"query", "import"} BY <1>4, <2>1 DEF HoldOf
  <2>5. HoldOf(req'[x]) BY <2>3, <2>4 DEF HoldOf, HoldingSteps
  <2> QED BY <1>2, <2>1, <2>3, <2>5 DEF Turns, Closers
<1> QED BY <1>5, <1>6, <1>7

\* mu is taken when it is free, and given back at the end of the loop over
\* the pools.
LEMMA TurnsClose ==
    ASSUME Parts, Turns, NEW r \in Reqs, Lock(r) \/ BeginClose(r) \/ Closed(r) \/ Unlock(r)
    PROVE  Turns'
<1>1. \A x \in Reqs : req[x] \in Request /\ HoldOf(req[x]) BY DEF Parts, TypeOK, Turns
<1>2. r # None BY ServerAssumption
<1>3. SUFFICES ASSUME NEW x \in Reqs
      PROVE  /\ req'[x].at \in Closers <=> mu' = x
             /\ req'[x].at = "closing" => \E k \in Keys : pool'[k] = "closing"
             /\ HoldOf(req'[x])
      BY DEF Turns, HoldOf
<1>h. req[r].at \in {"lock", "close", "closing"} => req[r].conn = None /\ req[r].second = None
      BY <1>1 DEF HoldOf, HoldingSteps
<1>4. CASE Lock(r)
  <2>1. mu = None /\ mu' = r /\ req' = [req EXCEPT ![r].at = "close"] /\ req[r].at = "lock"
        BY <1>4 DEF Lock, MuFree, Goto, At
  <2>2. req'[x] = IF x = r THEN [req[r] EXCEPT !.at = "close"] ELSE req[x] BY <2>1 DEF Parts, TypeOK
  <2>3. req[x].at \notin Closers BY <2>1, ServerAssumption DEF Turns
  <2>4. CASE x = r
    <3>1. /\ req'[x].at = "close" /\ req'[x].op = req[r].op /\ req'[x].conn = None /\ req'[x].second = None
          BY <1>1, <1>h, <2>1, <2>2, <2>4 DEF Request
    <3> QED BY <2>1, <2>4, <3>1 DEF HoldOf, Closers
  <2>5. CASE x # r BY <1>1, <2>1, <2>2, <2>3, <2>5 DEF Closers
  <2> QED BY <2>4, <2>5
<1>5. CASE BeginClose(r)
  <2>1. PICK k \in ToClose(r) :
          /\ pool' = [pool EXCEPT ![k] = "closing"]
          /\ req' = [y \in Reqs |-> IF y = r THEN [req[r] EXCEPT !.at = "closing"]
                                    ELSE [req[y] EXCEPT !.live = @ /\ req[y].key # k]]
        BY <1>5 DEF BeginClose
  <2>2. mu' = mu /\ req[r].at = "close" BY <1>5 DEF BeginClose, At
  <2>3. k \in Keys BY <1>1 DEF ToClose, Request, Keys
  <2>4. pool'[k] = "closing" BY <2>1, <2>3 DEF Parts, TypeOK
  <2>5. mu = r BY <2>2 DEF Turns, Closers
  <2>6. CASE x = r
    <3>1. req'[x] = [req[r] EXCEPT !.at = "closing"] BY <2>1, <2>6
    <3>2. req'[x].at = "closing" /\ req'[x].conn = None /\ req'[x].second = None BY <1>1, <1>h, <2>2, <3>1 DEF Request
    <3> QED BY <2>2, <2>3, <2>4, <2>5, <2>6, <3>2 DEF HoldOf, Closers
  <2>7. CASE x # r
    <3>1. req'[x] = [req[x] EXCEPT !.live = @ /\ req[x].key # k] BY <2>1, <2>7
    <3>2. /\ req'[x].at = req[x].at /\ req'[x].op = req[x].op /\ req'[x].conn = req[x].conn
          /\ req'[x].second = req[x].second BY <1>1, <3>1 DEF Request
    <3>3. req[x].at \notin Closers BY <2>5, <2>7 DEF Turns
    <3>4. HoldOf(req'[x]) BY <1>1, <3>2 DEF HoldOf
    <3> QED BY <2>2, <2>5, <2>7, <3>2, <3>3, <3>4 DEF Closers
  <2> QED BY <2>6, <2>7
<1>6. CASE Closed(r)
  <2>1. mu' = mu /\ req[r].at = "closing" /\ req' = [req EXCEPT ![r].at = "close"] BY <1>6 DEF Closed, Goto, At
  <2>2. req'[x] = IF x = r THEN [req[r] EXCEPT !.at = "close"] ELSE req[x] BY <2>1 DEF Parts, TypeOK
  <2>3. mu = r BY <2>1 DEF Turns, Closers
  <2>4. CASE x = r
    <3>1. req'[x].at = "close" /\ req'[x].conn = None /\ req'[x].second = None
          BY <1>1, <1>h, <2>1, <2>2, <2>4 DEF Request
    <3> QED BY <2>1, <2>3, <2>4, <3>1 DEF HoldOf, Closers
  <2>5. CASE x # r
    <3>1. req[x].at \notin Closers BY <2>3, <2>5 DEF Turns
    <3> QED BY <1>1, <2>1, <2>2, <2>3, <2>5, <3>1 DEF Closers
  <2> QED BY <2>4, <2>5
<1>7. CASE Unlock(r)
  <2>1. mu' = None /\ pool' = pool /\ req[r].at = "close" /\ (Goto(r, "clearDisk") \/ End(r)) BY <1>7 DEF Unlock, At
  <2>2. /\ req'[x] = req[x] \/ (x = r /\ (req'[x] = NoReq \/ req'[x] = [req[r] EXCEPT !.at = "clearDisk"]))
        /\ x = r => req'[x] = NoReq \/ req'[x] = [req[r] EXCEPT !.at = "clearDisk"]
        BY <2>1 DEF Parts, TypeOK, Goto, End
  <2>3. mu = r BY <2>1 DEF Turns, Closers
  <2>4. CASE x = r
    <3>1. req'[x].at \in {"idle", "clearDisk"} /\ req'[x].conn = None /\ req'[x].second = None
          BY <1>1, <1>h, <2>1, <2>2, <2>4 DEF Request, NoReq
    <3> QED BY <1>2, <2>1, <2>4, <3>1 DEF HoldOf, Closers
  <2>5. CASE x # r
    <3>1. req[x].at \notin Closers /\ req'[x] = req[x] BY <2>2, <2>3, <2>5 DEF Turns
    <3> QED BY <1>1, <2>1, <3>1, ServerAssumption DEF Closers
  <2> QED BY <2>4, <2>5
<1> QED BY <1>4, <1>5, <1>6, <1>7

\* Every step leaves mu to the one request that closes pools, and what a request holds to its step.
LEMMA TurnsKeep == Parts /\ Turns /\ [Next]_vars => Turns'
<1> SUFFICES ASSUME Parts, Turns, [Next]_vars PROVE Turns' OBVIOUS
<1>1. CASE Restart
  <2>1. mu' = None /\ req' = [r \in Reqs |-> NoReq] BY <1>1 DEF Restart
  <2> QED BY <2>1, ServerAssumption DEF Turns, NoReq, HoldOf, Closers
<1>2. CASE UNCHANGED vars
  <2>1. mu' = mu /\ req' = req /\ pool' = pool BY <1>2 DEF vars
  <2> QED BY <2>1 DEF Turns, HoldOf
<1>3. ASSUME NEW r \in Reqs, Start(r) \/ Fails(r) \/ TakesTurn(r) \/ GoesOn(r) PROVE Turns'
  <2> DEFINE q == req[r]
  <2>1. q \in Request /\ HoldOf(q) BY DEF Parts, TypeOK, Turns
  <2>2. CASE Start(r) BY <2>2, TurnsStart
  <2>3. CASE Fails(r)
    <3>1. q.at \notin Closers /\ mu' = mu /\ pool' = pool BY <2>3 DEF Fails, At, Closers
    <3>2. q.second = None BY <2>1, <2>3 DEF HoldOf, Fails, At
    <3> QED BY <2>3, <3>1, <3>2, TurnsEnd, TurnsRenders DEF Fails
  <2>4. CASE Acquire(r) \/ Acquire2(r) \/ Find(r) BY <2>4, TurnsAcquire
  <2>5. CASE Lock(r) \/ BeginClose(r) \/ Closed(r) \/ Unlock(r) BY <2>5, TurnsClose
  <2>6. CASE Cancel(r) BY <2>6, TurnsCancel
  <2>7. CASE Check(r) \/ Peek(r) \/ WriteDisk(r) \/ WriteMem(r) \/ Ping(r) \/ ClearDisk(r)
    <3>1. q.at \in {"check", "peek", "disk", "mem", "ping", "clearDisk"} /\ mu' = mu /\ pool' = pool
          BY <2>7 DEF Check, Peek, WriteDisk, WriteMem, Ping, ClearDisk, At
    <3>2. q.conn = None /\ q.second = None /\ q.at \notin Closers BY <2>1, <3>1 DEF HoldOf, HoldingSteps, Closers
    <3>3. \/ End(r) \/ (FirstOfImport(r) /\ Renders(r))
          \/ \E s \in {"look", "ping", "mem", "lock", "disk"} : Goto(r, s)
          BY <2>7 DEF Check, Peek, WriteDisk, WriteMem, Ping, ClearDisk
    <3>4. ASSUME NEW s \in {"look", "ping", "mem", "lock", "disk"}, Goto(r, s) PROVE Turns'
          BY <3>1, <3>2, <3>4, TurnsGoto DEF Closers
    <3> QED BY <3>1, <3>2, <3>3, <3>4, TurnsEnd, TurnsRenders
  <2>8. CASE Look(r) \/ Dial(r) \/ Store(r)
    <3>1. q.at \in {"look", "dial", "store"} /\ mu' = mu /\ (pool' = pool \/ MuFree)
          BY <2>8 DEF Look, Dial, Store, At
    <3>2. /\ q.second = None /\ q.at \notin Closers
          /\ q.conn # None => q.op = "import" BY <2>1, <3>1 DEF HoldOf, HoldingSteps, Closers
    <3>3. GotPool(r) \/ NoPool(r) \/ \E s \in {"dial", "store"} : Goto(r, s) BY <2>8 DEF Look, Dial, Store
    <3>4. ASSUME NEW s \in {"dial", "store"}, Goto(r, s) PROVE Turns'
      <4>1. q.conn # None => s \in HoldingSteps(q.op) BY <3>2, <3>4 DEF HoldingSteps
      <4> QED BY <3>1, <3>2, <3>4, <4>1, TurnsGoto DEF Closers
    <3> QED BY <3>1, <3>3, <3>4, TurnsPool
  <2>9. CASE Finish(r) \/ Copied(r)
    <3>1. /\ q.at = "work" /\ mu' = mu /\ pool' = pool
          /\ (q.op = "query" /\ Goto(r, "leave")) \/ (q.op = "import" /\ Goto(r, "look"))
          BY <2>9 DEF Finish, Copied, At
    <3>2. q.second = None /\ q.at \notin Closers BY <2>1, <3>1 DEF HoldOf, Closers
    <3>3. ASSUME NEW s \in {"leave", "look"}, Goto(r, s), s \in HoldingSteps(q.op) PROVE Turns'
          BY <3>1, <3>2, <3>3, TurnsGoto DEF Closers
    <3> QED BY <3>1, <3>3 DEF HoldingSteps
  <2>10. CASE Release(r)
    <3>1. q.at \notin Closers BY <2>10 DEF Release, At, Closers
    <3> QED BY <2>10, <3>1, TurnsEnd DEF Release
  <2> QED BY <1>3, <2>2, <2>3, <2>4, <2>5, <2>6, <2>7, <2>8, <2>9, <2>10 DEF TakesTurn, GoesOn
<1> QED BY <1>1, <1>2, <1>3 DEF Next

\* Who has a connection goes on, but for the import dialog.
LEMMA HolderGoesOn ==
    ASSUME Parts, Turns, NEW c \in Held, c # None
    PROVE  \E x \in Reqs : Ready(x) \/ HoldsAndWaits(x)
<1>1. PICK x \in Reqs : c = req[x].conn \/ c = req[x].second BY DEF Held
<1> DEFINE q == req[x]
<1>2. q \in Request /\ HoldOf(q) BY DEF Parts, TypeOK, Turns
<1>3. CASE q.at \in {"work", "cancel", "leave", "dial"} BY <1>3 DEF Ready, Idle
<1>4. CASE q.at \notin {"work", "cancel", "leave", "dial"}
  <2>1. c = q.conn /\ q.conn # None BY <1>1, <1>2, <1>4 DEF HoldOf
  <2>2. q.op = "import" /\ q.at \in {"look", "store", "acquire2"} BY <1>2, <1>4, <2>1 DEF HoldOf, HoldingSteps
  <2> QED BY <2>1, <2>2 DEF HoldsAndWaits
<1> QED BY <1>3, <1>4

\* Then some request under way has what it waits for.
LEMMA NobodyStuck == ASSUME Parts, Turns PROVE SomebodyReady
<1> SUFFICES ASSUME NEW r \in Reqs, ~Idle(r), \A x \in Reqs : ~Ready(x), \A x \in Reqs : ~HoldsAndWaits(x)
             PROVE  FALSE
    BY DEF SomebodyReady
<1>1. \A c \in Held : c = None BY HolderGoesOn
<1>2. \A x \in Reqs : req[x] \in Request BY DEF Parts, TypeOK
<1>3. ASSUME NEW x \in Reqs, req[x].at \in Closers PROVE FALSE
  <2>1. CASE req[x].at = "close" BY <2>1 DEF Ready, Idle
  <2>2. CASE req[x].at = "closing"
    <3>1. PICK k \in Keys : pool[k] = "closing" BY <2>2 DEF Turns
    <3>2. \A c \in Held \ {None} : c[1] # k BY <1>1
    <3> QED BY <2>2, <3>1, <3>2 DEF Ready
  <2> QED BY <1>3, <2>1, <2>2 DEF Closers
<1>4. MuFree
  <2>1. mu \in Reqs \cup {None} BY DEF Parts, TypeOK
  <2> QED BY <1>3, <2>1 DEF MuFree, Turns
<1>5. CASE req[r].at \in {"check", "look", "store", "mem", "peek", "lock"} BY <1>4, <1>5 DEF Ready
<1>6. CASE req[r].at \in {"acquire", "acquire2"}
  <2>1. PICK s \in Slots : TRUE BY ServerAssumption
  <2> DEFINE k == req[r].key
             c == <<k, s>>
  <2>2. k \in Keys BY <1>2 DEF Request
  <2>3. c \in Conns /\ c[1] = k BY <2>2 DEF Conns
  <2>4. c # None BY <2>3, ServerAssumption
  <2>5. c \in FreeOf(k) BY <1>1, <2>3, <2>4 DEF FreeOf
  <2> QED BY <1>6, <2>5 DEF Ready
<1>7. CASE req[r].at \in Closers BY <1>3, <1>7
<1>8. CASE req[r].at \notin {"check", "look", "store", "mem", "peek", "lock", "acquire", "acquire2"} \cup Closers
      BY <1>8 DEF Ready, Closers
<1> QED BY <1>5, <1>6, <1>7, <1>8

-----------------------------------------------------------------------------
(* Theorems.                                                               *)

\* The state of server_manager.go and cancel.go keeps its types.
THEOREM TypeCorrect == Spec => []TypeOK
<1>1. Parts => TypeOK
      BY DEF Parts
<1> QED BY <1>1, PartsAlways, PTL

\* What Stop finds in runningQueries is the connection of a run of that tab,
\* whatever ran, failed or was stopped before (registerQuery comes after
\* Acquire, unregisterQuery before Release).
THEOREM EntriesNameRuns == Spec => []EntryNamesRun
<1>1. Parts => EntryNamesRun
      BY DEF Parts
<1> QED BY <1>1, PartsAlways, PTL

\* The disconnected flags in memory are those a restart reads, unless two
\* changes of one overlapped or a write failed since
\* (setDisconnected, setDatabaseDisconnected, dropServerPools).
THEOREM FlagsTogether == Spec => []FlagsAgree
<1>1. ASSUME Parts, NEW k \in Keys, settled[k], \A r \in Reqs : ~MidFlag(r, k)
      PROVE  mem[k] = disk[k]
  <2>1. mem[k] \in BOOLEAN /\ disk[k] \in BOOLEAN
        BY <1>1 DEF Parts, TypeOK
  <2>2. mem[k] <=> disk[k]
        BY <1>1 DEF Parts, FlagInv
  <2> QED BY <2>1, <2>2
<1>2. Parts => FlagsAgree
      BY <1>1 DEF FlagsAgree
<1> QED BY <1>2, PartsAlways, PTL

\* As long as there are requests one of them has not to wait, but for the
\* import dialog that waits for mu while it is on a connection: there is no
\* circle of requests that wait for mu, for a connection and for a pool to
\* close (dropServerPools, dropDatabasePool, cancelQuery).
THEOREM NoCircle == Spec => []SomebodyReady
<1>1. Init => Turns
      BY ServerAssumption DEF Init, Turns, NoReq, HoldOf, Closers
<1>2. Parts /\ Parts' /\ Turns /\ [Next]_vars => Turns'
      BY TurnsKeep
<1>3. Parts /\ Turns => SomebodyReady
      BY NobodyStuck
<1> QED BY <1>1, <1>2, <1>3, PartsAlways, PTL DEF Spec
=============================================================================
