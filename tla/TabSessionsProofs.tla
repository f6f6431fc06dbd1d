------------------------- MODULE TabSessionsProofs -------------------------
(* Theorems about TabSessions, for any tabs, requests, pools and tasks: who  *)
(* holds a connection; what becomes of the pinned sessions, that the limit   *)
(* on them holds, and what becomes of their cursors; and that a connection   *)
(* goes from hand to hand as ConnLease says.                                 *)
EXTENDS TabSessions, TLAPS, FiniteSetTheorems

\* Steps at which a request holds no connection yet.
Before == {"idle", "acquire", "wait"}

\* Where a request is tells what it holds: the pooled connection, and the tab
\* of a script run.
RunShape ==
    \A r \in Runs :
      /\ run[r].at \in Before => run[r].conn = None /\ ~run[r].reuse
      /\ run[r].at \notin Before => run[r].conn \in Conns
      /\ run[r].at \notin Before \cup {"release"} => run[r].tab \in Tabs
      /\ run[r].reuse => run[r].tab \in Tabs

TInv == TypeOK /\ RunShape

USE DEF Before

\* The null values are no tab, connection or pool.
LEMMA NoneApart == None \notin Tabs /\ None \notin Conns /\ None \notin Pools
                   /\ Stale \notin Conns /\ Stale \notin Pools
  BY ConstantsAssumption

\* The records for "nothing" have the types of their fields.
LEMMA RecordsTyped ==
    /\ Fresh \in Backend /\ NoSession \in Session /\ NoCursor \in CursorEntry
    /\ DeadCursor \in CursorEntry /\ NoRun \in Run /\ NoTask \in Task
  BY DEF Fresh, Backend, TxStatus, NoSession, Session, InTx, MaxAge, NoCursor, DeadCursor,
         CursorEntry, NoRun, Run, RunSteps, NoTask, Task, TaskSteps

\* What an exchange leaves a backend in is a state of a backend.
LEMMA AnswersTyped ==
    ASSUME NEW b \in Backend, NEW o \in BOOLEAN
    PROVE  /\ ScriptAnswers(b) \subseteq Backend
           /\ EndAnswers(b, o) \subseteq Backend
           /\ FetchAnswers(b) \subseteq Backend
           /\ DeclareFailures(b) \subseteq Backend
           /\ Declared(b) \in Backend
  <1>1. Lost(b) \in Backend /\ Failed(b) \in Backend /\ Fresh \in Backend
    BY RecordsTyped DEF Lost, Failed, Backend, TxStatus
  <1>2. \A S \in SUBSET Backend : Sent(b, S) \subseteq Backend
    BY <1>1 DEF Sent
  <1>3. ScriptAnswers(b) \subseteq Backend
    BY <1>2 DEF ScriptAnswers
  <1>4. EndAnswers(b, o) \subseteq Backend
    <2>1. [b EXCEPT !.cursor = FALSE] \in Backend
      BY DEF Backend
    <2>2. QED
      BY <1>1, <1>2, <2>1 DEF EndAnswers
  <1>5. FetchAnswers(b) \subseteq Backend
    BY <1>1, <1>2 DEF FetchAnswers
  <1>6. DeclareFailures(b) \subseteq Backend
    <2>1. [tx |-> "aborted", cursor |-> FALSE, app |-> TRUE] \in Backend
      BY DEF Backend, TxStatus
    <2>2. QED
      BY <1>1, <1>2, <2>1 DEF DeclareFailures
  <1>7. Declared(b) \in Backend
    BY DEF Declared, Backend, TxStatus
  <1>8. QED
    BY <1>3, <1>4, <1>5, <1>6, <1>7

\* Releasing a connection keeps the types.
LEMMA ReleaseTyped ==
    ASSUME TInv, NEW c \in Conns, ReleaseConn(c)
    PROVE  /\ cursors' \in [Tabs -> CursorEntry]
           /\ backend' \in [Conns -> Backend]
           /\ free' \in SUBSET Conns
  BY RecordsTyped DEF TInv, TypeOK, ReleaseConn

\* So does the end of a run, pinned or not.
LEMMA FinishTyped ==
    ASSUME TInv, NEW r \in Runs, run[r].at \notin Before, run[r].at # "release",
           NEW b \in Backend, Finish(r, b)
    PROVE  TInv'
  <1> USE NoneApart, RecordsTyped
  <1>1. CASE PinConn(r, b)
    BY <1>1 DEF TInv, TypeOK, RunShape, PinConn, OpenTx, Session, InTx, MaxAge, NoRun, Run, RunSteps
  <1>2. CASE DropConn(r, b)
    BY <1>2 DEF TInv, TypeOK, RunShape, DropConn, Run, RunSteps
  <1>3. QED
    BY <1>1, <1>2 DEF Finish

\* A request that is over.
LEMMA NoRunShape == NoRun \in Run /\ NoRun.at = "idle" /\ NoRun.conn = None /\ NoRun.reuse = FALSE
                    /\ NoRun.tab = None
  BY RecordsTyped DEF NoRun

\* A request that is over leaves the others as they were.
LEMMA RunOver ==
    ASSUME TInv, NEW r \in Runs, run' = [run EXCEPT ![r] = NoRun]
    PROVE  run' \in [Runs -> Run] /\ RunShape'
  BY NoRunShape DEF TInv, TypeOK, RunShape

\* The types at the start.
LEMMA TypeInit == Init => TInv
  BY NoneApart, RecordsTyped DEF Init, TInv, TypeOK, RunShape, NoRun

\* Every step of a request keeps the types.
LEMMA TypeRunStep ==
    ASSUME TInv, NEW r \in Runs, RunStep(r)
    PROVE  TInv'
  <1> USE NoneApart, RecordsTyped
  <1>1. CASE RejectBusy(r) \/ RefuseTx(r) \/ AcquireFails(r)
    BY <1>1, RunOver DEF TInv, TypeOK, RejectBusy, RefuseTx, AcquireFails
  <1>2. CASE ReusePinned(r)
    <2>1. run[r].tab \in Tabs /\ sessions[run[r].tab].conn \in Conns
      BY <1>2 DEF TInv, TypeOK, ReusePinned, AtAcquire, Pinned, Session, Run
    <2>2. [sessions[run[r].tab] EXCEPT !.busy = TRUE, !.age = 0] \in Session
      <3>1. sessions[run[r].tab] \in Session /\ 0 \in 0..MaxAge
        BY <2>1 DEF TInv, TypeOK, MaxAge
      <3>2. QED
        BY <3>1 DEF Session
    <2>3. sessions' \in [Tabs -> Session]
      BY <1>2, <2>1, <2>2 DEF TInv, TypeOK, ReusePinned
    <2> DEFINE new == [run[r] EXCEPT !.at = "lookup", !.reuse = TRUE, !.auto = TRUE,
                                     !.conn = sessions[run[r].tab].conn]
    <2>4. new \in Run /\ new.at = "lookup" /\ new.conn \in Conns /\ new.tab = run[r].tab
      BY <2>1 DEF TInv, TypeOK, Run, RunSteps
    <2>5. run' = [run EXCEPT ![r] = new]
      BY <1>2 DEF ReusePinned
    <2>6. run' \in [Runs -> Run] /\ RunShape'
      BY <2>1, <2>4, <2>5 DEF TInv, TypeOK, RunShape
    <2>7. QED
      BY <1>2, <2>3, <2>6 DEF TInv, TypeOK, ReusePinned
  <1>3. CASE EnterPool(r)
    BY <1>3 DEF TInv, TypeOK, RunShape, EnterPool, AtAcquire, Run, RunSteps
  <1>4. CASE TakeConn(r)
    <2>1. PICK c \in free \cap ConnsOf(run[r].pool) :
            /\ free' = free \ {c}
            /\ backend' = IF run[r].auto THEN backend ELSE [backend EXCEPT ![c].tx = "active"]
            /\ run' = [run EXCEPT ![r] =
                 [@ EXCEPT !.at = IF run[r].tab = None THEN "release" ELSE "lookup",
                           !.conn = c, !.auto = TRUE]]
      BY <1>4 DEF TakeConn
    <2>2. c \in Conns
      BY <2>1 DEF ConnsOf
    <2> DEFINE new == [run[r] EXCEPT !.at = IF run[r].tab = None THEN "release" ELSE "lookup",
                                     !.conn = c, !.auto = TRUE]
    <2>3. /\ new \in Run /\ new.conn = c /\ new.tab = run[r].tab /\ new.reuse = run[r].reuse
          /\ new.at = IF run[r].tab = None THEN "release" ELSE "lookup"
      BY <2>2 DEF TInv, TypeOK, Run, RunSteps
    <2>4. run[r].tab \in Tabs \cup {None}
      BY DEF TInv, TypeOK, Run
    <2>5. run' \in [Runs -> Run] /\ RunShape'
      BY <1>4, <2>1, <2>2, <2>3, <2>4 DEF TInv, TypeOK, RunShape, TakeConn
    <2>6. backend' \in [Conns -> Backend]
      BY <2>1, <2>2 DEF TInv, TypeOK, Backend, TxStatus
    <2>7. QED
      BY <1>4, <2>1, <2>5, <2>6 DEF TInv, TypeOK, TakeConn
  <1>5. CASE LookupCursor(r)
    <2>1. cursors' \in [Tabs -> CursorEntry]
      BY <1>5 DEF TInv, TypeOK, LookupCursor, CursorFor
    <2>2. PICK next \in {"page", "endCursor", "statement"} :
            run' = [run EXCEPT ![r] =
              [@ EXCEPT !.at = next,
                        !.owns = IF next = "endCursor" THEN cursors[run[r].tab].owns ELSE FALSE]]
      BY <1>5 DEF LookupCursor
    <2> DEFINE new == [run[r] EXCEPT !.at = next,
                         !.owns = IF next = "endCursor" THEN cursors[run[r].tab].owns ELSE FALSE]
    <2>3. run[r].at = "lookup" /\ run[r].tab \in Tabs /\ cursors[run[r].tab].owns \in BOOLEAN
      BY <1>5 DEF LookupCursor, TInv, TypeOK, RunShape, CursorEntry
    <2>4. /\ new \in Run /\ new.at = next /\ new.conn = run[r].conn
          /\ new.tab = run[r].tab /\ new.reuse = run[r].reuse
      BY <2>3, ZenonT(60) DEF TInv, TypeOK, Run, RunSteps
    <2>5. run' \in [Runs -> Run] /\ RunShape'
      BY <2>2, <2>3, <2>4 DEF TInv, TypeOK, RunShape
    <2>6. QED
      BY <1>5, <2>1, <2>5 DEF TInv, TypeOK, LookupCursor
  <1>6. CASE EndCursor(r)
    <2>1. run[r].conn \in Conns /\ backend[run[r].conn] \in Backend /\ run[r].owns \in BOOLEAN
      BY <1>6 DEF TInv, TypeOK, RunShape, EndCursor, Run
    <2>2. EndAnswers(backend[run[r].conn], run[r].owns) \subseteq Backend
      BY <2>1, AnswersTyped
    <2>3. backend' \in [Conns -> Backend] /\ cursors' \in [Tabs -> CursorEntry]
      BY <1>6, <2>2 DEF TInv, TypeOK, EndCursor
    <2>4. PICK next \in {"statement", "page"} :
            run' = [run EXCEPT ![r] = [@ EXCEPT !.at = next, !.owns = FALSE]]
      BY <1>6 DEF EndCursor
    <2> DEFINE new == [run[r] EXCEPT !.at = next, !.owns = FALSE]
    <2>5. /\ new \in Run /\ new.at = next /\ new.conn = run[r].conn
          /\ new.tab = run[r].tab /\ new.reuse = run[r].reuse
      BY DEF TInv, TypeOK, Run, RunSteps
    <2>6. run' \in [Runs -> Run] /\ RunShape'
      BY <1>6, <2>4, <2>5 DEF TInv, TypeOK, RunShape, EndCursor
    <2>7. QED
      BY <1>6, <2>3, <2>6 DEF TInv, TypeOK, EndCursor
  <1>7. CASE PageLookup(r)
    <2>1. cursors' \in [Tabs -> CursorEntry]
      BY <1>7 DEF TInv, TypeOK, PageLookup, CursorFor
    <2>2. run' \in [Runs -> Run] /\ RunShape'
      BY <1>7 DEF TInv, TypeOK, RunShape, PageLookup, Run, RunSteps
    <2>3. QED
      BY <1>7, <2>1, <2>2 DEF TInv, TypeOK, PageLookup
  <1>8. CASE MayDeclare(r) \/ RefuseDeclare(r)
    BY <1>8 DEF TInv, TypeOK, RunShape, MayDeclare, RefuseDeclare, Run, RunSteps
  <1>9. CASE DeclareCursor(r)
    <2>1. run[r].conn \in Conns /\ backend[run[r].conn] \in Backend
      BY <1>9 DEF TInv, TypeOK, RunShape, DeclareCursor
    <2>2. backend' \in [Conns -> Backend]
      BY <1>9, <2>1, AnswersTyped DEF TInv, TypeOK, DeclareCursor
    <2>3. [conn |-> run[r].conn, owns |-> backend[run[r].conn].tx = "idle"] \in CursorEntry
      BY <2>1 DEF CursorEntry
    <2>4. cursors' \in [Tabs -> CursorEntry]
      BY <1>9, <2>3 DEF TInv, TypeOK, DeclareCursor
    <2>5. run' \in [Runs -> Run] /\ RunShape'
      BY <1>9, SMTT(30) DEF TInv, TypeOK, RunShape, DeclareCursor, Run, RunSteps
    <2>6. QED
      BY <1>9, <2>2, <2>4, <2>5 DEF TInv, TypeOK, DeclareCursor
  <1>10. CASE Statement(r)
    BY <1>10, AnswersTyped, FinishTyped DEF Statement, TInv, TypeOK, RunShape
  <1>11. CASE FinishRefused(r)
    BY <1>11, FinishTyped DEF FinishRefused, TInv, TypeOK, RunShape
  <1>12. CASE DeclareFails(r)
    BY <1>12, AnswersTyped, FinishTyped DEF DeclareFails, TInv, TypeOK, RunShape
  <1>13. CASE FetchPage(r)
    BY <1>13, AnswersTyped, FinishTyped DEF FetchPage, TInv, TypeOK, RunShape
  <1>14. CASE Release(r)
    BY <1>14, ReleaseTyped, RunOver DEF TInv, TypeOK, RunShape, Release
  <1>15. QED
    BY <1>1, <1>2, <1>3, <1>4, <1>5, <1>6, <1>7, <1>8, <1>9, <1>10, <1>11, <1>12, <1>13, <1>14
       DEF RunStep

\* Taking sessions to end them keeps the types.
LEMMA TakeTyped ==
    ASSUME TInv, NEW e \in Tasks, NEW S \in SUBSET Tabs, NEW d \in BOOLEAN,
           NEW t \in Tabs \cup {None}, NEW p \in Pools \cup {None}, Take(e, S, d, t, p)
    PROVE  TInv'
  <1> DEFINE idle == {x \in {y \in S : Pinned(y)} : ~sessions[x].busy}
  <1>1. {<<x, sessions[x].conn>> : x \in idle} \subseteq Tabs \X Conns
    BY DEF TInv, TypeOK, Session, Pinned
  <1>2. task' \in [Tasks -> Task]
    BY <1>1 DEF Take, TInv, TypeOK, Task, TaskSteps
  <1>3. sessions' \in [Tabs -> Session]
    BY RecordsTyped DEF Take, TInv, TypeOK
  <1>4. QED
    BY <1>2, <1>3 DEF Take, TInv, TypeOK, RunShape

\* Ending a session keeps the types.
LEMMA TypeTaskStep ==
    ASSUME TInv, NEW e \in Tasks, EndStep(e)
    PROVE  TInv'
  <1>1. CASE EndSession(e)
    <2> DEFINE left(t, c) == task[e].todo \ {<<t, c>>}
               new(t, c)  == [task[e] EXCEPT !.todo = left(t, c), !.cur = t]
    <2>1. PICK t \in Tabs, c \in Conns : ReleaseConn(c) /\ task' = [task EXCEPT ![e] = new(t, c)]
      BY <1>1 DEF EndSession
    <2>2. new(t, c) \in Task
      <3>1. task[e] \in Task
        BY DEF TInv, TypeOK
      <3>2. left(t, c) \in SUBSET (Tabs \X Conns)
        BY <3>1 DEF Task
      <3> HIDE DEF left
      <3>3. QED
        BY <3>1, <3>2 DEF Task
    <2>3. task' \in [Tasks -> Task]
      <3> HIDE DEF new
      <3>1. QED
        BY <2>1, <2>2 DEF TInv, TypeOK
    <2>4. QED
      BY <1>1, <2>1, <2>3, ReleaseTyped DEF EndSession, TInv, TypeOK, RunShape
  <1>2. CASE ForgetEnded(e)
    BY <1>2, RecordsTyped DEF ForgetEnded, TInv, TypeOK, RunShape, Task
  <1>3. QED
    BY <1>1, <1>2 DEF EndStep

\* Every step keeps the types, and where a request is fits what it holds.
LEMMA TypeStep == TInv /\ [Next]_vars => TInv'
  <1> SUFFICES ASSUME TInv, [Next]_vars PROVE TInv'
    OBVIOUS
  <1> USE NoneApart, RecordsTyped
  <1>1. ASSUME NEW p \in Pools, OpenPool(p) PROVE TInv'
    BY <1>1 DEF OpenPool, TInv, TypeOK, RunShape
  <1>2. ASSUME NEW r \in Runs, StartRun(r) PROVE TInv'
    <2> DEFINE new(t, p, auto) == [at |-> "acquire", tab |-> t, pool |-> p, auto |-> auto,
                                   conn |-> None, reuse |-> FALSE, owns |-> FALSE]
    <2>1. PICK t \in Tabs \cup {None}, p \in Pools, auto \in BOOLEAN :
            run' = [run EXCEPT ![r] = new(t, p, auto)]
      BY <1>2 DEF StartRun
    <2>2. /\ new(t, p, auto) \in Run /\ new(t, p, auto).at = "acquire"
          /\ new(t, p, auto).conn = None /\ new(t, p, auto).reuse = FALSE
      BY DEF Run, RunSteps
    <2>3. run' \in [Runs -> Run] /\ RunShape'
      <3> HIDE DEF new
      <3>1. QED
        BY <2>1, <2>2 DEF TInv, TypeOK, RunShape
    <2>4. QED
      BY <1>2, <2>3 DEF StartRun, TInv, TypeOK
  <1>3. ASSUME NEW r \in Runs, RunStep(r) PROVE TInv'
    BY <1>3, TypeRunStep
  <1>4. CASE JanitorTick
    BY <1>4, TakeTyped DEF JanitorTick, Tasks
  <1>5. CASE JanitorDone
    BY <1>5 DEF JanitorDone, TInv, TypeOK, RunShape
  <1>6. ASSUME NEW e \in Closers, CloseDone(e) PROVE TInv'
    BY <1>6 DEF CloseDone, TInv, TypeOK, RunShape
  <1>7. ASSUME NEW e \in Closers, NEW t \in Tabs, TxClose(e, t) PROVE TInv'
    BY <1>7, TakeTyped DEF TxClose, Tasks
  <1>8. ASSUME NEW e \in Droppers, BeginClose(e) PROVE TInv'
    <2>1. e \in Tasks /\ [task[e] EXCEPT !.at = "closing"] \in Task
      BY DEF TInv, TypeOK, Tasks, Task, TaskSteps
    <2>2. task' \in [Tasks -> Task] /\ pools' \in [Pools -> {"absent", "open", "closing"}]
      BY <1>8, <2>1 DEF BeginClose, TInv, TypeOK
    <2>3. QED
      BY <1>8, <2>2 DEF BeginClose, TInv, TypeOK, RunShape
  <1>9. ASSUME NEW e \in Droppers, PoolClosed(e) PROVE TInv'
    <2> DEFINE new(r) == [run[r] EXCEPT !.pool = Stale]
    <2>1. \A r \in Runs : /\ new(r) \in Run /\ new(r).at = run[r].at /\ new(r).conn = run[r].conn
                          /\ new(r).tab = run[r].tab /\ new(r).reuse = run[r].reuse
      BY DEF TInv, TypeOK, Run
    <2>2. run' = [r \in Runs |-> IF run[r].pool = task[e].pool THEN new(r) ELSE run[r]]
      BY <1>9 DEF PoolClosed
    <2>3. run' \in [Runs -> Run] /\ RunShape'
      BY <2>1, <2>2 DEF TInv, TypeOK, RunShape
    <2>4. QED
      BY <1>9, <2>3 DEF PoolClosed, TInv, TypeOK
  <1>10. ASSUME NEW e \in Droppers, NEW p \in Pools, DropPool(e, p) PROVE TInv'
    BY <1>10, TakeTyped DEF DropPool, Tasks
  <1>11. ASSUME NEW e \in Tasks, EndStep(e) PROVE TInv'
    BY <1>11, TypeTaskStep
  <1>12. ASSUME NEW t \in Tabs, ReadStatus(t) \/ Grow(t) PROVE TInv'
    <2>1. CASE ReadStatus(t)
      BY <2>1 DEF ReadStatus, TInv, TypeOK, RunShape
    <2>2. CASE Grow(t)
      <3>1. sessions[t].age + 1 \in 0..MaxAge
        BY <2>2 DEF Grow, TInv, TypeOK, Session, MaxAge
      <3>2. sessions' \in [Tabs -> Session]
        BY <2>2, <3>1 DEF Grow, TInv, TypeOK, Session
      <3>3. QED
        BY <2>2, <3>2 DEF Grow, TInv, TypeOK, RunShape
    <2>3. QED
      BY <1>12, <2>1, <2>2
  <1>13. CASE UNCHANGED vars
    BY <1>13 DEF vars, TInv, TypeOK, RunShape
  <1>14. QED
    BY <1>1, <1>2, <1>3, <1>4, <1>5, <1>6, <1>7, <1>8, <1>9, <1>10, <1>11, <1>12, <1>13 DEF Next

\* So they hold throughout.
LEMMA TypeAlways == Spec => []TInv
  <1>1. QED
    BY TypeInit, TypeStep, PTL DEF Spec

\* Every variable keeps its type, whatever the numbers of tabs, requests,
\* connections, pools and tasks.
THEOREM TypeCorrect == Spec => []TypeOK
  <1>1. TInv => TypeOK
    BY DEF TInv
  <1>2. QED
    BY <1>1, TypeAlways, PTL
-----------------------------------------------------------------------------
(* Who holds a connection.  ConnExclusive is not inductive: that a request   *)
(* and a pinned idle session never share a connection follows from what a    *)
(* request says of a session it shares its connection with (TabOrRun).       *)

FreeUnheld ==
    \A c \in free :
      /\ \A r \in Runs : run[r].conn # c
      /\ \A t \in Tabs : sessions[t].conn # c
      /\ \A e \in Tasks, t \in Tabs : <<t, c>> \notin task[e].todo
OneRun == \A r, s \in Runs : run[r].conn # None /\ run[r].conn = run[s].conn => r = s
OneTab == \A t, u \in Tabs : Pinned(t) /\ sessions[t].conn = sessions[u].conn => t = u
OneTask == \A c \in Conns, d, e \in Tasks, t, u \in Tabs :
             <<t, c>> \in task[d].todo /\ <<u, c>> \in task[e].todo => d = e /\ t = u
TabOrTask == \A t, u \in Tabs, e \in Tasks : <<u, sessions[t].conn>> \notin task[e].todo
RunOrTask == \A r \in Runs, u \in Tabs, e \in Tasks : <<u, run[r].conn>> \notin task[e].todo
TabOrRun ==
    \A t \in Tabs, r \in Runs : Pinned(t) /\ sessions[t].conn = run[r].conn =>
      sessions[t].busy /\ run[r].reuse /\ run[r].tab = t /\ run[r].at # "release"

Holders == /\ FreeUnheld /\ OneRun /\ OneTab /\ OneTask
           /\ TabOrTask /\ RunOrTask /\ TabOrRun
           /\ BusyHasRun

\* A task closes its pool with nothing left to end.
TaskShape == \A e \in Tasks : task[e].at # "ending" => task[e].todo = {}

XInv == TInv /\ TaskShape /\ Holders

\* Entries of a task's list name connections, never None.
LEMMA TodoTyped ==
    ASSUME TInv
    PROVE  \A e \in Tasks : task[e].todo \subseteq Tabs \X Conns
  BY DEF TInv, TypeOK, Task

\* A step that changes neither who holds what nor how.
LEMMA SameHolders ==
    ASSUME TInv, Holders, free' = free,
           \A t \in Tabs : /\ sessions'[t].conn = sessions[t].conn
                           /\ sessions'[t].busy = sessions[t].busy,
           \A r \in Runs : /\ run'[r].conn = run[r].conn /\ run'[r].reuse = run[r].reuse
                           /\ run[r].conn # None => run'[r].tab = run[r].tab
                           /\ run'[r].at = "release" => run[r].at = "release",
           \A e \in Tasks : task'[e].todo = task[e].todo
    PROVE  Holders'
  <1>1. FreeUnheld' /\ OneRun' /\ OneTab' /\ OneTask' /\ TabOrTask' /\ RunOrTask'
    BY DEF Holders, FreeUnheld, OneRun, OneTab, OneTask, TabOrTask, RunOrTask, Pinned
  <1>2. TabOrRun'
    BY DEF Holders, TabOrRun, Pinned
  <1>3. BusyHasRun'
    BY DEF Holders, BusyHasRun, Pinned
  <1>4. QED
    BY <1>1, <1>2, <1>3 DEF Holders

\* At the start every connection lies in its pool.
LEMMA HoldersInit == Init => Holders
  BY NoneApart DEF Init, Holders, FreeUnheld, OneRun, OneTab, OneTask, TabOrTask, RunOrTask,
     TabOrRun, BusyHasRun, Pinned, NoSession, NoRun, NoTask

\* A pinned idle session passes to the request that found it.
LEMMA HoldersReuse ==
    ASSUME TInv, Holders, NEW r \in Runs, ReusePinned(r)
    PROVE  Holders'
  <1> DEFINE tab == run[r].tab
             c   == sessions[tab].conn
  <1>1. tab \in Tabs /\ c \in Conns /\ c # None /\ ~sessions[tab].busy
    BY ConstantsAssumption DEF ReusePinned, AtAcquire, Pinned, TInv, TypeOK, Run, Session
  <1>2. \A s \in Runs : run[s].conn # c
    BY <1>1 DEF Holders, TabOrRun, Pinned
  <1>3. /\ run'[r].conn = c /\ run'[r].reuse /\ run'[r].tab = tab /\ run'[r].at # "release"
        /\ \A s \in Runs \ {r} : run'[s] = run[s]
    BY DEF ReusePinned, TInv, TypeOK, Run
  <1>4. /\ sessions'[tab].conn = c /\ sessions'[tab].busy
        /\ \A t \in Tabs : sessions'[t].conn = sessions[t].conn
        /\ \A t \in Tabs \ {tab} : sessions'[t] = sessions[t]
    BY <1>1 DEF ReusePinned, TInv, TypeOK, Session
  <1>5. free' = free /\ task' = task
    BY DEF ReusePinned
  <1>6. FreeUnheld' /\ OneRun' /\ OneTab' /\ OneTask' /\ TabOrTask' /\ RunOrTask'
    BY <1>1, <1>2, <1>3, <1>4, <1>5
       DEF Holders, FreeUnheld, OneRun, OneTab, OneTask, TabOrTask, RunOrTask, Pinned
  <1>7. TabOrRun'
    BY <1>1, <1>2, <1>3, <1>4 DEF Holders, TabOrRun, OneTab, Pinned
  <1>8. BusyHasRun'
    BY <1>1, <1>2, <1>3, <1>4 DEF Holders, BusyHasRun, Pinned
  <1>9. QED
    BY <1>6, <1>7, <1>8 DEF Holders

\* A pooled connection passes to the request that waits for one.
LEMMA HoldersTake ==
    ASSUME TInv, Holders, NEW r \in Runs, TakeConn(r)
    PROVE  Holders'
  <1>1. PICK c \in free \cap ConnsOf(run[r].pool) :
          /\ free' = free \ {c}
          /\ run' = [run EXCEPT ![r] =
               [@ EXCEPT !.at = IF run[r].tab = None THEN "release" ELSE "lookup",
                         !.conn = c, !.auto = TRUE]]
    BY DEF TakeConn
  <1>2. c \in Conns /\ c # None
    BY <1>1, NoneApart DEF ConnsOf
  <1>3. /\ run'[r].conn = c
        /\ \A s \in Runs \ {r} : run'[s] = run[s]
    BY <1>1 DEF TInv, TypeOK, Run
  <1>4. sessions' = sessions /\ task' = task
    BY DEF TakeConn
  <1>5. run[r].conn = None /\ ~run[r].reuse
    BY DEF TakeConn, TInv, RunShape
  <1>6. FreeUnheld' /\ OneRun' /\ OneTab' /\ OneTask' /\ TabOrTask' /\ RunOrTask'
    BY <1>1, <1>2, <1>3, <1>4
       DEF Holders, FreeUnheld, OneRun, OneTab, OneTask, TabOrTask, RunOrTask, Pinned
  <1>7. TabOrRun'
    BY <1>1, <1>3, <1>4 DEF Holders, TabOrRun, FreeUnheld, Pinned
  <1>8. BusyHasRun'
    BY <1>3, <1>4, <1>5 DEF Holders, BusyHasRun, Pinned
  <1>9. QED
    BY <1>6, <1>7, <1>8 DEF Holders

\* The request pins its connection as the session of its tab.
LEMMA HoldersPin ==
    ASSUME TInv, Holders, NEW r \in Runs, NEW b, PinConn(r, b),
           run[r].at \notin Before, run[r].at # "release"
    PROVE  Holders'
  <1> DEFINE tab == run[r].tab
             c   == run[r].conn
  <1>1. tab \in Tabs /\ c \in Conns /\ c # None
    BY NoneApart DEF TInv, RunShape
  <1>2. /\ run'[r].conn = None /\ ~run'[r].reuse
        /\ \A s \in Runs \ {r} : run'[s] = run[s]
    BY DEF PinConn, TInv, TypeOK, NoRun
  <1>3. /\ sessions'[tab].conn = c /\ ~sessions'[tab].busy
        /\ \A t \in Tabs \ {tab} : sessions'[t] = sessions[t]
    BY <1>1 DEF PinConn, TInv, TypeOK
  <1>4. free' = free /\ task' = task
    BY DEF PinConn
  <1>5. \A t \in Tabs \ {tab} : sessions[t].conn # c
    BY <1>1 DEF Holders, TabOrRun, Pinned
  <1>6. \A s \in Runs \ {r} : run[s].conn # c
    BY <1>1 DEF Holders, OneRun
  <1>7. FreeUnheld' /\ OneRun' /\ OneTab' /\ OneTask' /\ TabOrTask' /\ RunOrTask'
    <2>1. \A e \in Tasks, u \in Tabs : <<u, c>> \notin task[e].todo /\ <<u, None>> \notin task[e].todo
      BY NoneApart DEF Holders, RunOrTask, TInv, TypeOK, Task
    <2>2. FreeUnheld' /\ OneRun' /\ OneTab' /\ OneTask'
      BY <1>1, <1>2, <1>3, <1>4, <1>5, <1>6, NoneApart, SMTT(30)
         DEF Holders, FreeUnheld, OneRun, OneTab, OneTask, Pinned, TInv, TypeOK
    <2>3. TabOrTask' /\ RunOrTask'
      BY <1>1, <1>2, <1>3, <1>4, <2>1 DEF Holders, TabOrTask, RunOrTask
    <2>4. QED
      BY <2>2, <2>3
  <1>8. TabOrRun'
    BY <1>1, <1>2, <1>3, <1>6 DEF Holders, TabOrRun, Pinned
  <1>9. BusyHasRun'
    BY <1>1, <1>2, <1>3 DEF Holders, BusyHasRun, Pinned
  <1>10. QED
    BY <1>7, <1>8, <1>9 DEF Holders

\* The request gives its connection up, with the session it may be pinned by.
LEMMA HoldersDrop ==
    ASSUME TInv, Holders, NEW r \in Runs, NEW b, DropConn(r, b),
           run[r].at \notin Before, run[r].at # "release"
    PROVE  Holders'
  <1> DEFINE tab == run[r].tab
             c   == run[r].conn
  <1>1. tab \in Tabs /\ c \in Conns /\ c # None
    BY NoneApart DEF TInv, RunShape
  <1>2. /\ \A s \in Runs : /\ run'[s].conn = run[s].conn /\ run'[s].reuse = run[s].reuse
                           /\ run'[s].tab = run[s].tab
        /\ \A s \in Runs \ {r} : run'[s] = run[s]
    BY DEF DropConn, TInv, TypeOK, Run
  <1>3. free' = free /\ task' = task
    BY DEF DropConn
  <1>4. /\ \A t \in Tabs \ {tab} : sessions'[t] = sessions[t]
        /\ sessions'[tab] = sessions[tab] \/ sessions'[tab].conn = None
        /\ sessions[tab].conn = c /\ run[r].reuse => sessions'[tab].conn = None
    BY <1>1 DEF DropConn, Registered, TInv, TypeOK, NoSession
  <1>5. \A t \in Tabs : sessions'[t].conn # c
    BY <1>1, <1>4 DEF Holders, TabOrRun, Pinned
  <1>6. \A t \in Tabs : sessions'[t].conn = None \/ sessions'[t] = sessions[t]
    BY <1>4
  <1>7. FreeUnheld' /\ OneRun' /\ OneTab' /\ OneTask' /\ TabOrTask' /\ RunOrTask'
    <2>1. \A e \in Tasks, u \in Tabs : <<u, None>> \notin task[e].todo
      BY NoneApart DEF TInv, TypeOK, Task
    <2>2. FreeUnheld' /\ OneRun' /\ OneTab' /\ OneTask'
      BY <1>1, <1>2, <1>3, <1>6, NoneApart
         DEF Holders, FreeUnheld, OneRun, OneTab, OneTask, Pinned, TInv, TypeOK
    <2>3. TabOrTask' /\ RunOrTask'
      BY <1>2, <1>3, <1>6, <2>1 DEF Holders, TabOrTask, RunOrTask
    <2>4. QED
      BY <2>2, <2>3
  <1>8. TabOrRun'
    BY <1>2, <1>5, <1>6 DEF Holders, TabOrRun, Pinned
  <1>9. BusyHasRun'
    BY <1>2, <1>6 DEF Holders, BusyHasRun, Pinned
  <1>10. QED
    BY <1>7, <1>8, <1>9 DEF Holders

\* A request returns its connection, which is pinned by no tab.
LEMMA HoldersRelease ==
    ASSUME TInv, Holders, NEW r \in Runs, Release(r)
    PROVE  Holders'
  <1> DEFINE c == run[r].conn
  <1>1. c \in Conns /\ c # None
    BY NoneApart DEF Release, TInv, RunShape
  <1>2. /\ run'[r].conn = None /\ ~run'[r].reuse
        /\ \A s \in Runs \ {r} : run'[s] = run[s]
    BY DEF Release, TInv, TypeOK, NoRun
  <1>3. free' = free \cup {c} /\ task' = task /\ sessions' = sessions
    BY DEF Release, ReleaseConn
  <1>4. \A s \in Runs : run'[s].conn # c
    BY <1>1, <1>2 DEF Holders, OneRun
  <1>5. \A t \in Tabs : sessions[t].conn # c
    BY <1>1 DEF Holders, TabOrRun, Pinned, Release
  <1>6. \A e \in Tasks, u \in Tabs : <<u, c>> \notin task[e].todo /\ <<u, None>> \notin task[e].todo
    BY NoneApart DEF Holders, RunOrTask, TInv, TypeOK, Task
  <1>7. FreeUnheld' /\ OneRun' /\ OneTab' /\ OneTask'
    <2>1. \A s \in Runs : run'[s].conn = None \/ run'[s] = run[s]
      BY <1>2
    <2>2. \A d \in free : d # None
      BY NoneApart DEF TInv, TypeOK
    <2>3. FreeUnheld'
      BY <1>3, <1>4, <1>5, <1>6, <2>1, <2>2 DEF Holders, FreeUnheld
    <2>4. OneRun' /\ OneTab' /\ OneTask'
      BY <1>3, <2>1 DEF Holders, OneRun, OneTab, OneTask, Pinned
    <2>5. QED
      BY <2>3, <2>4
  <1>8. TabOrTask' /\ RunOrTask'
    BY <1>2, <1>3, <1>6 DEF Holders, TabOrTask, RunOrTask
  <1>9. TabOrRun'
    BY <1>2, <1>3 DEF Holders, TabOrRun, Pinned
  <1>10. BusyHasRun'
    <2>1. \A t \in Tabs : sessions[t].conn = c => FALSE
      BY <1>5
    <2>2. QED
      BY <1>2, <1>3, <2>1 DEF Holders, BusyHasRun, Pinned
  <1>11. QED
    BY <1>7, <1>8, <1>9, <1>10 DEF Holders

\* The idle sessions that a task takes pass from their tabs to its list.
LEMMA HoldersTakeSessions ==
    ASSUME TInv, Holders, NEW e \in Tasks, NEW S \in SUBSET Tabs, NEW d \in BOOLEAN,
           NEW t, NEW p, Take(e, S, d, t, p)
    PROVE  Holders'
  <1> DEFINE idle == {x \in {y \in S : Pinned(y)} : ~sessions[x].busy}
             taken == {<<x, sessions[x].conn>> : x \in idle}
  <1>1. free' = free /\ run' = run
    BY DEF Take
  <1>2. /\ \A x \in Tabs : sessions'[x].conn = None \/ sessions'[x] = sessions[x]
        /\ \A x \in idle : sessions'[x].conn = None
    BY DEF Take, NoSession, TInv, TypeOK
  <1>3. /\ task'[e].todo = taken
        /\ \A f \in Tasks \ {e} : task'[f] = task[f]
    BY DEF Take, TInv, TypeOK
  <1>4. \A u \in Tabs, c \in Conns :
          <<u, c>> \in taken => u \in idle /\ c = sessions[u].conn
    OBVIOUS
  <1>5. \A u \in Tabs, c \in Conns : <<u, c>> \in taken =>
          /\ c \notin free /\ \A r \in Runs : run[r].conn # c
          /\ \A x \in Tabs : sessions'[x].conn # c
          /\ \A f \in Tasks, x \in Tabs : <<x, c>> \notin task[f].todo
    <2> SUFFICES ASSUME NEW u \in Tabs, NEW c \in Conns, <<u, c>> \in taken
                 PROVE  /\ c \notin free /\ \A r \in Runs : run[r].conn # c
                        /\ \A x \in Tabs : sessions'[x].conn # c
                        /\ \A f \in Tasks, x \in Tabs : <<x, c>> \notin task[f].todo
      OBVIOUS
    <2>1. u \in idle /\ c = sessions[u].conn /\ Pinned(u) /\ ~sessions[u].busy /\ c # None
      BY <1>4, NoneApart
    <2> HIDE DEF idle, taken
    <2>2. c \notin free /\ \A r \in Runs : run[r].conn # c
      BY <2>1 DEF Holders, FreeUnheld, TabOrRun
    <2>3. \A x \in Tabs : sessions'[x].conn # c
      BY <2>1, <1>2 DEF Holders, OneTab, Pinned
    <2>4. \A f \in Tasks, x \in Tabs : <<x, c>> \notin task[f].todo
      BY <2>1 DEF Holders, TabOrTask
    <2>5. QED
      BY <2>2, <2>3, <2>4
  <1>6. \A u, v \in Tabs, c \in Conns : <<u, c>> \in taken /\ <<v, c>> \in taken => u = v
    BY <1>4 DEF Holders, OneTab
  <1> HIDE DEF idle, taken
  <1>7. \A c \in Conns, u \in Tabs, f \in Tasks : <<u, c>> \in task'[f].todo =>
          (f = e /\ <<u, c>> \in taken) \/ (f # e /\ <<u, c>> \in task[f].todo)
    BY <1>3
  <1>8. FreeUnheld'
    <2>1. \A c \in free : c \in Conns /\ c # None
      BY NoneApart DEF TInv, TypeOK
    <2>2. QED
      BY <1>1, <1>2, <1>5, <1>7, <2>1 DEF Holders, FreeUnheld
  <1>9. OneRun' /\ OneTab' /\ TabOrRun' /\ BusyHasRun'
    BY <1>1, <1>2 DEF Holders, OneRun, OneTab, TabOrRun, BusyHasRun, Pinned
  <1>10. OneTask'
    BY <1>5, <1>6, <1>7 DEF Holders, OneTask
  <1>11. TabOrTask' /\ RunOrTask'
    <2>1. \A f \in Tasks : task'[f].todo \subseteq Tabs \X Conns
      <3>1. taken \subseteq Tabs \X Conns
        BY DEF idle, taken, TInv, TypeOK, Session, Pinned
      <3>2. QED
        BY <1>3, <3>1, TodoTyped
    <2>2. \A u \in Tabs, f \in Tasks : \A x : <<u, x>> \in task'[f].todo => x \in Conns
      BY <2>1
    <2>3. \A x \in Tabs, u \in Tabs, f \in Tasks : <<u, sessions'[x].conn>> \notin task'[f].todo
      BY <1>2, <1>5, <1>7, <2>2, NoneApart DEF Holders, TabOrTask
    <2>4. \A r \in Runs, u \in Tabs, f \in Tasks : <<u, run[r].conn>> \notin task'[f].todo
      BY <1>5, <1>7, <2>2 DEF Holders, RunOrTask
    <2>5. QED
      BY <1>1, <2>3, <2>4 DEF TabOrTask, RunOrTask
  <1>12. QED
    BY <1>8, <1>9, <1>10, <1>11 DEF Holders

\* A task releases a connection it had taken.
LEMMA HoldersEndSession ==
    ASSUME TInv, Holders, NEW e \in Tasks, EndSession(e)
    PROVE  Holders'
  <1> DEFINE left(t, c) == task[e].todo \ {<<t, c>>}
             new(t, c)  == [task[e] EXCEPT !.todo = left(t, c), !.cur = t]
  <1>1. PICK t \in Tabs, c \in Conns :
          <<t, c>> \in task[e].todo /\ ReleaseConn(c) /\ task' = [task EXCEPT ![e] = new(t, c)]
    BY DEF EndSession
  <1>2. new(t, c).todo = left(t, c)
    BY DEF TInv, TypeOK, Task
  <1> HIDE DEF new
  <1>3. /\ task'[e].todo = left(t, c)
        /\ \A f \in Tasks \ {e} : task'[f] = task[f]
    BY <1>1, <1>2 DEF TInv, TypeOK
  <1>4. sessions' = sessions /\ run' = run /\ free' = free \cup {c}
    BY <1>1 DEF EndSession, ReleaseConn
  <1>5. /\ \A r \in Runs : run[r].conn # c
        /\ \A u \in Tabs : sessions[u].conn # c
    BY <1>1 DEF Holders, RunOrTask, TabOrTask
  <1>6. \A f \in Tasks, u \in Tabs : <<u, c>> \notin task'[f].todo
    BY <1>1, <1>3 DEF Holders, OneTask
  <1>7. \A f \in Tasks : task'[f].todo \subseteq task[f].todo
    BY <1>3
  <1> HIDE DEF left
  <1>8. FreeUnheld'
    BY <1>4, <1>5, <1>6, <1>7 DEF Holders, FreeUnheld
  <1>9. OneRun' /\ OneTab' /\ TabOrRun' /\ BusyHasRun'
    BY <1>4 DEF Holders, OneRun, OneTab, TabOrRun, BusyHasRun, Pinned
  <1>10. OneTask' /\ TabOrTask' /\ RunOrTask'
    BY <1>4, <1>7 DEF Holders, OneTask, TabOrTask, RunOrTask
  <1>11. QED
    BY <1>8, <1>9, <1>10 DEF Holders

\* The end of a run passes its connection to the tab, or keeps it for release.
LEMMA HoldersFinish ==
    ASSUME TInv, Holders, NEW r \in Runs, NEW b, Finish(r, b),
           run[r].at \notin Before, run[r].at # "release"
    PROVE  Holders'
  BY HoldersPin, HoldersDrop DEF Finish

\* Every step of a request leaves each connection one holder.
LEMMA HoldersRunStep ==
    ASSUME TInv, Holders, NEW r \in Runs, RunStep(r)
    PROVE  Holders'
  <1>1. CASE RejectBusy(r) \/ RefuseTx(r) \/ AcquireFails(r)
    <2>1. run[r].conn = None /\ ~run[r].reuse /\ run' = [run EXCEPT ![r] = NoRun]
      BY <1>1 DEF RejectBusy, RefuseTx, AcquireFails, AtAcquire, TInv, RunShape
    <2>2. \A s \in Runs : /\ run'[s].conn = run[s].conn /\ run'[s].reuse = run[s].reuse
                          /\ run[s].conn # None => run'[s].tab = run[s].tab
                          /\ run'[s].at = "release" => run[s].at = "release"
      BY <2>1, NoRunShape DEF TInv, TypeOK, Run
    <2>3. QED
      BY <1>1, <2>2, SameHolders DEF RejectBusy, RefuseTx, AcquireFails
  <1>2. CASE ReusePinned(r)
    BY <1>2, HoldersReuse
  <1>3. CASE EnterPool(r)
    BY <1>3, SameHolders DEF EnterPool, TInv, TypeOK, Run
  <1>4. CASE TakeConn(r)
    BY <1>4, HoldersTake
  <1>5. CASE LookupCursor(r)
    <2>1. /\ \A s \in Runs : /\ run'[s].conn = run[s].conn /\ run'[s].reuse = run[s].reuse
                             /\ run'[s].tab = run[s].tab
                             /\ run'[s].at = "release" => run[s].at = "release"
      BY <1>5 DEF LookupCursor, TInv, TypeOK, Run
    <2>2. QED
      BY <1>5, <2>1, SameHolders DEF LookupCursor
  <1>6. CASE EndCursor(r)
    <2>1. /\ \A s \in Runs : /\ run'[s].conn = run[s].conn /\ run'[s].reuse = run[s].reuse
                             /\ run'[s].tab = run[s].tab
                             /\ run'[s].at = "release" => run[s].at = "release"
      BY <1>6 DEF EndCursor, TInv, TypeOK, Run
    <2>2. QED
      BY <1>6, <2>1, SameHolders DEF EndCursor
  <1>7. CASE PageLookup(r) \/ MayDeclare(r) \/ RefuseDeclare(r) \/ DeclareCursor(r)
    <2>1. /\ \A s \in Runs : /\ run'[s].conn = run[s].conn /\ run'[s].reuse = run[s].reuse
                             /\ run'[s].tab = run[s].tab
                             /\ run'[s].at = "release" => run[s].at = "release"
      BY <1>7 DEF PageLookup, MayDeclare, RefuseDeclare, DeclareCursor, TInv, TypeOK, Run
    <2>2. QED
      BY <1>7, <2>1, SameHolders DEF PageLookup, MayDeclare, RefuseDeclare, DeclareCursor
  <1>8. CASE Statement(r) \/ FinishRefused(r) \/ DeclareFails(r) \/ FetchPage(r)
    BY <1>8, HoldersFinish DEF Statement, FinishRefused, DeclareFails, FetchPage
  <1>9. CASE Release(r)
    BY <1>9, HoldersRelease
  <1>10. QED
    BY <1>1, <1>2, <1>3, <1>4, <1>5, <1>6, <1>7, <1>8, <1>9 DEF RunStep

\* A task goes on to close its pool only after the last session.
LEMMA TaskShapeStep == TInv /\ TaskShape /\ [Next]_vars => TaskShape'
  <1> SUFFICES ASSUME TInv, TaskShape, [Next]_vars PROVE TaskShape'
    OBVIOUS
  <1> USE DEF TaskShape
  <1>1. CASE task' = task
    BY <1>1
  <1>2. ASSUME NEW e \in Tasks, NEW S, NEW d, NEW t, NEW p, Take(e, S, d, t, p) PROVE TaskShape'
    <2>1. task'[e].at = "ending" /\ \A f \in Tasks \ {e} : task'[f] = task[f]
      BY <1>2 DEF Take, TInv, TypeOK
    <2>2. QED
      BY <2>1
  <1>3. ASSUME NEW e \in Tasks, task' = [task EXCEPT ![e] = NoTask] PROVE TaskShape'
    BY <1>3 DEF NoTask, TInv, TypeOK
  <1>4. ASSUME NEW e \in Droppers, BeginClose(e) PROVE TaskShape'
    <2>1. e \in Tasks /\ task[e].todo = {}
      BY <1>4 DEF BeginClose, Ended, Tasks
    <2>2. CASE task' = [task EXCEPT ![e].at = "closing"]
      BY <2>1, <2>2 DEF TInv, TypeOK, Task
    <2>3. QED
      BY <1>3, <1>4, <2>1, <2>2 DEF BeginClose
  <1>5. ASSUME NEW e \in Tasks, EndSession(e) PROVE TaskShape'
    <2>1. task'[e].at = task[e].at /\ task[e].at = "ending"
          /\ \A f \in Tasks \ {e} : task'[f] = task[f]
      BY <1>5 DEF EndSession, TInv, TypeOK, Task
    <2>2. QED
      BY <2>1
  <1>6. ASSUME NEW e \in Tasks, ForgetEnded(e) PROVE TaskShape'
    BY <1>6 DEF ForgetEnded, TInv, TypeOK, Task
  <1>7. ASSUME NEW r \in Runs, RunStep(r) PROVE task' = task
    BY <1>7 DEF RunStep, RejectBusy, ReusePinned, RefuseTx, EnterPool, TakeConn, AcquireFails,
       LookupCursor, EndCursor, Statement, PageLookup, MayDeclare, RefuseDeclare, FinishRefused,
       DeclareCursor, DeclareFails, FetchPage, Release, Finish, PinConn, DropConn
  <1>8. CASE JanitorTick
    BY <1>2, <1>8 DEF JanitorTick, Tasks
  <1>9. CASE JanitorDone
    BY <1>3, <1>9 DEF JanitorDone, Tasks
  <1>10. ASSUME NEW e \in Closers, CloseDone(e) \/ \E t \in Tabs : TxClose(e, t) PROVE TaskShape'
    BY <1>2, <1>3, <1>10 DEF CloseDone, TxClose, Tasks
  <1>11. ASSUME NEW e \in Droppers, PoolClosed(e) \/ \E p \in Pools : DropPool(e, p) PROVE TaskShape'
    BY <1>2, <1>3, <1>11 DEF PoolClosed, DropPool, Tasks
  <1>12. ASSUME NEW e \in Tasks, EndStep(e) PROVE TaskShape'
    BY <1>5, <1>6, <1>12 DEF EndStep
  <1>13. QED
    BY <1>1, <1>4, <1>7, <1>8, <1>9, <1>10, <1>11, <1>12
       DEF Next, OpenPool, StartRun, ReadStatus, Grow, vars

\* Closing a pool moves no connection.
LEMMA PoolClosedHolds ==
    ASSUME TInv, TaskShape, NEW e \in Droppers, PoolClosed(e)
    PROVE  /\ free' = free /\ sessions' = sessions
           /\ \A f \in Tasks : task'[f].todo = task[f].todo
           /\ \A r \in Runs : /\ run'[r].conn = run[r].conn /\ run'[r].reuse = run[r].reuse
                              /\ run'[r].tab = run[r].tab /\ run'[r].at = run[r].at
  <1>1. \A f \in Tasks : task'[f].todo = task[f].todo
    <2>1. e \in Tasks /\ task[e].todo = {}
      BY DEF PoolClosed, TaskShape, Tasks
    <2>2. QED
      BY <2>1 DEF PoolClosed, NoTask, TInv, TypeOK
  <1>2. \A r \in Runs : /\ run'[r].conn = run[r].conn /\ run'[r].reuse = run[r].reuse
                        /\ run'[r].tab = run[r].tab /\ run'[r].at = run[r].at
    BY DEF PoolClosed, TInv, TypeOK, Run
  <1>3. QED
    BY <1>1, <1>2 DEF PoolClosed

\* Every step leaves each connection one holder.
LEMMA HoldersStep == XInv /\ [Next]_vars => Holders'
  <1> SUFFICES ASSUME TInv, TaskShape, Holders, [Next]_vars PROVE Holders'
    BY DEF XInv
  <1>1. ASSUME NEW p \in Pools, OpenPool(p) PROVE Holders'
    BY <1>1, SameHolders DEF OpenPool
  <1>2. ASSUME NEW r \in Runs, StartRun(r) PROVE Holders'
    <2>1. run[r].conn = None /\ ~run[r].reuse
      BY <1>2 DEF StartRun, TInv, RunShape
    <2>2. /\ run'[r].conn = None /\ run'[r].reuse = FALSE /\ run'[r].at = "acquire"
          /\ \A s \in Runs \ {r} : run'[s] = run[s]
      BY <1>2 DEF StartRun, TInv, TypeOK
    <2>3. \A s \in Runs : run'[s].conn = run[s].conn /\ run'[s].reuse = run[s].reuse
      BY <2>1, <2>2 DEF TInv, TypeOK, Run
    <2>4. QED
      BY <1>2, <2>1, <2>2, <2>3, SameHolders DEF StartRun
  <1>3. ASSUME NEW r \in Runs, RunStep(r) PROVE Holders'
    BY <1>3, HoldersRunStep
  <1>4. CASE JanitorTick
    BY <1>4, HoldersTakeSessions DEF JanitorTick, Tasks
  <1>5. CASE JanitorDone
    BY <1>5, SameHolders DEF JanitorDone, Ended, NoTask, TInv, TypeOK, Tasks
  <1>6. ASSUME NEW e \in Closers, CloseDone(e) PROVE Holders'
    BY <1>6, SameHolders DEF CloseDone, Ended, NoTask, TInv, TypeOK, Tasks
  <1>7. ASSUME NEW e \in Closers, NEW t \in Tabs, TxClose(e, t) PROVE Holders'
    BY <1>7, HoldersTakeSessions DEF TxClose, Tasks
  <1>8. ASSUME NEW e \in Droppers, BeginClose(e) PROVE Holders'
    <2>1. e \in Tasks /\ task[e].todo = {}
      BY <1>8 DEF BeginClose, Ended, Tasks
    <2>2. CASE task' = [task EXCEPT ![e] = NoTask]
      BY <1>8, <2>1, <2>2, SameHolders DEF BeginClose, NoTask, TInv, TypeOK
    <2>3. CASE task' = [task EXCEPT ![e].at = "closing"]
      <3>1. \A f \in Tasks : task'[f].todo = task[f].todo
        BY <2>1, <2>3 DEF TInv, TypeOK, Task
      <3>2. QED
        BY <1>8, <3>1, SameHolders DEF BeginClose
    <2>4. QED
      BY <1>8, <2>2, <2>3 DEF BeginClose
  <1>9. ASSUME NEW e \in Droppers, PoolClosed(e) PROVE Holders'
    BY <1>9, PoolClosedHolds, SameHolders
  <1>10. ASSUME NEW e \in Droppers, NEW p \in Pools, DropPool(e, p) PROVE Holders'
    BY <1>10, HoldersTakeSessions DEF DropPool, Tasks
  <1>11. ASSUME NEW e \in Tasks, EndStep(e) PROVE Holders'
    <2>1. CASE EndSession(e)
      BY <2>1, HoldersEndSession
    <2>2. CASE ForgetEnded(e)
      BY <2>2, SameHolders DEF ForgetEnded, TInv, TypeOK, Task
    <2>3. QED
      BY <1>11, <2>1, <2>2 DEF EndStep
  <1>12. ASSUME NEW t \in Tabs, ReadStatus(t) PROVE Holders'
    BY <1>12, SameHolders DEF ReadStatus
  <1>13. ASSUME NEW t \in Tabs, Grow(t) PROVE Holders'
    BY <1>13, SameHolders DEF Grow, TInv, TypeOK, Session
  <1>14. CASE UNCHANGED vars
    BY <1>14, SameHolders DEF vars
  <1>15. QED
    BY <1>1, <1>2, <1>3, <1>4, <1>5, <1>6, <1>7, <1>8, <1>9, <1>10, <1>11, <1>12, <1>13, <1>14
       DEF Next

\* So it is throughout.
LEMMA HoldersAlways == Spec => []XInv
  <1>1. Init => XInv
    <2>1. Init => TaskShape
      BY DEF Init, TaskShape, NoTask
    <2>2. QED
      BY <2>1, TypeInit, HoldersInit DEF XInv
  <1>2. XInv /\ [Next]_vars => XInv'
    BY TypeStep, TaskShapeStep, HoldersStep DEF XInv
  <1>3. QED
    BY <1>1, <1>2, PTL DEF Spec

\* No connection is used by two requests, tabs or tasks at a time, or while it
\* lies in its pool, however requests, janitor, tab closing and disconnecting
\* interleave.
THEOREM ConnectionsExclusive == Spec => []ConnExclusive
  <1>1. XInv => ConnExclusive
    <2> SUFFICES ASSUME XInv, NEW c \in Conns
                 PROVE  /\ c \in free => ~HeldByRun(c) /\ ~HeldByTab(c) /\ ~HeldByTask(c)
                        /\ HeldByTab(c) => ~HeldByRun(c) /\ ~HeldByTask(c)
                        /\ HeldByRun(c) => ~HeldByTask(c)
                        /\ \A r, s \in Runs : run[r].conn = c /\ run[s].conn = c => r = s
                        /\ \A t, u \in Tabs : sessions[t].conn = c /\ sessions[u].conn = c => t = u
                        /\ \A d, e \in Tasks, t, u \in Tabs :
                             <<t, c>> \in task[d].todo /\ <<u, c>> \in task[e].todo
                               => d = e /\ t = u
      BY DEF ConnExclusive
    <2>1. c # None
      BY NoneApart
    <2>2. c \in free => ~HeldByRun(c) /\ ~HeldByTab(c) /\ ~HeldByTask(c)
      BY DEF XInv, Holders, FreeUnheld, HeldByRun, HeldByTab, HeldByTask
    <2>3. HeldByTab(c) => ~HeldByRun(c) /\ ~HeldByTask(c)
      BY <2>1 DEF XInv, Holders, TabOrRun, TabOrTask, HeldByRun, HeldByTab, HeldByTask, Pinned
    <2>4. HeldByRun(c) => ~HeldByTask(c)
      BY DEF XInv, Holders, RunOrTask, HeldByRun, HeldByTask
    <2>5. /\ \A r, s \in Runs : run[r].conn = c /\ run[s].conn = c => r = s
          /\ \A t, u \in Tabs : sessions[t].conn = c /\ sessions[u].conn = c => t = u
      BY <2>1 DEF XInv, Holders, OneRun, OneTab, Pinned
    <2>6. \A d, e \in Tasks, t, u \in Tabs :
            <<t, c>> \in task[d].todo /\ <<u, c>> \in task[e].todo => d = e /\ t = u
      BY DEF XInv, Holders, OneTask
    <2>7. QED
      BY <2>2, <2>3, <2>4, <2>5, <2>6
  <1>2. QED
    BY <1>1, HoldersAlways, PTL

\* A session marked busy always has the request that will unmark it.
THEOREM BusySessionHasRun == Spec => []BusyHasRun
  <1>1. XInv => BusyHasRun
    BY DEF XInv, Holders
  <1>2. QED
    BY <1>1, HoldersAlways, PTL

-----------------------------------------------------------------------------
(* The pinned sessions: a dropped one stays dropped, an idle one is in its  *)
(* transaction, the limit holds; and their cursors.                         *)

USE DEF Before


\* No session appears, changes its connection, its state, or becomes idle.
SessionsKept ==
    \A t \in Tabs : sessions'[t].conn # None =>
      /\ sessions'[t].conn = sessions[t].conn
      /\ sessions'[t].state = sessions[t].state
      /\ ~sessions'[t].busy => ~sessions[t].busy

SomePin == \E r \in Runs, b \in Backend :
             /\ run[r].at \notin Before /\ run[r].at # "release"
             /\ PinConn(r, b)

\* The end of a run pins a session, or only removes one.
LEMMA FinishKeeps ==
    ASSUME TInv, NEW r \in Runs, NEW b \in Backend, Finish(r, b),
           run[r].at \notin Before, run[r].at # "release"
    PROVE  SessionsKept \/ SomePin
  <1>1. CASE PinConn(r, b)
    BY <1>1 DEF SomePin
  <1>2. CASE DropConn(r, b)
    BY <1>2 DEF DropConn, Registered, NoSession, SessionsKept, TInv, TypeOK
  <1>3. QED
    BY <1>1, <1>2 DEF Finish

\* Only finish pins; every other step keeps the sessions or removes some.
LEMMA StepKeeps ==
    ASSUME TInv, [Next]_vars
    PROVE  SessionsKept \/ SomePin
  <1>1. CASE sessions' = sessions
    BY <1>1 DEF SessionsKept
  <1>2. ASSUME NEW r \in Runs, ReusePinned(r) PROVE SessionsKept
    BY <1>2 DEF ReusePinned, SessionsKept, TInv, TypeOK, Session
  <1>3. ASSUME NEW r \in Runs, Statement(r) \/ FinishRefused(r) \/ DeclareFails(r) \/ FetchPage(r)
        PROVE  SessionsKept \/ SomePin
    <2>1. run[r].conn \in Conns /\ backend[run[r].conn] \in Backend
      BY <1>3 DEF Statement, FinishRefused, DeclareFails, FetchPage, TInv, TypeOK, RunShape
    <2>2. \E b \in Backend : Finish(r, b)
      BY <1>3, <2>1, AnswersTyped DEF Statement, FinishRefused, DeclareFails, FetchPage
    <2>3. QED
      BY <1>3, <2>2, FinishKeeps DEF Statement, FinishRefused, DeclareFails, FetchPage
  <1>4. ASSUME NEW r \in Runs, RunStep(r) PROVE SessionsKept \/ SomePin
    BY <1>1, <1>2, <1>3, <1>4
       DEF RunStep, RejectBusy, RefuseTx, EnterPool, TakeConn, AcquireFails, LookupCursor,
           EndCursor, PageLookup, MayDeclare, RefuseDeclare, DeclareCursor, Release
  <1>5. ASSUME NEW e, NEW S, NEW d, NEW t, NEW p, Take(e, S, d, t, p) PROVE SessionsKept
    BY <1>5 DEF Take, NoSession, SessionsKept, TInv, TypeOK
  <1>6. ASSUME NEW t \in Tabs, Grow(t) PROVE SessionsKept
    BY <1>6 DEF Grow, SessionsKept, TInv, TypeOK, Session
  <1>7. ASSUME NEW e \in Tasks, EndStep(e) PROVE sessions' = sessions
    BY <1>7 DEF EndStep, EndSession, ForgetEnded
  <1>8. QED
    BY <1>1, <1>4, <1>5, <1>6, <1>7
       DEF Next, OpenPool, StartRun, JanitorTick, JanitorDone, CloseDone, TxClose, BeginClose,
           PoolClosed, DropPool, ReadStatus, vars

\* What the step that pins does to the sessions.
LEMMA PinEffect ==
    ASSUME TInv, NEW r \in Runs, NEW b \in Backend, PinConn(r, b),
           run[r].at \notin Before, run[r].at # "release"
    PROVE  /\ run[r].tab \in Tabs /\ run[r].conn \in Conns
           /\ sessions'[run[r].tab].conn = run[r].conn /\ sessions'[run[r].tab].state = b.tx
           /\ \A t \in Tabs \ {run[r].tab} : sessions'[t] = sessions[t]
           /\ backend'[run[r].conn] = b
           /\ \A c \in Conns \ {run[r].conn} : backend'[c] = backend[c]
           /\ run[r].reuse => sessions[run[r].tab].conn = run[r].conn
           /\ ~run[r].reuse => ~Full(run[r].pool)
  BY DEF PinConn, OpenTx, OverLimit, Registered, TInv, TypeOK, RunShape
-----------------------------------------------------------------------------
\* A session that a disconnect removes while its query runs is not pinned
\* again by the end of that query, nor is its connection by any other step.
THEOREM DroppedSessionGone == Spec => DroppedStaysDropped
  <1> DEFINE Gone == \A r \in Runs : run[r].reuse /\ ~Registered(r) =>
                       sessions'[run[r].tab].conn # run[r].conn
  <1>1. XInv /\ [Next]_vars => Gone
    <2> SUFFICES ASSUME XInv, [Next]_vars, NEW r \in Runs, run[r].reuse, ~Registered(r)
                 PROVE  sessions'[run[r].tab].conn # run[r].conn
      OBVIOUS
    <2>1. /\ run[r].tab \in Tabs /\ run[r].conn \in Conns /\ run[r].conn # None
          /\ sessions[run[r].tab].conn # run[r].conn
      BY NoneApart DEF XInv, TInv, RunShape, Registered
    <2>2. CASE SessionsKept
      BY <2>1, <2>2 DEF SessionsKept
    <2>3. CASE SomePin
      <3>1. PICK q \in Runs, b \in Backend :
              run[q].at \notin Before /\ run[q].at # "release" /\ PinConn(q, b)
        BY <2>3 DEF SomePin
      <3>2. q # r
        BY <2>1, <3>1, PinEffect DEF XInv
      <3>3. run[q].conn # run[r].conn
        BY <2>1, <3>2 DEF XInv, Holders, OneRun
      <3>4. QED
        BY <2>1, <3>1, <3>3, PinEffect DEF XInv
    <2>4. QED
      BY <2>2, <2>3, StepKeeps DEF XInv
  <1>2. QED
    BY <1>1, HoldersAlways, PTL DEF Spec, DroppedStaysDropped
-----------------------------------------------------------------------------
\* A backend changes only in the hands of a request, a task, or the pool.
LEMMA BackendKept ==
    ASSUME TInv, [Next]_vars, NEW c \in Conns, c \notin free,
           \A r \in Runs : run[r].conn # c,
           \A e \in Tasks, t \in Tabs : <<t, c>> \notin task[e].todo
    PROVE  backend'[c] = backend[c]
  <1>1. CASE backend' = backend
    BY <1>1
  <1>2. ASSUME NEW r \in Runs, RunStep(r) PROVE backend'[c] = backend[c]
    <2>1. CASE TakeConn(r)
      BY <2>1 DEF TakeConn, TInv, TypeOK, ConnsOf
    <2>2. ASSUME NEW b, Finish(r, b) PROVE backend'[c] = backend[c]
      BY <2>2 DEF Finish, PinConn, DropConn, TInv, TypeOK
    <2>3. CASE Release(r) \/ EndCursor(r) \/ DeclareCursor(r)
      BY <2>3 DEF Release, ReleaseConn, EndCursor, DeclareCursor, TInv, TypeOK
    <2>4. QED
      BY <1>1, <1>2, <2>1, <2>2, <2>3
         DEF RunStep, RejectBusy, ReusePinned, RefuseTx, EnterPool, AcquireFails, LookupCursor,
             Statement, PageLookup, MayDeclare, RefuseDeclare, FinishRefused, DeclareFails, FetchPage
  <1>3. ASSUME NEW e \in Tasks, EndStep(e) PROVE backend'[c] = backend[c]
    BY <1>3 DEF EndStep, EndSession, ForgetEnded, ReleaseConn, TInv, TypeOK
  <1>4. QED
    BY <1>1, <1>2, <1>3
       DEF Next, OpenPool, StartRun, JanitorTick, JanitorDone, CloseDone, TxClose, BeginClose,
           PoolClosed, DropPool, Take, ReadStatus, Grow, vars

\* The state a pinned idle session reports to its tab is the one its
\* connection is in.
THEOREM SessionsInTx == Spec => []SessionInTx
  <1>1. Init => SessionInTx
    BY DEF Init, SessionInTx, Pinned, NoSession
  <1>2. XInv /\ SessionInTx /\ [Next]_vars => SessionInTx'
    <2> SUFFICES ASSUME XInv, SessionInTx, [Next]_vars, NEW t \in Tabs,
                        sessions'[t].conn # None, ~sessions'[t].busy
                 PROVE  backend'[sessions'[t].conn].tx = sessions'[t].state
      BY DEF SessionInTx, Pinned
    <2> USE DEF XInv
    <2>1. ASSUME sessions'[t].conn = sessions[t].conn, ~sessions[t].busy
          PROVE  /\ sessions[t].conn \in Conns
                 /\ backend'[sessions[t].conn] = backend[sessions[t].conn]
                 /\ \A r \in Runs : run[r].conn # sessions[t].conn
      <3>1. sessions[t].conn \in Conns
        BY <2>1 DEF TInv, TypeOK, Session
      <3>2. /\ sessions[t].conn \notin free
            /\ \A r \in Runs : run[r].conn # sessions[t].conn
            /\ \A e \in Tasks, u \in Tabs : <<u, sessions[t].conn>> \notin task[e].todo
        BY <2>1, <3>1 DEF Holders, FreeUnheld, TabOrRun, TabOrTask, Pinned
      <3>3. QED
        BY <3>1, <3>2, BackendKept
    <2>2. CASE SessionsKept
      BY <2>1, <2>2 DEF SessionsKept, SessionInTx, Pinned
    <2>3. CASE SomePin
      <3>1. PICK q \in Runs, b \in Backend :
              run[q].at \notin Before /\ run[q].at # "release" /\ PinConn(q, b)
        BY <2>3 DEF SomePin
      <3>2. CASE t = run[q].tab
        BY <3>1, <3>2, PinEffect
      <3>3. CASE t # run[q].tab
        BY <2>1, <3>1, <3>3, PinEffect DEF SessionInTx, Pinned
      <3>4. QED
        BY <3>2, <3>3
    <2>4. QED
      BY <2>2, <2>3, StepKeeps
  <1>3. QED
    BY <1>1, <1>2, HoldersAlways, PTL DEF Spec
-----------------------------------------------------------------------------
(* The limit.  A request that has to respect it must still know the pool of  *)
(* its connection: the pool it asked for cannot have been closed meanwhile.  *)

PoolKnown == \A r \in Runs : run[r].conn # None /\ ~run[r].reuse
                               => run[r].pool = PoolOf[run[r].conn]

\* A request that uses an unpinned connection still knows the pool of it.
LEMMA PoolKnownStep ==
    ASSUME XInv, PoolKnown, [Next]_vars
    PROVE  PoolKnown'
  <1> USE DEF XInv
  <1>1. ASSUME \A r \in Runs : /\ run'[r].conn \in {None, run[r].conn}
                               /\ run'[r].conn # None => run'[r].reuse = run[r].reuse
                                                         /\ run'[r].pool = run[r].pool
        PROVE  PoolKnown'
    BY <1>1 DEF PoolKnown
  <1>2. CASE run' = run
    BY <1>1, <1>2
  <1>3. ASSUME NEW r \in Runs, StartRun(r) PROVE PoolKnown'
    BY <1>3 DEF StartRun, PoolKnown, TInv, TypeOK
  <1>4. ASSUME NEW r \in Runs, run' = [run EXCEPT ![r] = NoRun] PROVE PoolKnown'
    BY <1>1, <1>4, NoRunShape DEF TInv, TypeOK
  <1>5. ASSUME NEW r \in Runs, NEW at, run' = [run EXCEPT ![r].at = at] PROVE PoolKnown'
    BY <1>1, <1>5 DEF TInv, TypeOK, Run
  <1>6. ASSUME NEW r \in Runs, NEW b, Finish(r, b) PROVE PoolKnown'
    BY <1>4, <1>5, <1>6 DEF Finish, PinConn, DropConn
  <1>7. ASSUME NEW r \in Runs, ReusePinned(r) PROVE PoolKnown'
    BY <1>7 DEF ReusePinned, PoolKnown, TInv, TypeOK, Run
  <1>8. ASSUME NEW r \in Runs, TakeConn(r) PROVE PoolKnown'
    BY <1>8 DEF TakeConn, ConnsOf, PoolKnown, TInv, TypeOK, Run
  <1>9. ASSUME NEW r \in Runs, LookupCursor(r) \/ EndCursor(r) PROVE PoolKnown'
    <2>1. ASSUME NEW at, NEW owns, run' = [run EXCEPT ![r] = [@ EXCEPT !.at = at, !.owns = owns]]
          PROVE  PoolKnown'
      BY <2>1 DEF PoolKnown, TInv, TypeOK, Run
    <2>2. QED
      BY <1>9, <2>1 DEF LookupCursor, EndCursor
  <1>10. ASSUME NEW r \in Runs, RunStep(r) PROVE PoolKnown'
    BY <1>4, <1>5, <1>6, <1>7, <1>8, <1>9, <1>10
       DEF RunStep, RejectBusy, RefuseTx, EnterPool, AcquireFails, Statement, PageLookup,
           MayDeclare, RefuseDeclare, FinishRefused, DeclareCursor, DeclareFails, FetchPage, Release
  <1>11. ASSUME NEW e \in Droppers, PoolClosed(e) PROVE PoolKnown'
    <2>1. \A r \in Runs : run[r].conn # None /\ ~run[r].reuse => run'[r] = run[r]
      <3> SUFFICES ASSUME NEW r \in Runs, run[r].conn # None, ~run[r].reuse,
                          run[r].pool = task[e].pool
                   PROVE  FALSE
        BY <1>11 DEF PoolClosed
      <3>1. run[r].conn \in Conns
        BY DEF TInv, TypeOK, Run
      <3>2. run[r].conn \in ConnsOf(task[e].pool)
        BY <3>1 DEF PoolKnown, ConnsOf
      <3>3. QED
        BY <1>11, <3>1, <3>2 DEF PoolClosed, Holders, FreeUnheld
    <2>2. \A r \in Runs : run'[r].conn = run[r].conn /\ run'[r].reuse = run[r].reuse
      BY <1>11 DEF PoolClosed, TInv, TypeOK, Run
    <2>3. QED
      BY <2>1, <2>2 DEF PoolKnown
  <1>12. ASSUME NEW e \in Tasks, EndStep(e) PROVE run' = run
    BY <1>12 DEF EndStep, EndSession, ForgetEnded
  <1>13. QED
    BY <1>2, <1>3, <1>10, <1>11, <1>12
       DEF Next, OpenPool, JanitorTick, JanitorDone, CloseDone, TxClose, BeginClose,
           DropPool, Take, ReadStatus, Grow, vars

\* The pinned tabs of a pool can be counted.
LEMMA PinnedFinite ==
    ASSUME NEW p
    PROVE  /\ IsFiniteSet(PinnedTabs(p)) /\ Cardinality(PinnedTabs(p)) \in Nat
           /\ MaxPinned(p) \in Nat
  <1>1. IsFiniteSet(PinnedTabs(p)) /\ IsFiniteSet(ConnsOf(p))
    BY ConstantsAssumption, FS_Subset DEF PinnedTabs, ConnsOf
  <1>2. QED
    BY <1>1, FS_CardinalityType DEF MaxPinned

\* A set with one element more at most has one more at most.
LEMMA OneMore ==
    ASSUME NEW S, IsFiniteSet(S), NEW x, NEW T \in SUBSET (S \cup {x})
    PROVE  Cardinality(T) \in Nat /\ Cardinality(T) <= Cardinality(S) + 1
  <1>1. /\ IsFiniteSet(S \cup {x}) /\ Cardinality(S \cup {x}) \in Nat /\ Cardinality(S) \in Nat
        /\ Cardinality(S \cup {x}) = IF x \in S THEN Cardinality(S) ELSE Cardinality(S) + 1
    BY FS_AddElement, FS_CardinalityType
  <1>2. IsFiniteSet(T) /\ Cardinality(T) <= Cardinality(S \cup {x})
    BY <1>1, FS_Subset
  <1>3. QED
    BY <1>1, <1>2, FS_CardinalityType

\* At most maxPinned sessions are pinned on the connections of a pool: finish
\* tests the limit again, which the tests on entry do not guarantee.
THEOREM PinnedLimit == Spec => []PinnedWithinLimit
  <1> DEFINE IInv == PoolKnown /\ PinnedWithinLimit
  <1>1. Init => IInv
    <2> SUFFICES ASSUME Init PROVE IInv
      OBVIOUS
    <2>1. \A p : PinnedTabs(p) = {}
      BY DEF Init, PinnedTabs, Pinned, NoSession
    <2>2. PinnedWithinLimit
      BY <2>1, PinnedFinite, FS_EmptySet DEF PinnedWithinLimit
    <2>3. PoolKnown
      BY DEF Init, PoolKnown, NoRun
    <2>4. QED
      BY <2>2, <2>3
  <1>2. XInv /\ IInv /\ [Next]_vars => IInv'
    <2> SUFFICES ASSUME XInv, PoolKnown, PinnedWithinLimit, [Next]_vars, NEW p \in Pools
                 PROVE  Cardinality(PinnedTabs(p)') <= MaxPinned(p)
      BY PoolKnownStep DEF PinnedWithinLimit, MaxPinned, ConnsOf
    <2> USE DEF XInv
    <2>1. Cardinality(PinnedTabs(p)) <= MaxPinned(p)
      BY DEF PinnedWithinLimit
    <2>2. ASSUME PinnedTabs(p)' \subseteq PinnedTabs(p)
          PROVE  Cardinality(PinnedTabs(p)') <= MaxPinned(p)
      <3>1. Cardinality(PinnedTabs(p)') <= Cardinality(PinnedTabs(p))
        BY <2>2, PinnedFinite, FS_Subset
      <3>2. Cardinality(PinnedTabs(p)') \in Nat
        BY <2>2, PinnedFinite, FS_Subset, FS_CardinalityType
      <3>3. QED
        BY <2>1, <3>1, <3>2, PinnedFinite
    <2>3. CASE SessionsKept
      BY <2>2, <2>3 DEF SessionsKept, PinnedTabs, Pinned
    <2>4. CASE SomePin
      <3>1. PICK q \in Runs, b \in Backend :
              run[q].at \notin Before /\ run[q].at # "release" /\ PinConn(q, b)
        BY <2>4 DEF SomePin
      <3> DEFINE tab == run[q].tab
      <3>2. \A t \in Tabs \ {tab} : t \in PinnedTabs(p)' <=> t \in PinnedTabs(p)
        BY <3>1, PinEffect DEF PinnedTabs, Pinned
      <3>3. tab \in Tabs /\ run[q].conn # None
        BY <3>1, PinEffect, NoneApart
      <3>4. CASE run[q].reuse \/ PoolOf[run[q].conn] # p
        BY <2>2, <3>1, <3>2, <3>4, PinEffect DEF PinnedTabs, Pinned
      <3>5. CASE ~run[q].reuse /\ PoolOf[run[q].conn] = p
        <4>1. ~Full(p)
          BY <3>1, <3>3, <3>5, PinEffect DEF PoolKnown
        <4>2. Cardinality(PinnedTabs(p)) + 1 <= MaxPinned(p)
          BY <4>1, PinnedFinite DEF Full
        <4>3. PinnedTabs(p)' \subseteq PinnedTabs(p) \cup {tab}
          BY <3>2 DEF PinnedTabs
        <4>4. /\ Cardinality(PinnedTabs(p)') <= Cardinality(PinnedTabs(p)) + 1
              /\ Cardinality(PinnedTabs(p)') \in Nat
          BY <4>3, PinnedFinite, OneMore
        <4>5. QED
          BY <4>2, <4>4, PinnedFinite
      <3>6. QED
        BY <3>4, <3>5
    <2>5. QED
      BY <2>3, <2>4, StepKeeps
  <1>3. IInv => PinnedWithinLimit
    OBVIOUS
  <1>4. QED
    BY <1>1, <1>2, <1>3, HoldersAlways, PTL DEF Spec
-----------------------------------------------------------------------------
(* Cursors.  The entry of a tab names a connection that is the tab's, and    *)
(* agrees with its backend until that connection is about to be released.   *)

EntryHeld ==
    \A t \in Tabs : cursors[t].conn \in Conns =>
      /\ cursors[t].conn \notin free
      /\ \A r \in Runs : run[r].conn = cursors[t].conn => run[r].tab = t
      /\ \A u \in Tabs : sessions[u].conn = cursors[t].conn => u = t

Finds(b) == b.tx \in {"idle", "active"} => b.cursor
OwnTx(b) == b.tx \in InTx => b.app

EntryBackend ==
    \A t \in Tabs : cursors[t].conn \in Conns =>
      /\ (\A r \in Runs : run[r].conn = cursors[t].conn => run[r].at # "release")
           => Finds(backend[cursors[t].conn])
      /\ cursors[t].owns => OwnTx(backend[cursors[t].conn])

\* Steps at which the tab's entry is not the run's.
NoEntry == {"statement", "declare", "open", "finish"}

\* What a request knows of its tab's entry and of its own backend.
CursorOf(r) ==
    /\ run[r].at \in NoEntry => cursors[run[r].tab].conn # run[r].conn
    /\ run[r].at = "endCursor" =>
         /\ cursors[run[r].tab].conn = run[r].conn => cursors[run[r].tab].owns = run[r].owns
         /\ run[r].owns => OwnTx(backend[run[r].conn])
    /\ run[r].at = "fetch" => Finds(backend[run[r].conn])

CInv == EntryHeld /\ EntryBackend /\ \A r \in Runs : CursorOf(r)

USE DEF NoEntry

\* Connections that entries still name, and the requests that use them, are
\* left alone: the entries stay right.
LEMMA EntriesKept ==
    ASSUME XInv, CInv,
           \A t \in Tabs : cursors'[t].conn \in Conns =>
             /\ cursors'[t] = cursors[t]
             /\ cursors[t].conn \notin free'
             /\ backend'[cursors[t].conn] = backend[cursors[t].conn]
             /\ \A r \in Runs : run[r].conn = cursors[t].conn /\ run[r].at = "release"
                                  => run'[r].conn = cursors[t].conn /\ run'[r].at = "release",
           \A r \in Runs : run'[r].conn \in Conns =>
             \/ run'[r].conn = run[r].conn /\ run'[r].tab = run[r].tab
             \/ run'[r].conn \in free
             \/ run'[r].tab \in Tabs /\ sessions[run'[r].tab].conn = run'[r].conn,
           \A u \in Tabs : sessions'[u].conn \in Conns =>
             \/ sessions'[u].conn = sessions[u].conn
             \/ \E r \in Runs : run[r].conn = sessions'[u].conn /\ run[r].tab = u
    PROVE  EntryHeld' /\ EntryBackend'
  <1>1. EntryHeld'
    <2> SUFFICES ASSUME NEW t \in Tabs, cursors'[t].conn \in Conns
                 PROVE  /\ cursors'[t].conn \notin free'
                        /\ \A r \in Runs : run'[r].conn = cursors'[t].conn => run'[r].tab = t
                        /\ \A u \in Tabs : sessions'[u].conn = cursors'[t].conn => u = t
      BY DEF EntryHeld
    <2>1. /\ cursors'[t] = cursors[t] /\ cursors[t].conn \in Conns /\ cursors[t].conn \notin free
          /\ \A r \in Runs : run[r].conn = cursors[t].conn => run[r].tab = t
          /\ \A u \in Tabs : sessions[u].conn = cursors[t].conn => u = t
      BY DEF CInv, EntryHeld
    <2>2. QED
      BY <2>1
  <1>2. EntryBackend'
    BY DEF CInv, EntryBackend
  <1>3. QED
    BY <1>1, <1>2

\* What belongs to a request that uses a connection.
LEMMA InHand ==
    ASSUME XInv, CInv, NEW r \in Runs, run[r].at \notin Before
    PROVE  /\ run[r].conn \in Conns /\ run[r].conn \notin free
           /\ \A s \in Runs : run[s].conn = run[r].conn => s = r
           /\ \A t \in Tabs : cursors[t].conn = run[r].conn => run[r].tab = t
           /\ run[r].at # "release" => run[r].tab \in Tabs
           /\ \A t \in Tabs : sessions[t].conn = run[r].conn => run[r].tab = t
  <1>1. run[r].conn \in Conns /\ run[r].conn # None /\ (run[r].at # "release" => run[r].tab \in Tabs)
    BY NoneApart DEF XInv, TInv, RunShape
  <1>2. run[r].conn \notin free /\ \A s \in Runs : run[s].conn = run[r].conn => s = r
    BY <1>1 DEF XInv, Holders, FreeUnheld, OneRun
  <1>3. \A t \in Tabs : cursors[t].conn = run[r].conn => run[r].tab = t
    BY <1>1 DEF CInv, EntryHeld
  <1>4. \A t \in Tabs : sessions[t].conn = run[r].conn => run[r].tab = t
    BY <1>1 DEF XInv, Holders, TabOrRun, Pinned
  <1>5. QED
    BY <1>1, <1>2, <1>3, <1>4

\* A request that goes on as before while its backend is left alone, and its
\* tab's entry kept, dropped or replaced by one of another connection.
LEMMA OthersGoOn ==
    ASSUME XInv, CInv, NEW s \in Runs,
           run'[s].at = run[s].at \/ {run[s].at, run'[s].at} \subseteq NoEntry,
           run'[s].tab = run[s].tab, run'[s].conn = run[s].conn, run'[s].owns = run[s].owns,
           run[s].conn \in Conns => backend'[run[s].conn] = backend[run[s].conn],
           \A t \in Tabs : cursors'[t] = cursors[t] \/ cursors'[t].conn # run[s].conn
                                                    \/ run[s].conn \notin Conns
    PROVE  CursorOf(s)'
  <1>1. CASE run[s].at \in Before
    BY <1>1 DEF CursorOf
  <1>2. CASE run[s].at = "release"
    BY <1>2 DEF CursorOf
  <1>3. CASE run[s].at \notin Before \cup {"release"}
    <2>1. run[s].tab \in Tabs /\ run[s].conn \in Conns
      BY <1>3, InHand
    <2>2. CursorOf(s)
      BY DEF CInv
    <2>3. QED
      BY <2>1, <2>2 DEF CursorOf
  <1>4. QED
    BY <1>1, <1>2, <1>3

\* Steps that change neither entries nor backends.
LEMMA QuietStep ==
    ASSUME XInv, CInv, UNCHANGED <<cursors, backend, free>>,
           \A t \in Tabs : sessions'[t].conn \in {sessions[t].conn, None},
           \A r \in Runs :
             \/ /\ run'[r].tab = run[r].tab /\ run'[r].conn = run[r].conn /\ run'[r].owns = run[r].owns
                /\ run'[r].at = run[r].at \/ {run[r].at, run'[r].at} \subseteq NoEntry
             \/ /\ run'[r].at \in Before \cup {"lookup"} /\ run[r].at # "release"
                /\ \/ run'[r].conn = None
                   \/ run'[r].tab \in Tabs /\ sessions[run'[r].tab].conn = run'[r].conn
    PROVE  CInv'
  <1>1. EntryHeld' /\ EntryBackend'
    <2>1. \A t \in Tabs : cursors'[t].conn \in Conns =>
             /\ cursors'[t] = cursors[t]
             /\ cursors[t].conn \notin free'
             /\ backend'[cursors[t].conn] = backend[cursors[t].conn]
             /\ \A r \in Runs : run[r].conn = cursors[t].conn /\ run[r].at = "release"
                                  => run'[r].conn = cursors[t].conn /\ run'[r].at = "release"
      BY DEF CInv, EntryHeld
    <2>2. \A r \in Runs : run'[r].conn \in Conns =>
             \/ run'[r].conn = run[r].conn /\ run'[r].tab = run[r].tab
             \/ run'[r].conn \in free
             \/ run'[r].tab \in Tabs /\ sessions[run'[r].tab].conn = run'[r].conn
      BY NoneApart
    <2>3. \A u \in Tabs : sessions'[u].conn \in Conns => sessions'[u].conn = sessions[u].conn
      BY NoneApart
    <2>4. QED
      BY <2>1, <2>2, <2>3, EntriesKept
  <1>2. ASSUME NEW s \in Runs PROVE CursorOf(s)'
    <2>1. CASE run'[s].at \in Before \cup {"lookup"}
      BY <2>1 DEF CursorOf
    <2>2. CASE run'[s].at \notin Before \cup {"lookup"}
      BY <2>2, OthersGoOn
    <2>3. QED
      BY <2>1, <2>2
  <1>3. QED
    BY <1>1, <1>2 DEF CInv
\* The pool's connection is no entry's.
LEMMA TakeConnCursor ==
    ASSUME XInv, CInv, NEW r \in Runs, TakeConn(r)
    PROVE  CInv'
  <1>1. PICK c \in free \cap ConnsOf(run[r].pool) :
          /\ free' = free \ {c}
          /\ backend' = IF run[r].auto THEN backend ELSE [backend EXCEPT ![c].tx = "active"]
          /\ run' = [run EXCEPT ![r] =
               [@ EXCEPT !.at = IF run[r].tab = None THEN "release" ELSE "lookup",
                         !.conn = c, !.auto = TRUE]]
    BY Zenon DEF TakeConn
  <1>2. /\ c \in Conns /\ c \in free /\ run'[r].conn = c /\ run'[r].at \in {"release", "lookup"}
        /\ \A s \in Runs \ {r} : run'[s] = run[s] /\ run[s].conn # c
        /\ \A d \in Conns \ {c} : backend'[d] = backend[d]
        /\ run[r].conn = None
    BY <1>1 DEF ConnsOf, XInv, TInv, TypeOK, Run, Holders, FreeUnheld, RunShape, TakeConn
  <1>3. cursors' = cursors /\ sessions' = sessions
    BY DEF TakeConn
  <1>4. EntryHeld' /\ EntryBackend'
    <2>1. \A t \in Tabs : cursors'[t].conn \in Conns =>
             /\ cursors'[t] = cursors[t]
             /\ cursors[t].conn \notin free'
             /\ backend'[cursors[t].conn] = backend[cursors[t].conn]
             /\ \A q \in Runs : run[q].conn = cursors[t].conn /\ run[q].at = "release"
                                  => run'[q].conn = cursors[t].conn /\ run'[q].at = "release"
      BY <1>1, <1>2, <1>3, NoneApart DEF CInv, EntryHeld
    <2>2. \A q \in Runs : run'[q].conn \in Conns =>
             (run'[q].conn = run[q].conn /\ run'[q].tab = run[q].tab) \/ run'[q].conn \in free
      BY <1>2
    <2>3. QED
      BY <1>3, <2>1, <2>2, EntriesKept
  <1>5. ASSUME NEW s \in Runs PROVE CursorOf(s)'
    <2>1. CASE s = r
      BY <1>2, <2>1 DEF CursorOf
    <2>2. CASE s # r
      BY <1>2, <1>3, <2>2, OthersGoOn
    <2>3. QED
      BY <2>1, <2>2
  <1>6. QED
    BY <1>4, <1>5 DEF CInv

\* A request ends with its backend in state b, which its tab's entry, if it is
\* the request's, agrees with.
LEMMA FinishCursor ==
    ASSUME XInv, CInv, NEW r \in Runs, NEW b \in Backend, Finish(r, b),
           run[r].at \notin Before \cup {"release"},
           cursors[run[r].tab].conn = run[r].conn =>
             Finds(b) /\ (cursors[run[r].tab].owns => OwnTx(b))
    PROVE  CInv'
  <1> DEFINE c   == run[r].conn
             tab == run[r].tab
  <1>1. /\ c \in Conns /\ tab \in Tabs /\ c \notin free
        /\ \A s \in Runs \ {r} : run[s].conn # c
        /\ \A t \in Tabs : cursors[t].conn = c => t = tab
    BY InHand
  <1>2. /\ cursors' = cursors /\ free' = free
        /\ \A d \in Conns \ {c} : backend'[d] = backend[d]
        /\ \A s \in Runs \ {r} : run'[s] = run[s]
        /\ \A t \in Tabs \ {tab} : sessions'[t] = sessions[t]
        /\ \/ sessions'[tab].conn \in {c, None, sessions[tab].conn}
    BY <1>1 DEF Finish, PinConn, DropConn, NoSession, XInv, TInv, TypeOK
  <1>3. \/ backend'[c] = b /\ run'[r].at = "idle" /\ run'[r].conn = None
        \/ /\ backend'[c] = Fresh /\ run'[r].at = "release"
           /\ run'[r].conn = c /\ run'[r].tab = tab
    BY <1>1, NoRunShape DEF Finish, PinConn, DropConn, XInv, TInv, TypeOK, Run
  <1>4. EntryHeld'
    <2>1. \A q \in Runs : run'[q].conn \in Conns =>
             run'[q].conn = run[q].conn /\ run'[q].tab = run[q].tab
      BY <1>2, <1>3, NoneApart
    <2>2. \A u \in Tabs : sessions'[u].conn \in Conns =>
             \/ sessions'[u].conn = sessions[u].conn
             \/ sessions'[u].conn = c /\ u = tab
      BY <1>2, NoneApart
    <2>3. QED
      BY <1>1, <1>2, <2>1, <2>2 DEF CInv, EntryHeld
  <1>5. EntryBackend'
    <2> SUFFICES ASSUME NEW t \in Tabs, cursors[t].conn \in Conns
                 PROVE  /\ (\A q \in Runs : run'[q].conn = cursors[t].conn => run'[q].at # "release")
                             => Finds(backend'[cursors[t].conn])
                        /\ cursors[t].owns => OwnTx(backend'[cursors[t].conn])
      BY <1>2 DEF EntryBackend
    <2>1. CASE cursors[t].conn # c
      BY <1>2, <1>3, <2>1 DEF CInv, EntryBackend
    <2>2. CASE cursors[t].conn = c
      <3>1. t = tab
        BY <1>1, <2>2
      <3>2. CASE backend'[c] = b
        BY <1>3, <2>2, <3>1, <3>2
      <3>3. CASE backend'[c] = Fresh /\ run'[r].at = "release" /\ run'[r].conn = c
        BY <2>2, <3>3 DEF OwnTx, Fresh, InTx
      <3>4. QED
        BY <1>3, <3>2, <3>3
    <2>3. QED
      BY <2>1, <2>2
  <1>6. ASSUME NEW s \in Runs PROVE CursorOf(s)'
    <2>1. CASE s = r
      BY <1>3, <2>1 DEF CursorOf
    <2>2. CASE s # r
      BY <1>1, <1>2, <2>2, OthersGoOn
    <2>3. QED
      BY <2>1, <2>2
  <1>7. QED
    BY <1>4, <1>5, <1>6 DEF CInv

\* Every entry that names a released connection is dead.
LEMMA ReleaseCursor ==
    ASSUME XInv, CInv, NEW c \in Conns, ReleaseConn(c),
           \A s \in Runs : run'[s] # run[s] => run'[s].conn = None /\ run'[s].at = "idle",
           \A s \in Runs : run'[s] = run[s] => run[s].conn # c,
           \A s \in Runs : run'[s] # run[s] => run[s].conn = c,
           sessions' = sessions
    PROVE  CInv'
  <1>1. /\ \A t \in Tabs : cursors'[t] = IF cursors[t].conn = c THEN DeadCursor ELSE cursors[t]
        /\ \A d \in Conns \ {c} : backend'[d] = backend[d]
        /\ free' = free \cup {c}
    BY DEF ReleaseConn, XInv, TInv, TypeOK
  <1>2. DeadCursor.conn \notin Conns
    BY NoneApart DEF DeadCursor
  <1>3. \A t \in Tabs : cursors'[t].conn \in Conns => cursors'[t] = cursors[t] /\ cursors[t].conn # c
    BY <1>1, <1>2
  <1>4. EntryHeld' /\ EntryBackend'
    <2>1. \A t \in Tabs : cursors'[t].conn \in Conns =>
             /\ cursors'[t] = cursors[t]
             /\ cursors[t].conn \notin free'
             /\ backend'[cursors[t].conn] = backend[cursors[t].conn]
             /\ \A q \in Runs : run[q].conn = cursors[t].conn /\ run[q].at = "release"
                                  => run'[q].conn = cursors[t].conn /\ run'[q].at = "release"
      BY <1>1, <1>3 DEF CInv, EntryHeld
    <2>2. \A q \in Runs : run'[q].conn \in Conns =>
             run'[q].conn = run[q].conn /\ run'[q].tab = run[q].tab
      BY NoneApart
    <2>3. QED
      BY <2>1, <2>2, EntriesKept
  <1>5. ASSUME NEW s \in Runs PROVE CursorOf(s)'
    <2>1. CASE run'[s] # run[s]
      BY <2>1 DEF CursorOf
    <2>2. CASE run'[s] = run[s]
      BY <1>1, <1>2, <2>2, OthersGoOn
    <2>3. QED
      BY <2>1, <2>2
  <1>6. QED
    BY <1>4, <1>5 DEF CInv
\* Steps that may drop the entry of a tab, and leave connections alone but for
\* the backend of one that no entry names any more.
LEMMA EntryDropped ==
    ASSUME XInv, CInv, NEW t \in Tabs, NEW c,
           cursors' \in {cursors, [cursors EXCEPT ![t] = NoCursor]},
           \A d \in Conns \ {c} : backend'[d] = backend[d],
           backend' = backend \/ \A u \in Tabs : cursors'[u].conn # c,
           UNCHANGED <<free, sessions>>,
           \A r \in Runs : /\ run'[r].conn = run[r].conn /\ run'[r].tab = run[r].tab
                           /\ run[r].at = "release" => run'[r].at = "release"
    PROVE  EntryHeld' /\ EntryBackend'
  <1>1. \A u \in Tabs : cursors'[u].conn \in Conns => cursors'[u] = cursors[u]
    BY NoneApart DEF NoCursor, XInv, TInv, TypeOK
  <1>2. \A u \in Tabs : cursors'[u].conn \in Conns =>
             /\ cursors'[u] = cursors[u]
             /\ cursors[u].conn \notin free'
             /\ backend'[cursors[u].conn] = backend[cursors[u].conn]
             /\ \A q \in Runs : run[q].conn = cursors[u].conn /\ run[q].at = "release"
                                  => run'[q].conn = cursors[u].conn /\ run'[q].at = "release"
    <2> SUFFICES ASSUME NEW u \in Tabs, cursors'[u].conn \in Conns
                 PROVE  /\ cursors[u].conn \notin free
                        /\ backend'[cursors[u].conn] = backend[cursors[u].conn]
      BY <1>1
    <2>1. cursors[u].conn \notin free
      BY <1>1 DEF CInv, EntryHeld
    <2>2. backend'[cursors[u].conn] = backend[cursors[u].conn]
      BY <1>1
    <2>3. QED
      BY <2>1, <2>2
  <1>3. QED
    BY <1>2, EntriesKept

\* Looking the cursor up keeps what entries say, or drops one.
LEMMA LookupsCursor ==
    ASSUME XInv, CInv, NEW r \in Runs, LookupCursor(r) \/ PageLookup(r)
    PROVE  CInv'
  <1> DEFINE c   == run[r].conn
             tab == run[r].tab
  <1>1. /\ c \in Conns /\ tab \in Tabs
        /\ \A s \in Runs \ {r} : run[s].conn # c
    BY InHand DEF LookupCursor, PageLookup
  <1>2. /\ cursors' \in {cursors, [cursors EXCEPT ![tab] = NoCursor]}
        /\ cursors[tab].conn = c => cursors' = cursors
        /\ cursors[tab].conn # c => cursors'[tab] = NoCursor
    BY <1>1 DEF LookupCursor, PageLookup, CursorFor, HasCursor, XInv, TInv, TypeOK
  <1>3. UNCHANGED <<backend, free, sessions>>
    BY DEF LookupCursor, PageLookup
  <1>4. /\ \A s \in Runs \ {r} : run'[s] = run[s]
        /\ run'[r].conn = c /\ run'[r].tab = tab /\ run[r].at # "release"
    <2>1. CASE LookupCursor(r)
      <3>1. PICK next, owns :
              run' = [run EXCEPT ![r] = [@ EXCEPT !.at = next, !.owns = owns]]
        BY Zenon, <2>1 DEF LookupCursor
      <3>2. QED
        BY <2>1, <3>1 DEF LookupCursor, XInv, TInv, TypeOK, Run
    <2>2. CASE PageLookup(r)
      BY <2>2 DEF PageLookup, XInv, TInv, TypeOK, Run
    <2>3. QED
      BY <2>1, <2>2
  <1>5. EntryHeld' /\ EntryBackend'
    BY <1>1, <1>2, <1>3, <1>4, EntryDropped
  <1>6. NoCursor.conn # c
    BY <1>1, NoneApart DEF NoCursor
  <1>7. CursorOf(r)'
    <2>1. CASE cursors[tab].conn = c
      <3>1. cursors'[tab] = cursors[tab] /\ backend'[c] = backend[c]
        BY <1>2, <1>3, <2>1
      <3>2. /\ cursors[tab].owns => OwnTx(backend[c])
            /\ Finds(backend[c])
        <4>1. \A s \in Runs : run[s].conn = c => run[s].at # "release"
          BY <1>1, <1>4
        <4>2. QED
          BY <1>1, <2>1, <4>1 DEF CInv, EntryBackend
      <3>3. \/ run'[r].at = "page"
            \/ run'[r].at = "endCursor" /\ run'[r].owns = cursors[tab].owns
            \/ run'[r].at = "fetch"
        BY <1>1, <2>1, ZenonT(60) DEF LookupCursor, PageLookup, HasCursor, XInv, TInv, TypeOK, Run
      <3>4. QED
        BY <1>4, <3>1, <3>2, <3>3 DEF CursorOf
    <2>2. CASE cursors[tab].conn # c
      <3>1. run'[r].at \in {"page", "statement", "declare"}
        BY <2>2 DEF LookupCursor, PageLookup, HasCursor, XInv, TInv, TypeOK, Run
      <3>2. QED
        BY <1>2, <1>4, <1>6, <2>2, <3>1 DEF CursorOf
    <2>3. QED
      BY <2>1, <2>2
  <1>8. ASSUME NEW s \in Runs, s # r PROVE CursorOf(s)'
    <2>1. run[s].conn \in Conns =>
            \A t \in Tabs : cursors'[t] = cursors[t] \/ cursors'[t].conn # run[s].conn
      BY <1>2, NoneApart DEF NoCursor, XInv, TInv, TypeOK
    <2>2. QED
      BY <1>3, <1>4, <1>8, <2>1, OthersGoOn
  <1>9. QED
    BY <1>5, <1>7, <1>8 DEF CInv

\* Closing the cursor removes its entry with it.
LEMMA EndCursorCursor ==
    ASSUME XInv, CInv, NEW r \in Runs, EndCursor(r)
    PROVE  CInv'
  <1> DEFINE c   == run[r].conn
             tab == run[r].tab
  <1>1. /\ c \in Conns /\ tab \in Tabs
        /\ \A s \in Runs \ {r} : run[s].conn # c
        /\ \A t \in Tabs : cursors[t].conn = c => t = tab
    BY InHand DEF EndCursor
  <1>2. /\ cursors' \in {cursors, [cursors EXCEPT ![tab] = NoCursor]}
        /\ cursors[tab] = [conn |-> c, owns |-> run[r].owns] => cursors'[tab] = NoCursor
        /\ \A t \in Tabs \ {tab} : cursors'[t] = cursors[t]
    BY <1>1 DEF EndCursor, XInv, TInv, TypeOK
  <1>3. cursors[tab] \in CursorEntry
    BY <1>1 DEF XInv, TInv, TypeOK
  <1>4. cursors[tab].conn = c => cursors[tab] = [conn |-> c, owns |-> run[r].owns]
    BY <1>3 DEF CInv, CursorOf, EndCursor, CursorEntry
  <1>5. \A t \in Tabs : cursors'[t].conn # c
    <2>1. cursors'[tab].conn # c
      <3>1. CASE cursors[tab].conn = c
        <4>1. cursors'[tab] = NoCursor
          BY <1>2, <1>4, <3>1
        <4>2. QED
          BY <1>1, <4>1, NoneApart DEF NoCursor
      <3>2. CASE cursors[tab].conn # c
        <4>1. cursors'[tab] \in {cursors[tab], NoCursor}
          BY <1>1, <1>2 DEF XInv, TInv, TypeOK
        <4>2. QED
          BY <1>1, <3>2, <4>1, NoneApart DEF NoCursor
      <3>3. QED
        BY <3>1, <3>2
    <2>2. ASSUME NEW t \in Tabs \ {tab} PROVE cursors'[t].conn # c
      BY <1>1, <1>2, <2>2
    <2>3. QED
      BY <2>1, <2>2
  <1>6. /\ \A d \in Conns \ {c} : backend'[d] = backend[d]
        /\ UNCHANGED <<free, sessions>>
    BY DEF EndCursor, XInv, TInv, TypeOK
  <1>7. /\ \A s \in Runs \ {r} : run'[s] = run[s]
        /\ run'[r].conn = c /\ run'[r].tab = tab /\ run[r].at = "endCursor"
        /\ run'[r].at \in {"statement", "page"}
    BY DEF EndCursor, XInv, TInv, TypeOK, Run
  <1>8. EntryHeld' /\ EntryBackend'
    BY <1>1, <1>2, <1>5, <1>6, <1>7, EntryDropped
  <1>9. CursorOf(r)'
    BY <1>1, <1>5, <1>7 DEF CursorOf
  <1>10. ASSUME NEW s \in Runs, s # r PROVE CursorOf(s)'
    <2>1. run[s].conn \in Conns =>
            \A t \in Tabs : cursors'[t] = cursors[t] \/ cursors'[t].conn # run[s].conn
      BY <1>2, NoneApart DEF NoCursor, XInv, TInv, TypeOK
    <2>2. run[s].conn \in Conns => backend'[run[s].conn] = backend[run[s].conn]
      BY <1>1, <1>6, <1>10
    <2>3. QED
      BY <1>7, <1>10, <2>1, <2>2, OthersGoOn
  <1>11. QED
    BY <1>8, <1>9, <1>10 DEF CInv

\* The new entry names the request's connection, where the cursor is open, and
\* owns a transaction that was begun for it.
LEMMA DeclareCursorCursor ==
    ASSUME XInv, CInv, NEW r \in Runs, DeclareCursor(r)
    PROVE  CInv'
  <1> DEFINE c   == run[r].conn
             tab == run[r].tab
  <1>1. /\ c \in Conns /\ tab \in Tabs /\ c \notin free
        /\ \A s \in Runs \ {r} : run[s].conn # c
        /\ \A t \in Tabs : cursors[t].conn = c => t = tab
        /\ \A t \in Tabs : sessions[t].conn = c => t = tab
    BY InHand DEF DeclareCursor
  <1>2. /\ cursors'[tab] = [conn |-> c, owns |-> backend[c].tx = "idle"]
        /\ \A t \in Tabs \ {tab} : cursors'[t] = cursors[t]
    BY <1>1 DEF DeclareCursor, XInv, TInv, TypeOK
  <1>3. /\ backend'[c] = Declared(backend[c])
        /\ \A d \in Conns \ {c} : backend'[d] = backend[d]
        /\ UNCHANGED <<free, sessions>>
    BY <1>1 DEF DeclareCursor, XInv, TInv, TypeOK
  <1>4. /\ \A s \in Runs \ {r} : run'[s] = run[s]
        /\ run'[r].conn = c /\ run'[r].tab = tab /\ run'[r].at = "fetch"
    BY DEF DeclareCursor, XInv, TInv, TypeOK, Run
  <1>5. Finds(backend'[c]) /\ (backend[c].tx = "idle" => OwnTx(backend'[c]))
    <2>1. /\ backend'[c].cursor = TRUE
          /\ backend'[c].app = (backend[c].app \/ backend[c].tx = "idle")
      BY <1>3 DEF Declared
    <2>2. QED
      BY <2>1, Zenon DEF Finds, OwnTx
  <1>6. EntryHeld'
    BY <1>1, <1>2, <1>3, <1>4 DEF CInv, EntryHeld
  <1>7. EntryBackend'
    <2> SUFFICES ASSUME NEW t \in Tabs, cursors'[t].conn \in Conns
                 PROVE  /\ (\A q \in Runs : run'[q].conn = cursors'[t].conn => run'[q].at # "release")
                             => Finds(backend'[cursors'[t].conn])
                        /\ cursors'[t].owns => OwnTx(backend'[cursors'[t].conn])
      BY Zenon DEF EntryBackend
    <2>1. CASE t = tab
      <3>1. cursors'[t].conn = c /\ cursors'[t].owns = (backend[c].tx = "idle")
        BY <1>2, <2>1
      <3>2. QED
        BY Zenon, <1>5, <3>1
    <2>2. CASE t # tab
      BY <1>1, <1>2, <1>3, <1>4, <2>2 DEF CInv, EntryBackend
    <2>3. QED
      BY <2>1, <2>2
  <1>8. CursorOf(r)'
    BY <1>4, <1>5 DEF CursorOf
  <1>9. ASSUME NEW s \in Runs, s # r PROVE CursorOf(s)'
    <2>1. \A t \in Tabs : cursors'[t] = cursors[t] \/ cursors'[t].conn # run[s].conn
      BY <1>1, <1>2, <1>9
    <2>2. run[s].conn \in Conns => backend'[run[s].conn] = backend[run[s].conn]
      BY <1>1, <1>3, <1>9
    <2>3. QED
      BY <1>4, <1>9, <2>1, <2>2, OthersGoOn
  <1>10. QED
    BY <1>6, <1>7, <1>8, <1>9 DEF CInv
\* Every step of a request keeps what the entries say of their connections.
LEMMA RunStepCursor ==
    ASSUME XInv, CInv, NEW r \in Runs, RunStep(r)
    PROVE  CInv'
  <1> DEFINE c   == run[r].conn
             tab == run[r].tab
  <1>1. CASE RejectBusy(r) \/ RefuseTx(r) \/ AcquireFails(r)
    <2>1. /\ run' = [run EXCEPT ![r] = NoRun] /\ run[r].at \in Before
          /\ UNCHANGED <<cursors, backend, free, sessions>>
      BY <1>1 DEF RejectBusy, RefuseTx, AcquireFails, AtAcquire
    <2>2. run'[r] = NoRun /\ \A s \in Runs \ {r} : run'[s] = run[s]
      BY <2>1 DEF XInv, TInv, TypeOK
    <2>3. QED
      BY <2>1, <2>2, NoRunShape, QuietStep
  <1>2. CASE ReusePinned(r)
    <2>1. tab \in Tabs
      BY <1>2 DEF ReusePinned, AtAcquire, XInv, TInv, TypeOK, Run
    <2>2. /\ \A s \in Runs \ {r} : run'[s] = run[s]
          /\ run'[r].at = "lookup" /\ run'[r].tab = tab /\ run'[r].conn = sessions[tab].conn
          /\ run[r].at = "acquire"
      BY <1>2 DEF ReusePinned, AtAcquire, XInv, TInv, TypeOK, Run
    <2>3. /\ UNCHANGED <<cursors, backend, free>>
          /\ \A t \in Tabs : sessions'[t].conn = sessions[t].conn
      BY <1>2, <2>1 DEF ReusePinned, XInv, TInv, TypeOK, Session
    <2>4. QED
      BY <2>1, <2>2, <2>3, QuietStep
  <1>3. CASE EnterPool(r)
    <2>1. /\ \A s \in Runs \ {r} : run'[s] = run[s]
          /\ run'[r].at = "wait" /\ run'[r].conn = None /\ run[r].at = "acquire"
          /\ UNCHANGED <<cursors, backend, free, sessions>>
      BY <1>3 DEF EnterPool, AtAcquire, XInv, TInv, TypeOK, RunShape, Run
    <2>2. QED
      BY <2>1, QuietStep
  <1>4. CASE MayDeclare(r) \/ RefuseDeclare(r)
    <2>1. /\ \A s \in Runs \ {r} : run'[s] = run[s]
          /\ run'[r].conn = c /\ run'[r].tab = tab /\ run'[r].owns = run[r].owns
          /\ {run[r].at, run'[r].at} \subseteq NoEntry
          /\ UNCHANGED <<cursors, backend, free, sessions>>
      BY <1>4 DEF MayDeclare, RefuseDeclare, XInv, TInv, TypeOK, Run
    <2>2. QED
      BY <2>1, QuietStep
  <1>5. CASE Statement(r) \/ FinishRefused(r) \/ DeclareFails(r)
    <2>1. /\ run[r].at \in NoEntry /\ c \in Conns /\ backend[c] \in Backend
          /\ cursors[tab].conn # c
      BY <1>5, InHand DEF Statement, FinishRefused, DeclareFails, CInv, CursorOf, XInv, TInv, TypeOK
    <2>2. \E b \in Backend : Finish(r, b)
      BY <1>5, <2>1, AnswersTyped DEF Statement, FinishRefused, DeclareFails
    <2>3. QED
      BY <2>1, <2>2, FinishCursor
  <1>6. CASE FetchPage(r)
    <2>1. /\ run[r].at = "fetch" /\ c \in Conns /\ tab \in Tabs /\ backend[c] \in Backend
          /\ Finds(backend[c])
      BY <1>6, InHand DEF FetchPage, CInv, CursorOf, XInv, TInv, TypeOK
    <2>2. PICK b \in FetchAnswers(backend[c]) : Finish(r, b)
      BY <1>6 DEF FetchPage
    <2>3. b \in Backend
      BY <2>1, <2>2, AnswersTyped
    <2>4. b \in {backend[c], Failed(backend[c]), Lost(backend[c])}
      BY <2>2 DEF FetchAnswers, Sent
    <2>5. /\ Finds(b)
          /\ OwnTx(backend[c]) => OwnTx(b)
      <3>1. CASE b = Failed(backend[c])
        BY <2>1, <3>1 DEF Failed, Finds, OwnTx, InTx, Backend
      <3>2. CASE b = Lost(backend[c])
        BY <3>2 DEF Lost, Finds, OwnTx, InTx
      <3>3. QED
        BY <2>1, <2>4, <3>1, <3>2
    <2>6. cursors[tab].conn = c /\ cursors[tab].owns => OwnTx(backend[c])
      BY <2>1 DEF CInv, EntryBackend
    <2>7. QED
      BY <2>1, <2>2, <2>3, <2>5, <2>6, FinishCursor
  <1>7. CASE Release(r)
    <2>1. /\ c \in Conns /\ \A s \in Runs \ {r} : run[s].conn # c
      BY <1>7, InHand DEF Release
    <2>2. /\ run'[r] = NoRun /\ \A s \in Runs \ {r} : run'[s] = run[s]
          /\ sessions' = sessions /\ ReleaseConn(c)
      BY <1>7 DEF Release, XInv, TInv, TypeOK
    <2>3. run[r].at # "idle"
      BY <1>7 DEF Release
    <2>4. QED
      BY <2>1, <2>2, <2>3, NoRunShape, ReleaseCursor
  <1>8. QED
    BY <1>1, <1>2, <1>3, <1>4, <1>5, <1>6, <1>7, TakeConnCursor, LookupsCursor, EndCursorCursor,
       DeclareCursorCursor
       DEF RunStep

\* So does every step of a task that ends a session.
LEMMA EndStepCursor ==
    ASSUME XInv, CInv, NEW e \in Tasks, EndStep(e)
    PROVE  CInv'
  <1>1. CASE EndSession(e)
    <2>1. PICK t \in Tabs, c \in Conns : <<t, c>> \in task[e].todo /\ ReleaseConn(c)
      BY <1>1 DEF EndSession
    <2>2. \A s \in Runs : run[s].conn # c
      BY <2>1 DEF XInv, Holders, RunOrTask
    <2>3. run' = run /\ sessions' = sessions
      BY <1>1 DEF EndSession
    <2>4. QED
      BY <2>1, <2>2, <2>3, ReleaseCursor
  <1>2. CASE ForgetEnded(e)
    <2> DEFINE tab == task[e].cur
    <2>1. tab \in Tabs
      BY <1>2 DEF ForgetEnded, XInv, TInv, TypeOK, Task
    <2>2. /\ cursors' = [cursors EXCEPT ![tab] = NoCursor]
          /\ UNCHANGED <<backend, free, sessions, run>>
      BY <1>2 DEF ForgetEnded
    <2>3. EntryHeld' /\ EntryBackend'
      BY <2>1, <2>2, EntryDropped
    <2>4. ASSUME NEW s \in Runs PROVE CursorOf(s)'
      <3>1. run[s].conn \in Conns =>
              \A t \in Tabs : cursors'[t] = cursors[t] \/ cursors'[t].conn # run[s].conn
        BY <2>1, <2>2, NoneApart DEF NoCursor, XInv, TInv, TypeOK
      <3>2. QED
        BY <2>2, <3>1, OthersGoOn
    <2>5. QED
      BY <2>3, <2>4 DEF CInv
  <1>3. QED
    BY <1>1, <1>2 DEF EndStep

\* Every step keeps what the entries say.
LEMMA CursorStep == XInv /\ CInv /\ [Next]_vars => CInv'
  <1> SUFFICES ASSUME XInv, CInv, [Next]_vars PROVE CInv'
    OBVIOUS
  <1>1. CASE UNCHANGED <<cursors, backend, free, sessions, run>>
    BY <1>1, QuietStep
  <1>2. ASSUME NEW r \in Runs, StartRun(r) PROVE CInv'
    <2>1. /\ \A s \in Runs \ {r} : run'[s] = run[s]
          /\ run'[r].at = "acquire" /\ run'[r].conn = None /\ run[r].at = "idle"
          /\ UNCHANGED <<cursors, backend, free, sessions>>
      BY <1>2 DEF StartRun, XInv, TInv, TypeOK
    <2>2. QED
      BY <2>1, QuietStep
  <1>3. ASSUME NEW e, NEW S, NEW d, NEW t, NEW p, Take(e, S, d, t, p) PROVE CInv'
    <2>1. /\ \A u \in Tabs : sessions'[u].conn \in {sessions[u].conn, None}
          /\ UNCHANGED <<cursors, backend, free, run>>
      BY <1>3 DEF Take, NoSession, XInv, TInv, TypeOK
    <2>2. QED
      BY <2>1, QuietStep
  <1>4. ASSUME NEW e \in Droppers, PoolClosed(e) PROVE CInv'
    <2>1. /\ \A s \in Runs : /\ run'[s].conn = run[s].conn /\ run'[s].tab = run[s].tab
                             /\ run'[s].owns = run[s].owns /\ run'[s].at = run[s].at
          /\ UNCHANGED <<cursors, backend, free, sessions>>
      BY <1>4 DEF PoolClosed, XInv, TInv, TypeOK, Run
    <2>2. QED
      BY <2>1, QuietStep
  <1>5. ASSUME NEW t \in Tabs, Grow(t) PROVE CInv'
    <2>1. /\ \A u \in Tabs : sessions'[u].conn = sessions[u].conn
          /\ UNCHANGED <<cursors, backend, free, run>>
      BY <1>5 DEF Grow, XInv, TInv, TypeOK, Session
    <2>2. QED
      BY <2>1, QuietStep
  <1>6. ASSUME NEW e, \/ CloseDone(e) \/ \E t \in Tabs : TxClose(e, t)
                      \/ BeginClose(e) \/ \E p \in Pools : DropPool(e, p)
        PROVE  CInv'
    BY <1>1, <1>3, <1>6 DEF CloseDone, TxClose, BeginClose, DropPool
  <1>7. CASE JanitorTick \/ JanitorDone \/ UNCHANGED vars
    BY <1>1, <1>3, <1>7 DEF JanitorTick, JanitorDone, vars
  <1>8. CASE (\E p \in Pools : OpenPool(p)) \/ \E t \in Tabs : ReadStatus(t)
    BY <1>1, <1>8 DEF OpenPool, ReadStatus
  <1>9. ASSUME NEW r \in Runs, RunStep(r) PROVE CInv'
    BY <1>9, RunStepCursor
  <1>10. ASSUME NEW e \in Tasks, EndStep(e) PROVE CInv'
    BY <1>10, EndStepCursor
  <1>11. QED
    BY <1>2, <1>4, <1>5, <1>6, <1>7, <1>8, <1>9, <1>10, Zenon DEF Next

\* So it holds throughout.
LEMMA CursorsAlways == Spec => []CInv
  <1>1. Init => CInv
    <2> SUFFICES ASSUME Init PROVE CInv
      OBVIOUS
    <2>1. \A t \in Tabs : cursors[t].conn \notin Conns
      BY NoneApart DEF Init, NoCursor
    <2>2. \A r \in Runs : run[r].at = "idle"
      BY NoRunShape DEF Init
    <2>3. QED
      BY <2>1, <2>2 DEF CInv, EntryHeld, EntryBackend, CursorOf
  <1>2. QED
    BY <1>1, CursorStep, HoldersAlways, PTL DEF Spec

\* A page run whose transaction stands finds its cursor open, whatever other
\* runs of the tab, the janitor or a disconnect did to the tab's entry.
THEOREM FetchesFindCursor == Spec => []FetchFindsCursor
  <1>1. CInv => FetchFindsCursor
    BY DEF CInv, CursorOf, Finds, FetchFindsCursor
  <1>2. QED
    BY <1>1, CursorsAlways, PTL

\* Ending a cursor commits a transaction only if declareCursor began it.
THEOREM CommitsOwnTx == Spec => []CommitsOnlyOwnTx
  <1>1. CInv => CommitsOnlyOwnTx
    BY DEF CInv, CursorOf, OwnTx, CommitsOnlyOwnTx
  <1>2. QED
    BY <1>1, CursorsAlways, PTL
-----------------------------------------------------------------------------
(* What becomes of a connection: TabSessions implements ConnLease.  With     *)
(* Holders, LeaseOf is a fact about each holder and no choice between them.  *)

HeldBySome(c) == HeldByRun(c) \/ HeldByTask(c) \/ \E t \in Tabs : sessions[t].conn = c

LeaseFacts ==
    \A c \in Conns :
      /\ c \in free => Leases[c] = Held("pool", None)
      /\ \A r \in Runs : run[r].conn = c =>
           Leases[c] = [by |-> IF ~run[r].reuse THEN "used"
                               ELSE IF sessions[run[r].tab].conn = c THEN "reused" ELSE "revoked",
                        tab |-> run[r].tab]
      /\ \A t \in Tabs : sessions[t].conn = c /\ ~HeldByRun(c) => Leases[c] = Held("idle", t)
      /\ \A e \in Tasks, t \in Tabs : <<t, c>> \in task[e].todo => Leases[c] = Held("ending", t)
      /\ c \notin free /\ ~HeldBySome(c) => Leases[c] = Held("lost", None)

\* Each holder of a connection has the lease that LeaseOf says.
LEMMA LeasesKnown == TInv /\ Holders => LeaseFacts
  <1> SUFFICES ASSUME TInv, Holders, NEW c \in Conns
               PROVE  /\ c \in free => Leases[c] = Held("pool", None)
                      /\ \A r \in Runs : run[r].conn = c =>
                           Leases[c] = [by |-> IF ~run[r].reuse THEN "used"
                                               ELSE IF sessions[run[r].tab].conn = c THEN "reused"
                                               ELSE "revoked",
                                        tab |-> run[r].tab]
                      /\ \A t \in Tabs : sessions[t].conn = c /\ ~HeldByRun(c) =>
                           Leases[c] = Held("idle", t)
                      /\ \A e \in Tasks, t \in Tabs : <<t, c>> \in task[e].todo =>
                           Leases[c] = Held("ending", t)
                      /\ c \notin free /\ ~HeldBySome(c) => Leases[c] = Held("lost", None)
    BY DEF LeaseFacts
  <1>1. Leases[c] = LeaseOf(c) /\ c # None
    BY NoneApart DEF Leases
  <1>2. c \in free => Leases[c] = Held("pool", None)
    BY <1>1 DEF LeaseOf
  <1>3. ASSUME NEW r \in Runs, run[r].conn = c
        PROVE  Leases[c] = [by |-> IF ~run[r].reuse THEN "used"
                                   ELSE IF sessions[run[r].tab].conn = c THEN "reused"
                                   ELSE "revoked",
                            tab |-> run[r].tab]
    <2>1. c \notin free /\ HeldByRun(c)
      BY <1>3 DEF Holders, FreeUnheld, HeldByRun
    <2>2. (CHOOSE s \in Runs : run[s].conn = c) = r
      BY <1>1, <1>3 DEF Holders, OneRun
    <2>3. QED
      BY <1>1, <1>3, <2>1, <2>2 DEF LeaseOf, Held, Manner, Registered
  <1>4. ASSUME NEW t \in Tabs, sessions[t].conn = c, ~HeldByRun(c) PROVE Leases[c] = Held("idle", t)
    <2>1. c \notin free
      BY <1>4 DEF Holders, FreeUnheld
    <2>2. (CHOOSE u \in Tabs : sessions[u].conn = c) = t
      BY <1>1, <1>4 DEF Holders, OneTab, Pinned
    <2>3. QED
      BY <1>1, <1>4, <2>1, <2>2 DEF LeaseOf
  <1>5. ASSUME NEW e \in Tasks, NEW t \in Tabs, <<t, c>> \in task[e].todo
        PROVE  Leases[c] = Held("ending", t)
    <2>1. c \notin free /\ HeldByTask(c) /\ ~HeldByRun(c) /\ ~\E u \in Tabs : sessions[u].conn = c
      BY <1>5 DEF Holders, FreeUnheld, RunOrTask, TabOrTask, HeldByTask, HeldByRun
    <2>2. (CHOOSE u \in Tabs : \E d \in Tasks : <<u, c>> \in task[d].todo) = t
      BY <1>5 DEF Holders, OneTask
    <2>3. QED
      BY <1>1, <2>1, <2>2 DEF LeaseOf
  <1>6. c \notin free /\ ~HeldBySome(c) => Leases[c] = Held("lost", None)
    BY <1>1 DEF LeaseOf, HeldBySome
  <1>7. QED
    BY <1>2, <1>3, <1>4, <1>5, <1>6

\* A connection whose holder stays, in the same manner and for the same tab,
\* keeps its lease.
Untouched(d) ==
    /\ d \in free' <=> d \in free
    /\ \A r \in Runs : /\ run'[r].conn = d <=> run[r].conn = d
                       /\ run[r].conn = d => run'[r].reuse = run[r].reuse /\ run'[r].tab = run[r].tab
    /\ \A t \in Tabs : sessions'[t].conn = d <=> sessions[t].conn = d
    /\ \A e \in Tasks, t \in Tabs : <<t, d>> \in task'[e].todo <=> <<t, d>> \in task[e].todo

\* A connection nobody touched keeps its lease.
LEMMA UntouchedKeeps ==
    ASSUME LeaseFacts, LeaseFacts', TInv, NEW d \in Conns, Untouched(d)
    PROVE  Leases'[d] = Leases[d]
  <1>1. CASE d \in free
    BY <1>1 DEF LeaseFacts, Untouched, Held
  <1>2. ASSUME NEW r \in Runs, run[r].conn = d PROVE Leases'[d] = Leases[d]
    <2>1. run'[r].conn = d /\ run'[r].reuse = run[r].reuse /\ run'[r].tab = run[r].tab
      BY <1>2 DEF Untouched
    <2>2. run[r].reuse => run[r].tab \in Tabs
      BY DEF TInv, RunShape
    <2>3. run[r].reuse => (sessions'[run[r].tab].conn = d <=> sessions[run[r].tab].conn = d)
      BY <2>2 DEF Untouched
    <2>4. Leases[d] = [by |-> IF ~run[r].reuse THEN "used"
                              ELSE IF sessions[run[r].tab].conn = d THEN "reused" ELSE "revoked",
                       tab |-> run[r].tab]
      BY <1>2 DEF LeaseFacts
    <2>5. Leases'[d] = [by |-> IF ~run'[r].reuse THEN "used"
                               ELSE IF sessions'[run'[r].tab].conn = d THEN "reused" ELSE "revoked",
                        tab |-> run'[r].tab]
      BY <2>1 DEF LeaseFacts
    <2>6. QED
      BY <2>1, <2>3, <2>4, <2>5
  <1>3. ASSUME NEW t \in Tabs, sessions[t].conn = d, ~HeldByRun(d) PROVE Leases'[d] = Leases[d]
    <2>1. sessions'[t].conn = d /\ ~HeldByRun(d)'
      BY <1>3 DEF Untouched, HeldByRun
    <2>2. Leases[d] = Held("idle", t)
      BY <1>3 DEF LeaseFacts
    <2>3. Leases'[d] = Held("idle", t)
      BY <2>1 DEF LeaseFacts, Held
    <2>4. QED
      BY <2>2, <2>3
  <1>4. ASSUME NEW e \in Tasks, NEW t \in Tabs, <<t, d>> \in task[e].todo
        PROVE  Leases'[d] = Leases[d]
    <2>1. <<t, d>> \in task'[e].todo
      BY <1>4 DEF Untouched
    <2>2. Leases[d] = Held("ending", t)
      BY <1>4 DEF LeaseFacts
    <2>3. Leases'[d] = Held("ending", t)
      BY <2>1 DEF LeaseFacts, Held
    <2>4. QED
      BY <2>2, <2>3
  <1>5. CASE d \notin free /\ ~HeldBySome(d)
    BY <1>5 DEF LeaseFacts, Untouched, Held, HeldBySome, HeldByRun, HeldByTask
  <1>6. QED
    BY <1>1, <1>2, <1>3, <1>4, <1>5 DEF HeldBySome, HeldByRun, HeldByTask

\* A step that changes neither who holds what nor how leaves every lease.
LEMMA SameLeases ==
    ASSUME LeaseFacts, LeaseFacts', TInv, free' = free,
           \A t \in Tabs : sessions'[t].conn = sessions[t].conn,
           \A r \in Runs : /\ run'[r].conn = run[r].conn /\ run'[r].reuse = run[r].reuse
                           /\ run[r].conn # None => run'[r].tab = run[r].tab,
           \A e \in Tasks : task'[e].todo = task[e].todo
    PROVE  Leases' = Leases
  <1>1. \A d \in Conns : Untouched(d)
    BY NoneApart DEF Untouched
  <1>2. \A d \in Conns : Leases'[d] = Leases[d]
    BY <1>1, UntouchedKeeps
  <1>3. QED
    BY <1>2 DEF Leases

\* Only the lease of connection c changes.
LEMMA OneLease ==
    ASSUME LeaseFacts, LeaseFacts', TInv, NEW c \in Conns, \A d \in Conns \ {c} : Untouched(d)
    PROVE  Leases' = [Leases EXCEPT ![c] = Leases'[c]]
  <1>1. \A d \in Conns \ {c} : Leases'[d] = Leases[d]
    BY UntouchedKeeps
  <1>2. QED
    BY <1>1 DEF Leases
-----------------------------------------------------------------------------
\* A request gets a connection of its pool.
LEMMA TakeLease ==
    ASSUME TInv, LeaseFacts, LeaseFacts', NEW r \in Runs, TakeConn(r)
    PROVE  CL!Next
  <1>1. PICK c \in free \cap ConnsOf(run[r].pool) :
          /\ free' = free \ {c}
          /\ run' = [run EXCEPT ![r] =
               [@ EXCEPT !.at = IF run[r].tab = None THEN "release" ELSE "lookup",
                         !.conn = c, !.auto = TRUE]]
    BY DEF TakeConn
  <1>2. c \in Conns /\ run[r].conn = None /\ ~run[r].reuse /\ run[r].tab \in Tabs \cup {None}
    BY <1>1 DEF ConnsOf, TakeConn, TInv, TypeOK, RunShape, Run
  <1>3. /\ run'[r].conn = c /\ ~run'[r].reuse /\ run'[r].tab = run[r].tab
        /\ \A s \in Runs \ {r} : run'[s] = run[s]
    BY <1>1, <1>2 DEF TInv, TypeOK, Run
  <1>4. sessions' = sessions /\ task' = task
    BY DEF TakeConn
  <1>5. Leases[c] = CL!InPool
    BY <1>1, <1>2 DEF LeaseFacts, Held, CL!InPool
  <1>6. Leases'[c] = [by |-> "used", tab |-> run[r].tab]
    BY <1>2, <1>3 DEF LeaseFacts
  <1>7. \A d \in Conns \ {c} : Untouched(d)
    BY <1>1, <1>2, <1>3, <1>4, NoneApart DEF Untouched
  <1>8. Leases' = [Leases EXCEPT ![c] = [by |-> "used", tab |-> run[r].tab]]
    BY <1>2, <1>6, <1>7, OneLease
  <1>9. CL!Acquire(c)
    BY <1>2, <1>5, <1>8 DEF CL!Acquire
  <1>10. QED
    BY <1>2, <1>9 DEF CL!Next

\* A request of the tab gets the connection that its session pins.
LEMMA ReuseLease ==
    ASSUME TInv, Holders, LeaseFacts, LeaseFacts', NEW r \in Runs, ReusePinned(r)
    PROVE  CL!Next
  <1> DEFINE tab == run[r].tab
             c   == sessions[tab].conn
  <1>1. tab \in Tabs /\ c \in Conns /\ c # None /\ ~sessions[tab].busy /\ run[r].conn = None
    BY ConstantsAssumption DEF ReusePinned, AtAcquire, Pinned, TInv, TypeOK, RunShape, Run, Session
  <1>2. ~HeldByRun(c)
    BY <1>1 DEF Holders, TabOrRun, Pinned, HeldByRun
  <1>3. /\ run'[r].conn = c /\ run'[r].reuse /\ run'[r].tab = tab
        /\ \A s \in Runs \ {r} : run'[s] = run[s]
    BY DEF ReusePinned, TInv, TypeOK, Run
  <1>4. \A t \in Tabs : sessions'[t].conn = sessions[t].conn
    BY <1>1 DEF ReusePinned, TInv, TypeOK, Session
  <1>5. free' = free /\ task' = task
    BY DEF ReusePinned
  <1> HIDE DEF tab, c
  <1>6. Leases[c] = [by |-> "idle", tab |-> tab]
    BY <1>1, <1>2 DEF LeaseFacts, Held, tab, c
  <1>7. Leases'[c] = [by |-> "reused", tab |-> tab]
    <2>1. sessions'[tab].conn = c
      BY <1>1, <1>4 DEF c
    <2>2. QED
      BY <1>1, <1>3, <2>1 DEF LeaseFacts
  <1>8. \A d \in Conns \ {c} : Untouched(d)
    BY <1>1, <1>3, <1>4, <1>5, NoneApart DEF Untouched
  <1>9. Leases' = [Leases EXCEPT ![c].by = "reused"]
    <2>1. Leases' = [Leases EXCEPT ![c] = Leases'[c]]
      BY <1>1, <1>8, OneLease
    <2>2. [Leases[c] EXCEPT !.by = "reused"] = Leases'[c]
      BY <1>6, <1>7
    <2>3. QED
      BY <2>1, <2>2
  <1>10. CL!Reuse(c)
    BY <1>6, <1>9 DEF CL!Reuse, CL!Pass
  <1>11. QED
    BY <1>1, <1>10 DEF CL!Next

\* A request or a task gives a connection back that is pinned by no tab.
LEMMA ReturnLease ==
    ASSUME TInv, LeaseFacts, LeaseFacts', NEW c \in Conns, c \in free',
           \A d \in Conns \ {c} : Untouched(d),
           Leases[c].by \in {"used", "revoked", "ending"}
    PROVE  CL!Next
  <1>1. Leases'[c] = CL!InPool
    BY DEF LeaseFacts, Held, CL!InPool
  <1>2. Leases' = [Leases EXCEPT ![c] = CL!InPool]
    BY <1>1, OneLease
  <1>3. CL!Return(c)
    BY <1>2 DEF CL!Return
  <1>4. QED
    BY <1>3 DEF CL!Next

\* A request returns a connection it took from the pool, or that was unpinned
\* meanwhile.
LEMMA ReleaseLease ==
    ASSUME TInv, Holders, LeaseFacts, LeaseFacts', NEW r \in Runs, Release(r)
    PROVE  CL!Next
  <1> DEFINE c == run[r].conn
  <1>1. c \in Conns /\ c # None
    BY NoneApart DEF Release, TInv, RunShape
  <1>2. /\ run'[r].conn = None
        /\ \A s \in Runs \ {r} : run'[s] = run[s]
    BY DEF Release, TInv, TypeOK, NoRun
  <1>3. free' = free \cup {c} /\ task' = task /\ sessions' = sessions
    BY DEF Release, ReleaseConn
  <1>4. \A d \in Conns \ {c} : Untouched(d)
    BY <1>1, <1>2, <1>3, NoneApart DEF Untouched
  <1>5. \A t \in Tabs : sessions[t].conn # c
    BY <1>1 DEF Holders, TabOrRun, Pinned, Release
  <1>6. run[r].reuse => run[r].tab \in Tabs
    BY DEF TInv, RunShape
  <1>7. Leases[c] = [by |-> IF run[r].reuse THEN "revoked" ELSE "used", tab |-> run[r].tab]
    <2>1. run[r].reuse => sessions[run[r].tab].conn # c
      BY <1>5, <1>6
    <2>2. QED
      BY <1>1, <2>1 DEF LeaseFacts
  <1>8. QED
    BY <1>1, <1>3, <1>4, <1>7, ReturnLease

\* A task returns the connection of the session it ended.
LEMMA EndSessionLease ==
    ASSUME TInv, Holders, LeaseFacts, LeaseFacts', NEW e \in Tasks, EndSession(e)
    PROVE  CL!Next
  <1> DEFINE left(t, c) == task[e].todo \ {<<t, c>>}
             new(t, c)  == [task[e] EXCEPT !.todo = left(t, c), !.cur = t]
  <1>1. PICK t \in Tabs, c \in Conns :
          <<t, c>> \in task[e].todo /\ ReleaseConn(c) /\ task' = [task EXCEPT ![e] = new(t, c)]
    BY DEF EndSession
  <1>2. new(t, c).todo = left(t, c)
    BY DEF TInv, TypeOK, Task
  <1> HIDE DEF new
  <1>3. /\ task'[e].todo = left(t, c)
        /\ \A f \in Tasks \ {e} : task'[f] = task[f]
    BY <1>1, <1>2 DEF TInv, TypeOK
  <1>4. sessions' = sessions /\ run' = run /\ free' = free \cup {c}
    BY <1>1 DEF EndSession, ReleaseConn
  <1>5. \A d \in Conns \ {c} : Untouched(d)
    BY <1>3, <1>4 DEF Untouched
  <1>6. Leases[c] = [by |-> "ending", tab |-> t]
    BY <1>1 DEF LeaseFacts, Held
  <1>7. QED
    BY <1>4, <1>5, <1>6, ReturnLease

\* The request pins its connection on its tab; what else was pinned there is
\* lost, or revoked if a request uses it.
LEMMA PinLease ==
    ASSUME TInv, Holders, LeaseFacts, LeaseFacts', NEW r \in Runs, NEW b, PinConn(r, b),
           run[r].at \notin Before, run[r].at # "release"
    PROVE  CL!Next
  <1>1. PICK tab \in Tabs, c \in Conns : /\ tab = run[r].tab /\ c = run[r].conn
                                          /\ tab # None /\ c # None
    BY NoneApart DEF TInv, RunShape
  <1> DEFINE Unpinned(d) == CASE d.by = "idle"   -> CL!Lost
                              [] d.by = "reused" -> [d EXCEPT !.by = "revoked"]
                              [] OTHER           -> d
             New(d) == IF Leases[d].tab = Leases[c].tab THEN Unpinned(Leases[d]) ELSE Leases[d]
  <1>2. /\ run'[r].conn = None
        /\ \A s \in Runs \ {r} : run'[s] = run[s]
    BY DEF PinConn, TInv, TypeOK, NoRun
  <1>3. /\ sessions'[tab].conn = c
        /\ \A t \in Tabs \ {tab} : sessions'[t] = sessions[t]
    BY <1>1 DEF PinConn, TInv, TypeOK
  <1>4. free' = free /\ task' = task
    BY DEF PinConn
  <1>5. \A s \in Runs \ {r} : run[s].conn # c
    BY <1>1 DEF Holders, OneRun
  <1>6. Leases[c] = [by |-> IF run[r].reuse THEN "reused" ELSE "used", tab |-> tab]
    <2>1. run[r].reuse => sessions[tab].conn = c
      BY <1>1 DEF PinConn, OpenTx, Registered
    <2>2. QED
      BY <1>1, <2>1 DEF LeaseFacts
  <1>7. Leases'[c] = [Leases[c] EXCEPT !.by = "idle"]
    <2>1. ~HeldByRun(c)'
      BY <1>1, <1>2, <1>5 DEF HeldByRun
    <2>2. Leases'[c] = [by |-> "idle", tab |-> tab]
      BY <1>1, <1>3, <2>1 DEF LeaseFacts, Held
    <2>3. CASE run[r].reuse
      BY <1>6, <2>2, <2>3
    <2>4. CASE ~run[r].reuse
      BY <1>6, <2>2, <2>4
    <2>5. QED
      BY <2>3, <2>4
  <1>8. ASSUME NEW d \in Conns \ {c} PROVE Leases'[d] = New(d)
    <2>1. CASE d \in free
      <3>1. Leases[d] = [by |-> "pool", tab |-> None] /\ Leases'[d] = Leases[d]
        BY <1>4, <1>8, <2>1 DEF LeaseFacts, Held
      <3>2. QED
        BY <1>1, <1>6, <3>1
    <2>2. ASSUME NEW s \in Runs, run[s].conn = d PROVE Leases'[d] = New(d)
      <3>1. s # r /\ run'[s] = run[s]
        BY <1>1, <1>2, <1>8, <2>2
      <3>2. run[s].reuse => run[s].tab \in Tabs
        BY DEF TInv, RunShape
      <3>3. Leases[d] = [by |-> IF ~run[s].reuse THEN "used"
                                ELSE IF sessions[run[s].tab].conn = d THEN "reused" ELSE "revoked",
                         tab |-> run[s].tab]
        BY <1>8, <2>2 DEF LeaseFacts
      <3>4. Leases'[d] = [by |-> IF ~run[s].reuse THEN "used"
                                 ELSE IF sessions'[run[s].tab].conn = d THEN "reused" ELSE "revoked",
                          tab |-> run[s].tab]
        BY <1>8, <2>2, <3>1 DEF LeaseFacts
      <3>5. CASE run[s].tab = tab
        <4>1. sessions'[run[s].tab].conn # d
          BY <1>3, <1>8, <3>5
        <4>2. QED
          BY <1>6, <3>3, <3>4, <3>5, <4>1
      <3>6. CASE run[s].tab # tab
        BY <1>3, <1>6, <3>2, <3>3, <3>4, <3>6
      <3>7. QED
        BY <3>5, <3>6
    <2>3. ASSUME ~HeldByRun(d), NEW t \in Tabs, sessions[t].conn = d PROVE Leases'[d] = New(d)
      <3>1. ~HeldByRun(d)'
        BY <1>2, <1>8, <2>3, NoneApart DEF HeldByRun
      <3>2. Leases[d] = [by |-> "idle", tab |-> t]
        BY <1>8, <2>3 DEF LeaseFacts, Held
      <3>3. CASE t # tab
        <4>1. Leases'[d] = [by |-> "idle", tab |-> t]
          BY <1>3, <1>8, <2>3, <3>1, <3>3 DEF LeaseFacts, Held
        <4>2. QED
          BY <1>6, <3>2, <3>3, <4>1
      <3>4. CASE t = tab
        <4>1. d \notin free /\ ~HeldByTask(d)
          BY <2>3 DEF Holders, FreeUnheld, TabOrTask, HeldByTask
        <4>2. \A u \in Tabs : sessions'[u].conn # d
          BY <1>3, <1>8, <2>3, <3>4, NoneApart DEF Holders, OneTab, Pinned
        <4>3. d \notin free' /\ ~HeldBySome(d)'
          BY <1>4, <3>1, <4>1, <4>2 DEF HeldBySome, HeldByTask
        <4>4. Leases'[d] = [by |-> "lost", tab |-> None]
          BY <1>8, <4>3 DEF LeaseFacts, Held
        <4>5. QED
          BY <1>6, <3>2, <3>4, <4>4 DEF CL!Lost
      <3>5. QED
        BY <3>3, <3>4
    <2>4. ASSUME NEW e \in Tasks, NEW t \in Tabs, <<t, d>> \in task[e].todo
          PROVE  Leases'[d] = New(d)
      <3>1. Leases[d] = [by |-> "ending", tab |-> t]
        BY <1>8, <2>4 DEF LeaseFacts, Held
      <3>2. Leases'[d] = [by |-> "ending", tab |-> t]
        BY <1>4, <1>8, <2>4 DEF LeaseFacts, Held
      <3>3. QED
        BY <3>1, <3>2
    <2>5. CASE d \notin free /\ ~HeldBySome(d)
      <3>1. ~HeldByRun(d)'
        BY <1>2, <1>8, <2>5, NoneApart DEF HeldByRun, HeldBySome
      <3>2. \A u \in Tabs : sessions'[u].conn # d
        BY <1>3, <1>8, <2>5 DEF HeldBySome
      <3>3. d \notin free' /\ ~HeldBySome(d)'
        BY <1>4, <2>5, <3>1, <3>2 DEF HeldBySome, HeldByTask
      <3>4. Leases[d] = [by |-> "lost", tab |-> None] /\ Leases'[d] = [by |-> "lost", tab |-> None]
        BY <1>8, <2>5, <3>3 DEF LeaseFacts, Held
      <3>5. QED
        BY <1>1, <1>6, <3>4
    <2>6. QED
      BY <2>1, <2>2, <2>3, <2>4, <2>5 DEF HeldBySome, HeldByRun, HeldByTask
  <1>9. Leases' = [d \in Conns |-> IF d = c THEN [Leases[c] EXCEPT !.by = "idle"]
                                   ELSE IF Leases[d].tab = Leases[c].tab THEN Unpinned(Leases[d])
                                   ELSE Leases[d]]
    BY <1>7, <1>8 DEF Leases
  <1>10. CL!Pin(c)
    BY <1>1, <1>6, <1>9 DEF CL!Pin
  <1>11. QED
    BY <1>1, <1>10 DEF CL!Next

\* Connections of a set S are no longer pinned on their tabs.
LEMMA UnpinLease ==
    ASSUME NEW S \in SUBSET Conns, S # {},
           \A c \in S : \E t \in Tabs :
             \/ Leases[c] = Held("idle", t) /\ Leases'[c] = Held("ending", t)
             \/ Leases[c] = Held("reused", t) /\ Leases'[c] = Held("revoked", t),
           \A d \in Conns \ S : Leases'[d] = Leases[d]
    PROVE  CL!Next
  <1>1. ASSUME NEW c \in S
        PROVE  /\ Leases[c].by \in {"idle", "reused"}
               /\ Leases'[c] = [Leases[c] EXCEPT !.by = IF @ = "idle" THEN "ending" ELSE "revoked"]
    <2>1. PICK t \in Tabs :
             \/ Leases[c] = Held("idle", t) /\ Leases'[c] = Held("ending", t)
             \/ Leases[c] = Held("reused", t) /\ Leases'[c] = Held("revoked", t)
      BY <1>1
    <2>2. QED
      BY <2>1 DEF Held
  <1>2. S \in (SUBSET CL!Pinned) \ {{}}
    BY <1>1 DEF CL!Pinned
  <1>3. CL!Unpin(S)
    BY <1>1 DEF CL!Unpin, Leases
  <1>4. QED
    BY <1>2, <1>3 DEF CL!Next

\* The request gives its connection up, with the session it may be pinned by.
LEMMA DropLease ==
    ASSUME TInv, Holders, LeaseFacts, LeaseFacts', NEW r \in Runs, NEW b, DropConn(r, b),
           run[r].at \notin Before, run[r].at # "release"
    PROVE  CL!Next \/ Leases' = Leases
  <1>1. PICK tab \in Tabs, c \in Conns : /\ tab = run[r].tab /\ c = run[r].conn
                                          /\ tab # None /\ c # None
    BY NoneApart DEF TInv, RunShape
  <1>2. \A s \in Runs : /\ run'[s].conn = run[s].conn /\ run'[s].reuse = run[s].reuse
                         /\ run'[s].tab = run[s].tab
    BY DEF DropConn, TInv, TypeOK, Run
  <1>3. free' = free /\ task' = task
    BY DEF DropConn
  <1>4. CASE ~Registered(r)
    <2>1. sessions' = sessions
      BY <1>4 DEF DropConn
    <2>2. QED
      BY <1>2, <1>3, <2>1, SameLeases
  <1>5. CASE Registered(r)
    <2>1. run[r].reuse /\ sessions[tab].conn = c
      BY <1>1, <1>5 DEF Registered
    <2>2. /\ sessions'[tab].conn = None
          /\ \A t \in Tabs \ {tab} : sessions'[t] = sessions[t]
      BY <1>1, <1>5 DEF DropConn, TInv, TypeOK, NoSession
    <2>3. Leases[c] = Held("reused", tab)
      BY <1>1, <2>1 DEF LeaseFacts, Held
    <2>4. Leases'[c] = Held("revoked", tab)
      BY <1>1, <1>2, <2>1, <2>2, SMTT(30) DEF LeaseFacts, Held
    <2>5. \A d \in Conns \ {c} : Untouched(d)
      BY <1>1, <1>2, <1>3, <2>1, <2>2, NoneApart DEF Untouched
    <2>6. \A d \in Conns \ {c} : Leases'[d] = Leases[d]
      BY <2>5, UntouchedKeeps
    <2>7. \A d \in {c} : \E t \in Tabs :
             \/ Leases[d] = Held("idle", t) /\ Leases'[d] = Held("ending", t)
             \/ Leases[d] = Held("reused", t) /\ Leases'[d] = Held("revoked", t)
      BY <1>1, <2>3, <2>4
    <2>8. {c} \in SUBSET Conns /\ {c} # {}
      BY <1>1
    <2>9. QED
      BY <2>6, <2>7, <2>8, UnpinLease
  <1>6. QED
    BY <1>4, <1>5

\* Sessions are taken to be ended; a busy one is only removed.
LEMMA TakeSessionsLease ==
    ASSUME TInv, TaskShape, Holders, LeaseFacts, LeaseFacts', NEW e \in Tasks, NEW S \in SUBSET Tabs,
           NEW d \in BOOLEAN, NEW u, NEW p, Take(e, S, d, u, p)
    PROVE  CL!Next \/ Leases' = Leases
  <1> DEFINE idle  == {x \in {y \in S : Pinned(y)} : ~sessions[x].busy}
             gone  == IF d THEN {y \in S : Pinned(y)} ELSE idle
             taken == {<<x, sessions[x].conn>> : x \in idle}
             unpinned == {sessions[x].conn : x \in gone}
  <1>1. free' = free /\ run' = run
    BY DEF Take
  <1>2. /\ \A x \in gone : sessions'[x].conn = None
        /\ \A x \in Tabs \ gone : sessions'[x] = sessions[x]
    BY DEF Take, NoSession, TInv, TypeOK
  <1>3. /\ task'[e].todo = taken
        /\ \A f \in Tasks \ {e} : task'[f] = task[f]
    BY DEF Take, TInv, TypeOK
  <1>4. task[e].todo = {}
    BY DEF Take, TaskShape
  <1>5. gone \subseteq Tabs /\ idle \subseteq gone /\ \A x \in gone : Pinned(x)
    OBVIOUS
  <1>6. \A x \in gone \ idle : sessions[x].busy
    OBVIOUS
  <1>7. \A x \in idle : ~sessions[x].busy
    OBVIOUS
  <1>8. \A x \in Tabs, c \in Conns : <<x, c>> \in taken <=> x \in idle /\ c = sessions[x].conn
    OBVIOUS
  <1>9. unpinned \subseteq Conns
    BY <1>5 DEF TInv, TypeOK, Session, Pinned
  <1>10. \A c \in unpinned : \E x \in gone : c = sessions[x].conn
    OBVIOUS
  <1>11. \A x \in gone : sessions[x].conn \in unpinned
    OBVIOUS
  <1> HIDE DEF idle, gone, taken, unpinned
  <1>12. ASSUME NEW c \in unpinned
         PROVE  \E t \in Tabs :
                  \/ Leases[c] = Held("idle", t) /\ Leases'[c] = Held("ending", t)
                  \/ Leases[c] = Held("reused", t) /\ Leases'[c] = Held("revoked", t)
    <2>1. PICK x \in gone : c = sessions[x].conn
      BY <1>10
    <2>2. x \in Tabs /\ Pinned(x) /\ c \in Conns
      BY <1>5, <1>9, <2>1
    <2>3. CASE x \in idle
      <3>1. ~HeldByRun(c)
        BY <1>7, <2>1, <2>2, <2>3 DEF Holders, TabOrRun, HeldByRun
      <3>2. <<x, c>> \in task'[e].todo
        BY <1>3, <1>8, <2>1, <2>2, <2>3
      <3>3. Leases[c] = Held("idle", x)
        BY <2>1, <2>2, <3>1 DEF LeaseFacts, Held
      <3>4. Leases'[c] = Held("ending", x)
        BY <2>2, <3>2 DEF LeaseFacts, Held
      <3>5. QED
        BY <2>2, <3>3, <3>4
    <2>4. CASE x \notin idle
      <3>1. PICK r \in Runs : run[r].tab = x /\ run[r].reuse /\ run[r].conn = c
        BY <1>6, <2>1, <2>2, <2>4 DEF Holders, BusyHasRun
      <3>2. sessions'[x].conn # c
        BY <1>2, <2>1, <2>2, NoneApart
      <3>3. Leases[c] = Held("reused", x)
        BY <2>1, <2>2, <3>1 DEF LeaseFacts, Held
      <3>4. Leases'[c] = Held("revoked", x)
        BY <1>1, <2>2, <3>1, <3>2 DEF LeaseFacts, Held
      <3>5. QED
        BY <2>2, <3>3, <3>4
    <2>5. QED
      BY <2>3, <2>4
  <1>13. ASSUME NEW c \in Conns \ unpinned PROVE Leases'[c] = Leases[c]
    <2>1. \A x \in Tabs : sessions'[x].conn = c <=> sessions[x].conn = c
      BY <1>2, <1>11, <1>13, NoneApart
    <2>2. \A f \in Tasks, x \in Tabs : <<x, c>> \in task'[f].todo <=> <<x, c>> \in task[f].todo
      BY <1>3, <1>4, <1>5, <1>8, <1>11, <1>13
    <2>3. Untouched(c)
      BY <1>1, <2>1, <2>2 DEF Untouched
    <2>4. QED
      BY <2>3, UntouchedKeeps
  <1>14. CASE unpinned = {}
    <2>1. \A c \in Conns : Leases'[c] = Leases[c]
      BY <1>13, <1>14
    <2>2. QED
      BY <2>1 DEF Leases
  <1>15. CASE unpinned # {}
    BY <1>9, <1>12, <1>13, <1>15, UnpinLease
  <1>16. QED
    BY <1>14, <1>15

\* The end of a run pins its connection, or gives it up.
LEMMA FinishLease ==
    ASSUME TInv, Holders, LeaseFacts, LeaseFacts', NEW r \in Runs, NEW b, Finish(r, b),
           run[r].at \notin Before, run[r].at # "release"
    PROVE  CL!Next \/ Leases' = Leases
  BY PinLease, DropLease DEF Finish

\* What each step of a request does to the lease of its connection.
LEMMA RunStepLease ==
    ASSUME TInv, Holders, LeaseFacts, LeaseFacts', NEW r \in Runs, RunStep(r)
    PROVE  CL!Next \/ Leases' = Leases
  <1>1. CASE RejectBusy(r) \/ RefuseTx(r) \/ AcquireFails(r)
    <2>1. run[r].conn = None /\ ~run[r].reuse /\ run' = [run EXCEPT ![r] = NoRun]
      BY <1>1 DEF RejectBusy, RefuseTx, AcquireFails, AtAcquire, TInv, RunShape
    <2>2. \A s \in Runs : /\ run'[s].conn = run[s].conn /\ run'[s].reuse = run[s].reuse
                          /\ run[s].conn # None => run'[s].tab = run[s].tab
      BY <2>1, NoRunShape DEF TInv, TypeOK, Run
    <2>3. QED
      BY <1>1, <2>2, SameLeases DEF RejectBusy, RefuseTx, AcquireFails
  <1>2. CASE ReusePinned(r)
    BY <1>2, ReuseLease
  <1>3. CASE TakeConn(r)
    BY <1>3, TakeLease
  <1>4. CASE EnterPool(r) \/ LookupCursor(r) \/ EndCursor(r)
    <2>1. \A s \in Runs : /\ run'[s].conn = run[s].conn /\ run'[s].reuse = run[s].reuse
                          /\ run'[s].tab = run[s].tab
      <3>1. CASE EnterPool(r)
        BY <3>1 DEF EnterPool, TInv, TypeOK, Run
      <3>2. CASE LookupCursor(r)
        BY <3>2 DEF LookupCursor, TInv, TypeOK, Run
      <3>3. CASE EndCursor(r)
        BY <3>3 DEF EndCursor, TInv, TypeOK, Run
      <3>4. QED
        BY <1>4, <3>1, <3>2, <3>3
    <2>2. QED
      BY <1>4, <2>1, SameLeases DEF EnterPool, LookupCursor, EndCursor
  <1>5. CASE PageLookup(r) \/ MayDeclare(r) \/ RefuseDeclare(r) \/ DeclareCursor(r)
    <2>1. \A s \in Runs : /\ run'[s].conn = run[s].conn /\ run'[s].reuse = run[s].reuse
                          /\ run'[s].tab = run[s].tab
      BY <1>5 DEF PageLookup, MayDeclare, RefuseDeclare, DeclareCursor, TInv, TypeOK, Run
    <2>2. QED
      BY <1>5, <2>1, SameLeases DEF PageLookup, MayDeclare, RefuseDeclare, DeclareCursor
  <1>6. CASE Statement(r) \/ FinishRefused(r) \/ DeclareFails(r) \/ FetchPage(r)
    BY <1>6, FinishLease DEF Statement, FinishRefused, DeclareFails, FetchPage
  <1>7. CASE Release(r)
    BY <1>7, ReleaseLease
  <1>8. QED
    BY <1>1, <1>2, <1>3, <1>4, <1>5, <1>6, <1>7 DEF RunStep

\* Every step is one of ConnLease, or leaves every lease as it is.
LEMMA LeaseStep ==
    ASSUME XInv, LeaseFacts, LeaseFacts', [Next]_vars
    PROVE  CL!Next \/ Leases' = Leases
  <1> DEFINE Kept == CL!Next \/ Leases' = Leases
  <1> USE DEF XInv
  <1>1. ASSUME NEW p \in Pools, OpenPool(p) PROVE Kept
    BY <1>1, SameLeases DEF OpenPool
  <1>2. ASSUME NEW r \in Runs, StartRun(r) PROVE Kept
    <2>1. run[r].conn = None /\ ~run[r].reuse
      BY <1>2 DEF StartRun, TInv, RunShape
    <2>2. /\ run'[r].conn = None /\ run'[r].reuse = FALSE
          /\ \A s \in Runs \ {r} : run'[s] = run[s]
      BY <1>2 DEF StartRun, TInv, TypeOK
    <2>3. \A s \in Runs : run'[s].conn = run[s].conn /\ run'[s].reuse = run[s].reuse
      BY <2>1, <2>2 DEF TInv, TypeOK, Run
    <2>4. QED
      BY <1>2, <2>1, <2>2, <2>3, SameLeases DEF StartRun
  <1>3. ASSUME NEW r \in Runs, RunStep(r) PROVE Kept
    BY <1>3, RunStepLease
  <1>4. ASSUME NEW e \in Tasks, NEW S \in SUBSET Tabs, NEW d \in BOOLEAN, NEW t, NEW p,
               Take(e, S, d, t, p)
        PROVE  Kept
    BY <1>4, TakeSessionsLease
  <1>5. JanitorTick => Kept
    BY <1>4 DEF JanitorTick, Tasks
  <1>6. ASSUME NEW e \in Tasks, Ended(e), UNCHANGED <<sessions, free, run>>,
               task' = [task EXCEPT ![e] = NoTask]
        PROVE  Kept
    BY <1>6, SameLeases DEF Ended, NoTask, TInv, TypeOK
  <1>7. JanitorDone => Kept
    BY <1>6 DEF JanitorDone, Tasks
  <1>8. ASSUME NEW e \in Closers, CloseDone(e) PROVE Kept
    BY <1>6, <1>8 DEF CloseDone, Tasks
  <1>9. ASSUME NEW e \in Closers, NEW t \in Tabs, TxClose(e, t) PROVE Kept
    BY <1>4, <1>9 DEF TxClose, Tasks
  <1>10. ASSUME NEW e \in Droppers, BeginClose(e) PROVE Kept
    <2>1. CASE task' = [task EXCEPT ![e] = NoTask]
      BY <1>6, <1>10, <2>1 DEF BeginClose, Tasks
    <2>2. CASE task' = [task EXCEPT ![e].at = "closing"]
      <3>1. \A f \in Tasks : task'[f].todo = task[f].todo
        BY <2>2 DEF TInv, TypeOK, Task
      <3>2. QED
        BY <1>10, <3>1, SameLeases DEF BeginClose
    <2>3. QED
      BY <1>10, <2>1, <2>2 DEF BeginClose
  <1>11. ASSUME NEW e \in Droppers, PoolClosed(e) PROVE Kept
    BY <1>11, PoolClosedHolds, SameLeases
  <1>12. ASSUME NEW e \in Droppers, NEW p \in Pools, DropPool(e, p) PROVE Kept
    BY <1>4, <1>12 DEF DropPool, Tasks
  <1>13. ASSUME NEW e \in Tasks, EndStep(e) PROVE Kept
    <2>1. CASE EndSession(e)
      BY <2>1, EndSessionLease
    <2>2. CASE ForgetEnded(e)
      <3>1. \A f \in Tasks : task'[f].todo = task[f].todo
        BY <2>2 DEF ForgetEnded, TInv, TypeOK, Task
      <3>2. QED
        BY <2>2, <3>1, SameLeases DEF ForgetEnded
    <2>3. QED
      BY <1>13, <2>1, <2>2 DEF EndStep
  <1>14. ASSUME NEW t \in Tabs, ReadStatus(t) PROVE Kept
    BY <1>14, SameLeases DEF ReadStatus
  <1>15. ASSUME NEW t \in Tabs, Grow(t) PROVE Kept
    <2>1. \A u \in Tabs : sessions'[u].conn = sessions[u].conn
      BY <1>15 DEF Grow, TInv, TypeOK, Session
    <2>2. QED
      BY <1>15, <2>1, SameLeases DEF Grow
  <1>16. CASE UNCHANGED vars
    BY <1>16, SameLeases DEF vars
  <1> HIDE DEF XInv
  <1>17. QED
    BY <1>1, <1>2, <1>3, <1>5, <1>7, <1>8, <1>9, <1>10, <1>11, <1>12, <1>13, <1>14, <1>15, <1>16
       DEF Next

\* However many tabs, requests, connections and tasks interleave: a pinned
\* connection is used again for its own tab only, one that was unpinned while
\* in use is returned and never pinned again, and none gets lost except to
\* another session of the same tab.
THEOREM ImplementsConnLease == Spec => LeaseKept
  <1>1. Init => CL!Init
    BY DEF Init, CL!Init, CL!InPool, Leases, LeaseOf, Held
  <1>2. XInv => LeaseFacts
    BY LeasesKnown DEF XInv
  <1>3. XInv /\ LeaseFacts /\ LeaseFacts' /\ [Next]_vars => [CL!Next]_Leases
    BY LeaseStep
  <1>4. QED
    BY <1>1, <1>2, <1>3, HoldersAlways, PTL DEF Spec, LeaseKept, CL!Spec
=============================================================================
