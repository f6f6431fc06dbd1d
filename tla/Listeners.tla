----------------------------- MODULE Listeners -----------------------------
(***************************************************************************)
(* LISTEN/NOTIFY streaming, internal/web/listen.go: each listening tab has *)
(* one dedicated connection.  Its goroutine (run) waits on it; requests    *)
(* that LISTEN or UNLISTEN cut the wait short and get in between; streams  *)
(* watch it; tab close, disconnect and the janitor end it.                 *)
(*                                                                         *)
(* A step is a critical section under listenMu or under the listener's mu, *)
(* or one use of the connection, which holds cmdMu.  Commands take, use    *)
(* and release cmdMu in one step; only the wait loop is seen holding it.   *)
(* A goroutine of run is known by its listener.                            *)
(*                                                                         *)
(* An operator Name_Slip is Name with the slip a change of the code could  *)
(* bring; each property is checked to be violated by one of them.          *)
(***************************************************************************)
EXTENDS Integers, FiniteSets

CONSTANTS
    Tabs,           \* script tabs
    Channels,       \* channel names
    Listeners,      \* *listener objects, each used once
    MaxListeners,   \* maxListeners
    Cmds,           \* requests running a LISTEN or UNLISTEN statement
    Streams,        \* requests to GET /api/listen/stream
    Janitors,       \* the goroutine of startListenJanitor
    TabClosers,     \* requests to POST /api/listen/close
    Droppers,       \* requests disconnecting the database (dropDatabasePool)
    None

Enders == Janitors \cup TabClosers \cup Droppers
Procs  == Cmds \cup Enders \cup Listeners

ASSUME ConstantsAssumption ==
    /\ MaxListeners \in Nat
    /\ None \notin Listeners \cup Tabs \cup Channels
    /\ Janitors \cap (TabClosers \cup Droppers) = {}
    /\ TabClosers \cap Droppers = {}
    /\ Cmds \cap Enders = {} /\ Cmds \cap Listeners = {}
    /\ Enders \cap Listeners = {}

VARIABLES
    reg,        \* tab -> its listener              (listeners, under listenMu)
    tabOf,      \* listener -> tabID
    conn,       \* listener -> its dedicated connection
    heard,      \* listener -> channels its backend listens to
    channels,   \* listener -> l.channels           (under l.mu)
    closed,     \* listener -> l.closed             (under l.mu)
    recent,     \* listener -> lastSeen is within listenIdleTimeout
    done,       \* listener -> l.done is closed
    cut,        \* listener -> the context of the wait in progress is cancelled
    pc,         \* goroutine -> where it is
    lis,        \* goroutine -> the listener it works on
    cmd,        \* request -> its tab and statement
    todo,       \* ender -> its slice doomed: listeners it is still going to end
    stream      \* stream -> where it is and the listener it watches

vars == <<reg, tabOf, conn, heard, channels, closed, recent, done, cut, pc,
          lis, cmd, todo, stream>>
-----------------------------------------------------------------------------
\* "broken": lost, or closed by pgx because a statement's context ended.
ConnStates == {"none", "open", "broken", "closed"}

CmdSteps    == {"idle", "look", "dial", "register", "ask", "lock", "track"}
LoopSteps   == {"off", "top", "hold", "wait"}
EndSteps    == {"mark", "unregister", "askClose", "close"}
EnderSteps  == {"idle", "next", "closePool", "over"}
Command     == [op: {"LISTEN", "UNLISTEN"}, chans: SUBSET Channels, tab: Tabs \cup {None}]
StreamState == [at: {"idle", "found", "open"}, lis: Listeners \cup {None}]

TypeOK ==
    /\ reg \in [Tabs -> Listeners \cup {None}]
    /\ tabOf \in [Listeners -> Tabs \cup {None}]
    /\ conn \in [Listeners -> ConnStates]
    /\ heard \in [Listeners -> SUBSET Channels]
    /\ channels \in [Listeners -> SUBSET Channels]
    /\ closed \in [Listeners -> BOOLEAN]
    /\ recent \in [Listeners -> BOOLEAN]
    /\ done \in [Listeners -> BOOLEAN]
    /\ cut \in [Listeners -> BOOLEAN]
    /\ pc \in [Procs -> CmdSteps \cup LoopSteps \cup EndSteps \cup EnderSteps]
    /\ lis \in [Procs -> Listeners \cup {None}]
    /\ cmd \in [Cmds -> Command]
    /\ todo \in [Enders -> SUBSET Listeners]
    /\ stream \in [Streams -> StreamState]

NoCommand == [op |-> "LISTEN", chans |-> {}, tab |-> None]

Init ==
    /\ reg = [t \in Tabs |-> None]
    /\ tabOf = [l \in Listeners |-> None]
    /\ conn = [l \in Listeners |-> "none"]
    /\ heard = [l \in Listeners |-> {}]
    /\ channels = [l \in Listeners |-> {}]
    /\ closed = [l \in Listeners |-> FALSE]
    /\ recent = [l \in Listeners |-> TRUE]
    /\ done = [l \in Listeners |-> FALSE]
    /\ cut = [l \in Listeners |-> FALSE]
    /\ pc = [p \in Procs |-> IF p \in Listeners THEN "off" ELSE "idle"]
    /\ lis = [p \in Procs |-> IF p \in Listeners THEN p ELSE None]
    /\ cmd = [c \in Cmds |-> NoCommand]
    /\ todo = [e \in Enders |-> {}]
    /\ stream = [s \in Streams |-> [at |-> "idle", lis |-> None]]
-----------------------------------------------------------------------------
(* Helpers *)

Registered == {l \in Listeners : \E t \in Tabs : reg[t] = l}
Subs(l)    == {s \in Streams : stream[s].at = "open" /\ stream[s].lis = l}
Pending(l) == {p \in Procs : pc[p] \in {"lock", "close"} /\ lis[p] = l}
CmdMuFree(l) == pc[l] \notin {"hold", "wait"}

\* A request that is over forgets its statement and its listener.
GotoWith(p, step, l) ==
    /\ pc' = [pc EXCEPT ![p] = step]
    /\ lis' = [lis EXCEPT ![p] = IF step = "idle" THEN None ELSE l]
    /\ cmd' = IF step = "idle" /\ p \in Cmds
              THEN [cmd EXCEPT ![p] = NoCommand] ELSE cmd
Goto(p, step) == GotoWith(p, step, lis[p])

\* lockCmd up to cmdMu.Lock: announce the command and cancel the wait.
AskCmdMu(p, step) ==
    /\ Goto(p, step)
    /\ cut' = [cut EXCEPT ![lis[p]] = @ \/ pc[lis[p]] = "wait"]

\* Where a goroutine goes on after end().
Resume(p) == IF p \in Cmds \cup TabClosers THEN "idle"
             ELSE IF p \in Enders THEN "next" ELSE "off"
-----------------------------------------------------------------------------
(* listenIntercept, getListener, listen and unlisten *)

\* The channels that UNLISTEN * names.
Star == Channels

\* The request holds a connection of the database's pool, which must be open.
StartCmd(c) ==
    /\ pc[c] = "idle"
    /\ \A d \in Droppers : pc[d] \notin {"closePool", "over"}
    /\ \E t \in Tabs :
         \/ \E ch \in Channels, op \in {"LISTEN", "UNLISTEN"} :
              cmd' = [cmd EXCEPT ![c] = [op |-> op, chans |-> {ch}, tab |-> t]]
         \/ cmd' = [cmd EXCEPT ![c] = [op |-> "UNLISTEN", chans |-> Star, tab |-> t]]
    /\ pc' = [pc EXCEPT ![c] = "look"]
    /\ UNCHANGED <<reg, tabOf, conn, heard, channels, closed, recent, done, cut,
                   lis, todo, stream>>

\* listenerFor, or the first look of getListener with the test of the limit.
Look(c) ==
    /\ pc[c] = "look"
    /\ LET l == reg[cmd[c].tab]
           mayDial == cmd[c].op = "LISTEN" /\ Cardinality(Registered) < MaxListeners
       IN  GotoWith(c, IF l # None THEN "ask" ELSE IF mayDial THEN "dial" ELSE "idle", l)
    /\ UNCHANGED <<reg, tabOf, conn, heard, channels, closed, recent, done, cut,
                   todo, stream>>

Dial(c) ==
    /\ pc[c] = "dial"
    /\ \/ \E l \in Listeners :
            /\ conn[l] = "none"
            /\ conn' = [conn EXCEPT ![l] = "open"]
            /\ tabOf' = [tabOf EXCEPT ![l] = cmd[c].tab]
            /\ GotoWith(c, "register", l)
       \/ Goto(c, "idle") /\ UNCHANGED <<conn, tabOf>>
    /\ UNCHANGED <<reg, heard, channels, closed, recent, done, cut, todo, stream>>

Install(c) ==
    /\ reg' = [reg EXCEPT ![cmd[c].tab] = lis[c]]
    /\ pc' = [pc EXCEPT ![c] = "ask", ![lis[c]] = "top"]
    /\ UNCHANGED <<conn, lis, cmd>>

LostRace(c) ==
    /\ conn' = [conn EXCEPT ![lis[c]] = "closed"]
    /\ GotoWith(c, "ask", reg[cmd[c].tab])
    /\ UNCHANGED reg

Register_Unchecked(c) ==
    /\ pc[c] = "register"
    /\ Install(c)
    /\ UNCHANGED <<tabOf, heard, channels, closed, recent, done, cut, todo, stream>>
Register(c) ==
    /\ pc[c] = "register"
    /\ IF reg[cmd[c].tab] = None THEN Install(c) ELSE LostRace(c)
    /\ UNCHANGED <<tabOf, heard, channels, closed, recent, done, cut, todo, stream>>

Ask(c) ==
    /\ pc[c] = "ask"
    /\ AskCmdMu(c, "lock")
    /\ UNCHANGED <<reg, tabOf, conn, heard, channels, closed, recent, done, todo, stream>>

Apply(op, set, chans) == IF op = "LISTEN" THEN set \cup chans ELSE set \ chans

\* exec: the statement runs, or fails; when its context ends pgx closes the
\* connection.
Exec(c) ==
    /\ pc[c] = "lock" /\ CmdMuFree(lis[c])
    /\ \/ /\ conn[lis[c]] = "open"
          /\ heard' = [heard EXCEPT ![lis[c]] = Apply(cmd[c].op, @, cmd[c].chans)]
          /\ Goto(c, "track")
          /\ UNCHANGED conn
       \/ /\ conn[lis[c]] = "open"
          /\ conn' = [conn EXCEPT ![lis[c]] = "broken"]
          /\ heard' = [heard EXCEPT ![lis[c]] = {}]
          /\ Goto(c, "idle")
       \/ Goto(c, "idle") /\ UNCHANGED <<conn, heard>>
    /\ UNCHANGED <<reg, tabOf, channels, closed, recent, done, cut, todo, stream>>

\* The channel set is updated; UNLISTEN of the last channel ends the listener.
Track(c) ==
    /\ pc[c] = "track"
    /\ LET chans == Apply(cmd[c].op, channels[lis[c]], cmd[c].chans)
       IN  /\ channels' = [channels EXCEPT ![lis[c]] = chans]
           /\ Goto(c, IF cmd[c].op = "UNLISTEN" /\ chans = {} THEN "mark" ELSE "idle")
    /\ UNCHANGED <<reg, tabOf, conn, heard, closed, recent, done, cut, todo, stream>>
-----------------------------------------------------------------------------
(* end *)

Mark_Unchecked(p) ==
    /\ pc[p] = "mark"
    /\ closed' = [closed EXCEPT ![lis[p]] = TRUE]
    /\ Goto(p, "unregister")
    /\ UNCHANGED <<reg, tabOf, conn, heard, channels, recent, done, cut, todo, stream>>
Mark(p) ==
    /\ pc[p] = "mark"
    /\ closed' = [closed EXCEPT ![lis[p]] = TRUE]
    /\ Goto(p, IF closed[lis[p]] THEN Resume(p) ELSE "unregister")
    /\ UNCHANGED <<reg, tabOf, conn, heard, channels, recent, done, cut, todo, stream>>

\* Delete the tab's entry if it is this listener, then close done: nobody
\* looks at both.
Unregister_KeepsDone(p) ==
    /\ pc[p] = "unregister"
    /\ reg' = [t \in Tabs |-> IF t = tabOf[lis[p]] /\ reg[t] = lis[p] THEN None ELSE reg[t]]
    /\ Goto(p, "askClose")
    /\ UNCHANGED <<tabOf, conn, heard, channels, closed, recent, done, cut, todo, stream>>
Unregister(p) ==
    /\ pc[p] = "unregister"
    /\ reg' = [t \in Tabs |-> IF t = tabOf[lis[p]] /\ reg[t] = lis[p] THEN None ELSE reg[t]]
    /\ done' = [done EXCEPT ![lis[p]] = TRUE]
    /\ Goto(p, "askClose")
    /\ UNCHANGED <<tabOf, conn, heard, channels, closed, recent, cut, todo, stream>>

AskClose(p) ==
    /\ pc[p] = "askClose"
    /\ AskCmdMu(p, "close")
    /\ UNCHANGED <<reg, tabOf, conn, heard, channels, closed, recent, done, todo, stream>>

Close(p) ==
    /\ pc[p] = "close" /\ CmdMuFree(lis[p])
    /\ conn' = [conn EXCEPT ![lis[p]] = "closed"]
    /\ heard' = [heard EXCEPT ![lis[p]] = {}]
    /\ Goto(p, Resume(p))
    /\ UNCHANGED <<reg, tabOf, channels, closed, recent, done, cut, todo, stream>>
-----------------------------------------------------------------------------
(* run *)

\* What a step of the wait loop leaves alone.
LoopFrame == UNCHANGED <<reg, tabOf, conn, heard, channels, closed, recent, done,
                         todo, stream>>

\* The loop looks at done, takes cmdMu, and gives it back at once and tries
\* again if a command is waiting for it.
Top_NoYield(l) ==
    /\ pc[l] = "top"
    /\ Goto(l, IF done[l] THEN "off" ELSE "hold")
    /\ UNCHANGED cut
    /\ LoopFrame
Top(l) ==
    /\ pc[l] = "top"
    /\ done[l] \/ Pending(l) = {}
    /\ Goto(l, IF done[l] THEN "off" ELSE "hold")
    /\ UNCHANGED cut
    /\ LoopFrame

\* The context of the wait is made, so that commands can cancel it.
StartWait(l) ==
    /\ pc[l] = "hold"
    /\ Goto(l, "wait")
    /\ UNCHANGED cut
    /\ LoopFrame

\* WaitForNotification returns and cmdMu is released.
EndWait(l, step) ==
    /\ pc[l] = "wait"
    /\ Goto(l, step)
    /\ cut' = [cut EXCEPT ![l] = FALSE]
    /\ LoopFrame

\* Its context ended, or it brings a notification, which is broadcast.
Waited(l)   == conn[l] = "open" /\ EndWait(l, IF done[l] THEN "off" ELSE "top")
Notified(l) == conn[l] = "open" /\ heard[l] # {} /\ EndWait(l, "top")

\* It fails because the connection is gone.
AfterLoss_Returns(l) == "off"
AfterLoss(l) == IF done[l] THEN "off" ELSE IF cut[l] THEN "top" ELSE "mark"

WaitFails(l) == conn[l] # "open" /\ EndWait(l, AfterLoss(l))
-----------------------------------------------------------------------------
(* Tab close, disconnect, janitor *)

Doom(e, doomed) ==
    /\ pc[e] = "idle"
    /\ todo' = [todo EXCEPT ![e] = doomed]
    /\ Goto(e, "next")
    /\ UNCHANGED <<reg, tabOf, conn, heard, channels, closed, recent, done, cut,
                   stream>>

Unwatched_Silent == {l \in Registered : Subs(l) = {} /\ ~recent[l] /\ heard[l] = {}}
Unwatched == {l \in Registered : Subs(l) = {} /\ ~recent[l]}

\* closeListener: there is one listener to end.
CloseTab(e) ==
    /\ pc[e] = "idle"
    /\ \E t \in Tabs : reg[t] # None /\ GotoWith(e, "mark", reg[t])
    /\ UNCHANGED <<reg, tabOf, conn, heard, channels, closed, recent, done, cut,
                   todo, stream>>

JanitorTick(e) == Unwatched # {} /\ Doom(e, Unwatched)
Disconnect(e) == Doom(e, Registered)

EndNext(e) ==
    /\ pc[e] = "next"
    /\ \/ \E l \in todo[e] :
            /\ todo' = [todo EXCEPT ![e] = @ \ {l}]
            /\ GotoWith(e, "mark", l)
       \/ /\ todo[e] = {}
          /\ Goto(e, IF e \in Droppers THEN "closePool" ELSE "idle")
          /\ UNCHANGED todo
    /\ UNCHANGED <<reg, tabOf, conn, heard, channels, closed, recent, done, cut, stream>>

\* pool.Close waits for the requests that hold a connection.
ClosePool(e) ==
    /\ pc[e] = "closePool"
    /\ \A c \in Cmds : pc[c] = "idle"
    /\ Goto(e, "over")
    /\ UNCHANGED <<reg, tabOf, conn, heard, channels, closed, recent, done, cut,
                   todo, stream>>
-----------------------------------------------------------------------------
(* handleListenStream *)

Find(s) ==
    /\ stream[s].at = "idle"
    /\ \E l \in Registered : stream' = [stream EXCEPT ![s] = [at |-> "found", lis |-> l]]
    /\ UNCHANGED <<reg, tabOf, conn, heard, channels, closed, recent, done, cut,
                   pc, lis, cmd, todo>>

Subscribe(s) ==
    /\ stream[s].at = "found"
    /\ stream' = [stream EXCEPT ![s].at = "open"]
    /\ recent' = [recent EXCEPT ![stream[s].lis] = TRUE]
    /\ UNCHANGED <<reg, tabOf, conn, heard, channels, closed, done, cut, pc, lis,
                   cmd, todo>>

\* The listener has ended, or the browser has gone.
Unsubscribe(s) ==
    /\ stream[s].at = "open"
    /\ stream' = [stream EXCEPT ![s] = [at |-> "idle", lis |-> None]]
    /\ recent' = [recent EXCEPT ![stream[s].lis] = TRUE]
    /\ UNCHANGED <<reg, tabOf, conn, heard, channels, closed, done, cut, pc, lis,
                   cmd, todo>>
Told(s) == stream[s].at = "open" /\ done[stream[s].lis] /\ Unsubscribe(s)
-----------------------------------------------------------------------------
(* Time and PostgreSQL *)

Age(l) ==
    /\ l \in Registered /\ recent[l]
    /\ recent' = [recent EXCEPT ![l] = FALSE]
    /\ UNCHANGED <<reg, tabOf, conn, heard, channels, closed, done, cut, pc, lis,
                   cmd, todo, stream>>

Break(l) ==
    /\ conn[l] = "open"
    /\ conn' = [conn EXCEPT ![l] = "broken"]
    /\ heard' = [heard EXCEPT ![l] = {}]
    /\ UNCHANGED <<reg, tabOf, channels, closed, recent, done, cut, pc, lis,
                   cmd, todo, stream>>
-----------------------------------------------------------------------------
EndStep(p) == Mark(p) \/ Unregister(p) \/ AskClose(p) \/ Close(p)

CmdStep(c) ==
    \/ Look(c) \/ Dial(c) \/ Register(c) \/ Ask(c) \/ Exec(c) \/ Track(c)
    \/ EndStep(c)

LoopStep(l) ==
    \/ Top(l) \/ StartWait(l)
    \/ Waited(l) \/ Notified(l) \/ WaitFails(l)
    \/ EndStep(l)

EnderStep(e) == EndNext(e) \/ ClosePool(e) \/ EndStep(e)

Next ==
    \/ \E c \in Cmds : StartCmd(c) \/ CmdStep(c)
    \/ \E l \in Listeners : LoopStep(l) \/ Age(l) \/ Break(l)
    \/ \E e \in Enders : EnderStep(e)
    \/ \E e \in Janitors : JanitorTick(e)
    \/ \E e \in TabClosers : CloseTab(e)
    \/ \E e \in Droppers : Disconnect(e)
    \/ \E s \in Streams : Find(s) \/ Subscribe(s) \/ Unsubscribe(s)

Spec == Init /\ [][Next]_vars

\* Goroutines run; the clock and the janitor's ticker go on; a wait ends after
\* listenPoll, and on a lost connection at once, so that commands do not cut it
\* every time, nor are they pending at every look of the loop (which holds of
\* one request at a time; requests that never leave a gap starve the loop).
LiveSpec ==
    /\ Spec
    /\ \A c \in Cmds : WF_vars(CmdStep(c))
    /\ \A l \in Listeners : /\ WF_vars(LoopStep(l)) /\ WF_vars(Age(l))
                            /\ SF_vars(Top(l)) /\ SF_vars(~cut[l] /\ WaitFails(l))
    /\ \A e \in Enders : WF_vars(EnderStep(e))
    /\ \A e \in Janitors : WF_vars(JanitorTick(e))
    /\ \A s \in Streams : WF_vars(Subscribe(s)) /\ WF_vars(Told(s))
-----------------------------------------------------------------------------
(* Properties *)

\* However many goroutines end a listener at once (UNLISTEN, a lost
\* connection, tab close, disconnect, janitor), one of them does the work:
\* done is closed once, a second close would panic (end).
OneEnder ==
    \A p, q \in Procs :
      pc[p] \in EndSteps \ {"mark"} /\ pc[q] \in EndSteps \ {"mark"} /\ lis[p] = lis[q]
        => p = q

\* No connection is forgotten: it belongs to the listener registered for its
\* tab, whose goroutine runs, or to the goroutine that opens or ends it
\* (getListener, end).
NoLeak ==
    \A l \in Listeners : conn[l] \in {"open", "broken"} =>
      \/ reg[tabOf[l]] = l /\ (closed[l] \/ pc[l] # "off")
      \/ \E p \in Procs : lis[p] = l /\ pc[p] \in {"register", "askClose", "close"}

\* A listener that ended, or whose connection was lost, closes its connection,
\* although the loop takes an error after its wait was cut for a timeout (run,
\* end).
EndedCloses == \A l \in Listeners :
    closed[l] \/ (conn[l] = "broken" /\ l \in Registered) ~> conn[l] = "closed"

\* A LISTEN or UNLISTEN gets the connection although the loop waits on it
\* again and again (lockCmd).
CommandsRun == \A c \in Cmds : pc[c] = "lock" ~> pc[c] # "lock"

\* A listener that no browser watches is ended (startListenJanitor).
AbandonedEnds == \A l \in Listeners :
    l \in Registered ~> closed[l] \/ Subs(l) # {}

\* A stream of a listener that ended is told, also when it found the listener
\* just before and subscribed just after (handleListenStream).
StreamsTold == \A s \in Streams :
    stream[s].at # "idle" /\ closed[stream[s].lis] ~> stream[s].at = "idle"
=============================================================================
