-------------------------- MODULE ListenersProofs --------------------------
(***************************************************************************)
(* Proofs about Listeners: the types, that one goroutine ends a listener,  *)
(* and that no dedicated connection is forgotten, for any number of tabs,  *)
(* listeners, requests, streams, janitors and disconnects.                 *)
(***************************************************************************)
EXTENDS Listeners, TLAPS

\* Steps between the two halves of end, and those at which a goroutine has a
\* listener in hand.
Ending  == {"unregister", "askClose", "close"}
Working == {"register", "ask", "lock", "track"} \cup EndSteps
Keeping == {"register", "askClose", "close"}

\* Each kind of goroutine keeps to its code.
PlaceOf(p, step, l, tab) ==
    /\ p \in Listeners => l = p /\ step \in LoopSteps \cup EndSteps
    /\ p \in Cmds => step \in CmdSteps \cup EndSteps /\ (step # "idle" => tab \in Tabs)
    /\ p \in Enders => step \in EnderSteps \cup EndSteps
    /\ step \in Working => l \in Listeners
TabOfCmd(p) == IF p \in Cmds THEN cmd[p].tab ELSE None
Places == \A p \in Procs : PlaceOf(p, pc[p], lis[p], TabOfCmd(p))

\* end() has begun before done is closed or the connection is asked for.
ClosedFirst ==
    /\ \A l \in Listeners : done[l] => closed[l]
    /\ \A p \in Procs : pc[p] \in Ending => closed[lis[p]]

\* A listener about to be registered is the request's own, for its tab.
OwnListener == \A c \in Cmds : pc[c] = "register" =>
    conn[lis[c]] # "none" /\ tabOf[lis[c]] = cmd[c].tab

\* A connection was dialed for a tab.
Dialed == \A l \in Listeners : conn[l] \in {"open", "broken"} => tabOf[l] \in Tabs

Inv == TypeOK /\ Places /\ ClosedFirst /\ OneEnder /\ OwnListener /\ Dialed /\ NoLeak

Alive(l) == conn[l] \in {"open", "broken"}
InUse(l) == reg[tabOf[l]] = l /\ (closed[l] \/ pc[l] # "off")
Kept(l)  == \E p \in Procs : lis[p] = l /\ pc[p] \in Keeping

\* NoLeak, with the listeners that are alive named one by one.
LEMMA NoLeakMeans == NoLeak <=> \A l \in Listeners : Alive(l) => InUse(l) \/ Kept(l)
BY DEF NoLeak, Alive, InUse, Kept, Keeping

\* OneEnder, with the two goroutines named.
LEMMA OneEnderMeans ==
    OneEnder <=> \A p, q \in Procs : pc[p] \in Ending /\ pc[q] \in Ending /\ lis[p] = lis[q] => p = q
BY DEF OneEnder, Ending, EndSteps
-----------------------------------------------------------------------------
(* One goroutine moves.                                                    *)

\* p goes from its step to another, with a listener in hand or not.
Moved(p, step, l) ==
    /\ pc' \in [Procs -> CmdSteps \cup LoopSteps \cup EndSteps \cup EnderSteps]
    /\ lis' \in [Procs -> Listeners \cup {None}] /\ cmd' \in [Cmds -> Command]
    /\ Places'
    /\ pc'[p] = step /\ (step # "idle" => lis'[p] = l)
    /\ \A q \in Procs : q # p => pc'[q] = pc[q] /\ lis'[q] = lis[q]
    /\ \A c \in Cmds : c # p => cmd'[c] = cmd[c]

\* A goroutine that goes to a step that is its own has moved, and nobody else
\* has.
LEMMA GotoMoves ==
    ASSUME Inv, NEW p \in Procs, NEW step, NEW l \in Listeners \cup {None},
           GotoWith(p, step, l), PlaceOf(p, step, l, TabOfCmd(p))
    PROVE  Moved(p, step, l)
<1>1. step \in CmdSteps \cup LoopSteps \cup EndSteps \cup EnderSteps
      BY DEF PlaceOf, Procs
<1>2. pc' \in [Procs -> CmdSteps \cup LoopSteps \cup EndSteps \cup EnderSteps]
      BY <1>1 DEF GotoWith, Inv, TypeOK
<1>3. lis' \in [Procs -> Listeners \cup {None}]
      BY DEF GotoWith, Inv, TypeOK
<1>4. NoCommand \in Command
      BY DEF NoCommand, Command
<1>5. cmd' \in [Cmds -> Command]
      BY <1>4 DEF GotoWith, Inv, TypeOK
<1>6. /\ pc'[p] = step /\ (step # "idle" => lis'[p] = l)
      /\ \A q \in Procs : q # p => pc'[q] = pc[q] /\ lis'[q] = lis[q]
      BY DEF GotoWith, Inv, TypeOK
<1>7. \A c \in Cmds : c # p \/ step # "idle" => cmd'[c] = cmd[c]
      BY DEF GotoWith, Inv, TypeOK
<1>8. Places'
  <2> SUFFICES ASSUME NEW q \in Procs PROVE PlaceOf(q, pc'[q], lis'[q], TabOfCmd(q)')
      BY DEF Places
  <2>1. CASE q = p
    <3>1. CASE step = "idle"
          BY <1>6, <2>1, <3>1, ConstantsAssumption
          DEF PlaceOf, Working, EndSteps, LoopSteps
    <3>2. CASE step # "idle"
      <4>1. TabOfCmd(q)' = TabOfCmd(q)
            BY <1>7, <3>2 DEF TabOfCmd
      <4> QED BY <1>6, <2>1, <3>2, <4>1 DEF PlaceOf
    <3> QED BY <3>1, <3>2
  <2>2. CASE q # p
    <3>1. TabOfCmd(q)' = TabOfCmd(q)
          BY <1>7, <2>2 DEF TabOfCmd
    <3>2. pc'[q] = pc[q] /\ lis'[q] = lis[q]
          BY <1>6, <2>2
    <3> QED BY <3>1, <3>2 DEF Inv, Places
  <2> QED BY <2>1, <2>2
<1> QED BY <1>2, <1>3, <1>5, <1>6, <1>7, <1>8 DEF Moved

\* What a move does to the rest: a connection it opens, and one it takes from
\* the registered listener, stay in its hand.
LEMMA MoveKeeps ==
    ASSUME Inv, NEW p \in Procs, NEW step, NEW l \in Listeners \cup {None}, Moved(p, step, l),
           TypeOK',
           \A x \in Listeners : closed[x] => closed'[x],
           \A x \in Listeners : done'[x] => closed'[x],
           step \in Ending => closed'[l] /\ \A q \in Procs : q # p => ~(pc[q] \in Ending /\ lis[q] = l),
           step = "register" => p \in Cmds /\ conn'[l] # "none" /\ tabOf'[l] = cmd'[p].tab,
           \A x \in Listeners : conn[x] # "none" => conn'[x] # "none" /\ tabOf'[x] = tabOf[x],
           \A x \in Listeners : Alive(x)' => Alive(x) \/ tabOf'[x] \in Tabs,
           \A x \in Listeners : Alive(x)' /\ ~Alive(x) => step \in Keeping /\ l = x,
           \A x \in Listeners : Alive(x)' /\ reg[tabOf[x]] = x /\ reg'[tabOf[x]] # x
                                   => step \in Keeping /\ l = x,
           \A x \in Listeners : Alive(x)' /\ lis[p] = x /\ pc[p] \in Keeping
                                   => step \in Keeping /\ l = x,
           step = "off" => closed[p]
    PROVE  Inv'
<1>1. ClosedFirst'
  <2>1. ASSUME NEW q \in Procs, pc'[q] \in Ending PROVE closed'[lis'[q]]
    <3>1. CASE q = p
          BY <2>1, <3>1 DEF Moved, Ending
    <3>2. CASE q # p
      <4>1. pc[q] \in Ending /\ lis'[q] = lis[q]
            BY <2>1, <3>2 DEF Moved
      <4>2. lis[q] \in Listeners
            BY <4>1 DEF Inv, Places, PlaceOf, Working, Ending, EndSteps
      <4> QED BY <4>1, <4>2 DEF Inv, ClosedFirst
    <3> QED BY <3>1, <3>2
  <2> QED BY <2>1 DEF ClosedFirst
<1>2. OneEnder'
  <2> SUFFICES ASSUME NEW q \in Procs, NEW x \in Procs, pc'[q] \in Ending, pc'[x] \in Ending,
                      lis'[q] = lis'[x]
               PROVE  q = x
      BY DEF OneEnder, Ending, EndSteps
  <2>1. CASE q # p /\ x # p
        BY <2>1, OneEnderMeans DEF Inv, Moved
  <2>2. CASE q = p \/ x = p
        BY <2>2 DEF Moved, Ending
  <2> QED BY <2>1, <2>2
<1>3. OwnListener'
  <2> SUFFICES ASSUME NEW c \in Cmds, pc'[c] = "register"
               PROVE  conn'[lis'[c]] # "none" /\ tabOf'[lis'[c]] = cmd'[c].tab
      BY DEF OwnListener
  <2>1. c \in Procs
        BY DEF Procs
  <2>2. CASE c = p
        BY <2>1, <2>2 DEF Moved
  <2>3. CASE c # p
    <3>1. pc[c] = "register" /\ lis'[c] = lis[c] /\ cmd'[c] = cmd[c]
          BY <2>1, <2>3 DEF Moved
    <3>2. lis[c] \in Listeners
          BY <2>1, <3>1 DEF Inv, Places, PlaceOf, Working
    <3> QED BY <3>1, <3>2 DEF Inv, OwnListener
  <2> QED BY <2>2, <2>3
<1>4. NoLeak'
  <2> SUFFICES ASSUME NEW x \in Listeners, Alive(x)' PROVE InUse(x)' \/ Kept(x)'
      BY DEF NoLeak, Alive, InUse, Kept, Keeping
  <2>1. p \in Procs /\ x \in Procs
        BY DEF Procs
  <2>2. CASE step \in Keeping /\ l = x
        BY <2>1, <2>2 DEF Kept, Moved, Keeping
  <2>3. CASE ~(step \in Keeping /\ l = x)
    <3>1. Alive(x) /\ conn[x] # "none" /\ tabOf'[x] = tabOf[x]
          BY <2>3 DEF Alive
    <3>2. CASE InUse(x)
      <4>1. reg'[tabOf'[x]] = x
            BY <2>3, <3>1, <3>2 DEF InUse
      <4>2. closed'[x] \/ pc'[x] # "off"
            BY <2>1, <3>2 DEF InUse, Moved
      <4> QED BY <4>1, <4>2 DEF InUse
    <3>3. CASE Kept(x)
      <4> PICK q \in Procs : lis[q] = x /\ pc[q] \in Keeping
          BY <3>3 DEF Kept
      <4>1. q # p
            BY <2>3
      <4> QED BY <4>1 DEF Kept, Moved
    <3> QED BY <3>1, <3>2, <3>3, NoLeakMeans DEF Inv
  <2> QED BY <2>2, <2>3
<1>5. Dialed'
      BY DEF Inv, Dialed, Alive
<1> QED BY <1>1, <1>2, <1>3, <1>4, <1>5 DEF Inv, Moved
-----------------------------------------------------------------------------
(* end                                                                     *)

\* A goroutine that works has its listener in hand, and its record.
LEMMA InHand ==
    ASSUME Inv, NEW p \in Procs
    PROVE  /\ lis[p] \in Listeners \cup {None} /\ PlaceOf(p, pc[p], lis[p], TabOfCmd(p))
           /\ pc[p] \in Working => lis[p] \in Listeners
           /\ pc[p] \in Ending => closed[lis[p]]
           /\ \A q \in Procs : pc[p] \in Ending /\ pc[q] \in Ending /\ lis[p] = lis[q] => p = q
BY OneEnderMeans DEF Inv, TypeOK, Places, PlaceOf, ClosedFirst

\* A goroutine that ends a listener stays where it belongs.
LEMMA EndPlaces ==
    ASSUME Inv, NEW p \in Procs, pc[p] \in EndSteps
    PROVE  /\ \A step \in EndSteps : PlaceOf(p, step, lis[p], TabOfCmd(p))
           /\ PlaceOf(p, Resume(p), lis[p], TabOfCmd(p))
           /\ Resume(p) \notin Ending \cup Keeping
           /\ Resume(p) = "off" => p \in Listeners /\ lis[p] = p
<1>1. PlaceOf(p, pc[p], lis[p], TabOfCmd(p))
      BY InHand
<1>2. p \in Cmds \/ p \in Enders \/ p \in Listeners
      BY DEF Procs
<1>3. pc[p] # "idle" /\ lis[p] \in Listeners
      BY <1>1 DEF EndSteps, PlaceOf, Working
<1>4. \A step \in EndSteps : PlaceOf(p, step, lis[p], TabOfCmd(p))
      BY <1>1, <1>3 DEF PlaceOf
<1>5. PlaceOf(p, Resume(p), lis[p], TabOfCmd(p))
      BY <1>1, <1>2, <1>3, ConstantsAssumption
      DEF PlaceOf, Resume, CmdSteps, LoopSteps, EnderSteps, Enders
<1>6. Resume(p) \in {"idle", "next", "off"} /\ (Resume(p) = "off" => p \in Listeners)
      BY <1>2 DEF Resume, Enders
<1> QED BY <1>1, <1>4, <1>5, <1>6 DEF PlaceOf, Ending, Keeping

\* Who marks a listener as ending goes on to end it, unless it was marked before.
LEMMA MarkKeeps == ASSUME Inv, NEW p \in Procs, Mark(p) PROVE Inv'
<1> DEFINE step == IF closed[lis[p]] THEN Resume(p) ELSE "unregister"
<1>1. /\ pc[p] = "mark" /\ closed' = [closed EXCEPT ![lis[p]] = TRUE]
      /\ GotoWith(p, step, lis[p])
      /\ UNCHANGED <<reg, tabOf, conn, heard, channels, recent, done, cut, todo, stream>>
      BY DEF Mark, Goto
<1>2. pc[p] \in EndSteps /\ pc[p] \notin Keeping
      BY <1>1 DEF EndSteps, Keeping
<1>3. lis[p] \in Listeners
      BY <1>2, InHand DEF Working
<1>4. PlaceOf(p, step, lis[p], TabOfCmd(p))
      BY <1>2, EndPlaces DEF EndSteps
<1>5. Moved(p, step, lis[p])
      BY <1>1, <1>3, <1>4, GotoMoves
<1>6. TypeOK'
      BY <1>1, <1>5 DEF Inv, TypeOK, Moved
<1>7. /\ \A x \in Listeners : closed[x] => closed'[x]
      /\ closed'[lis[p]]
      BY <1>1, <1>3 DEF Inv, TypeOK
<1>8. \A x \in Listeners : done'[x] => closed'[x]
      BY <1>1, <1>7 DEF Inv, ClosedFirst
<1>9. step \in Ending => \A q \in Procs : q # p => ~(pc[q] \in Ending /\ lis[q] = lis[p])
      BY <1>2, EndPlaces DEF Inv, ClosedFirst
<1>10. step = "off" => closed[p]
      BY <1>2, EndPlaces
<1>11. step # "register"
      BY <1>2, EndPlaces DEF Keeping
<1>12. UNCHANGED <<reg, tabOf, conn>>
      BY <1>1
<1> HIDE DEF step
<1> QED BY <1>2, <1>3, <1>5, <1>6, <1>7, <1>8, <1>9, <1>10, <1>11, <1>12, MoveKeeps DEF Alive

\* A listener leaves the map in the hands of the one who ends it.
LEMMA UnregisterKeeps == ASSUME Inv, NEW p \in Procs, Unregister(p) PROVE Inv'
<1>1. /\ pc[p] = "unregister" /\ done' = [done EXCEPT ![lis[p]] = TRUE]
      /\ reg' = [t \in Tabs |-> IF t = tabOf[lis[p]] /\ reg[t] = lis[p] THEN None ELSE reg[t]]
      /\ GotoWith(p, "askClose", lis[p])
      /\ UNCHANGED <<tabOf, conn, heard, channels, closed, recent, cut, todo, stream>>
      BY DEF Unregister, Goto
<1>2. pc[p] \in EndSteps /\ pc[p] \notin Keeping /\ pc[p] \in Ending
      BY <1>1 DEF EndSteps, Keeping, Ending
<1>3. lis[p] \in Listeners /\ closed[lis[p]]
      BY <1>2, InHand DEF Working
<1>4. Moved(p, "askClose", lis[p])
      BY <1>1, <1>2, <1>3, EndPlaces, GotoMoves DEF EndSteps
<1>5. TypeOK'
  <2>1. reg' \in [Tabs -> Listeners \cup {None}] /\ done' \in [Listeners -> BOOLEAN]
        BY <1>1 DEF Inv, TypeOK
  <2> QED BY <1>1, <1>4, <2>1 DEF Inv, TypeOK, Moved
<1>6. \A x \in Listeners : done'[x] => closed'[x]
      BY <1>1, <1>3 DEF Inv, TypeOK, ClosedFirst
<1>7. \A q \in Procs : q # p => ~(pc[q] \in Ending /\ lis[q] = lis[p])
      BY <1>2, InHand
<1>8. \A x \in Listeners : Alive(x)' /\ reg[tabOf[x]] = x /\ reg'[tabOf[x]] # x => lis[p] = x
  <2> SUFFICES ASSUME NEW x \in Listeners, Alive(x)', reg[tabOf[x]] = x, reg'[tabOf[x]] # x,
                      lis[p] # x
               PROVE  FALSE
      OBVIOUS
  <2>1. CASE tabOf[x] \in Tabs
        BY <1>1, <2>1
  <2>2. CASE tabOf[x] \notin Tabs
        BY <1>1, <2>2 DEF Inv, Dialed, Alive
  <2> QED BY <2>1, <2>2
<1>9. UNCHANGED <<tabOf, conn, closed>>
      BY <1>1
<1> QED BY <1>2, <1>3, <1>4, <1>5, <1>6, <1>7, <1>8, <1>9, MoveKeeps DEF Alive, Keeping

\* Asking for the connection to close leaves the listener to its ender.
LEMMA AskCloseKeeps == ASSUME Inv, NEW p \in Procs, AskClose(p) PROVE Inv'
<1>1. /\ pc[p] = "askClose" /\ GotoWith(p, "close", lis[p])
      /\ cut' = [cut EXCEPT ![lis[p]] = @ \/ pc[lis[p]] = "wait"]
      /\ UNCHANGED <<reg, tabOf, conn, heard, channels, closed, recent, done, todo, stream>>
      BY DEF AskClose, AskCmdMu, Goto
<1>2. pc[p] \in EndSteps /\ pc[p] \in Ending
      BY <1>1 DEF EndSteps, Ending
<1>3. lis[p] \in Listeners /\ closed[lis[p]]
      BY <1>2, InHand DEF Working
<1>4. Moved(p, "close", lis[p])
      BY <1>1, <1>2, <1>3, EndPlaces, GotoMoves DEF EndSteps
<1>5. TypeOK'
      BY <1>1, <1>4 DEF Inv, TypeOK, Moved
<1>6. \A x \in Listeners : done'[x] => closed'[x]
      BY <1>1 DEF Inv, ClosedFirst
<1>7. \A q \in Procs : q # p => ~(pc[q] \in Ending /\ lis[q] = lis[p])
      BY <1>2, InHand
<1>8. UNCHANGED <<reg, tabOf, conn, closed>>
      BY <1>1
<1> QED BY <1>2, <1>3, <1>4, <1>5, <1>6, <1>7, <1>8, MoveKeeps DEF Alive, Keeping

\* The connection is closed by the one who ends the listener, once.
LEMMA CloseKeeps == ASSUME Inv, NEW p \in Procs, Close(p) PROVE Inv'
<1> DEFINE step == Resume(p)
<1>1. /\ pc[p] = "close" /\ GotoWith(p, step, lis[p])
      /\ conn' = [conn EXCEPT ![lis[p]] = "closed"]
      /\ heard' = [heard EXCEPT ![lis[p]] = {}]
      /\ UNCHANGED <<reg, tabOf, channels, closed, recent, done, cut, todo, stream>>
      BY DEF Close, Goto
<1>2. pc[p] \in EndSteps /\ pc[p] \in Ending
      BY <1>1 DEF EndSteps, Ending
<1>3. lis[p] \in Listeners /\ closed[lis[p]]
      BY <1>2, InHand DEF Working
<1>4. Moved(p, step, lis[p])
      BY <1>1, <1>2, <1>3, EndPlaces, GotoMoves
<1>5. TypeOK'
  <2>1. conn' \in [Listeners -> ConnStates] /\ heard' \in [Listeners -> SUBSET Channels]
        BY <1>1 DEF Inv, TypeOK, ConnStates
  <2> QED BY <1>1, <1>4, <2>1 DEF Inv, TypeOK, Moved
<1>6. \A x \in Listeners : done'[x] => closed'[x]
      BY <1>1 DEF Inv, ClosedFirst
<1>7. \A x \in Listeners : conn'[x] = IF x = lis[p] THEN "closed" ELSE conn[x]
      BY <1>1 DEF Inv, TypeOK
<1>8. step \notin Ending /\ step # "register" /\ (step = "off" => closed[p])
      BY <1>2, <1>3, EndPlaces DEF Keeping
<1>9. UNCHANGED <<reg, tabOf, closed>>
      BY <1>1
<1>10. \A x \in Listeners : Alive(x)' => Alive(x) /\ lis[p] # x
      BY <1>7 DEF Alive
<1>11. \A x \in Listeners : conn[x] # "none" => conn'[x] # "none" /\ tabOf'[x] = tabOf[x]
      BY <1>7, <1>9
<1>12. /\ \A x \in Listeners : Alive(x)' => Alive(x) \/ tabOf'[x] \in Tabs
       /\ \A x \in Listeners : Alive(x)' /\ ~Alive(x) => step \in Keeping /\ lis[p] = x
       /\ \A x \in Listeners : Alive(x)' /\ lis[p] = x /\ pc[p] \in Keeping
                               => step \in Keeping /\ lis[p] = x
      BY <1>10
<1>13. /\ \A x \in Listeners : closed[x] => closed'[x]
       /\ \A x \in Listeners : Alive(x)' /\ reg[tabOf[x]] = x /\ reg'[tabOf[x]] # x
                               => step \in Keeping /\ lis[p] = x
      BY <1>9
<1> HIDE DEF step
<1> QED BY <1>3, <1>4, <1>5, <1>6, <1>8, <1>11, <1>12, <1>13, MoveKeeps DEF Alive
-----------------------------------------------------------------------------
(* Moves that end, register and dial nothing.                              *)

\* What such a step may change besides where its goroutine is.
Around == /\ UNCHANGED <<reg, tabOf, closed, done>>
          /\ conn' \in [Listeners -> ConnStates] /\ heard' \in [Listeners -> SUBSET Channels]
          /\ channels' \in [Listeners -> SUBSET Channels]
          /\ recent' \in [Listeners -> BOOLEAN] /\ cut' \in [Listeners -> BOOLEAN]
          /\ todo' \in [Enders -> SUBSET Listeners] /\ stream' \in [Streams -> StreamState]
          /\ \A x \in Listeners : conn[x] # "none" => conn'[x] # "none"
          /\ \A x \in Listeners : conn'[x] \in {"open", "broken"} => conn[x] \in {"open", "broken"}

\* A goroutine that neither holds nor ends a listener moves on.
LEMMA QuietMove ==
    ASSUME Inv, Around, NEW p \in Procs, NEW step, NEW l \in Listeners \cup {None},
           GotoWith(p, step, l), PlaceOf(p, step, l, TabOfCmd(p)),
           pc[p] \notin Keeping, step \notin Ending \cup {"register"}, step = "off" => closed[p]
    PROVE  Inv'
<1>1. Moved(p, step, l)
      BY GotoMoves
<1>2. TypeOK'
      BY <1>1 DEF Inv, TypeOK, Around, Moved
<1>3. \A x \in Listeners : done'[x] => closed'[x]
      BY DEF Inv, ClosedFirst, Around
<1>4. /\ \A x \in Listeners : Alive(x)' => Alive(x)
      /\ \A x \in Listeners : conn[x] # "none" => conn'[x] # "none" /\ tabOf'[x] = tabOf[x]
      BY DEF Around, Alive
<1>5. /\ \A x \in Listeners : Alive(x)' => Alive(x) \/ tabOf'[x] \in Tabs
      /\ \A x \in Listeners : Alive(x)' /\ ~Alive(x) => step \in Keeping /\ l = x
      BY <1>4
<1>6. /\ \A x \in Listeners : closed[x] => closed'[x]
      /\ \A x \in Listeners : Alive(x)' /\ reg[tabOf[x]] = x /\ reg'[tabOf[x]] # x
                              => step \in Keeping /\ l = x
      BY DEF Around
<1> QED BY <1>1, <1>2, <1>3, <1>4, <1>5, <1>6, MoveKeeps DEF Alive

\* ... and steps of nobody: time, PostgreSQL, streams.
LEMMA Still == ASSUME Inv, Around, UNCHANGED <<pc, lis, cmd>> PROVE Inv'
<1>1. TypeOK' /\ Places'
      BY DEF Inv, TypeOK, Around, Places, PlaceOf, TabOfCmd
<1>2. ClosedFirst' /\ OneEnder'
      BY DEF Inv, ClosedFirst, OneEnder, Around
<1>3. OwnListener'
  <2> SUFFICES ASSUME NEW c \in Cmds, pc[c] = "register"
               PROVE  conn'[lis[c]] # "none" /\ tabOf[lis[c]] = cmd[c].tab
      BY DEF OwnListener, Around
  <2>1. lis[c] \in Listeners
        BY InHand DEF Procs, Working
  <2> QED BY <2>1 DEF Inv, OwnListener, Around
<1>4. Dialed' /\ NoLeak'
      BY DEF Inv, Dialed, NoLeak, Around
<1> QED BY <1>1, <1>2, <1>3, <1>4 DEF Inv

\* The rest of what a step leaves alone keeps its type.
LEMMA AroundAll ==
    ASSUME Inv, UNCHANGED <<reg, tabOf, closed, done, conn, heard, channels, recent, stream>>,
           cut' \in [Listeners -> BOOLEAN], todo' \in [Enders -> SUBSET Listeners]
    PROVE  Around
BY DEF Inv, TypeOK, Around

\* Setting or clearing the wish to cut a wait short keeps its type.
LEMMA CutType ==
    ASSUME Inv, NEW l, NEW b \in BOOLEAN, cut' = [cut EXCEPT ![l] = b]
    PROVE  cut' \in [Listeners -> BOOLEAN]
BY DEF Inv, TypeOK

\* So does cutting short a wait only if there is one.
LEMMA AskCut ==
    ASSUME Inv, NEW l \in Listeners, cut' = [cut EXCEPT ![l] = @ \/ pc[l] = "wait"]
    PROVE  cut' \in [Listeners -> BOOLEAN]
<1> PICK b \in BOOLEAN : b = (cut[l] \/ pc[l] = "wait")
    OBVIOUS
<1>1. cut' = [cut EXCEPT ![l] = b]
      BY Zenon
<1> QED BY <1>1, CutType
-----------------------------------------------------------------------------
(* Requests                                                                *)

\* The places a command may go to are those of a command of its tab.
LEMMA CmdPlaces ==
    ASSUME Inv, NEW c \in Cmds
    PROVE  /\ c \in Procs /\ c \notin Listeners /\ c \notin Enders /\ TabOfCmd(c) = cmd[c].tab
           /\ pc[c] # "idle" => cmd[c].tab \in Tabs
           /\ \A step \in CmdSteps \cup EndSteps : \A l :
                 (step = "idle" \/ cmd[c].tab \in Tabs) /\ (step \in Working => l \in Listeners)
                 => PlaceOf(c, step, l, TabOfCmd(c))
<1>1. c \in Procs /\ c \notin Listeners /\ c \notin Enders /\ TabOfCmd(c) = cmd[c].tab
      BY ConstantsAssumption DEF Procs, TabOfCmd
<1>2. pc[c] # "idle" => cmd[c].tab \in Tabs
      BY <1>1, InHand DEF PlaceOf
<1> QED BY <1>1, <1>2 DEF PlaceOf

\* A command starts for a tab and has no listener yet.
LEMMA StartCmdKeeps == ASSUME Inv, NEW c \in Cmds, StartCmd(c) PROVE Inv'
<1>1. PICK q \in Command : q.tab \in Tabs /\ cmd' = [cmd EXCEPT ![c] = q]
  <2>1. PICK op \in {"LISTEN", "UNLISTEN"}, chans \in SUBSET Channels, t \in Tabs :
          cmd' = [cmd EXCEPT ![c] = [op |-> op, chans |-> chans, tab |-> t]]
        BY DEF StartCmd, Star
  <2> DEFINE q == [op |-> op, chans |-> chans, tab |-> t]
  <2>2. q \in Command /\ q.tab = t
        BY DEF Command
  <2>3. cmd' = [cmd EXCEPT ![c] = q]
        BY <2>1
  <2> HIDE DEF q
  <2> QED BY <2>2, <2>3
<1>2. /\ pc[c] = "idle" /\ pc' = [pc EXCEPT ![c] = "look"] /\ lis' = lis
      /\ UNCHANGED <<reg, tabOf, conn, heard, channels, closed, recent, done, cut, todo, stream>>
      BY DEF StartCmd
<1>3. c \in Procs /\ c \notin Listeners /\ c \notin Enders
      BY CmdPlaces
<1>4. /\ pc' \in [Procs -> CmdSteps \cup LoopSteps \cup EndSteps \cup EnderSteps]
      /\ cmd' \in [Cmds -> Command] /\ cmd'[c].tab \in Tabs
      /\ \A x \in Cmds : x # c => cmd'[x] = cmd[x]
      /\ pc'[c] = "look" /\ \A x \in Procs : x # c => pc'[x] = pc[x]
      BY <1>1, <1>2, <1>3 DEF Inv, TypeOK, CmdSteps
<1>5. TypeOK'
      BY <1>2, <1>4 DEF Inv, TypeOK
<1>6. Places'
  <2> SUFFICES ASSUME NEW x \in Procs PROVE PlaceOf(x, pc'[x], lis'[x], TabOfCmd(x)')
      BY DEF Places
  <2>1. CASE x = c
        BY <1>3, <1>4, <2>1 DEF PlaceOf, TabOfCmd, CmdSteps, Working, EndSteps
  <2>2. CASE x # c
    <3>1. TabOfCmd(x)' = TabOfCmd(x)
          BY <1>4, <2>2 DEF TabOfCmd
    <3> QED BY <1>2, <1>4, <2>2, <3>1 DEF Inv, Places
  <2> QED BY <2>1, <2>2
<1>7. Moved(c, "look", lis[c]) /\ lis[c] \in Listeners \cup {None}
      BY <1>2, <1>4, <1>5, <1>6 DEF Moved, TypeOK, Inv
<1>8. /\ \A x \in Listeners : done'[x] => closed'[x]
      /\ pc[c] \notin Keeping /\ "look" \notin Ending
      BY <1>2 DEF Inv, ClosedFirst, Keeping, Ending
<1>9. UNCHANGED <<reg, tabOf, conn, closed>>
      BY <1>2
<1> QED BY <1>3, <1>5, <1>7, <1>8, <1>9, MoveKeeps DEF Alive

\* A command finds the listener of its tab, dials, or is refused.
LEMMA LookKeeps == ASSUME Inv, NEW c \in Cmds, Look(c) PROVE Inv'
<1> DEFINE l == reg[cmd[c].tab]
<1>1. pc[c] = "look" /\ c \in Procs /\ cmd[c].tab \in Tabs
      BY CmdPlaces DEF Look
<1>2. l \in Listeners \cup {None}
      BY <1>1 DEF Inv, TypeOK
<1>3. PICK step \in {"ask", "dial", "idle"} : GotoWith(c, step, l) /\ (step = "ask" => l # None)
      BY DEF Look
<1>4. PlaceOf(c, step, l, TabOfCmd(c))
      BY <1>1, <1>2, <1>3, CmdPlaces DEF CmdSteps, Working, EndSteps
<1>5. Around
  <2>1. UNCHANGED <<reg, tabOf, conn, heard, channels, closed, recent, done, cut, todo, stream>>
        BY DEF Look
  <2> QED BY <2>1, AroundAll DEF Inv, TypeOK
<1> HIDE DEF l
<1> QED BY <1>1, <1>2, <1>3, <1>4, <1>5, QuietMove DEF Keeping, Ending

\* A LISTEN dials a connection of its own, or gives up.
LEMMA DialKeeps == ASSUME Inv, NEW c \in Cmds, Dial(c) PROVE Inv'
<1>1. pc[c] = "dial" /\ c \in Procs /\ cmd[c].tab \in Tabs
      BY CmdPlaces DEF Dial
<1>2. UNCHANGED <<reg, heard, channels, closed, recent, done, cut, todo, stream>>
      BY DEF Dial
<1>3. CASE Goto(c, "idle") /\ UNCHANGED <<conn, tabOf>>
  <2>1. Around
        BY <1>2, <1>3, AroundAll DEF Inv, TypeOK
  <2>2. PlaceOf(c, "idle", lis[c], TabOfCmd(c)) /\ lis[c] \in Listeners \cup {None}
        BY <1>1, CmdPlaces, InHand DEF CmdSteps, Working, EndSteps
  <2> QED BY <1>1, <1>3, <2>1, <2>2, QuietMove DEF Goto, Keeping, Ending
<1>4. ASSUME NEW l \in Listeners, conn[l] = "none", conn' = [conn EXCEPT ![l] = "open"],
             tabOf' = [tabOf EXCEPT ![l] = cmd[c].tab], GotoWith(c, "register", l)
      PROVE  Inv'
  <2>1. PlaceOf(c, "register", l, TabOfCmd(c))
        BY <1>1, CmdPlaces DEF CmdSteps
  <2>2. Moved(c, "register", l)
        BY <1>1, <1>4, <2>1, GotoMoves
  <2>3. cmd' = cmd
        BY <1>4 DEF GotoWith
  <2>4. TypeOK'
    <3>1. conn' \in [Listeners -> ConnStates] /\ tabOf' \in [Listeners -> Tabs \cup {None}]
          BY <1>1, <1>4 DEF Inv, TypeOK, ConnStates
    <3> QED BY <1>2, <2>2, <3>1 DEF Inv, TypeOK, Moved
  <2>5. /\ conn'[l] = "open" /\ tabOf'[l] = cmd'[c].tab /\ tabOf'[l] \in Tabs
        /\ \A x \in Listeners : x # l => conn'[x] = conn[x] /\ tabOf'[x] = tabOf[x]
        BY <1>1, <1>4, <2>3 DEF Inv, TypeOK
  <2>6. /\ \A x \in Listeners : done'[x] => closed'[x]
        /\ \A x \in Listeners : closed[x] => closed'[x]
        /\ pc[c] \notin Keeping /\ "register" \notin Ending /\ "register" \in Keeping
        BY <1>1, <1>2 DEF Inv, ClosedFirst, Keeping, Ending
  <2>7. /\ \A x \in Listeners : conn[x] # "none" => conn'[x] # "none" /\ tabOf'[x] = tabOf[x]
        /\ \A x \in Listeners : Alive(x)' => Alive(x) \/ tabOf'[x] \in Tabs
        /\ \A x \in Listeners : Alive(x)' /\ ~Alive(x) => l = x
        BY <1>4, <2>5 DEF Alive
  <2> QED BY <1>1, <1>2, <2>2, <2>4, <2>5, <2>6, <2>7, MoveKeeps DEF Alive
<1> QED BY <1>3, <1>4 DEF Dial

\* The request hands its listener to the registry and to the loop.
LEMMA InstallKeeps ==
    ASSUME Inv, NEW c \in Cmds, Register(c), reg[cmd[c].tab] = None PROVE Inv'
<1> PICK l \in Listeners : l = lis[c]
    BY InHand DEF Register, Working, Procs
<1> PICK t \in Tabs : t = cmd[c].tab
    BY CmdPlaces DEF Register
<1>1. /\ pc[c] = "register" /\ c \in Procs /\ c \notin Listeners /\ l \in Procs /\ l # c
      BY CmdPlaces DEF Register, Procs
<1>2. /\ reg' = [reg EXCEPT ![t] = l] /\ pc' = [pc EXCEPT ![c] = "ask", ![l] = "top"]
      /\ UNCHANGED <<conn, lis, cmd, tabOf, heard, channels, closed, recent, done, cut, todo, stream>>
      BY DEF Register, Install
<1>3. /\ pc'[c] = "ask" /\ pc'[l] = "top"
      /\ \A x \in Procs : x # c /\ x # l => pc'[x] = pc[x]
      /\ pc' \in [Procs -> CmdSteps \cup LoopSteps \cup EndSteps \cup EnderSteps]
      BY <1>1, <1>2 DEF Inv, TypeOK, CmdSteps, LoopSteps
<1>4. reg'[t] = l /\ \A x \in Tabs : x # t => reg'[x] = reg[x]
      BY <1>2 DEF Inv, TypeOK
<1>5. TypeOK'
      BY <1>2, <1>3 DEF Inv, TypeOK
<1>6. Places'
  <2> SUFFICES ASSUME NEW x \in Procs PROVE PlaceOf(x, pc'[x], lis'[x], TabOfCmd(x)')
      BY DEF Places
  <2>1. TabOfCmd(x)' = TabOfCmd(x) /\ lis'[x] = lis[x]
        BY <1>2 DEF TabOfCmd
  <2>2. PlaceOf(x, pc[x], lis[x], TabOfCmd(x))
        BY DEF Inv, Places
  <2>3. CASE x = c
        BY <1>1, <1>3, <2>1, <2>3, CmdPlaces DEF CmdSteps
  <2>4. CASE x = l
        BY <1>3, <2>1, <2>2, <2>4, ConstantsAssumption
        DEF PlaceOf, LoopSteps, Working, EndSteps
  <2>5. CASE x # c /\ x # l
        BY <1>3, <2>1, <2>2, <2>5
  <2> QED BY <2>3, <2>4, <2>5
<1>7. \A x \in Procs : pc'[x] \in Ending => pc[x] \in Ending
      BY <1>3 DEF Ending
<1>8. ClosedFirst' /\ OneEnder'
  <2>1. ClosedFirst'
        BY <1>2, <1>7 DEF Inv, ClosedFirst
  <2>2. OneEnder'
        BY <1>2, <1>7 DEF Inv, OneEnder, Ending, EndSteps
  <2> QED BY <2>1, <2>2
<1>9. OwnListener'
  <2>1. \A x \in Cmds : pc'[x] = "register" => pc[x] = "register"
        BY <1>3, ConstantsAssumption DEF Procs
  <2> QED BY <1>2, <2>1 DEF Inv, OwnListener
<1>10. Dialed'
      BY <1>2 DEF Inv, Dialed
<1>11. NoLeak'
  <2> SUFFICES ASSUME NEW x \in Listeners, Alive(x) PROVE InUse(x)' \/ Kept(x)'
      BY <1>2 DEF NoLeak, Alive, InUse, Kept, Keeping
  <2>1. CASE x = l
    <3>1. tabOf[l] = t
          BY <1>1 DEF Inv, OwnListener
    <3> QED BY <1>2, <1>3, <1>4, <2>1, <3>1 DEF InUse
  <2>2. CASE x # l
    <3>1. x \in Procs /\ x # c /\ tabOf[x] \in Tabs
          BY <1>1, <2>2 DEF Inv, Dialed, Alive, Procs
    <3>2. CASE InUse(x)
      <4>1. reg'[tabOf[x]] = x
            BY <1>4, <3>1, <3>2, ConstantsAssumption DEF InUse
      <4> QED BY <1>2, <1>3, <2>2, <3>1, <3>2, <4>1 DEF InUse
    <3>3. CASE Kept(x)
      <4> PICK q \in Procs : lis[q] = x /\ pc[q] \in Keeping
          BY <3>3 DEF Kept
      <4>1. q # l
            BY <2>2, InHand DEF PlaceOf
      <4>2. q # c
            BY <2>2
      <4> QED BY <1>2, <1>3, <4>1, <4>2 DEF Kept
    <3> QED BY <3>2, <3>3, NoLeakMeans DEF Inv
  <2> QED BY <2>1, <2>2
<1> QED BY <1>5, <1>6, <1>8, <1>9, <1>10, <1>11 DEF Inv

\* ... or finds another one there, and closes its own.
LEMMA LostRaceKeeps ==
    ASSUME Inv, NEW c \in Cmds, Register(c), reg[cmd[c].tab] # None PROVE Inv'
<1> DEFINE l == reg[cmd[c].tab]
<1>1. pc[c] = "register" /\ c \in Procs /\ lis[c] \in Listeners /\ cmd[c].tab \in Tabs
      BY CmdPlaces, InHand DEF Register, Working
<1>2. l \in Listeners
      BY <1>1 DEF Inv, TypeOK
<1>3. /\ conn' = [conn EXCEPT ![lis[c]] = "closed"] /\ GotoWith(c, "ask", l)
      /\ UNCHANGED <<reg, tabOf, heard, channels, closed, recent, done, cut, todo, stream>>
      BY DEF Register, LostRace
<1>4. PlaceOf(c, "ask", l, TabOfCmd(c))
      BY <1>1, <1>2, CmdPlaces DEF CmdSteps
<1>5. Moved(c, "ask", l)
      BY <1>1, <1>2, <1>3, <1>4, GotoMoves
<1>6. TypeOK'
  <2>1. conn' \in [Listeners -> ConnStates]
        BY <1>3 DEF Inv, TypeOK, ConnStates
  <2> QED BY <1>3, <1>5, <2>1 DEF Inv, TypeOK, Moved
<1>7. \A x \in Listeners : conn'[x] = IF x = lis[c] THEN "closed" ELSE conn[x]
      BY <1>1, <1>3 DEF Inv, TypeOK
<1>8. /\ \A x \in Listeners : Alive(x)' => Alive(x) /\ lis[c] # x
      /\ \A x \in Listeners : conn[x] # "none" => conn'[x] # "none" /\ tabOf'[x] = tabOf[x]
      /\ \A x \in Listeners : Alive(x)' => Alive(x) \/ tabOf'[x] \in Tabs
      BY <1>3, <1>7 DEF Alive
<1>9. \A x \in Listeners : done'[x] => closed'[x]
      BY <1>3 DEF Inv, ClosedFirst
<1>10. "ask" \notin Ending
      BY DEF Ending
<1> HIDE DEF l
<1> QED BY <1>1, <1>2, <1>3, <1>5, <1>6, <1>8, <1>9, <1>10, MoveKeeps DEF Alive

\* A command cuts the wait short to get at the connection.
LEMMA AskKeeps == ASSUME Inv, NEW c \in Cmds, Ask(c) PROVE Inv'
<1>1. pc[c] = "ask" /\ c \in Procs /\ lis[c] \in Listeners /\ cmd[c].tab \in Tabs
      BY CmdPlaces, InHand DEF Ask, Working
<1>2. /\ GotoWith(c, "lock", lis[c]) /\ cut' = [cut EXCEPT ![lis[c]] = @ \/ pc[lis[c]] = "wait"]
      /\ UNCHANGED <<reg, tabOf, conn, heard, channels, closed, recent, done, todo, stream>>
      BY DEF Ask, AskCmdMu, Goto
<1>3. Around
      BY <1>1, <1>2, AskCut, AroundAll DEF Inv, TypeOK
<1>4. PlaceOf(c, "lock", lis[c], TabOfCmd(c))
      BY <1>1, CmdPlaces DEF CmdSteps
<1> QED BY <1>1, <1>2, <1>3, <1>4, QuietMove DEF Keeping, Ending

\* LISTEN and UNLISTEN turn a set of channels into one.
LEMMA ApplyType ==
    ASSUME NEW set \in SUBSET Channels, NEW chans \in SUBSET Channels, NEW op
    PROVE  Apply(op, set, chans) \in SUBSET Channels
BY DEF Apply

\* The statement runs, fails, or costs the connection.
LEMMA ExecKeeps == ASSUME Inv, NEW c \in Cmds, Exec(c) PROVE Inv'
<1>1. pc[c] = "lock" /\ c \in Procs /\ lis[c] \in Listeners /\ cmd[c].tab \in Tabs
      BY CmdPlaces, InHand DEF Exec, Working
<1>2. cmd[c].chans \in SUBSET Channels
      BY DEF Inv, TypeOK, Command
<1>3. PICK step \in {"track", "idle"} : GotoWith(c, step, lis[c])
      BY DEF Exec, Goto
<1>4. PlaceOf(c, step, lis[c], TabOfCmd(c))
      BY <1>1, <1>3, CmdPlaces DEF CmdSteps
<1>5. UNCHANGED <<reg, tabOf, channels, closed, recent, done, cut, todo, stream>>
      BY DEF Exec
<1>6. /\ conn' \in [Listeners -> ConnStates]
      /\ \A x \in Listeners : conn[x] # "none" => conn'[x] # "none"
      /\ \A x \in Listeners : conn'[x] \in {"open", "broken"} => conn[x] \in {"open", "broken"}
  <2>1. \/ conn' = conn
        \/ conn[lis[c]] = "open" /\ conn' = [conn EXCEPT ![lis[c]] = "broken"]
        BY DEF Exec
  <2> QED BY <2>1 DEF Inv, TypeOK, ConnStates
<1>7. heard' \in [Listeners -> SUBSET Channels]
  <2>1. heard \in [Listeners -> SUBSET Channels]
        BY DEF Inv, TypeOK
  <2>2. Apply(cmd[c].op, heard[lis[c]], cmd[c].chans) \in SUBSET Channels
        BY <1>1, <1>2, <2>1, ApplyType
  <2>3. \/ heard' = heard
        \/ heard' = [heard EXCEPT ![lis[c]] = {}]
        \/ heard' = [heard EXCEPT ![lis[c]] = Apply(cmd[c].op, heard[lis[c]], cmd[c].chans)]
        BY DEF Exec
  <2> QED BY <2>1, <2>2, <2>3
<1>8. Around
      BY <1>5, <1>6, <1>7 DEF Around, Inv, TypeOK
<1> QED BY <1>1, <1>3, <1>4, <1>8, QuietMove DEF Keeping, Ending

\* The set of channels follows; with the last one gone the command ends the
\* listener.
LEMMA TrackKeeps == ASSUME Inv, NEW c \in Cmds, Track(c) PROVE Inv'
<1>1. pc[c] = "track" /\ c \in Procs /\ lis[c] \in Listeners /\ cmd[c].tab \in Tabs
      BY CmdPlaces, InHand DEF Track, Working
<1>2. PICK step \in {"mark", "idle"} : GotoWith(c, step, lis[c])
      BY DEF Track, Goto
<1>3. PlaceOf(c, step, lis[c], TabOfCmd(c))
      BY <1>1, <1>2, CmdPlaces DEF CmdSteps, EndSteps
<1>4. channels' \in [Listeners -> SUBSET Channels]
  <2>1. channels \in [Listeners -> SUBSET Channels] /\ cmd[c].chans \in SUBSET Channels
        BY DEF Inv, TypeOK, Command
  <2>2. Apply(cmd[c].op, channels[lis[c]], cmd[c].chans) \in SUBSET Channels
        BY <1>1, <2>1, ApplyType
  <2>3. channels' = [channels EXCEPT ![lis[c]] =
                       Apply(cmd[c].op, channels[lis[c]], cmd[c].chans)]
        BY DEF Track
  <2> QED BY <2>1, <2>2, <2>3
<1>5. UNCHANGED <<reg, tabOf, conn, heard, closed, recent, done, cut, todo, stream>>
      BY DEF Track
<1>6. Around
      BY <1>4, <1>5 DEF Around, Inv, TypeOK
<1> QED BY <1>1, <1>2, <1>3, <1>6, QuietMove DEF Keeping, Ending
-----------------------------------------------------------------------------
(* The loop, the enders, the streams                                       *)

\* The places a wait loop may go to are those of the loop of its listener.
LEMMA LoopPlaces ==
    ASSUME Inv, NEW l \in Listeners
    PROVE  /\ l \in Procs /\ lis[l] = l
           /\ \A step \in LoopSteps \cup EndSteps : PlaceOf(l, step, l, TabOfCmd(l))
<1>1. l \in Procs /\ l \notin Cmds /\ l \notin Enders
      BY ConstantsAssumption DEF Procs
<1>2. lis[l] = l
      BY <1>1, InHand DEF PlaceOf
<1> QED BY <1>1, <1>2 DEF PlaceOf

\* The loop ends when done is closed, or hands the listener to end.
LEMMA LoopKeeps ==
    ASSUME Inv, NEW l \in Listeners,
           Top(l) \/ StartWait(l) \/ Waited(l) \/ Notified(l) \/ WaitFails(l)
    PROVE  Inv'
<1>1. l \in Procs /\ lis[l] = l
      BY LoopPlaces
<1>2. pc[l] \notin Keeping /\ (done[l] => closed[l])
      BY DEF Top, StartWait, Waited, Notified, WaitFails, EndWait, Keeping, Inv, ClosedFirst
<1>3. PICK step \in LoopSteps \cup {"mark"} :
        GotoWith(l, step, l) /\ (step = "off" => done[l])
      BY <1>1 DEF Top, StartWait, Waited, Notified, WaitFails, EndWait, AfterLoss, Goto, LoopSteps
<1>4. cut' \in [Listeners -> BOOLEAN]
  <2>1. cut' = cut \/ cut' = [cut EXCEPT ![l] = FALSE]
        BY DEF Top, StartWait, Waited, Notified, WaitFails, EndWait
  <2> QED BY <2>1 DEF Inv, TypeOK
<1>5. UNCHANGED <<reg, tabOf, conn, heard, channels, closed, recent, done, todo, stream>>
      BY DEF Top, StartWait, Waited, Notified, WaitFails, EndWait, LoopFrame
<1>6. Around
      BY <1>4, <1>5, AroundAll DEF Inv, TypeOK
<1>7. PlaceOf(l, step, l, TabOfCmd(l))
      BY <1>3, LoopPlaces DEF EndSteps
<1> QED BY <1>1, <1>2, <1>3, <1>6, <1>7, QuietMove DEF Ending, LoopSteps

\* The places of whoever closes a tab, a pool, or idle listeners.
LEMMA EnderPlaces ==
    ASSUME Inv, NEW e \in Enders
    PROVE  /\ e \in Procs
           /\ \A step \in EnderSteps \cup EndSteps : \A l :
                 (step \in Working => l \in Listeners) => PlaceOf(e, step, l, TabOfCmd(e))
BY ConstantsAssumption DEF PlaceOf, Procs

\* Tab close, disconnect and janitor choose the listeners to end and end them
\* one by one.
LEMMA EnderKeeps ==
    ASSUME Inv, NEW e \in Enders,
           \/ CloseTab(e) \/ Doom(e, Unwatched) \/ Doom(e, Registered)
           \/ EndNext(e) \/ ClosePool(e)
    PROVE  Inv'
<1>1. e \in Procs /\ lis[e] \in Listeners \cup {None}
      BY EnderPlaces, InHand
<1>2. pc[e] \notin Keeping
      BY DEF CloseTab, Doom, EndNext, ClosePool, Keeping
<1>3. PICK step \in EnderSteps \cup {"mark"}, l \in Listeners \cup {None} :
        GotoWith(e, step, l) /\ (step = "mark" => l \in Listeners)
  <2>1. CASE CloseTab(e)
    <3>1. \A t \in Tabs : reg[t] # None => reg[t] \in Listeners
          BY DEF Inv, TypeOK
    <3> QED BY <2>1, <3>1 DEF CloseTab
  <2>2. CASE Doom(e, Unwatched) \/ Doom(e, Registered) \/ ClosePool(e)
        BY <1>1, <2>2 DEF Doom, ClosePool, Goto, EnderSteps
  <2>3. CASE EndNext(e)
    <3>1. todo[e] \subseteq Listeners
          BY DEF Inv, TypeOK
    <3> QED BY <1>1, <2>3, <3>1 DEF EndNext, Goto, EnderSteps
  <2> QED BY <2>1, <2>2, <2>3
<1>4. PlaceOf(e, step, l, TabOfCmd(e))
      BY <1>3, EnderPlaces DEF EnderSteps, EndSteps, Working
<1>5. todo' \in [Enders -> SUBSET Listeners]
  <2>1. todo' = todo \/ \E set \in SUBSET Listeners : todo' = [todo EXCEPT ![e] = set]
    <3>1. Unwatched \subseteq Listeners /\ Registered \subseteq Listeners /\ todo[e] \subseteq Listeners
          BY DEF Unwatched, Registered, Inv, TypeOK
    <3> QED BY <3>1 DEF CloseTab, Doom, EndNext, ClosePool
  <2> QED BY <2>1 DEF Inv, TypeOK
<1>6. UNCHANGED <<reg, tabOf, conn, heard, channels, closed, recent, done, cut, stream>>
      BY DEF CloseTab, Doom, EndNext, ClosePool
<1>7. Around
      BY <1>5, <1>6, AroundAll DEF Inv, TypeOK
<1> QED BY <1>1, <1>2, <1>3, <1>4, <1>7, QuietMove DEF Ending, EnderSteps

\* Streams find a listener, subscribe and leave; they end nothing.
LEMMA StreamKeeps ==
    ASSUME Inv, NEW s \in Streams, Find(s) \/ Subscribe(s) \/ Unsubscribe(s) PROVE Inv'
<1>1. stream[s] \in StreamState /\ stream \in [Streams -> StreamState]
      BY DEF Inv, TypeOK
<1>2. stream' \in [Streams -> StreamState]
  <2>1. CASE Find(s)
    <3> PICK l \in Registered : stream' = [stream EXCEPT ![s] = [at |-> "found", lis |-> l]]
        BY <2>1 DEF Find
    <3>1. [at |-> "found", lis |-> l] \in StreamState
          BY DEF StreamState, Registered
    <3> QED BY <1>1, <3>1
  <2>2. CASE Subscribe(s)
        BY <1>1, <2>2 DEF Subscribe, StreamState
  <2>3. CASE Unsubscribe(s)
    <3>1. [at |-> "idle", lis |-> None] \in StreamState
          BY DEF StreamState
    <3> QED BY <1>1, <2>3, <3>1 DEF Unsubscribe
  <2> QED BY <2>1, <2>2, <2>3
<1>3. recent' \in [Listeners -> BOOLEAN]
      BY DEF Find, Subscribe, Unsubscribe, Inv, TypeOK
<1>4. UNCHANGED <<reg, tabOf, conn, heard, channels, closed, done, cut, pc, lis, cmd, todo>>
      BY DEF Find, Subscribe, Unsubscribe
<1>5. Around
      BY <1>2, <1>3, <1>4 DEF Around, Inv, TypeOK
<1> QED BY <1>4, <1>5, Still

\* Time passes and connections break without a step of the program.
LEMMA WorldKeeps == ASSUME Inv, NEW l \in Listeners, Age(l) \/ Break(l) PROVE Inv'
<1>1. UNCHANGED <<reg, tabOf, channels, closed, done, cut, pc, lis, cmd, todo, stream>>
      BY DEF Age, Break
<1>2. /\ recent' \in [Listeners -> BOOLEAN] /\ heard' \in [Listeners -> SUBSET Channels]
      /\ conn' \in [Listeners -> ConnStates]
      BY DEF Age, Break, Inv, TypeOK, ConnStates
<1>3. /\ \A x \in Listeners : conn[x] # "none" => conn'[x] # "none"
      /\ \A x \in Listeners : conn'[x] \in {"open", "broken"} => conn[x] \in {"open", "broken"}
      BY DEF Age, Break, Inv, TypeOK
<1>4. Around
      BY <1>1, <1>2, <1>3 DEF Around, Inv, TypeOK
<1> QED BY <1>1, <1>4, Still
-----------------------------------------------------------------------------
\* At the start there is no listener.
LEMMA InitInv == Init => Inv
<1> SUFFICES ASSUME Init PROVE Inv
    OBVIOUS
<1>1. /\ \A p \in Procs : pc[p] = IF p \in Listeners THEN "off" ELSE "idle"
      /\ \A p \in Procs : lis[p] = IF p \in Listeners THEN p ELSE None
      BY DEF Init
<1>2. TypeOK
  <2>1. NoCommand \in Command /\ [at |-> "idle", lis |-> None] \in StreamState
        BY DEF NoCommand, Command, StreamState
  <2>2. pc \in [Procs -> CmdSteps \cup LoopSteps \cup EndSteps \cup EnderSteps]
        BY DEF Init, CmdSteps, LoopSteps
  <2>3. lis \in [Procs -> Listeners \cup {None}]
        BY DEF Init
  <2> QED BY <2>1, <2>2, <2>3 DEF Init, TypeOK, ConnStates
<1>3. Places
      BY <1>1, ConstantsAssumption
      DEF Places, PlaceOf, Procs, CmdSteps, LoopSteps, EnderSteps, Working, EndSteps
<1>4. ClosedFirst /\ OneEnder
      BY <1>1 DEF Init, ClosedFirst, OneEnder, Ending, EndSteps
<1>5. OwnListener /\ Dialed /\ NoLeak
      BY <1>1 DEF Init, OwnListener, Dialed, NoLeak, Procs
<1> QED BY <1>2, <1>3, <1>4, <1>5 DEF Inv

\* The inductive invariant is kept by every step.
LEMMA NextInv == Inv /\ [Next]_vars => Inv'
<1> SUFFICES ASSUME Inv, [Next]_vars PROVE Inv'
    OBVIOUS
<1>1. ASSUME NEW p \in Procs, EndStep(p) PROVE Inv'
      BY <1>1, MarkKeeps, UnregisterKeeps, AskCloseKeeps, CloseKeeps DEF EndStep
<1>2. ASSUME NEW c \in Cmds, StartCmd(c) \/ CmdStep(c) PROVE Inv'
  <2>1. CASE Register(c)
        BY <2>1, InstallKeeps, LostRaceKeeps
  <2>2. CASE EndStep(c)
        BY <1>1, <2>2 DEF Procs
  <2> QED BY <1>2, <2>1, <2>2, StartCmdKeeps, LookKeeps, DialKeeps, AskKeeps, ExecKeeps, TrackKeeps
          DEF CmdStep
<1>3. ASSUME NEW l \in Listeners, LoopStep(l) \/ Age(l) \/ Break(l) PROVE Inv'
  <2>1. CASE EndStep(l)
        BY <1>1, <2>1 DEF Procs
  <2> QED BY <1>3, <2>1, LoopKeeps, WorldKeeps DEF LoopStep
<1>4. ASSUME NEW e \in Enders, EnderStep(e) PROVE Inv'
  <2>1. CASE EndStep(e)
        BY <1>1, <2>1 DEF Procs
  <2> QED BY <1>4, <2>1, EnderKeeps DEF EnderStep
<1>5. ASSUME NEW e \in Enders, JanitorTick(e) \/ CloseTab(e) \/ Disconnect(e) PROVE Inv'
      BY <1>5, EnderKeeps DEF JanitorTick, Disconnect
<1>6. ASSUME NEW s \in Streams, Find(s) \/ Subscribe(s) \/ Unsubscribe(s) PROVE Inv'
      BY <1>6, StreamKeeps
<1>7. CASE UNCHANGED vars
  <2>1. Around /\ UNCHANGED <<pc, lis, cmd>>
        BY <1>7 DEF vars, Around, Inv, TypeOK
  <2> QED BY <2>1, Still
<1>8. Janitors \subseteq Enders /\ TabClosers \subseteq Enders /\ Droppers \subseteq Enders
      BY DEF Enders
<1> QED BY <1>2, <1>3, <1>4, <1>5, <1>6, <1>7, <1>8 DEF Next

\* So it holds throughout.
LEMMA InvAlways == Spec => []Inv
BY InitInv, NextInv, PTL DEF Spec
-----------------------------------------------------------------------------
(* Theorems.                                                               *)

\* The listeners, their goroutines and their streams keep their types.
THEOREM TypeCorrect == Spec => []TypeOK
<1>1. Inv => TypeOK
      BY DEF Inv
<1> QED BY <1>1, InvAlways, PTL

\* One goroutine does the work of ending a listener, however many try
\* (end: closed is tested and set under the listener's mu).
THEOREM EndedOnce == Spec => []OneEnder
<1>1. Inv => OneEnder
      BY DEF Inv
<1> QED BY <1>1, InvAlways, PTL

\* A dedicated connection always has somebody who will close it: the
\* listener registered for its tab, or the goroutine that opens or ends it
\* (getListener, end).
THEOREM NoConnectionForgotten == Spec => []NoLeak
<1>1. Inv => NoLeak
      BY DEF Inv
<1> QED BY <1>1, InvAlways, PTL
=============================================================================
