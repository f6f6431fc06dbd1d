----------------------------- MODULE ConnLease -----------------------------
(***************************************************************************)
(* What session.go promises about a pooled connection (comments of         *)
(* tabSession and finishFunc): it is used by one party at a time, it is    *)
(* pinned and used again on behalf of one tab only, and once that tab has  *)
(* lost it, it can only go back to its pool.                               *)
(***************************************************************************)
CONSTANTS Conns, Tabs, NoTab

VARIABLE lease      \* connection -> who has it, and for which tab

\* "used": by a request, since it left the pool;  "idle": pinned on the tab;
\* "reused": pinned, and used by a request of the tab;  "revoked": so, but no
\* longer pinned;  "ending": by the task that rolls it back;  "lost": by nobody.
Holders == {"used", "idle", "reused", "revoked", "ending"}
Lease   == [by: Holders, tab: Tabs \cup {NoTab}]
InPool  == [by |-> "pool", tab |-> NoTab]
Lost    == [by |-> "lost", tab |-> NoTab]

TypeOK == lease \in [Conns -> Lease \cup {InPool, Lost}]

Init == lease = [c \in Conns |-> InPool]

Pass(c, by) == lease' = [lease EXCEPT ![c].by = by]

Acquire(c) ==
    /\ lease[c] = InPool
    /\ \E t \in Tabs \cup {NoTab} :
         lease' = [lease EXCEPT ![c] = [by |-> "used", tab |-> t]]

\* What was pinned on the tab before is so no more: nobody has it, unless a
\* request is using it.
Pin(c) ==
    LET Unpinned(d) == CASE d.by = "idle"   -> Lost
                         [] d.by = "reused" -> [d EXCEPT !.by = "revoked"]
                         [] OTHER           -> d
    IN  /\ lease[c].by \in {"used", "reused"} /\ lease[c].tab \in Tabs
        /\ lease' = [d \in Conns |->
                       IF d = c THEN [lease[c] EXCEPT !.by = "idle"]
                       ELSE IF lease[d].tab = lease[c].tab THEN Unpinned(lease[d])
                       ELSE lease[d]]

Reuse(c) == lease[c].by = "idle" /\ Pass(c, "reused")

\* Pinned connections are taken from their tabs, all at once.
Pinned == {c \in Conns : lease[c].by \in {"idle", "reused"}}
Unpin(S) ==
    lease' = [c \in Conns |->
                IF c \in S
                THEN [lease[c] EXCEPT !.by = IF @ = "idle" THEN "ending" ELSE "revoked"]
                ELSE lease[c]]

Return(c) ==
    /\ lease[c].by \in {"used", "revoked", "ending"}
    /\ lease' = [lease EXCEPT ![c] = InPool]

Next ==
    \/ \E c \in Conns : Acquire(c) \/ Pin(c) \/ Reuse(c) \/ Return(c)
    \/ \E S \in (SUBSET Pinned) \ {{}} : Unpin(S)

Spec == Init /\ [][Next]_lease
=============================================================================
