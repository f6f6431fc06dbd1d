----------------------------- MODULE PrivForms -----------------------------
(***************************************************************************)
(* The privilege editor of one object (privileges.go) and the Grant Wizard *)
(* of a schema (grant_wizard.go).  The editor's grid carries the access    *)
(* list it was loaded with, and its script is the difference; the wizard   *)
(* grants or revokes whatever is ticked, one statement per kind of object. *)
(* The script runs one statement at a time beside other sessions.          *)
(*                                                                         *)
(* One object of each kind stands for all of it.  A cell of an access list *)
(* is 0, 1 (granted) or 2 (with grant option).  The script runs with the   *)
(* rights of the owner, whose grants the cells are; who holds one with     *)
(* grant option may have passed it on, without the option.                 *)
(***************************************************************************)
EXTENDS Naturals, SequencesExt

CONSTANTS Objects,     \* the kinds of object that are looked at
          Looked,      \* the privileges that are looked at
          Grantees,    \* "PUBLIC" and the roles
          MaxPrivSteps \* bound: the edits, the runs and the steps of other sessions

Public == "PUBLIC"
TablePrivs == {"SELECT", "INSERT", "UPDATE", "DELETE", "TRUNCATE", "REFERENCES", "TRIGGER"}
PrivKinds ==
    [database |-> {"CONNECT", "CREATE", "TEMPORARY"}, tablespace |-> {"CREATE"},
     schema |-> {"USAGE", "CREATE"}, table |-> TablePrivs, view |-> TablePrivs,
     matview |-> TablePrivs, sequence |-> {"USAGE", "SELECT", "UPDATE"},
     function |-> {"EXECUTE"}, procedure |-> {"EXECUTE"}]
ASSUME PrivAssumption == Objects \subseteq DOMAIN PrivKinds /\ IsFiniteSet(Grantees)
PrivsOf(o) == PrivKinds[o] \cap Looked
GrantTypes == <<"table", "view", "matview", "sequence", "function", "procedure">>
AllKeyword(k) == k \notin {"view", "matview"}
Unset == [p \in Looked |-> 0]

VARIABLES acl,     \* object -> grantee -> privilege -> cell, as the owner granted it
          passed,  \* <<o, g, h, p>>: g passed privilege p on object o on to h
          there,   \* the objects that exist
          sheet,   \* the form of the open panel
          script,  \* the form the script tab's SQL was built from
          work,    \* the script under way
          opened,  \* how often a panel was loaded
          still,   \* the load since which nobody else changed anything
          privSteps
privVars == <<acl, passed, there, sheet, script, work, opened, still, privSteps>>

NoSheet == [panel |-> "none", load |-> 0]
NoWork  == [left |-> <<>>, form |-> NoSheet, alone |-> FALSE]
Held(o, h, p) == \E g \in Grantees : <<o, g, h, p>> \in passed
Depended(o, g, p) == \E h \in Grantees : <<o, g, h, p>> \in passed
PrivStep == privSteps < MaxPrivSteps /\ privSteps' = privSteps + 1
-----------------------------------------------------------------------------
(* The builders.                                                           *)

Granting(on, to, privs, opt) == [op |-> "grant", on |-> on, all |-> {}, to |-> to, privs |-> privs, opt |-> opt]
Revoking(on, to, privs)      == [Granting(on, to, privs, FALSE) EXCEPT !.op = "revoke"]
NoLonger(on, to, privs)      == [Granting(on, to, privs, FALSE) EXCEPT !.op = "revoke option"]

\* A statement without privileges is not written.
Emit(s) == IF s.privs = {} THEN <<>> ELSE <<s>>

PrivDiff_GrantOnly(o, g, orig, cur) ==
    Emit(Revoking({o}, {g}, {p \in PrivsOf(o) : orig[p] > 0 /\ cur[p] = 0}))
    \o Emit(Granting({o}, {g}, {p \in PrivsOf(o) : cur[p] = 1}, FALSE))
    \o Emit(Granting({o}, {g}, {p \in PrivsOf(o) : orig[p] < 2 /\ cur[p] = 2}, TRUE))

PrivDiff_Whole(o, g, orig, cur) ==
    Emit(Revoking({o}, {g}, {p \in PrivsOf(o) : cur[p] = 0}))
    \o Emit(Granting({o}, {g}, {p \in PrivsOf(o) : cur[p] > 0}, FALSE))

\* From the cells a grantee had to those the grid shows now.
PrivDiff(o, g, orig, cur) ==
    LET revoke   == {p \in PrivsOf(o) : orig[p] > 0 /\ cur[p] = 0}
        dropOpt  == {p \in PrivsOf(o) : orig[p] = 2 /\ cur[p] = 1}
        grant    == {p \in PrivsOf(o) : orig[p] = 0 /\ cur[p] = 1}
        grantOpt == {p \in PrivsOf(o) : orig[p] < 2 /\ cur[p] = 2}
    IN  Emit(Revoking({o}, {g}, revoke)) \o Emit(NoLonger({o}, {g}, dropOpt))
        \o Emit(Granting({o}, {g}, grant, FALSE)) \o Emit(Granting({o}, {g}, grantOpt, TRUE))

\* One difference per row, and the row of the new grantee last.
BuildPrivileges(f) ==
    FlattenSeq([i \in 1 .. Cardinality(f.rows) |->
                  LET g == SetToSeq(f.rows)[i] IN PrivDiff(f.obj, g, f.orig[g], f.cell[g])])
    \o IF f.newgrantee \in Grantees THEN PrivDiff(f.obj, f.newgrantee, Unset, f.newcell) ELSE <<>>

\* Each group receives the chosen privileges it knows; ALL TABLES covers the
\* views as well.
GroupPrivs(f, k) == f.privs \cap PrivsOf(k)

CoveredByAll(f, k) ==
    \/ f.pick[k] = "all"
    \/ k \in {"view", "matview"} /\ "table" \in Objects /\ f.pick["table"] = "all"

GroupStatement(f, k) ==
    LET s == IF f.mode \in {"revoke", "cascade"}
             THEN [Revoking({}, f.to, GroupPrivs(f, k)) EXCEPT !.op = f.mode]
             ELSE Granting({}, f.to, GroupPrivs(f, k), f.mode = "grantopt")
    IN  IF f.pick[k] = "all"
        THEN [s EXCEPT !.all = IF k = "table" THEN Objects \cap {"table", "view", "matview"} ELSE {k}]
        ELSE [s EXCEPT !.on = IF f.pick[k] = "ticked" /\ ~CoveredByAll(f, k) THEN {k} ELSE {}]

GroupStatements(f, k) ==
    LET s == GroupStatement(f, k)
    IN  IF k \in Objects /\ s.on \cup s.all # {} /\ s.to # {} THEN Emit(s) ELSE <<>>

BuildGrantWizard(f) == FlattenSeq([i \in DOMAIN GrantTypes |-> GroupStatements(f, GrantTypes[i])])

Statements(f) == CASE f.panel = "grid" -> BuildPrivileges(f)
                   [] f.panel = "wizard" -> BuildGrantWizard(f)
                   [] OTHER -> <<>>
-----------------------------------------------------------------------------
(* The server: ON ALL finds the objects when the statement runs, and a     *)
(* grant option others depend on is only taken away with CASCADE.          *)

Touches(s, o, g, p) == o \in s.on \cup s.all /\ g \in s.to /\ p \in s.privs

Allowed(s) ==
    /\ s.on \subseteq there
    /\ \A o \in s.on \cup s.all : s.privs \subseteq PrivsOf(o)
    /\ s.op = "grant" /\ s.opt => Public \notin s.to
    /\ s.op \in {"revoke", "revoke option"} =>
         \A o \in Objects, g \in Grantees, p \in Looked : Touches(s, o, g, p) => ~Depended(o, g, p)

Level(s, old) ==
    CASE s.op \in {"revoke", "cascade"} -> 0
      [] s.op = "revoke option" -> IF old = 2 THEN 1 ELSE old
      [] s.op = "grant" -> IF s.opt \/ old = 2 THEN 2 ELSE 1

Granted(s) ==
    [o \in Objects |-> [g \in Grantees |-> [p \in Looked |->
        IF o \in there /\ Touches(s, o, g, p) THEN Level(s, acl[o][g][p]) ELSE acl[o][g][p]]]]

PassedAfter(s) ==
    IF s.op # "cascade" THEN passed ELSE {q \in passed : ~Touches(s, q[1], q[2], q[4])}
-----------------------------------------------------------------------------
(* The panels.                                                             *)

\* The SQL of the form replaces the script, also if it asks for nothing.
HandlePrivPreview(f) == script' = f

Opened(f) == /\ opened' = opened + 1 /\ still' = opened + 1
             /\ sheet' = f /\ HandlePrivPreview(f)
             /\ UNCHANGED <<acl, passed, there, work, privSteps>>

\* A cell held from several shows one of the grants: the last the query returned.
ShownCells(o, owners) ==
    [g \in Grantees |-> [p \in Looked |->
        IF Held(o, g, p) /\ (acl[o][g][p] = 0 \/ ~owners) THEN 1 ELSE acl[o][g][p]]]

\* The access list is read first; without it the panel has no rows and no
\* grantees, without the roles it only has no grantees.  Reset opens the
\* panel again.
HandlePrivPanel(o) ==
    /\ work = NoWork /\ opened <= privSteps
    /\ \A f \in {sheet, script} : f # NoSheet => f.panel = "grid" /\ f.obj = o
    /\ \E read \in {"all", "rows", "nothing"}, owners \in BOOLEAN :
       LET cells == ShownCells(o, owners)
       IN Opened([panel |-> "grid", load |-> opened + 1, obj |-> o,
                 rows |-> IF o \in there /\ read # "nothing"
                          THEN {g \in Grantees : cells[g] # Unset} ELSE {},
                 orig |-> cells, cell |-> cells, newgrantee |-> "", newcell |-> Unset,
                 grantees |-> IF o \in there /\ read = "all" THEN Grantees ELSE {}])

\* The roles of the wizard and the objects of each group; a failed read
\* leaves the group and those after it out.
HandleGrantObjects ==
    /\ sheet = NoSheet /\ script = NoSheet
    /\ \E upto \in 0 .. Len(GrantTypes) :
         Opened([panel |-> "wizard", load |-> opened + 1,
                 listed |-> there \cap {GrantTypes[i] : i \in 1 .. upto},
                 pick |-> [k \in Objects |-> "none"], privs |-> {}, to |-> {}, mode |-> "grant"])

EditGrid ==
    /\ sheet.panel = "grid" /\ PrivStep
    /\ \E p \in PrivsOf(sheet.obj), l \in 0 .. 2 :
         \/ \E g \in sheet.rows : sheet' = [sheet EXCEPT !.cell[g][p] = l]
         \/ \E g \in sheet.grantees : sheet' = [sheet EXCEPT !.newgrantee = g, !.newcell[p] = l]
    /\ sheet' # sheet /\ HandlePrivPreview(sheet')
    /\ UNCHANGED <<acl, passed, there, work, opened, still>>

\* The wizard is filled in at once: only its last state counts.
FillWizard ==
    /\ sheet.panel = "wizard" /\ sheet.to = {} /\ PrivStep
    /\ \E pick \in [Objects -> {"none", "ticked", "all"}], to \in SUBSET Grantees \ {{}},
          privs \in {Looked} \cup {{p} : p \in Looked}, mode \in {"grant", "grantopt", "revoke", "cascade"} :
         /\ \A k \in Objects : /\ pick[k] = "ticked" => k \in sheet.listed
                               /\ pick[k] = "all" => AllKeyword(k) /\ k \in ToSet(GrantTypes)
         /\ sheet' = [sheet EXCEPT !.pick = pick, !.privs = privs, !.to = to, !.mode = mode]
    /\ HandlePrivPreview(sheet')
    /\ UNCHANGED <<acl, passed, there, work, opened, still>>
-----------------------------------------------------------------------------
(* The script and the other sessions.                                      *)

StartScript ==
    /\ work = NoWork /\ PrivStep /\ Statements(script) # <<>>
    /\ work' = [left |-> Statements(script), form |-> script,
                alone |-> script.panel = "wizard" \/ script.load = still]
    /\ UNCHANGED <<acl, passed, there, sheet, script, opened, still>>

RunGrant ==
    /\ work.left # <<>> /\ Allowed(Head(work.left))
    /\ acl' = Granted(Head(work.left)) /\ passed' = PassedAfter(Head(work.left))
    /\ work' = [work EXCEPT !.left = Tail(@)]
    /\ still' = IF work.form.load = still THEN still ELSE 0
    /\ UNCHANGED <<there, sheet, script, opened, privSteps>>

StopScript ==
    /\ work.left # <<>> /\ ~Allowed(Head(work.left))
    /\ work' = NoWork /\ still' = 0
    /\ UNCHANGED <<acl, passed, there, sheet, script, opened, privSteps>>

\* The editor of one object is loaded again, the wizard is not.
FinishScript ==
    /\ work # NoWork /\ work.left = <<>>
    /\ work' = NoWork /\ still' = 0
    /\ sheet' = IF sheet.panel = "grid" THEN NoSheet ELSE sheet
    /\ UNCHANGED <<acl, passed, there, script, opened, privSteps>>

\* Before there is a script they only change what the panel is loaded with.
OtherGrants ==
    /\ PrivStep /\ Statements(script) # <<>> /\ still' = 0 /\ work' = [work EXCEPT !.alone = FALSE]
    /\ \/ \E o \in there, g \in Grantees \ {Public}, l \in {0, 2} :
            /\ acl' = [acl EXCEPT ![o][g] = [p \in Looked |-> IF p \in PrivsOf(o) THEN l ELSE 0]]
            /\ passed' = IF l = 2 THEN passed ELSE {q \in passed : <<q[1], q[2]>> # <<o, g>>}
            /\ UNCHANGED there
       \/ \E o \in there, g, h \in Grantees :
            /\ g # h
            /\ passed' = passed \cup {<<o, g, h, p>> : p \in {p \in Looked : acl[o][g][p] = 2}}
            /\ UNCHANGED <<acl, there>>
       \/ \E o \in Objects :
            /\ acl' = [acl EXCEPT ![o] = [g \in Grantees |-> Unset]]
            /\ passed' = {q \in passed : q[1] # o}
            /\ there' = IF o \in there THEN there \ {o} ELSE there \cup {o}
    /\ UNCHANGED <<sheet, script, opened>>

PrivInit ==
    /\ \E o \in Objects : there \in {Objects, Objects \ {o}}
    /\ \E l \in 0 .. 2 :
         acl = [o \in Objects |-> [g \in Grantees |-> [p \in Looked |->
                  IF o \in there /\ g # Public /\ p \in PrivsOf(o) THEN l ELSE 0]]]
    /\ passed \in {{}, {q \in Objects \X Grantees \X Grantees \X Looked :
                         q[2] # q[3] /\ acl[q[1]][q[2]][q[4]] = 2}}
    /\ sheet = NoSheet /\ script = NoSheet /\ work = NoWork
    /\ opened = 0 /\ still = 0 /\ privSteps = 0

PrivNext ==
    \/ \E o \in Objects : HandlePrivPanel(o)
    \/ HandleGrantObjects \/ EditGrid \/ FillWizard
    \/ StartScript \/ RunGrant \/ StopScript \/ FinishScript \/ OtherGrants

PrivSpec == PrivInit /\ [][PrivNext]_privVars
-----------------------------------------------------------------------------
Chosen(f, o) == f.pick[o] = "ticked" \/ CoveredByAll(f, o)

\* What form f asks of cell (o, g, p), which holds c otherwise.
Asked(f, o, g, p, c) ==
    IF f.panel = "grid"
    THEN LET row == IF g \in f.rows THEN f.cell[g][p] ELSE c
         IN  IF o # f.obj THEN c
             ELSE IF g = f.newgrantee /\ f.newcell[p] > row THEN f.newcell[p] ELSE row
    ELSE IF ~Chosen(f, o) \/ g \notin f.to \/ p \notin f.privs \cap PrivsOf(o) THEN c
         ELSE IF f.mode \in {"revoke", "cascade"} THEN 0 ELSE IF f.mode = "grantopt" \/ c = 2 THEN 2 ELSE 1

(* When a script that was left alone ends, what the owner granted is the   *)
(* grid, the row of the new grantee on top and cells that are also held    *)
(* from another grantee excepted, or holds what the wizard asked for.  A   *)
(* statement is refused only because an object that was ticked by name is  *)
(* gone, PUBLIC is given a grant option, or others depend on a grant       *)
(* option that is taken away without CASCADE.                              *)
ListIsAsAsked ==
    LET f == work.form
        Ended == work.alone =>
            \A o \in there, g \in Grantees, p \in Looked :
                \/ acl[o][g][p] = Asked(f, o, g, p, acl[o][g][p])
                \/ f.panel = "grid" /\ Held(o, g, p)
        Cause ==
            IF f.panel = "grid" THEN
                 \/ f.obj \notin there
                 \/ \E p \in Looked : 2 \in {f.cell[Public][p]}
                                         \cup IF f.newgrantee = Public THEN {f.newcell[p]} ELSE {}
                 \/ \E g \in f.rows, p \in Looked : f.cell[g][p] < f.orig[g][p] /\ Depended(f.obj, g, p)
            ELSE \/ f.mode = "grantopt" /\ Public \in f.to
                 \/ \E o \in Objects \ there : f.pick[o] = "ticked" /\ ~CoveredByAll(f, o)
                 \/ f.mode = "revoke" /\ \E o \in Objects, g \in f.to, p \in f.privs :
                                            Chosen(f, o) /\ Depended(o, g, p)
    IN  work # NoWork => IF work.left = <<>> THEN Ended ELSE Allowed(Head(work.left)) \/ Cause

(* No statement changes a cell its user left as it was loaded, or did not  *)
(* choose, whatever other sessions did since: but CASCADE takes away what  *)
(* those who were chosen passed on, and nothing else does.                 *)
CellsLeftAlone ==
    [][RunGrant => \A o \in Objects, g \in Grantees, p \in Looked :
         LET f == work.form
         IN  /\ acl'[o][g][p] # acl[o][g][p] =>
                  IF f.panel = "grid"
                  THEN /\ o = f.obj
                       /\ \/ g \in f.rows /\ f.cell[g][p] # f.orig[g][p]
                          \/ g = f.newgrantee /\ f.newcell[p] > 0
                  ELSE Asked(f, o, g, p, 0) # 0 \/ Asked(f, o, g, p, 1) # 1
             /\ \A h \in Grantees : (<<o, g, h, p>> \in passed') # (<<o, g, h, p>> \in passed) =>
                  f.panel = "wizard" /\ f.mode = "cascade" /\ Asked(f, o, g, p, 1) = 0]_privVars

PrivTypeOK ==
    /\ there \subseteq Objects
    /\ acl \in [Objects -> [Grantees -> [Looked -> 0 .. 2]]]
    /\ \A o \in Objects, g \in Grantees, p \in Looked :
         acl[o][g][p] > 0 => o \in there /\ p \in PrivsOf(o)
    /\ passed \subseteq Objects \X Grantees \X Grantees \X Looked
    /\ \A q \in passed : q[2] # q[3] /\ acl[q[1]][q[2]][q[4]] = 2
    /\ sheet.load <= opened /\ still \in 0 .. opened
=============================================================================
