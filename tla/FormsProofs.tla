----------------------------- MODULE FormsProofs -----------------------------
(***************************************************************************)
(* Proofs about the privilege editor and the Grant Wizard, about the       *)
(* Create panels with the scripts of the properties panels, and about the  *)
(* four kinds of forms together.                                           *)
(***************************************************************************)
EXTENDS Forms, AlterFormsProofs
-----------------------------------------------------------------------------
(* The privilege editor and the Grant Wizard.                              *)

Cells == [Looked -> 0 .. 2]
GridForm ==
    {f \in [panel : {"grid"}, load : Nat \ {0}, obj : Objects, rows : SUBSET Grantees,
            orig : [Grantees -> Cells], cell : [Grantees -> Cells],
            newgrantee : Grantees \cup {""}, newcell : Cells, grantees : SUBSET Grantees] :
       \A p \in Looked \ PrivsOf(f.obj) :
         f.newcell[p] = 0 /\ \A g \in Grantees : f.orig[g][p] = 0 /\ f.cell[g][p] = 0}
WizardForm ==
    {f \in [panel : {"wizard"}, load : Nat \ {0}, listed : SUBSET Objects,
            pick : [Objects -> {"none", "ticked", "all"}], privs : SUBSET Looked,
            to : SUBSET Grantees, mode : {"grant", "grantopt", "revoke", "cascade"}] :
       /\ f.listed \subseteq ToSet(GrantTypes)
       /\ \A k \in Objects : /\ f.pick[k] = "ticked" => k \in f.listed
                             /\ f.pick[k] = "all" => AllKeyword(k) /\ k \in ToSet(GrantTypes)}
Statement == [op : {"grant", "revoke", "revoke option", "cascade"}, on : SUBSET Objects, all : SUBSET Objects,
              to : SUBSET Grantees, privs : SUBSET Looked, opt : BOOLEAN]
Work == [left : Seq(Statement), form : GridForm \cup WizardForm, alone : BOOLEAN] \cup {NoWork}

DiffStatements(o, g, orig, now) ==
    {s \in {Revoking({o}, {g}, {p \in PrivsOf(o) : orig[p] > 0 /\ now[p] = 0}),
            NoLonger({o}, {g}, {p \in PrivsOf(o) : orig[p] = 2 /\ now[p] = 1}),
            Granting({o}, {g}, {p \in PrivsOf(o) : orig[p] = 0 /\ now[p] = 1}, FALSE),
            Granting({o}, {g}, {p \in PrivsOf(o) : orig[p] < 2 /\ now[p] = 2}, TRUE)} : s.privs # {}}
RowStatements(f) == UNION {DiffStatements(f.obj, g, f.orig[g], f.cell[g]) : g \in f.rows}
NewStatements(f) ==
    IF f.newgrantee \in Grantees THEN DiffStatements(f.obj, f.newgrantee, Unset, f.newcell) ELSE {}
NewPart(f) ==
    IF f.newgrantee \in Grantees THEN PrivDiff(f.obj, f.newgrantee, Unset, f.newcell) ELSE <<>>

RowCell(f, g, p) == IF g \in f.rows THEN f.cell[g][p] ELSE f.orig[g][p]
LastCell(f, g, p) ==
    IF g = f.newgrantee /\ f.newcell[p] > RowCell(f, g, p) THEN f.newcell[p] ELSE RowCell(f, g, p)

\* A cell that is also held from another grantee may show either grant.
RowsLeft(f, X) ==
    \A g \in Grantees, p \in PrivsOf(f.obj) :
       \/ Held(f.obj, g, p)
       \/ acl[f.obj][g][p] = RowCell(f, g, p)
       \/ acl[f.obj][g][p] = f.orig[g][p] /\ \E s \in Range(X) : Touches(s, f.obj, g, p)
NewLeft(f, L) ==
    \A g \in Grantees, p \in PrivsOf(f.obj) :
       \/ Held(f.obj, g, p)
       \/ acl[f.obj][g][p] = LastCell(f, g, p)
       \/ acl[f.obj][g][p] = RowCell(f, g, p) /\ \E s \in Range(L) : Touches(s, f.obj, g, p)

GridWork(f) ==
    \/ \E X \in Seq(RowStatements(f)) :
          work.left = X \o NewPart(f) /\ (work.alone => RowsLeft(f, X))
    \/ work.left \in Seq(NewStatements(f)) /\ (work.alone => NewLeft(f, work.left))

GroupsOf(f) ==
    {s \in {GroupStatement(f, k) : k \in Objects \cap ToSet(GrantTypes)} :
        s.on \cup s.all # {} /\ s.to # {} /\ s.privs # {}}
Fixed(f, c) == CASE f.mode \in {"revoke", "cascade"} -> c = 0 [] f.mode = "grantopt" -> c = 2 [] OTHER -> c > 0
WizardWork(f) ==
    /\ work.left \in Seq(GroupsOf(f))
    /\ work.alone => \A o \in there, g \in f.to, p \in f.privs :
         Chosen(f, o) /\ p \in PrivsOf(o) => Fixed(f, acl[o][g][p]) \/ \E s \in Range(work.left) : Touches(s, o, g, p)

AsLoaded ==
    work = NoWork => \A f \in {sheet, script} : f.panel = "grid" /\ f.load = still =>
        \A g \in Grantees, p \in Looked : Held(f.obj, g, p) \/ acl[f.obj][g][p] = f.orig[g][p]

Typed ==
    /\ PrivTypeOK
    /\ sheet \in GridForm \cup WizardForm \cup {NoSheet}
    /\ script \in GridForm \cup WizardForm \cup {NoSheet} /\ script.load <= opened
    /\ work \in Work /\ work.form.load <= opened /\ opened \in Nat
GoesOn ==
    /\ work.form.panel = "grid" => GridWork(work.form)
    /\ work.form.panel = "wizard" => WizardWork(work.form)
PInv == Typed /\ AsLoaded /\ GoesOn

\* The privileges of an object are among those that are looked at.
LEMMA PrivsKnown ==
    ASSUME NEW o \in Objects PROVE PrivsOf(o) \subseteq Looked
BY DEF PrivsOf

\* Tables and views of both kinds have the same privileges.
LEMMA SameTablePrivs ==
    ASSUME NEW o \in Objects \cap {"table", "view", "matview"}
    PROVE  PrivsOf(o) = TablePrivs \cap Looked
BY DEF PrivsOf, PrivKinds

-----------------------------------------------------------------------------
(* The statements of a row.                                                *)

\* Emit returns its statement if that has a privilege in it.
LEMMA EmitRange ==
    ASSUME NEW T, NEW s, s.privs # {} => s \in T
    PROVE  Emit(s) \in Seq(T) /\ (s.privs # {} => s \in Range(Emit(s)))
<1>1. CASE s.privs = {} BY <1>1 DEF Emit
<1>2. CASE s.privs # {} BY <1>2 DEF Emit, Range
<1> QED BY <1>1, <1>2

\* PrivDiff returns the statements of DiffStatements: those of the four
\* kinds that have a privilege in them.
LEMMA PrivDiffRange ==
    ASSUME NEW o, NEW g, NEW orig, NEW now
    PROVE  /\ PrivDiff(o, g, orig, now) \in Seq(DiffStatements(o, g, orig, now))
           /\ DiffStatements(o, g, orig, now) \subseteq Range(PrivDiff(o, g, orig, now))
<1> DEFINE T == DiffStatements(o, g, orig, now)
           a == Revoking({o}, {g}, {p \in PrivsOf(o) : orig[p] > 0 /\ now[p] = 0})
           b == NoLonger({o}, {g}, {p \in PrivsOf(o) : orig[p] = 2 /\ now[p] = 1})
           c == Granting({o}, {g}, {p \in PrivsOf(o) : orig[p] = 0 /\ now[p] = 1}, FALSE)
           d == Granting({o}, {g}, {p \in PrivsOf(o) : orig[p] < 2 /\ now[p] = 2}, TRUE)
<1>1. T = {s \in {a, b, c, d} : s.privs # {}} BY DEF DiffStatements
<1>2. PrivDiff(o, g, orig, now) = Emit(a) \o Emit(b) \o Emit(c) \o Emit(d) BY DEF PrivDiff
<1> HIDE DEF T, a, b, c, d
<1>3. \A s \in {a, b, c, d} : Emit(s) \in Seq(T) /\ (s.privs # {} => s \in Range(Emit(s)))
  <2> TAKE s \in {a, b, c, d}
  <2> QED BY <1>1, EmitRange
<1> DEFINE ea == Emit(a)
           eb == Emit(b)
           ec == Emit(c)
           ed == Emit(d)
<1>4. ea \in Seq(T) /\ eb \in Seq(T) /\ ec \in Seq(T) /\ ed \in Seq(T) BY <1>3
<1>5. /\ T \subseteq {a, b, c, d} /\ \A s \in T : s.privs # {}
      /\ (a.privs # {} => a \in Range(ea)) /\ (b.privs # {} => b \in Range(eb))
      /\ (c.privs # {} => c \in Range(ec)) /\ (d.privs # {} => d \in Range(ed))
  BY <1>1, <1>3
<1> HIDE DEF ea, eb, ec, ed
<1>6. ea \o eb \in Seq(T) /\ Range(ea \o eb) = Range(ea) \cup Range(eb) BY <1>4, ConcatRange
<1> DEFINE ab == ea \o eb
<1> HIDE DEF ab
<1>7. ab \in Seq(T) BY <1>6 DEF ab
<1>8. ab \o ec \in Seq(T) /\ Range(ab \o ec) = Range(ab) \cup Range(ec) BY <1>4, <1>7, ConcatRange
<1> DEFINE abc == ab \o ec
<1> HIDE DEF abc
<1>9. abc \in Seq(T) BY <1>8 DEF abc
<1>10. abc \o ed \in Seq(T) /\ Range(abc \o ed) = Range(abc) \cup Range(ed) BY <1>4, <1>9, ConcatRange
<1>11. PrivDiff(o, g, orig, now) = abc \o ed BY <1>2 DEF ea, eb, ec, ed, ab, abc
<1>12. T \subseteq Range(abc \o ed) BY <1>5, <1>6, <1>8, <1>10 DEF ab, abc
<1> QED BY <1>10, <1>11, <1>12 DEF T

\* A statement of the difference takes each cell it touches from what it
\* was to what it shall be, and leaves a cell alone that is there already.
LEMMA DiffMeans ==
    ASSUME NEW o \in Objects, NEW g \in Grantees, NEW orig \in Cells, NEW now \in Cells,
           NEW s \in DiffStatements(o, g, orig, now)
    PROVE  /\ s \in Statement
           /\ s.on = {o} /\ s.all = {} /\ s.to = {g} /\ s.privs \subseteq PrivsOf(o)
           /\ \A p \in s.privs : /\ orig[p] # now[p]
                                 /\ Level(s, orig[p]) = now[p] /\ Level(s, now[p]) = now[p]
           /\ s.op = "grant" /\ s.opt => \E p \in Looked : now[p] = 2
           /\ s.op # "cascade" /\ (s.op # "grant" => \A p \in s.privs : now[p] < orig[p])
<1> USE PrivsKnown DEF Cells
<1> \A p \in Looked : orig[p] \in {0, 1, 2} /\ now[p] \in {0, 1, 2} OBVIOUS
<1>1. CASE s = Revoking({o}, {g}, {p \in PrivsOf(o) : orig[p] > 0 /\ now[p] = 0})
  <2> DEFINE P == {p \in PrivsOf(o) : orig[p] > 0 /\ now[p] = 0}
  <2>1. s = [op |-> "revoke", on |-> {o}, all |-> {}, to |-> {g}, privs |-> P, opt |-> FALSE]
    BY <1>1 DEF Revoking, Granting
  <2>2. \A p \in P : /\ orig[p] # now[p] /\ now[p] < orig[p]
                    /\ Level(s, orig[p]) = now[p] /\ Level(s, now[p]) = now[p]
    BY <2>1 DEF Level
  <2>3. P \subseteq PrivsOf(o) /\ P \subseteq Looked OBVIOUS
  <2> HIDE DEF P
  <2> QED BY <2>1, <2>2, <2>3 DEF Statement
<1>2. CASE s = NoLonger({o}, {g}, {p \in PrivsOf(o) : orig[p] = 2 /\ now[p] = 1})
  <2> DEFINE P == {p \in PrivsOf(o) : orig[p] = 2 /\ now[p] = 1}
  <2>1. s = [op |-> "revoke option", on |-> {o}, all |-> {}, to |-> {g}, privs |-> P, opt |-> FALSE]
    BY <1>2 DEF NoLonger, Granting
  <2>0. s.op = "revoke option" BY <2>1
  <2>4. \A x : Level(s, x) = IF x = 2 THEN 1 ELSE x BY <2>0 DEF Level
  <2>2. \A p \in P : /\ orig[p] # now[p] /\ now[p] < orig[p]
                    /\ Level(s, orig[p]) = now[p] /\ Level(s, now[p]) = now[p]
    BY <2>4
  <2>3. P \subseteq PrivsOf(o) /\ P \subseteq Looked OBVIOUS
  <2> HIDE DEF P
  <2> QED BY <2>1, <2>2, <2>3 DEF Statement
<1>3. CASE s = Granting({o}, {g}, {p \in PrivsOf(o) : orig[p] = 0 /\ now[p] = 1}, FALSE)
  BY <1>3 DEF Granting, Level, Statement
<1>4. CASE s = Granting({o}, {g}, {p \in PrivsOf(o) : orig[p] < 2 /\ now[p] = 2}, TRUE)
  BY <1>4 DEF DiffStatements, Granting, Level, Statement
<1> QED BY <1>1, <1>2, <1>3, <1>4 DEF DiffStatements

\* Each cell that differs is touched by a statement of the difference.
LEMMA DiffCovers ==
    ASSUME NEW o \in Objects, NEW g \in Grantees, NEW orig \in Cells, NEW now \in Cells,
           NEW p \in PrivsOf(o), orig[p] # now[p]
    PROVE  \E s \in DiffStatements(o, g, orig, now) : Touches(s, o, g, p)
<1> USE PrivsKnown DEF Cells
<1> orig[p] \in {0, 1, 2} /\ now[p] \in {0, 1, 2} OBVIOUS
<1>1. CASE orig[p] > 0 /\ now[p] = 0
  <2> DEFINE s == Revoking({o}, {g}, {q \in PrivsOf(o) : orig[q] > 0 /\ now[q] = 0})
  <2>1. p \in s.privs /\ s.on = {o} /\ s.to = {g} BY <1>1 DEF Revoking, Granting
  <2>2. s \in DiffStatements(o, g, orig, now) BY <2>1 DEF DiffStatements
  <2> HIDE DEF s
  <2> QED BY <2>1, <2>2 DEF Touches
<1>2. CASE orig[p] = 2 /\ now[p] = 1
  <2> DEFINE s == NoLonger({o}, {g}, {q \in PrivsOf(o) : orig[q] = 2 /\ now[q] = 1})
  <2>1. p \in s.privs /\ s.on = {o} /\ s.to = {g} BY <1>2 DEF NoLonger, Granting
  <2>2. s \in DiffStatements(o, g, orig, now) BY <2>1 DEF DiffStatements
  <2> HIDE DEF s
  <2> QED BY <2>1, <2>2 DEF Touches
<1>3. CASE orig[p] = 0 /\ now[p] = 1
  <2> DEFINE s == Granting({o}, {g}, {q \in PrivsOf(o) : orig[q] = 0 /\ now[q] = 1}, FALSE)
  <2>1. p \in s.privs /\ s.on = {o} /\ s.to = {g} BY <1>3 DEF Granting
  <2>2. s \in DiffStatements(o, g, orig, now) BY <2>1 DEF DiffStatements
  <2> HIDE DEF s
  <2> QED BY <2>1, <2>2 DEF Touches
<1>4. CASE orig[p] < 2 /\ now[p] = 2
  <2> DEFINE s == Granting({o}, {g}, {q \in PrivsOf(o) : orig[q] < 2 /\ now[q] = 2}, TRUE)
  <2>1. p \in s.privs /\ s.on = {o} /\ s.to = {g} BY <1>4 DEF Granting
  <2>2. s \in DiffStatements(o, g, orig, now) BY <2>1 DEF DiffStatements
  <2> HIDE DEF s
  <2> QED BY <2>1, <2>2 DEF Touches
<1> QED BY <1>1, <1>2, <1>3, <1>4

\* A row of the new grantee only ever adds.
LEMMA NewMeans ==
    ASSUME NEW o \in Objects, NEW g \in Grantees, NEW now \in Cells,
           NEW s \in DiffStatements(o, g, Unset, now), NEW p \in s.privs, NEW c \in 0 .. 2
    PROVE  now[p] > 0 /\ Level(s, c) = IF now[p] > c THEN now[p] ELSE c
<1> USE PrivsKnown DEF Cells
<1> now[p] \in {0, 1, 2} /\ Unset[p] = 0 /\ c \in {0, 1, 2}
  <2> Unset \in Cells BY DEF Unset
  <2> p \in Looked BY DiffMeans
  <2> QED BY DEF Unset
<1>1. CASE s = Revoking({o}, {g}, {q \in PrivsOf(o) : Unset[q] > 0 /\ now[q] = 0})
  BY <1>1 DEF Revoking, Granting
<1>2. CASE s = NoLonger({o}, {g}, {q \in PrivsOf(o) : Unset[q] = 2 /\ now[q] = 1})
  <2> s.privs = {q \in PrivsOf(o) : Unset[q] = 2 /\ now[q] = 1} BY <1>2 DEF NoLonger, Granting
  <2> QED OBVIOUS
<1>3. CASE s = Granting({o}, {g}, {q \in PrivsOf(o) : Unset[q] = 0 /\ now[q] = 1}, FALSE)
  BY <1>3 DEF Granting, Level
<1>4. CASE s = Granting({o}, {g}, {q \in PrivsOf(o) : Unset[q] < 2 /\ now[q] = 2}, TRUE)
  BY <1>4 DEF Granting, Level
<1> QED BY <1>1, <1>2, <1>3, <1>4 DEF DiffStatements

\* What the new-grantee row of the grid adds to the script.
LEMMA NewPartRange ==
    ASSUME NEW f \in GridForm
    PROVE  NewPart(f) \in Seq(NewStatements(f)) /\ NewStatements(f) \subseteq Range(NewPart(f))
<1>1. CASE f.newgrantee \in Grantees BY <1>1, PrivDiffRange DEF NewPart, NewStatements
<1>2. CASE f.newgrantee \notin Grantees
  <2> NewPart(f) = <<>> /\ NewStatements(f) = {} BY <1>2 DEF NewPart, NewStatements
  <2> QED OBVIOUS
<1> QED BY <1>1, <1>2

\* The script of a grid is that of its rows, in some order, and then that
\* of the new grantee.
LEMMA BuildPrivilegesShape ==
    ASSUME NEW f \in GridForm
    PROVE  \E X \in Seq(RowStatements(f)) :
              BuildPrivileges(f) = X \o NewPart(f) /\ RowStatements(f) \subseteq Range(X)
<1> DEFINE n == Cardinality(f.rows)
           Of(g) == PrivDiff(f.obj, g, f.orig[g], f.cell[g])
           parts == [i \in 1 .. n |-> Of(SetToSeq(f.rows)[i])]
           T == RowStatements(f)
<1>1. IsFiniteSet(f.rows) BY FS_Subset, PrivAssumption DEF GridForm
<1>2. n \in Nat BY <1>1, FS_CardinalityType
<1>3. /\ SetToSeq(f.rows) \in Seq(f.rows) /\ Len(SetToSeq(f.rows)) = n
      /\ Range(SetToSeq(f.rows)) = f.rows
  BY <1>1, SetToSeqElements
<1>4. \A i \in 1 .. n : SetToSeq(f.rows)[i] \in f.rows BY <1>3
<1>5. \A g \in f.rows : Of(g) \in Seq(T)
  <2> TAKE g \in f.rows
  <2> DEFINE D == DiffStatements(f.obj, g, f.orig[g], f.cell[g])
  <2>1. Of(g) \in Seq(D) BY PrivDiffRange
  <2>2. D \subseteq T BY DEF RowStatements
  <2> HIDE DEF D, T
  <2> QED BY <2>1, <2>2, SeqWidens
<1>6. parts \in Seq(Seq(T)) /\ Len(parts) = n
  <2> HIDE DEF T, Of
  <2> QED BY <1>2, <1>4, <1>5
<1>7. /\ FlattenSeq(parts) \in Seq(T)
      /\ \A j \in 1 .. n : Range(parts[j]) \subseteq Range(FlattenSeq(parts))
  <2> HIDE DEF T, parts
  <2> QED BY <1>6, FlattenSeqElements
<1>8. T \subseteq Range(FlattenSeq(parts))
  <2> SUFFICES ASSUME NEW g \in f.rows, NEW s \in DiffStatements(f.obj, g, f.orig[g], f.cell[g])
               PROVE  s \in Range(FlattenSeq(parts))
    BY DEF RowStatements
  <2>1. PICK i \in 1 .. n : SetToSeq(f.rows)[i] = g BY <1>3 DEF Range
  <2>2. parts[i] = Of(g) BY <2>1
  <2>3. s \in Range(Of(g)) BY PrivDiffRange
  <2> HIDE DEF parts, Of
  <2> QED BY <2>2, <2>3, <1>7
<1>9. BuildPrivileges(f) = FlattenSeq(parts) \o NewPart(f) BY DEF BuildPrivileges, NewPart
<1> HIDE DEF parts, T
<1> QED BY <1>7, <1>8, <1>9 DEF T

-----------------------------------------------------------------------------
(* The statements of the wizard.                                           *)

\* The kinds the Grant Wizard groups its objects by.
LEMMA GrantKinds ==
    ToSet(GrantTypes) = {"table", "view", "matview", "sequence", "function", "procedure"}
<1>1. DOMAIN GrantTypes = 1 .. 6 BY DEF GrantTypes
<1> QED BY <1>1 DEF GrantTypes, ToSet

\* BuildGrantWizard returns the groups that have objects and privileges.
LEMMA BuildGrantWizardRange ==
    ASSUME NEW f \in WizardForm
    PROVE  BuildGrantWizard(f) \in Seq(GroupsOf(f)) /\ GroupsOf(f) \subseteq Range(BuildGrantWizard(f))
<1> DEFINE parts == [i \in DOMAIN GrantTypes |-> GroupStatements(f, GrantTypes[i])]
           T == GroupsOf(f)
<1>1. DOMAIN GrantTypes = 1 .. 6 /\ ToSet(GrantTypes) = {GrantTypes[i] : i \in 1 .. 6}
  BY DEF GrantTypes, ToSet
<1>2. \A k \in ToSet(GrantTypes) :
         /\ GroupStatements(f, k) \in Seq(T)
         /\ k \in Objects /\ GroupStatement(f, k) \in T
              => GroupStatement(f, k) \in Range(GroupStatements(f, k))
  <2> TAKE k \in ToSet(GrantTypes)
  <2> DEFINE s == GroupStatement(f, k)
             yes == k \in Objects /\ s.on \cup s.all # {} /\ s.to # {}
  <2>1. GroupStatements(f, k) = IF yes THEN Emit(s) ELSE <<>> BY DEF GroupStatements
  <2>2. yes /\ s.privs # {} => s \in T BY DEF GroupsOf
  <2>3. k \in Objects /\ s \in T => yes /\ s.privs # {} BY DEF GroupsOf
  <2> HIDE DEF s, T
  <2>4. CASE yes
    <3>1. Emit(s) \in Seq(T) /\ (s.privs # {} => s \in Range(Emit(s))) BY <2>2, <2>4, EmitRange
    <3> QED BY <3>1, <2>1, <2>3, <2>4 DEF s
  <2>5. CASE ~yes
    <3>1. <<>> \in Seq(T) OBVIOUS
    <3> QED BY <3>1, <2>1, <2>3, <2>5 DEF s
  <2> QED BY <2>4, <2>5
<1>3. parts \in Seq(Seq(T)) /\ Len(parts) = 6
  <2> HIDE DEF T
  <2> QED BY <1>1, <1>2
<1>4. /\ FlattenSeq(parts) \in Seq(T)
      /\ \A j \in 1 .. 6 : Range(parts[j]) \subseteq Range(FlattenSeq(parts))
  <2> HIDE DEF T, parts
  <2> QED BY <1>3, FlattenSeqElements
<1>5. ASSUME NEW s \in T PROVE s \in Range(FlattenSeq(parts))
  <2>1. PICK k \in Objects \cap ToSet(GrantTypes) : s = GroupStatement(f, k) BY DEF GroupsOf
  <2>2. PICK i \in 1 .. 6 : k = GrantTypes[i] BY <1>1, <2>1
  <2>3. s \in Range(parts[i]) BY <1>1, <1>2, <2>1, <2>2
  <2> HIDE DEF parts
  <2> QED BY <2>3, <1>4
<1>6. BuildGrantWizard(f) = FlattenSeq(parts) BY DEF BuildGrantWizard
<1> HIDE DEF parts, T
<1> QED BY <1>4, <1>5, <1>6 DEF T

\* The statement of the group of a kind, field by field.
LEMMA GroupShape ==
    ASSUME NEW f \in WizardForm, NEW k \in Objects
    PROVE  GroupStatement(f, k) =
             [op    |-> IF f.mode \in {"revoke", "cascade"} THEN f.mode ELSE "grant",
              on    |-> IF f.pick[k] = "ticked" /\ ~CoveredByAll(f, k) THEN {k} ELSE {},
              all   |-> IF f.pick[k] # "all" THEN {}
                        ELSE IF k = "table" THEN Objects \cap {"table", "view", "matview"} ELSE {k},
              to    |-> f.to, privs |-> GroupPrivs(f, k), opt |-> f.mode = "grantopt"]
<1> DEFINE s == IF f.mode \in {"revoke", "cascade"}
                THEN [Revoking({}, f.to, GroupPrivs(f, k)) EXCEPT !.op = f.mode]
                ELSE Granting({}, f.to, GroupPrivs(f, k), f.mode = "grantopt")
<1>1. s = [op |-> IF f.mode \in {"revoke", "cascade"} THEN f.mode ELSE "grant", on |-> {}, all |-> {},
           to |-> f.to, privs |-> GroupPrivs(f, k), opt |-> f.mode = "grantopt"]
  <2>1. CASE f.mode \in {"revoke", "cascade"}
    <3>1. f.mode # "grantopt" BY <2>1
    <3> DEFINE r == Granting({}, f.to, GroupPrivs(f, k), FALSE)
    <3>5. r = [op |-> "grant", on |-> {}, all |-> {}, to |-> f.to, privs |-> GroupPrivs(f, k), opt |-> FALSE]
      BY Zenon DEF Granting
    <3>2. s = [[r EXCEPT !.op = "revoke"] EXCEPT !.op = f.mode] BY <2>1, Zenon DEF Revoking
    <3> HIDE DEF r, s
    <3>3. s = [op |-> f.mode, on |-> {}, all |-> {}, to |-> f.to, privs |-> GroupPrivs(f, k), opt |-> FALSE]
      BY <3>2, <3>5
    <3>4. (f.mode = "grantopt") = FALSE BY <3>1
    <3> QED BY <2>1, <3>3, <3>4, Zenon
  <2>2. CASE f.mode \notin {"revoke", "cascade"} BY <2>2, Zenon DEF Granting
  <2> QED BY <2>1, <2>2
<1>2. GroupStatement(f, k) =
        IF f.pick[k] = "all"
        THEN [s EXCEPT !.all = IF k = "table" THEN Objects \cap {"table", "view", "matview"} ELSE {k}]
        ELSE [s EXCEPT !.on = IF f.pick[k] = "ticked" /\ ~CoveredByAll(f, k) THEN {k} ELSE {}]
  BY DEF GroupStatement
<1> HIDE DEF s
<1>3. CASE f.pick[k] = "all" BY <1>1, <1>2, <1>3
<1>4. CASE f.pick[k] # "all" BY <1>1, <1>2, <1>4
<1> QED BY <1>3, <1>4

\* A group of the wizard names objects that were chosen, with the
\* privileges their kind has, and in the mode of the form.
LEMMA GroupMeans ==
    ASSUME NEW f \in WizardForm, NEW s \in GroupsOf(f)
    PROVE  /\ s \in Statement /\ s.to = f.to
           /\ s.op = (IF f.mode \in {"revoke", "cascade"} THEN f.mode ELSE "grant") /\ s.opt = (f.mode = "grantopt")
           /\ \A o \in s.on \cup s.all : o \in Objects /\ Chosen(f, o) /\ s.privs = f.privs \cap PrivsOf(o)
           /\ \A o \in s.on : f.pick[o] = "ticked" /\ ~CoveredByAll(f, o)
<1>1. PICK k \in Objects \cap ToSet(GrantTypes) : s = GroupStatement(f, k) BY DEF GroupsOf
<1>2. s = [op    |-> IF f.mode \in {"revoke", "cascade"} THEN f.mode ELSE "grant",
           on    |-> IF f.pick[k] = "ticked" /\ ~CoveredByAll(f, k) THEN {k} ELSE {},
           all   |-> IF f.pick[k] # "all" THEN {}
                     ELSE IF k = "table" THEN Objects \cap {"table", "view", "matview"} ELSE {k},
           to    |-> f.to, privs |-> GroupPrivs(f, k), opt |-> f.mode = "grantopt"]
  BY <1>1, GroupShape
<1>3. f.to \subseteq Grantees /\ GroupPrivs(f, k) \subseteq Looked BY PrivsKnown DEF WizardForm, GroupPrivs
<1>4. s \in Statement
  BY <1>2, <1>3 DEF Statement
<1>5. \A o \in s.on : o = k /\ f.pick[k] = "ticked" /\ ~CoveredByAll(f, k) BY <1>2
<1>6. ASSUME NEW o \in s.all
      PROVE  /\ f.pick[k] = "all" /\ o \in Objects
             /\ o = k \/ (k = "table" /\ o \in {"view", "matview"})
  <2>1. f.pick[k] = "all" BY <1>2, <1>6
  <2>2. s.all = IF k = "table" THEN Objects \cap {"table", "view", "matview"} ELSE {k} BY <1>2, <2>1
  <2> QED BY <2>1, <2>2, <1>6
<1>7. \A o \in s.all : Chosen(f, o) BY <1>6 DEF Chosen, CoveredByAll
<1>8. ASSUME NEW o \in s.all PROVE PrivsOf(o) = PrivsOf(k)
  <2>1. CASE o = k BY <2>1
  <2>2. CASE k = "table" /\ o \in {"view", "matview"} BY <1>6, <2>2, SameTablePrivs
  <2> QED BY <1>6, <2>1, <2>2
<1>9. s.privs = f.privs \cap PrivsOf(k) BY <1>2 DEF GroupPrivs
<1> QED BY <1>2, <1>4, <1>5, <1>6, <1>7, <1>8, <1>9 DEF Chosen

\* Each cell the wizard was asked for is in a group.
LEMMA GroupsCover ==
    ASSUME NEW f \in WizardForm, NEW o \in Objects, Chosen(f, o),
           NEW g \in f.to, NEW p \in f.privs \cap PrivsOf(o)
    PROVE  \E s \in GroupsOf(f) : Touches(s, o, g, p)
<1>1. ASSUME NEW k \in Objects, k \in ToSet(GrantTypes), p \in PrivsOf(k),
             \/ f.pick[k] = "ticked" /\ ~CoveredByAll(f, k) /\ o = k
             \/ f.pick[k] = "all" /\ (o = k \/ (k = "table" /\ o \in {"view", "matview"}))
      PROVE  \E s \in GroupsOf(f) : Touches(s, o, g, p)
  <2> DEFINE s == GroupStatement(f, k)
  <2>1. o \in s.on \cup s.all BY <1>1, GroupShape
  <2>2. s.to = f.to /\ s.privs = f.privs \cap PrivsOf(k) BY GroupShape DEF GroupPrivs
  <2> HIDE DEF s
  <2>3. Touches(s, o, g, p) BY <2>1, <2>2, <1>1 DEF Touches
  <2>4. s \in GroupsOf(f) BY <2>1, <2>2, <1>1 DEF s, GroupsOf
  <2> QED BY <2>3, <2>4
<1>2. CASE f.pick[o] = "ticked" /\ ~CoveredByAll(f, o)
  <2> o \in ToSet(GrantTypes) BY <1>2 DEF WizardForm
  <2> QED BY <1>1, <1>2
<1>3. CASE f.pick[o] = "all"
  <2> o \in ToSet(GrantTypes) BY <1>3 DEF WizardForm
  <2> QED BY <1>1, <1>3
<1>4. CASE o \in {"view", "matview"} /\ "table" \in Objects /\ f.pick["table"] = "all"
  <2>1. "table" \in ToSet(GrantTypes) BY GrantKinds
  <2>2. p \in PrivsOf("table") BY <1>4, SameTablePrivs
  <2> QED BY <1>1, <1>4, <2>1, <2>2
<1> QED BY <1>2, <1>3, <1>4 DEF Chosen, CoveredByAll

\* A group's statement takes a cell to what the wizard asked for, and keeps
\* it there.
LEMMA GroupLevel ==
    ASSUME NEW f \in WizardForm, NEW s \in GroupsOf(f), NEW c \in 0 .. 2
    PROVE  /\ Level(s, c) \in 0 .. 2 /\ Fixed(f, Level(s, c)) /\ (Fixed(f, c) => Fixed(f, Level(s, c)))
           /\ Fixed(f, c) => Level(s, c) = c
<1>0. s.op = (IF f.mode \in {"revoke", "cascade"} THEN f.mode ELSE "grant") /\ s.opt = (f.mode = "grantopt")
  BY GroupMeans
<1>1. f.mode \in {"grant", "grantopt", "revoke", "cascade"} BY DEF WizardForm
<1>2. CASE f.mode \in {"revoke", "cascade"}
  <2>1. s.op \in {"revoke", "cascade"} BY <1>0, <1>2
  <2>2. Level(s, c) = 0 BY <2>1, Zenon DEF Level
  <2>3. Fixed(f, 0) /\ (Fixed(f, c) => c = 0) BY <1>2, Zenon DEF Fixed
  <2>4. Fixed(f, Level(s, c)) BY <2>2, <2>3, Zenon
  <2>5. Fixed(f, c) => Level(s, c) = c BY <2>2, <2>3
  <2> QED BY <2>2, <2>4, <2>5
<1>3. CASE f.mode = "grantopt"
  <2> s.op = "grant" /\ s.opt BY <1>0, <1>3
  <2> QED BY <1>3 DEF Fixed, Level
<1>4. CASE f.mode = "grant"
  <2> s.op = "grant" /\ ~s.opt BY <1>0, <1>4
  <2> QED BY <1>4 DEF Fixed, Level
<1> QED BY <1>1, <1>2, <1>3, <1>4

-----------------------------------------------------------------------------
(* The invariant.                                                          *)

\* The forms of the two panels are told apart by their field.
LEMMA Panels ==
    ASSUME NEW f \in GridForm \cup WizardForm \cup {NoSheet}
    PROVE  /\ f.panel = "grid" <=> f \in GridForm
           /\ f.panel = "wizard" <=> f \in WizardForm
           /\ f.load \in Nat /\ (f # NoSheet => f.load > 0)
<1>1. \A h \in GridForm : h.panel = "grid" /\ h.load \in Nat \ {0} BY DEF GridForm
<1>2. \A h \in WizardForm : h.panel = "wizard" /\ h.load \in Nat \ {0} BY DEF WizardForm
<1>3. NoSheet.panel = "none" /\ NoSheet.load = 0 BY DEF NoSheet
<1> QED BY <1>1, <1>2, <1>3

\* A grantee of whom nothing is known has no privilege.
LEMMA UnsetCells == Unset \in Cells /\ \A p \in Looked : Unset[p] = 0
BY DEF Unset, Cells

\* Initially nothing is open and nothing runs.
LEMMA PrivInitInv == PrivInit => PInv
<1> SUFFICES ASSUME PrivInit PROVE PInv OBVIOUS
<1> USE DEF PrivInit
<1>1. there \subseteq Objects OBVIOUS
<1>2. PICK l \in 0 .. 2 :
        acl = [o \in Objects |-> [g \in Grantees |-> [p \in Looked |->
                 IF o \in there /\ g # Public /\ p \in PrivsOf(o) THEN l ELSE 0]]]
  OBVIOUS
<1>3. acl \in [Objects -> [Grantees -> [Looked -> 0 .. 2]]] BY <1>2
<1>4. \A o \in Objects, g \in Grantees, p \in Looked :
        acl[o][g][p] > 0 => o \in there /\ p \in PrivsOf(o)
  BY <1>2
<1>8. /\ passed \subseteq Objects \X Grantees \X Grantees \X Looked
      /\ \A q \in passed : q[2] # q[3] /\ acl[q[1]][q[2]][q[4]] = 2
  <2> DEFINE all == {q \in Objects \X Grantees \X Grantees \X Looked :
                       q[2] # q[3] /\ acl[q[1]][q[2]][q[4]] = 2}
  <2>1. passed \in {{}, all} OBVIOUS
  <2> HIDE DEF PrivInit
  <2> QED BY <2>1
<1>5. PrivTypeOK
  <2>1. sheet.load = 0 /\ opened = 0 /\ still = 0 BY DEF NoSheet
  <2> HIDE DEF PrivInit
  <2> QED BY <1>1, <1>3, <1>4, <1>8, <2>1 DEF PrivTypeOK
<1>6. Typed BY <1>5 DEF Typed, Work, NoSheet, NoWork
<1>7. AsLoaded /\ GoesOn BY DEF AsLoaded, GoesOn, NoSheet, NoWork
<1> QED BY <1>6, <1>7 DEF PInv

\* A step that leaves the script, the privileges and the objects alone
\* leaves the work as far as it was.
LEMMA GoesOnSame ==
    ASSUME GoesOn, UNCHANGED <<work, acl, passed, there>> PROVE GoesOn'
<1>1. \A o, g, p : Held(o, g, p)' = Held(o, g, p) BY DEF Held
<1>2. \A f, X : /\ RowsLeft(f, X)' = RowsLeft(f, X)
                /\ NewLeft(f, X)' = NewLeft(f, X)
  BY <1>1 DEF RowsLeft, NewLeft
<1>3. ASSUME work.form.panel = "grid" PROVE GridWork(work.form)'
  BY <1>2, <1>3 DEF GoesOn, GridWork
<1>4. ASSUME work.form.panel = "wizard" PROVE WizardWork(work.form)'
  BY <1>4 DEF GoesOn, WizardWork
<1> QED BY <1>3, <1>4 DEF GoesOn

\* The privilege grid is rendered from the privileges as they are.
LEMMA HandlePrivPanelKeeps == ASSUME PInv, NEW o \in Objects, HandlePrivPanel(o) PROVE PInv'
<1> USE DEF PInv
<1>1. PICK read \in {"all", "rows", "nothing"}, owners \in BOOLEAN :
        LET cells == ShownCells(o, owners)
        IN Opened([panel |-> "grid", load |-> opened + 1, obj |-> o,
                rows |-> IF o \in there /\ read # "nothing"
                         THEN {g \in Grantees : cells[g] # Unset} ELSE {},
                orig |-> cells, cell |-> cells, newgrantee |-> "", newcell |-> Unset,
                grantees |-> IF o \in there /\ read = "all" THEN Grantees ELSE {}])
  BY Zenon DEF HandlePrivPanel
<1> DEFINE cells == ShownCells(o, owners)
           rows == IF o \in there /\ read # "nothing" THEN {g \in Grantees : cells[g] # Unset} ELSE {}
           gs == IF o \in there /\ read = "all" THEN Grantees ELSE {}
           f == [panel |-> "grid", load |-> opened + 1, obj |-> o, rows |-> rows,
                 orig |-> cells, cell |-> cells, newgrantee |-> "", newcell |-> Unset, grantees |-> gs]
<1>2. Opened(f) BY <1>1
<1>3. /\ cells \in [Grantees -> Cells]
      /\ \A g \in Grantees, p \in Looked \ PrivsOf(o) : cells[g][p] = 0
      /\ \A g \in Grantees, p \in Looked : Held(o, g, p) \/ acl[o][g][p] = cells[g][p]
  <2>1. \A g \in Grantees, p \in Looked : acl[o][g][p] \in 0 .. 2 /\ (acl[o][g][p] > 0 => p \in PrivsOf(o))
    BY DEF Typed, PrivTypeOK
  <2>2. \A g \in Grantees, p \in Looked :
          cells[g][p] = IF Held(o, g, p) /\ (acl[o][g][p] = 0 \/ ~owners) THEN 1 ELSE acl[o][g][p]
    BY DEF ShownCells
  <2>3. ASSUME NEW g \in Grantees, NEW p \in Looked, Held(o, g, p) PROVE p \in PrivsOf(o)
    <3>1. PICK h \in Grantees : <<o, h, g, p>> \in passed BY <2>3 DEF Held
    <3>2. acl[o][h][p] = 2 BY <3>1 DEF Typed, PrivTypeOK
    <3> QED BY <2>1, <3>2
  <2>4. cells = [g \in Grantees |-> [p \in Looked |-> cells[g][p]]] BY DEF ShownCells
  <2> HIDE DEF cells
  <2>5. \A g \in Grantees, p \in Looked : cells[g][p] \in 0 .. 2 BY <2>1, <2>2
  <2>6. cells \in [Grantees -> Cells] BY <2>4, <2>5 DEF Cells
  <2>7. \A g \in Grantees, p \in Looked \ PrivsOf(o) : cells[g][p] = 0 BY <2>1, <2>2, <2>3
  <2> QED BY <2>2, <2>6, <2>7
<1>4. rows \subseteq Grantees /\ gs \subseteq Grantees /\ opened + 1 \in Nat \ {0} BY DEF Typed
<1> HIDE DEF cells, rows, gs
<1>5. f \in GridForm BY <1>3, <1>4, UnsetCells DEF GridForm
<1>6. /\ sheet' = f /\ script' = f /\ opened' = opened + 1 /\ still' = opened + 1
      /\ UNCHANGED <<acl, passed, there, work>>
  BY <1>2 DEF Opened, HandlePrivPreview
<1>7. f.load = opened + 1 /\ f.obj = o /\ f.orig = cells OBVIOUS
<1> HIDE DEF f
<1>8. work.form.load <= opened' BY <1>6, Panels DEF Typed, Work, NoWork, NoSheet
<1>9. Typed' BY <1>5, <1>6, <1>7, <1>8 DEF Typed, PrivTypeOK
<1>10. AsLoaded' BY <1>3, <1>6, <1>7 DEF AsLoaded, Held
<1>11. GoesOn' BY <1>6, GoesOnSame
<1> QED BY <1>9, <1>10, <1>11

\* The wizard lists the objects as they are.
LEMMA HandleGrantObjectsKeeps == ASSUME PInv, HandleGrantObjects PROVE PInv'
<1> USE DEF PInv
<1>1. PICK upto \in 0 .. Len(GrantTypes) :
         Opened([panel |-> "wizard", load |-> opened + 1,
                 listed |-> there \cap {GrantTypes[i] : i \in 1 .. upto},
                 pick |-> [k \in Objects |-> "none"], privs |-> {}, to |-> {}, mode |-> "grant"])
  BY Zenon DEF HandleGrantObjects
<1> DEFINE f == [panel |-> "wizard", load |-> opened + 1,
                 listed |-> there \cap {GrantTypes[i] : i \in 1 .. upto},
                 pick |-> [k \in Objects |-> "none"], privs |-> {}, to |-> {}, mode |-> "grant"]
<1>2. /\ sheet' = f /\ script' = f /\ opened' = opened + 1 /\ still' = opened + 1
      /\ UNCHANGED <<acl, passed, there, work>>
  BY <1>1 DEF Opened, HandlePrivPreview
<1>3. Len(GrantTypes) = 6 /\ ToSet(GrantTypes) = {GrantTypes[i] : i \in 1 .. 6} BY DEF GrantTypes, ToSet
<1>4. {GrantTypes[i] : i \in 1 .. upto} \subseteq ToSet(GrantTypes) BY <1>3
<1>5. there \subseteq Objects /\ opened + 1 \in Nat \ {0} BY DEF Typed, PrivTypeOK
<1>6. f \in WizardForm
  <2> f.listed \subseteq Objects /\ f.listed \subseteq ToSet(GrantTypes) BY <1>4, <1>5
  <2> QED BY <1>5 DEF WizardForm
<1>7. f.load = opened + 1 /\ f.panel = "wizard" OBVIOUS
<1> HIDE DEF f
<1>8. work.form.load <= opened' BY <1>2, Panels DEF Typed, Work, NoWork, NoSheet
<1>9. Typed' BY <1>2, <1>6, <1>7, <1>8 DEF Typed, PrivTypeOK
<1>10. AsLoaded' BY <1>2, <1>7 DEF AsLoaded, Held
<1>11. GoesOn' BY <1>2, GoesOnSame
<1> QED BY <1>9, <1>10, <1>11

\* The user clicks in the grid.
LEMMA EditGridKeeps == ASSUME PInv, EditGrid PROVE PInv'
<1> USE DEF PInv
<1>1. sheet \in GridForm BY Panels DEF EditGrid, Typed
<1>2. PICK p \in PrivsOf(sheet.obj), l \in 0 .. 2 :
         \/ \E g \in sheet.rows : sheet' = [sheet EXCEPT !.cell[g][p] = l]
         \/ \E g \in sheet.grantees : sheet' = [sheet EXCEPT !.newgrantee = g, !.newcell[p] = l]
  BY DEF EditGrid
<1>3. p \in Looked BY <1>1, PrivsKnown DEF GridForm
<1> DEFINE Fits == sheet' \in GridForm /\ sheet'.load = sheet.load /\ sheet'.obj = sheet.obj /\ sheet'.orig = sheet.orig
<1>4. Fits
  <2>1. ASSUME NEW g \in sheet.rows, sheet' = [sheet EXCEPT !.cell[g][p] = l]
        PROVE  Fits
    <3> DEFINE new == [sheet.cell EXCEPT ![g][p] = l]
    <3>1. new \in [Grantees -> Cells] BY <1>1, <1>3 DEF GridForm, Cells
    <3>2. \A h \in Grantees, q \in Looked \ PrivsOf(sheet.obj) : new[h][q] = 0
      BY <1>1, <1>2, <1>3 DEF GridForm, Cells
    <3>3. sheet' = [sheet EXCEPT !.cell = new] BY <2>1
    <3> HIDE DEF new
    <3> QED BY <1>1, <3>1, <3>2, <3>3, ZenonT(60) DEF GridForm
  <2>2. ASSUME NEW g \in sheet.grantees, sheet' = [sheet EXCEPT !.newgrantee = g, !.newcell[p] = l]
        PROVE  Fits
    <3> DEFINE new == [sheet.newcell EXCEPT ![p] = l]
    <3>1. new \in Cells BY <1>1, <1>3 DEF GridForm, Cells
    <3>2. \A q \in Looked \ PrivsOf(sheet.obj) : new[q] = 0
      BY <1>1, <1>2, <1>3 DEF GridForm, Cells
    <3>3. sheet' = [sheet EXCEPT !.newgrantee = g, !.newcell = new] BY <2>2
    <3>4. g \in Grantees BY <1>1 DEF GridForm
    <3> HIDE DEF new
    <3> QED BY <1>1, <3>1, <3>2, <3>3, <3>4 DEF GridForm
  <2> QED BY <1>2, <2>1, <2>2
<1>5. script' = sheet' /\ UNCHANGED <<acl, passed, there, work, opened, still>>
  BY DEF EditGrid, HandlePrivPreview
<1>6. Typed' BY <1>4, <1>5 DEF Typed, PrivTypeOK
<1>7. AsLoaded' BY <1>1, <1>4, <1>5, Panels DEF AsLoaded, Held
<1>8. GoesOn' BY <1>5, GoesOnSame
<1> QED BY <1>6, <1>7, <1>8

\* The user fills in the wizard.
LEMMA FillWizardKeeps == ASSUME PInv, FillWizard PROVE PInv'
<1> USE DEF PInv
<1>1. sheet \in WizardForm BY Panels DEF FillWizard, Typed
<1>2. PICK pick \in [Objects -> {"none", "ticked", "all"}], to \in SUBSET Grantees \ {{}},
           privs \in {Looked} \cup {{p} : p \in Looked}, how \in {"grant", "grantopt", "revoke", "cascade"} :
         /\ \A k \in Objects : /\ pick[k] = "ticked" => k \in sheet.listed
                               /\ pick[k] = "all" => AllKeyword(k) /\ k \in ToSet(GrantTypes)
         /\ sheet' = [sheet EXCEPT !.pick = pick, !.privs = privs, !.to = to, !.mode = how]
  BY Zenon DEF FillWizard
<1>3. privs \subseteq Looked /\ to \subseteq Grantees OBVIOUS
<1>4. sheet' \in WizardForm /\ sheet'.load = sheet.load BY <1>1, <1>2, <1>3 DEF WizardForm
<1>5. script' = sheet' /\ UNCHANGED <<acl, passed, there, work, opened, still>>
  BY DEF FillWizard, HandlePrivPreview
<1>6. Typed' BY <1>4, <1>5 DEF Typed, PrivTypeOK
<1>7. AsLoaded' BY <1>4, <1>5, Panels DEF AsLoaded, WizardForm, Held
<1>8. GoesOn' BY <1>5, GoesOnSame
<1> QED BY <1>6, <1>7, <1>8

\* A statement changes the cells it touches, of objects that are there, by
\* Level.
LEMMA GrantedCell ==
    ASSUME Typed, NEW s \in Statement, Allowed(s)
    PROVE  /\ \A o \in Objects, g \in Grantees, p \in Looked :
                Granted(s)[o][g][p] = IF o \in there /\ Touches(s, o, g, p)
                                      THEN Level(s, acl[o][g][p]) ELSE acl[o][g][p]
           /\ Granted(s) \in [Objects -> [Grantees -> [Looked -> 0 .. 2]]]
           /\ \A o \in Objects, g \in Grantees, p \in Looked :
                Granted(s)[o][g][p] > 0 => o \in there /\ p \in PrivsOf(o)
<1>1. s.on \subseteq there /\ \A o \in s.on \cup s.all : s.privs \subseteq PrivsOf(o) BY DEF Allowed
<1>2. ASSUME NEW o \in Objects, NEW g \in Grantees, NEW p \in Looked
      PROVE  Granted(s)[o][g][p] = IF o \in there /\ Touches(s, o, g, p)
                                   THEN Level(s, acl[o][g][p]) ELSE acl[o][g][p]
  BY <1>1 DEF Granted, Touches
<1>3. \A o \in Objects, g \in Grantees, p \in Looked :
        /\ acl[o][g][p] \in 0 .. 2
        /\ acl[o][g][p] > 0 => o \in there /\ p \in PrivsOf(o)
  BY DEF Typed, PrivTypeOK
<1>4. \A c \in 0 .. 2 : Level(s, c) \in 0 .. 2
  <2>1. s.op \in {"grant", "revoke", "revoke option", "cascade"} BY DEF Statement
  <2> TAKE c \in 0 .. 2
  <2>2. CASE s.op = "grant" BY <2>2 DEF Level
  <2>3. CASE s.op \in {"revoke", "cascade"}
    <3>1. Level(s, c) = 0 BY <2>3, Zenon DEF Level
    <3> QED BY <3>1
  <2>4. CASE s.op = "revoke option"
    <3>1. Level(s, c) = IF c = 2 THEN 1 ELSE c BY <2>4, Zenon DEF Level
    <3> QED BY <3>1
  <2> QED BY <2>1, <2>2, <2>3, <2>4
<1>5. \A o \in Objects, g \in Grantees, p \in Looked : Granted(s)[o][g][p] \in 0 .. 2
  BY <1>2, <1>3, <1>4
<1>6. Granted(s) = [o \in Objects |-> [g \in Grantees |-> [p \in Looked |-> Granted(s)[o][g][p]]]]
  BY DEF Granted
<1>7. Granted(s) \in [Objects -> [Grantees -> [Looked -> 0 .. 2]]]
  <2> DEFINE G == Granted(s)
  <2> HIDE DEF G
  <2>1. G = [o \in Objects |-> [g \in Grantees |-> [p \in Looked |-> G[o][g][p]]]] BY <1>6 DEF G
  <2>2. \A o \in Objects, g \in Grantees, p \in Looked : G[o][g][p] \in 0 .. 2 BY <1>5 DEF G
  <2> QED BY <2>1, <2>2 DEF G
<1>8. \A o \in Objects, g \in Grantees, p \in Looked :
        Touches(s, o, g, p) => p \in PrivsOf(o)
  BY <1>1 DEF Touches
<1>9. ASSUME NEW o \in Objects, NEW g \in Grantees, NEW p \in Looked, Granted(s)[o][g][p] > 0
      PROVE  o \in there /\ p \in PrivsOf(o)
  BY <1>2, <1>3, <1>8, <1>9
<1> QED BY <1>2, <1>7, <1>9

\* What was passed on by those who keep their grant option stays, and they
\* had it from the owner.
LEMMA PassedCell ==
    ASSUME Typed, NEW s \in Statement, Allowed(s)
    PROVE  /\ PassedAfter(s) \subseteq passed /\ (s.op # "cascade" => PassedAfter(s) = passed)
           /\ \A q \in PassedAfter(s) : q[2] # q[3] /\ Granted(s)[q[1]][q[2]][q[4]] = 2
<1>1. PassedAfter(s) \subseteq passed /\ (s.op # "cascade" => PassedAfter(s) = passed) BY DEF PassedAfter
<1>2. ASSUME NEW q \in PassedAfter(s) PROVE q[2] # q[3] /\ Granted(s)[q[1]][q[2]][q[4]] = 2
  <2>1. q \in passed /\ q \in Objects \X Grantees \X Grantees \X Looked BY <1>1 DEF Typed, PrivTypeOK
  <2>2. PICK o \in Objects, g \in Grantees, h \in Grantees, p \in Looked : q = <<o, g, h, p>> BY <2>1
  <2>3. q[1] = o /\ q[2] = g /\ q[3] = h /\ q[4] = p /\ Depended(o, g, p) BY <2>1, <2>2 DEF Depended
  <2>4. g # h /\ acl[o][g][p] = 2 BY <2>1, <2>3 DEF Typed, PrivTypeOK
  <2>5. Granted(s)[o][g][p] = IF o \in there /\ Touches(s, o, g, p)
                              THEN Level(s, acl[o][g][p]) ELSE acl[o][g][p]
    BY GrantedCell
  <2>6. ASSUME Touches(s, o, g, p) PROVE s.op = "grant"
    <3>1. s.op # "cascade" BY <2>3, <2>6 DEF PassedAfter
    <3>2. s.op \notin {"revoke", "revoke option"} BY <2>3, <2>6 DEF Allowed
    <3> QED BY <3>1, <3>2 DEF Statement
  <2>7. s.op = "grant" => Level(s, 2) = 2 BY DEF Level
  <2> QED BY <2>3, <2>4, <2>5, <2>6, <2>7
<1> QED BY <1>1, <1>2

\* A statement for a row of the grid, against the cells of that row.
LEMMA RowsMean ==
    ASSUME NEW f \in GridForm, NEW s \in RowStatements(f)
    PROVE  /\ s \in Statement /\ s.on = {f.obj} /\ s.all = {} /\ s.privs \subseteq PrivsOf(f.obj)
           /\ \A g \in Grantees, p \in Looked : Touches(s, f.obj, g, p) =>
                /\ g \in f.rows /\ f.cell[g][p] # f.orig[g][p]
                /\ Level(s, f.orig[g][p]) = RowCell(f, g, p)
                /\ Level(s, RowCell(f, g, p)) = RowCell(f, g, p)
           /\ s.op = "grant" /\ s.opt => \E g \in s.to, p \in Looked : g \in Grantees /\ f.cell[g][p] = 2
           /\ \E g \in Grantees : s.to = {g}
           /\ s.op # "cascade"
           /\ s.op # "grant" => \A g \in Grantees, p \in Looked :
                Touches(s, f.obj, g, p) => f.cell[g][p] < f.orig[g][p]
<1>1. PICK h \in f.rows : s \in DiffStatements(f.obj, h, f.orig[h], f.cell[h]) BY DEF RowStatements
<1>2. f.obj \in Objects /\ h \in Grantees /\ f.orig[h] \in Cells /\ f.cell[h] \in Cells BY DEF GridForm
<1> DEFINE now == f.cell[h]
           orig == f.orig[h]
<1>3. /\ s \in Statement
      /\ s.on = {f.obj} /\ s.all = {} /\ s.to = {h} /\ s.privs \subseteq PrivsOf(f.obj)
      /\ \A p \in s.privs : /\ orig[p] # now[p]
                            /\ Level(s, orig[p]) = now[p] /\ Level(s, now[p]) = now[p]
      /\ s.op = "grant" /\ s.opt => \E p \in Looked : now[p] = 2
      /\ s.op # "cascade" /\ (s.op # "grant" => \A p \in s.privs : now[p] < orig[p])
  <2> HIDE DEF now, orig
  <2>1. s \in DiffStatements(f.obj, h, orig, now) BY <1>1 DEF now, orig
  <2>2. orig \in Cells /\ now \in Cells BY <1>2 DEF now, orig
  <2> QED BY <1>2, <2>1, <2>2, DiffMeans
<1>4. \A g \in Grantees, p \in Looked : Touches(s, f.obj, g, p) => g = h /\ p \in s.privs
  BY <1>3 DEF Touches
<1>5. \A p \in Looked : RowCell(f, h, p) = now[p] BY DEF RowCell
<1> QED BY <1>2, <1>3, <1>4, <1>5

\* A statement for the new grantee only ever raises a cell to what the form
\* says.
LEMMA NewsMean ==
    ASSUME NEW f \in GridForm, NEW s \in NewStatements(f)
    PROVE  /\ s \in Statement /\ s.on = {f.obj} /\ s.all = {} /\ s.privs \subseteq PrivsOf(f.obj)
           /\ \A g \in Grantees, p \in Looked : Touches(s, f.obj, g, p) =>
                /\ g = f.newgrantee /\ f.newcell[p] > 0
                /\ \A c \in 0 .. 2 : Level(s, c) = IF f.newcell[p] > c THEN f.newcell[p] ELSE c
           /\ s.op = "grant" /\ s.opt => \E p \in Looked : f.newcell[p] = 2
           /\ f.newgrantee \in Grantees /\ s.to = {f.newgrantee} /\ s.op = "grant"
<1> DEFINE h == f.newgrantee
           now == f.newcell
<1>1. h \in Grantees /\ s \in DiffStatements(f.obj, h, Unset, now) BY DEF NewStatements
<1>2. f.obj \in Objects /\ now \in Cells /\ Unset \in Cells BY UnsetCells DEF GridForm
<1> HIDE DEF now, h
<1>3. /\ s \in Statement
      /\ s.on = {f.obj} /\ s.all = {} /\ s.to = {h} /\ s.privs \subseteq PrivsOf(f.obj)
      /\ s.op = "grant" /\ s.opt => \E p \in Looked : now[p] = 2
  BY <1>1, <1>2, DiffMeans
<1>4. \A g \in Grantees, p \in Looked : Touches(s, f.obj, g, p) => g = h /\ p \in s.privs
  BY <1>3 DEF Touches
<1>5. \A p \in s.privs, c \in 0 .. 2 :
        now[p] > 0 /\ Level(s, c) = IF now[p] > c THEN now[p] ELSE c
  BY <1>1, <1>2, NewMeans
<1>6. s.op = "grant"
  <2>1. s.op # "grant" => \A p \in s.privs : now[p] < Unset[p] BY <1>1, <1>2, DiffMeans
  <2>2. PICK p \in s.privs : p \in Looked BY <1>1, <1>3 DEF DiffStatements, Statement
  <2>3. now[p] \in 0 .. 2 /\ Unset[p] = 0 BY <1>2, <2>2, UnsetCells DEF Cells
  <2> QED BY <2>1, <2>2, <2>3
<1> QED BY <1>1, <1>3, <1>4, <1>5, <1>6 DEF now, h

\* Between the rows and the row of the new grantee.
LEMMA RowsDone ==
    ASSUME Typed, NEW f \in GridForm, RowsLeft(f, <<>>) PROVE NewLeft(f, NewPart(f))
<1> SUFFICES ASSUME NEW g \in Grantees, NEW p \in PrivsOf(f.obj), LastCell(f, g, p) # RowCell(f, g, p),
                    ~Held(f.obj, g, p)
             PROVE  \E s \in Range(NewPart(f)) : Touches(s, f.obj, g, p)
  BY EmptyRange DEF NewLeft, RowsLeft
<1>1. g = f.newgrantee /\ f.newcell[p] > RowCell(f, g, p) BY DEF LastCell
<1>2. f.obj \in Objects /\ f.newcell \in Cells /\ Unset \in Cells BY UnsetCells DEF GridForm
<1>3. p \in Looked BY <1>2, PrivsKnown
<1>4. RowCell(f, g, p) \in 0 .. 2
  <2>1. f.cell[g] \in Cells /\ f.orig[g] \in Cells BY DEF GridForm
  <2> QED BY <1>3, <2>1 DEF Cells, RowCell
<1>5. Unset[p] # f.newcell[p] BY <1>1, <1>2, <1>3, <1>4, UnsetCells DEF Cells
<1>6. \E s \in DiffStatements(f.obj, g, Unset, f.newcell) : Touches(s, f.obj, g, p)
  BY <1>2, <1>5, DiffCovers
<1> QED BY <1>1, <1>6, NewPartRange DEF NewStatements

\* A script that starts has all its statements before it.
LEMMA StartScriptKeeps == ASSUME PInv, StartScript PROVE PInv'
<1> USE DEF PInv
<1> DEFINE f == script
           alone == f.panel = "wizard" \/ f.load = still
<1>1. /\ work = NoWork /\ Statements(f) # <<>>
      /\ work' = [left |-> Statements(f), form |-> f, alone |-> alone]
      /\ UNCHANGED <<acl, passed, there, sheet, script, opened, still>>
  BY DEF StartScript
<1>2. alone \in BOOLEAN OBVIOUS
<1> HIDE DEF alone
<1>3. work'.left = Statements(f) /\ work'.form = f /\ work'.alone = alone BY <1>1
<1>4. work' # NoWork BY <1>1, <1>3 DEF NoWork
<1>5. AsLoaded' BY <1>4 DEF AsLoaded
<1>6. f \in GridForm \cup WizardForm
  <2> f = NoSheet => Statements(f) = <<>> BY DEF Statements, NoSheet
  <2> QED BY <1>1 DEF Typed
<1>7. CASE f \in GridForm
  <2>1. Statements(f) = BuildPrivileges(f) /\ f.panel = "grid" BY <1>7, Panels DEF Statements
  <2>2. PICK X \in Seq(RowStatements(f)) :
          BuildPrivileges(f) = X \o NewPart(f) /\ RowStatements(f) \subseteq Range(X)
    BY <1>7, BuildPrivilegesShape
  <2>3. ASSUME alone PROVE RowsLeft(f, X)'
    <3>1. \A g \in Grantees, p \in Looked : Held(f.obj, g, p) \/ acl[f.obj][g][p] = f.orig[g][p]
      BY <1>1, <2>1, <2>3 DEF AsLoaded, alone
    <3>0. PrivsOf(f.obj) \subseteq Looked BY <1>7, PrivsKnown DEF GridForm
    <3>2. ASSUME NEW g \in Grantees, NEW p \in PrivsOf(f.obj), acl[f.obj][g][p] # RowCell(f, g, p),
                 ~Held(f.obj, g, p)
          PROVE  \E s \in Range(X) : Touches(s, f.obj, g, p)
      <4>1. g \in f.rows /\ f.orig[g][p] # f.cell[g][p] BY <3>0, <3>1, <3>2 DEF RowCell
      <4>2. f.obj \in Objects /\ f.orig[g] \in Cells /\ f.cell[g] \in Cells BY <1>7 DEF GridForm
      <4>3. PICK s \in DiffStatements(f.obj, g, f.orig[g], f.cell[g]) : Touches(s, f.obj, g, p)
        BY <4>1, <4>2, DiffCovers
      <4> QED BY <2>2, <4>1, <4>3 DEF RowStatements
    <3>3. passed' = passed BY <1>1
    <3> QED BY <1>1, <3>0, <3>1, <3>2, <3>3 DEF RowsLeft, Held
  <2>4. GridWork(f)' BY <1>1, <1>3, <2>1, <2>2, <2>3 DEF GridWork
  <2>5. GoesOn' BY <1>1, <1>3, <2>1, <2>4 DEF GoesOn, GridWork
  <2>6. work'.left \in Seq(Statement)
    <3>1. RowStatements(f) \subseteq Statement /\ NewStatements(f) \subseteq Statement
      BY <1>7, RowsMean, NewsMean
    <3>2. X \in Seq(Statement) /\ NewPart(f) \in Seq(Statement)
      BY <1>7, <2>2, <3>1, NewPartRange, SeqWidens
    <3> QED BY <1>3, <2>1, <2>2, <3>2
  <2>7. work' \in Work BY <1>1, <1>2, <1>3, <1>6, <2>6 DEF Work
  <2>8. Typed' BY <1>1, <1>3, <2>7 DEF Typed, PrivTypeOK
  <2> QED BY <1>5, <2>5, <2>8
<1>8. CASE f \in WizardForm
  <2>1. Statements(f) = BuildGrantWizard(f) /\ f.panel = "wizard" BY <1>8, Panels DEF Statements
  <2>2. /\ BuildGrantWizard(f) \in Seq(GroupsOf(f))
        /\ GroupsOf(f) \subseteq Range(BuildGrantWizard(f))
    BY <1>8, BuildGrantWizardRange
  <2>3. ASSUME NEW o \in there, NEW g \in f.to, NEW p \in f.privs, Chosen(f, o), p \in PrivsOf(o)
        PROVE  \E s \in Range(BuildGrantWizard(f)) : Touches(s, o, g, p)
    <3>1. o \in Objects BY DEF Typed, PrivTypeOK
    <3>2. \E s \in GroupsOf(f) : Touches(s, o, g, p) BY <1>8, <2>3, <3>1, GroupsCover
    <3> QED BY <2>2, <3>2
  <2>4. WizardWork(f)' BY <1>1, <1>3, <2>1, <2>2, <2>3 DEF WizardWork
  <2>5. GoesOn' BY <1>1, <1>3, <2>1, <2>4 DEF GoesOn, WizardWork
  <2>6. work'.left \in Seq(Statement)
    <3>1. GroupsOf(f) \subseteq Statement BY <1>8, GroupMeans
    <3> QED BY <1>3, <2>1, <2>2, <3>1, SeqWidens
  <2>7. work' \in Work BY <1>1, <1>2, <1>3, <1>6, <2>6 DEF Work
  <2>8. Typed' BY <1>1, <1>3, <2>7 DEF Typed, PrivTypeOK
  <2> QED BY <1>5, <2>5, <2>8
<1> QED BY <1>6, <1>7, <1>8

\* A statement of the rows, and one of the new grantee's row, brings its cells
\* where they belong and leaves those alone that are there.
LEMMA RowsGoOn ==
    ASSUME Typed, NEW f \in GridForm, NEW X \in Seq(RowStatements(f)), X # <<>>,
           Allowed(Head(X)), acl' = Granted(Head(X)), passed' = passed, RowsLeft(f, X)
    PROVE  RowsLeft(f, Tail(X))'
<1> DEFINE s == Head(X)
<1>1. s \in RowStatements(f) /\ Range(X) = {s} \cup Range(Tail(X)) BY TailRange
<1>2. /\ s \in Statement /\ s.on = {f.obj} /\ s.all = {}
      /\ \A g \in Grantees, p \in Looked : Touches(s, f.obj, g, p) =>
            /\ Level(s, f.orig[g][p]) = RowCell(f, g, p)
            /\ Level(s, RowCell(f, g, p)) = RowCell(f, g, p)
  BY <1>1, RowsMean
<1>3. f.obj \in Objects /\ f.obj \in there BY <1>2 DEF GridForm, Allowed
<1> HIDE DEF s
<1>4. ASSUME NEW g \in Grantees, NEW p \in PrivsOf(f.obj), ~Held(f.obj, g, p)
      PROVE  \/ acl'[f.obj][g][p] = RowCell(f, g, p)
             \/ acl'[f.obj][g][p] = f.orig[g][p] /\ \E t \in Range(Tail(X)) : Touches(t, f.obj, g, p)
  <2>1. p \in Looked BY <1>3, PrivsKnown
  <2>2. acl'[f.obj][g][p] = IF Touches(s, f.obj, g, p) THEN Level(s, acl[f.obj][g][p]) ELSE acl[f.obj][g][p]
    BY <1>2, <1>3, <2>1, GrantedCell DEF s
  <2>3. \/ acl[f.obj][g][p] = RowCell(f, g, p)
        \/ acl[f.obj][g][p] = f.orig[g][p] /\ \E t \in Range(X) : Touches(t, f.obj, g, p)
    BY <1>4 DEF RowsLeft
  <2>4. CASE Touches(s, f.obj, g, p) BY <1>2, <2>1, <2>2, <2>3, <2>4
  <2>5. CASE ~Touches(s, f.obj, g, p) BY <1>1, <2>2, <2>3, <2>5
  <2> QED BY <2>4, <2>5
<1> QED BY <1>4 DEF RowsLeft, Held

\* A statement for the new grantee is done, the rest is before it.
LEMMA NewGoesOn ==
    ASSUME Typed, NEW f \in GridForm, NEW L \in Seq(NewStatements(f)), L # <<>>,
           Allowed(Head(L)), acl' = Granted(Head(L)), passed' = passed, NewLeft(f, L)
    PROVE  NewLeft(f, Tail(L))'
<1> DEFINE s == Head(L)
<1>1. s \in NewStatements(f) /\ Range(L) = {s} \cup Range(Tail(L)) BY TailRange
<1>2. /\ s \in Statement /\ s.on = {f.obj} /\ s.all = {}
      /\ \A g \in Grantees, p \in Looked : Touches(s, f.obj, g, p) =>
            /\ g = f.newgrantee
            /\ \A c \in 0 .. 2 : Level(s, c) = IF f.newcell[p] > c THEN f.newcell[p] ELSE c
  BY <1>1, NewsMean
<1>3. f.obj \in Objects /\ f.obj \in there BY <1>2 DEF GridForm, Allowed
<1> HIDE DEF s
<1>4. ASSUME NEW g \in Grantees, NEW p \in PrivsOf(f.obj), ~Held(f.obj, g, p)
      PROVE  \/ acl'[f.obj][g][p] = LastCell(f, g, p)
             \/ acl'[f.obj][g][p] = RowCell(f, g, p) /\ \E t \in Range(Tail(L)) : Touches(t, f.obj, g, p)
  <2>1. p \in Looked BY <1>3, PrivsKnown
  <2>2. acl'[f.obj][g][p] = IF Touches(s, f.obj, g, p) THEN Level(s, acl[f.obj][g][p]) ELSE acl[f.obj][g][p]
    BY <1>2, <1>3, <2>1, GrantedCell DEF s
  <2>3. \/ acl[f.obj][g][p] = LastCell(f, g, p)
        \/ acl[f.obj][g][p] = RowCell(f, g, p) /\ \E t \in Range(L) : Touches(t, f.obj, g, p)
    BY <1>4 DEF NewLeft
  <2>4. acl[f.obj][g][p] \in 0 .. 2 /\ f.newcell[p] \in 0 .. 2
    <3>1. acl[f.obj][g][p] \in 0 .. 2 BY <1>3, <2>1 DEF Typed, PrivTypeOK
    <3>2. f.newcell \in Cells BY DEF GridForm
    <3> QED BY <2>1, <3>1, <3>2 DEF Cells
  <2>5. CASE Touches(s, f.obj, g, p)
    <3>1. /\ g = f.newgrantee
          /\ acl'[f.obj][g][p] = IF f.newcell[p] > acl[f.obj][g][p] THEN f.newcell[p] ELSE acl[f.obj][g][p]
      BY <1>2, <2>1, <2>2, <2>4, <2>5
    <3>2. LastCell(f, g, p) = IF f.newcell[p] > RowCell(f, g, p) THEN f.newcell[p] ELSE RowCell(f, g, p)
      BY <3>1 DEF LastCell
    <3>3. CASE acl[f.obj][g][p] = RowCell(f, g, p) BY <3>1, <3>2, <3>3
    <3>4. CASE acl[f.obj][g][p] = LastCell(f, g, p)
      <4>1. RowCell(f, g, p) \in 0 .. 2
        <5> f.cell[g] \in Cells /\ f.orig[g] \in Cells BY DEF GridForm
        <5> QED BY <2>1 DEF RowCell, Cells
      <4> QED BY <2>4, <3>1, <3>2, <3>4, <4>1
    <3> QED BY <2>3, <3>3, <3>4
  <2>6. CASE ~Touches(s, f.obj, g, p) BY <1>1, <2>2, <2>3, <2>6
  <2> QED BY <2>5, <2>6
<1> QED BY <1>4 DEF NewLeft, Held

\* What is left of the grid's script, at its next statement.
LEMMA GridNext ==
    ASSUME Typed, NEW f \in GridForm, GridWork(f), work.left # <<>>
    PROVE  \/ \E X \in Seq(RowStatements(f)) :
                 /\ X # <<>> /\ Head(work.left) = Head(X) /\ Tail(work.left) = Tail(X) \o NewPart(f)
                 /\ work.alone => RowsLeft(f, X)
           \/ work.left \in Seq(NewStatements(f)) /\ (work.alone => NewLeft(f, work.left))
<1>0. NewPart(f) \in Seq(NewStatements(f)) BY NewPartRange
<1>1. CASE \E X \in Seq(RowStatements(f)) :
             work.left = X \o NewPart(f) /\ (work.alone => RowsLeft(f, X))
  <2>1. PICK X \in Seq(RowStatements(f)) :
          work.left = X \o NewPart(f) /\ (work.alone => RowsLeft(f, X))
    BY <1>1
  <2>2. CASE X = <<>>
    <3>1. work.left = NewPart(f) BY <1>0, <2>1, <2>2
    <3> QED BY <1>0, <2>1, <2>2, <3>1, RowsDone
  <2>3. CASE X # <<>>
    <3>1. RowStatements(f) \subseteq Statement /\ NewStatements(f) \subseteq Statement
      BY RowsMean, NewsMean
    <3>2. X \in Seq(Statement) /\ NewPart(f) \in Seq(Statement) BY <1>0, <3>1, SeqWidens
    <3>3. Head(X \o NewPart(f)) = Head(X) /\ Tail(X \o NewPart(f)) = Tail(X) \o NewPart(f)
      BY <2>3, <3>2
    <3> QED BY <2>1, <2>3, <3>3
  <2> QED BY <2>2, <2>3
<1> QED BY <1>1 DEF GridWork

\* A statement of a grid is done, the rest is before it.
LEMMA GridKeeps ==
    ASSUME Typed, NEW f \in GridForm, GridWork(f), work.left # <<>>,
           Allowed(Head(work.left)), acl' = Granted(Head(work.left)), passed' = passed,
           work'.left = Tail(work.left), work'.alone = work.alone
    PROVE  GridWork(f)'
<1>1. CASE \E X \in Seq(RowStatements(f)) :
             /\ X # <<>> /\ Head(work.left) = Head(X) /\ Tail(work.left) = Tail(X) \o NewPart(f)
             /\ work.alone => RowsLeft(f, X)
  <2>1. PICK X \in Seq(RowStatements(f)) :
             /\ X # <<>> /\ Head(work.left) = Head(X) /\ Tail(work.left) = Tail(X) \o NewPart(f)
             /\ work.alone => RowsLeft(f, X)
    BY <1>1
  <2>2. Tail(X) \in Seq(RowStatements(f)) BY <2>1
  <2>3. work.alone => RowsLeft(f, Tail(X))' BY <2>1, RowsGoOn
  <2> DEFINE Y == Tail(X)
  <2>4. Y \in Seq(RowStatements(f)) /\ work'.left = Y \o NewPart(f) /\ (work'.alone => RowsLeft(f, Y)')
    BY <2>1, <2>2, <2>3
  <2> HIDE DEF Y
  <2> QED BY <2>4 DEF GridWork, RowsLeft
<1>2. CASE work.left \in Seq(NewStatements(f)) /\ (work.alone => NewLeft(f, work.left))
  <2>1. PICK L \in Seq(NewStatements(f)) : L = work.left BY <1>2
  <2>2. Tail(L) \in Seq(NewStatements(f)) /\ work'.left = Tail(L) BY <2>1, TailRange
  <2>3. work.alone => NewLeft(f, L) BY <1>2, <2>1
  <2>4. work.alone => NewLeft(f, Tail(L))' BY <2>1, <2>3, NewGoesOn
  <2>5. work'.alone => NewLeft(f, work.left)' BY <2>2, <2>4 DEF NewLeft
  <2> QED BY <2>2, <2>5 DEF GridWork
<1> QED BY <1>1, <1>2, GridNext

\* A statement of the wizard is done, the rest is before it.
LEMMA WizardKeeps ==
    ASSUME Typed, NEW f \in WizardForm, WizardWork(f), work.left # <<>>,
           Allowed(Head(work.left)), acl' = Granted(Head(work.left)),
           work'.left = Tail(work.left), work'.alone = work.alone, there' = there
    PROVE  WizardWork(f)'
<1> DEFINE s == Head(work.left)
<1>1. s \in GroupsOf(f) /\ Range(work.left) = {s} \cup Range(Tail(work.left))
      /\ Tail(work.left) \in Seq(GroupsOf(f))
  BY TailRange DEF WizardWork
<1>2. s \in Statement /\ Allowed(s) /\ acl' = Granted(s) BY <1>1, GroupMeans
<1> HIDE DEF s
<1>3. ASSUME work.alone, NEW o \in there, NEW g \in f.to, NEW p \in f.privs, Chosen(f, o), p \in PrivsOf(o)
      PROVE  Fixed(f, acl'[o][g][p]) \/ \E t \in Range(Tail(work.left)) : Touches(t, o, g, p)
  <2>1. o \in Objects /\ g \in Grantees /\ p \in Looked BY DEF Typed, PrivTypeOK, WizardForm
  <2>2. acl'[o][g][p] = IF Touches(s, o, g, p) THEN Level(s, acl[o][g][p]) ELSE acl[o][g][p]
    BY <1>2, <2>1, GrantedCell
  <2>3. acl[o][g][p] \in 0 .. 2 BY <2>1 DEF Typed, PrivTypeOK
  <2>4. Fixed(f, acl[o][g][p]) \/ \E t \in Range(work.left) : Touches(t, o, g, p)
    BY <1>3 DEF WizardWork
  <2>5. CASE Touches(s, o, g, p) BY <1>1, <2>2, <2>3, <2>5, GroupLevel
  <2>6. CASE ~Touches(s, o, g, p) BY <1>1, <2>2, <2>4, <2>6
  <2> QED BY <2>5, <2>6
<1> QED BY <1>1, <1>3 DEF WizardWork

\* The server runs the next statement of the script, or refuses it.
LEMMA RunGrantKeeps == ASSUME PInv, RunGrant PROVE PInv'
<1> USE DEF PInv
<1> DEFINE s == Head(work.left)
<1>0. PICK f : f = work.form OBVIOUS
<1>1. /\ work.left # <<>> /\ Allowed(s) /\ acl' = Granted(s)
      /\ work' = [work EXCEPT !.left = Tail(work.left)]
      /\ passed' = PassedAfter(s) /\ still' \in {still, 0}
      /\ UNCHANGED <<there, sheet, script, opened>>
  BY DEF RunGrant
<1>2. /\ work \in [left : Seq(Statement), form : GridForm \cup WizardForm, alone : BOOLEAN]
      /\ f \in GridForm \cup WizardForm
  BY <1>0, <1>1 DEF Typed, Work, NoWork
<1>3. s \in Statement /\ Tail(work.left) \in Seq(Statement) BY <1>1, <1>2
<1>4. /\ work'.left = Tail(work.left) /\ work'.form = f /\ work'.alone = work.alone
      /\ work' \in Work
  BY <1>0, <1>1, <1>2, <1>3 DEF Work
<1>5. /\ acl' \in [Objects -> [Grantees -> [Looked -> 0 .. 2]]]
      /\ \A o \in Objects, g \in Grantees, p \in Looked :
            acl'[o][g][p] > 0 => o \in there /\ p \in PrivsOf(o)
  BY <1>1, <1>3, GrantedCell
<1>10. /\ passed' \subseteq passed /\ (s.op # "cascade" => passed' = passed)
       /\ \A q \in passed' : q[2] # q[3] /\ acl'[q[1]][q[2]][q[4]] = 2
  BY <1>1, <1>3, PassedCell
<1>6. Typed' BY <1>0, <1>1, <1>4, <1>5, <1>10 DEF Typed, PrivTypeOK
<1>7. AsLoaded'
  <2>1. f # NoSheet BY <1>2, Panels DEF NoSheet
  <2>2. work' # NoWork BY <1>4, <2>1 DEF NoWork
  <2> QED BY <2>2 DEF AsLoaded
<1>8. CASE f \in GridForm
  <2>1. f.panel = "grid" /\ GridWork(f) BY <1>0, <1>8, Panels DEF GoesOn
  <2>5. s \in RowStatements(f) \cup NewStatements(f) BY <1>1, <1>8, <2>1, GridNext, TailRange
  <2>6. s.op # "cascade"
    <3>1. CASE s \in RowStatements(f) BY <1>8, <3>1, RowsMean
    <3>2. CASE s \in NewStatements(f)
      <4> HIDE DEF s
      <4>1. s.op = "grant" BY <1>8, <3>2, NewsMean
      <4> QED BY <4>1
    <3> QED BY <2>5, <3>1, <3>2
  <2>7. passed' = passed BY <1>10, <2>6
  <2>2. GridWork(f)' BY <1>0, <1>1, <1>4, <1>8, <2>1, <2>7, GridKeeps
  <2>8. work'.form = f BY <1>4
  <2>9. \A X : /\ RowsLeft(work.form, X)' = RowsLeft(f, X)'
               /\ NewLeft(work.form, X)' = NewLeft(f, X)'
    BY <2>8 DEF RowsLeft, NewLeft
  <2>3. GridWork(work.form)' BY <2>2, <2>8, <2>9 DEF GridWork
  <2>4. GoesOn' BY <1>4, <2>1, <2>3 DEF GoesOn
  <2> QED BY <1>6, <1>7, <2>4
<1>9. CASE f \in WizardForm
  <2>1. f.panel = "wizard" /\ WizardWork(f) BY <1>0, <1>9, Panels DEF GoesOn
  <2>2. WizardWork(f)' BY <1>0, <1>1, <1>4, <1>9, <2>1, WizardKeeps
  <2>3. WizardWork(work.form)' BY <1>4, <2>2 DEF WizardWork
  <2>4. GoesOn' BY <1>4, <2>1, <2>3 DEF GoesOn
  <2> QED BY <1>6, <1>7, <2>4
<1> QED BY <1>2, <1>8, <1>9

\* A script that ends leaves nothing to do.
LEMMA StopScriptKeeps == ASSUME PInv, StopScript \/ FinishScript PROVE PInv'
<1> USE DEF PInv
<1>1. /\ work' = NoWork /\ still' = 0 /\ sheet' \in {sheet, NoSheet}
      /\ UNCHANGED <<acl, passed, there, script, opened>>
  BY DEF StopScript, FinishScript
<1>2. /\ sheet' \in GridForm \cup WizardForm \cup {NoSheet} /\ sheet'.load <= opened
      /\ script' \in GridForm \cup WizardForm \cup {NoSheet}
  BY <1>1 DEF Typed, PrivTypeOK, NoSheet
<1>3. Typed' BY <1>1, <1>2 DEF Typed, PrivTypeOK, Work, NoWork, NoSheet
<1>4. \A f \in {sheet, script}' : f.panel # "none" => f.load > 0
  BY <1>2, Panels DEF NoSheet
<1>5. AsLoaded' BY <1>1, <1>4 DEF AsLoaded
<1>6. GoesOn' BY <1>1 DEF GoesOn, NoWork, NoSheet
<1> QED BY <1>3, <1>5, <1>6

\* Another session grants, revokes, passes on, creates or drops: the script is
\* not alone any more.
LEMMA OtherGrantsKeeps == ASSUME PInv, OtherGrants PROVE PInv'
<1> USE DEF PInv
<1>1. /\ work' = [work EXCEPT !.alone = FALSE] /\ still' = 0 /\ UNCHANGED <<sheet, script, opened>>
  BY DEF OtherGrants
<1> DEFINE Fits == /\ there' \subseteq Objects
                   /\ acl' \in [Objects -> [Grantees -> [Looked -> 0 .. 2]]]
                   /\ \A o \in Objects, g \in Grantees, p \in Looked :
                         acl'[o][g][p] > 0 => o \in there' /\ p \in PrivsOf(o)
                   /\ passed' \subseteq Objects \X Grantees \X Grantees \X Looked
                   /\ \A o \in Objects, g, h \in Grantees, p \in Looked :
                         <<o, g, h, p>> \in passed' => g # h /\ acl'[o][g][p] = 2
<1>0. /\ passed \subseteq Objects \X Grantees \X Grantees \X Looked
      /\ \A o \in Objects, g, h \in Grantees, p \in Looked :
           <<o, g, h, p>> \in passed => g # h /\ acl[o][g][p] = 2
  BY DEF Typed, PrivTypeOK
<1>2. ASSUME NEW o \in there, NEW g \in Grantees \ {Public}, NEW l \in {0, 2},
             acl' = [acl EXCEPT ![o][g] = [p \in Looked |-> IF p \in PrivsOf(o) THEN l ELSE 0]],
             passed' = IF l = 2 THEN passed ELSE {q \in passed : <<q[1], q[2]>> # <<o, g>>},
             there' = there
      PROVE  Fits
  <2> DEFINE new == [p \in Looked |-> IF p \in PrivsOf(o) THEN l ELSE 0]
  <2>1. /\ new \in [Looked -> 0 .. 2] /\ \A p \in Looked : new[p] > 0 => p \in PrivsOf(o)
        /\ l = 2 => \A p \in PrivsOf(o) : p \in Looked => new[p] = 2
    OBVIOUS
  <2> HIDE DEF new
  <2>2. o \in Objects /\ acl' = [acl EXCEPT ![o][g] = new] BY <1>2 DEF Typed, PrivTypeOK, new
  <2>3. \A k \in Objects, h \in Grantees : acl'[k][h] = IF k = o /\ h = g THEN new ELSE acl[k][h]
    BY <2>2 DEF Typed, PrivTypeOK
  <2>4. /\ there' \subseteq Objects
        /\ acl' \in [Objects -> [Grantees -> [Looked -> 0 .. 2]]]
        /\ \A k \in Objects, h \in Grantees, p \in Looked : acl'[k][h][p] > 0 => k \in there' /\ p \in PrivsOf(k)
    BY <1>2, <2>1, <2>2 DEF Typed, PrivTypeOK
  <2>5. ASSUME NEW k \in Objects, NEW h \in Grantees, NEW i \in Grantees, NEW p \in Looked,
               <<k, h, i, p>> \in passed'
        PROVE  h # i /\ acl'[k][h][p] = 2
    <3>1. <<k, h, i, p>> \in passed BY <1>2, <2>5
    <3>2. h # i /\ acl[k][h][p] = 2 BY <1>0, <3>1
    <3>3. CASE k = o /\ h = g
      <4>1. l = 2 BY <1>2, <2>5, <3>3
      <4>2. p \in PrivsOf(o) BY <3>2, <3>3 DEF Typed, PrivTypeOK
      <4> QED BY <2>1, <2>3, <3>2, <3>3, <4>1, <4>2
    <3>4. CASE ~(k = o /\ h = g) BY <2>3, <3>2, <3>4
    <3> QED BY <3>3, <3>4
  <2>6. passed' \subseteq Objects \X Grantees \X Grantees \X Looked BY <1>0, <1>2
  <2> QED BY <2>4, <2>5, <2>6
<1>3. ASSUME NEW o \in Objects, acl' = [acl EXCEPT ![o] = [g \in Grantees |-> Unset]],
             passed' = {q \in passed : q[1] # o},
             there' = IF o \in there THEN there \ {o} ELSE there \cup {o}
      PROVE  Fits
  <2> DEFINE new == [g \in Grantees |-> Unset]
  <2>1. new \in [Grantees -> [Looked -> 0 .. 2]] /\ \A g \in Grantees, p \in Looked : new[g][p] = 0
    BY UnsetCells DEF Cells
  <2> HIDE DEF new
  <2>2. acl' = [acl EXCEPT ![o] = new] BY <1>3 DEF new
  <2>3. there' \subseteq Objects /\ there \ {o} \subseteq there' BY <1>3 DEF Typed, PrivTypeOK
  <2>4. /\ acl' \in [Objects -> [Grantees -> [Looked -> 0 .. 2]]]
        /\ \A k \in Objects, h \in Grantees, p \in Looked : acl'[k][h][p] > 0 => k \in there' /\ p \in PrivsOf(k)
    BY <2>1, <2>2, <2>3 DEF Typed, PrivTypeOK
  <2>5. ASSUME NEW k \in Objects, NEW h \in Grantees, NEW i \in Grantees, NEW p \in Looked,
               <<k, h, i, p>> \in passed'
        PROVE  h # i /\ acl'[k][h][p] = 2
    <3>1. <<k, h, i, p>> \in passed /\ k # o BY <1>3, <2>5
    <3>2. acl'[k] = acl[k] BY <2>2, <3>1 DEF Typed, PrivTypeOK
    <3> QED BY <1>0, <3>1, <3>2
  <2>6. passed' \subseteq Objects \X Grantees \X Grantees \X Looked BY <1>0, <1>3
  <2> QED BY <2>3, <2>4, <2>5, <2>6
<1>10. ASSUME NEW o \in there, NEW g \in Grantees, NEW h \in Grantees, g # h,
              passed' = passed \cup {<<o, g, h, p>> : p \in {p \in Looked : acl[o][g][p] = 2}},
              UNCHANGED <<acl, there>>
       PROVE  Fits
  <2>1. o \in Objects BY DEF Typed, PrivTypeOK
  <2>2. /\ there' \subseteq Objects
        /\ acl' \in [Objects -> [Grantees -> [Looked -> 0 .. 2]]]
        /\ \A k \in Objects, i \in Grantees, p \in Looked : acl'[k][i][p] > 0 => k \in there' /\ p \in PrivsOf(k)
    BY <1>10 DEF Typed, PrivTypeOK
  <2>3. passed' \subseteq Objects \X Grantees \X Grantees \X Looked BY <1>0, <1>10, <2>1
  <2>4. \A k \in Objects, i, j \in Grantees, p \in Looked :
          <<k, i, j, p>> \in passed' => i # j /\ acl'[k][i][p] = 2
    BY <1>0, <1>10
  <2> QED BY <2>2, <2>3, <2>4
<1>4. Fits BY <1>2, <1>3, <1>10, Zenon DEF OtherGrants
<1> HIDE DEF Fits
<1>5. work' \in Work /\ work'.form = work.form /\ work'.left = work.left /\ ~work'.alone
  <2>1. CASE work = NoWork
    <3> work' = NoWork BY <1>1, <2>1 DEF NoWork
    <3> QED BY <2>1 DEF Work, NoWork
  <2>2. CASE work # NoWork
    <3> DEFINE L == Seq(Statement)
               F == GridForm \cup WizardForm
    <3>1. work \in [left : L, form : F, alone : BOOLEAN] BY <2>2 DEF Typed, Work
    <3>2. Work = [left : L, form : F, alone : BOOLEAN] \cup {NoWork} BY DEF Work
    <3> HIDE DEF L, F
    <3> QED BY <1>1, <3>1, <3>2
  <2> QED BY <2>1, <2>2
<1>11. \A q \in passed' : q[2] # q[3] /\ acl'[q[1]][q[2]][q[4]] = 2
  <2> TAKE q \in passed'
  <2>1. PICK o \in Objects, g \in Grantees, h \in Grantees, p \in Looked : q = <<o, g, h, p>> BY <1>4 DEF Fits
  <2>2. q[1] = o /\ q[2] = g /\ q[3] = h /\ q[4] = p BY <2>1
  <2> QED BY <1>4, <2>1, <2>2 DEF Fits
<1>6. Typed' BY <1>1, <1>4, <1>5, <1>11 DEF Typed, PrivTypeOK, Fits
<1>7. \A f \in {sheet, script} : f.panel # "none" => f.load > 0
  BY Panels DEF NoSheet, Typed
<1>8. AsLoaded' BY <1>1, <1>7 DEF AsLoaded
<1>9. GoesOn' BY <1>5 DEF GoesOn, GridWork, WizardWork
<1> QED BY <1>6, <1>8, <1>9

\* Every step keeps the invariant.
LEMMA PrivStepInv == ASSUME PInv, [PrivNext]_privVars PROVE PInv'
<1>1. CASE \E o \in Objects : HandlePrivPanel(o) BY <1>1, HandlePrivPanelKeeps
<1>2. CASE HandleGrantObjects BY <1>2, HandleGrantObjectsKeeps
<1>3. CASE EditGrid BY <1>3, EditGridKeeps
<1>4. CASE FillWizard BY <1>4, FillWizardKeeps
<1>5. CASE StartScript BY <1>5, StartScriptKeeps
<1>6. CASE RunGrant BY <1>6, RunGrantKeeps
<1>7. CASE StopScript \/ FinishScript BY <1>7, StopScriptKeeps
<1>8. CASE OtherGrants BY <1>8, OtherGrantsKeeps
<1>9. CASE UNCHANGED privVars
  <2>1. UNCHANGED <<acl, passed, there, sheet, script, work, opened, still>> BY <1>9 DEF privVars
  <2>2. GoesOn' BY <2>1, GoesOnSame DEF PInv
  <2>3. Typed' BY <2>1 DEF PInv, Typed, PrivTypeOK
  <2>4. AsLoaded' BY <2>1 DEF PInv, AsLoaded, Held
  <2> QED BY <2>2, <2>3, <2>4 DEF PInv
<1> QED BY <1>1, <1>2, <1>3, <1>4, <1>5, <1>6, <1>7, <1>8, <1>9 DEF PrivNext

\* The invariant holds in every reachable state.
LEMMA PInvAlways == PrivSpec => []PInv
BY PrivInitInv, PrivStepInv, PTL DEF PrivSpec

\* The cells of an access list are cells of its object.
THEOREM PrivTypeCorrect == PrivSpec => []PrivTypeOK
<1>1. PInv => PrivTypeOK BY DEF PInv, Typed
<1> QED BY <1>1, PInvAlways, PTL

\* A grid that ran to its end alone left each cell as its form says, unless it
\* is also held from another grantee.
LEMMA GridEnds ==
    ASSUME Typed, NEW f \in GridForm, GridWork(f), work.left = <<>>, work.alone,
           NEW o \in Objects, NEW g \in Grantees, NEW p \in Looked, ~Held(o, g, p)
    PROVE  acl[o][g][p] = Asked(f, o, g, p, acl[o][g][p])
<1>1. f.panel = "grid" /\ f.obj \in Objects /\ f.newcell \in Cells /\ f.cell[g] \in Cells /\ f.orig[g] \in Cells
  BY DEF GridForm
<1>2. NewPart(f) \in Seq(NewStatements(f)) BY NewPartRange
<1>3. NewLeft(f, <<>>)
  <2>1. CASE work.left \in Seq(NewStatements(f)) /\ (work.alone => NewLeft(f, work.left)) BY <2>1
  <2>2. ASSUME NEW X \in Seq(RowStatements(f)), work.left = X \o NewPart(f), RowsLeft(f, X)
        PROVE  NewLeft(f, <<>>)
    <3>1. Len(X \o NewPart(f)) = Len(X) + Len(NewPart(f)) /\ Len(work.left) = 0 BY <1>2
    <3>2. Len(X) = 0 /\ Len(NewPart(f)) = 0 BY <1>2, <2>2, <3>1
    <3>3. X = <<>> /\ NewPart(f) = <<>> BY <1>2, <3>2
    <3> QED BY <2>2, <3>3, RowsDone
  <2> QED BY <2>1, <2>2 DEF GridWork
<1>4. CASE o # f.obj BY <1>1, <1>4 DEF Asked
<1>5. CASE o = f.obj
  <2> DEFINE c == acl[f.obj][g][p]
             row == IF g \in f.rows THEN f.cell[g][p] ELSE c
             new == f.newcell[p]
  <2>1. c \in 0 .. 2 /\ new \in 0 .. 2 /\ f.cell[g][p] \in 0 .. 2 /\ f.orig[g][p] \in 0 .. 2
    BY <1>1 DEF Cells, Typed, PrivTypeOK
  <2>2. Asked(f, o, g, p, c) = IF g = f.newgrantee /\ new > row THEN new ELSE row
    BY <1>1, <1>5 DEF Asked
  <2>3. CASE p \in PrivsOf(f.obj)
    <3>1. c = LastCell(f, g, p) BY <1>3, <1>5, <2>3, EmptyRange DEF NewLeft
    <3>2. RowCell(f, g, p) = IF g \in f.rows THEN f.cell[g][p] ELSE f.orig[g][p] BY DEF RowCell
    <3>3. c = IF g = f.newgrantee /\ new > RowCell(f, g, p) THEN new ELSE RowCell(f, g, p)
      BY <3>1 DEF LastCell
    <3> HIDE DEF c, new
    <3> QED BY <1>5, <2>1, <2>2, <3>2, <3>3 DEF c
  <2>4. CASE p \notin PrivsOf(f.obj)
    <3>1. c = 0 BY <1>1, <2>1, <2>4 DEF Typed, PrivTypeOK
    <3>2. new = 0 /\ f.cell[g][p] = 0 BY <2>4 DEF GridForm
    <3> QED BY <1>5, <2>2, <3>1, <3>2
  <2> QED BY <2>3, <2>4
<1> QED BY <1>4, <1>5

\* A wizard that ran to its end alone left each cell as it was asked for.
LEMMA WizardEnds ==
    ASSUME Typed, NEW f \in WizardForm, WizardWork(f), work.left = <<>>, work.alone,
           NEW o \in there, NEW g \in Grantees, NEW p \in Looked
    PROVE  acl[o][g][p] = Asked(f, o, g, p, acl[o][g][p])
<1> DEFINE c == acl[o][g][p]
<1>1. f.panel = "wizard" /\ f.mode \in {"grant", "grantopt", "revoke", "cascade"} /\ f.panel # "grid"
  BY DEF WizardForm
<1>2. o \in Objects /\ c \in 0 .. 2 BY DEF Typed, PrivTypeOK
<1>3. CASE ~Chosen(f, o) \/ g \notin f.to \/ p \notin f.privs \cap PrivsOf(o) BY <1>1, <1>3 DEF Asked
<1>4. CASE Chosen(f, o) /\ g \in f.to /\ p \in f.privs \cap PrivsOf(o)
  <2>1. Fixed(f, c) BY <1>4, EmptyRange DEF WizardWork
  <2>2. Asked(f, o, g, p, c) = IF f.mode \in {"revoke", "cascade"} THEN 0
                               ELSE IF f.mode = "grantopt" \/ c = 2 THEN 2 ELSE 1
    BY <1>1, <1>4 DEF Asked
  <2> HIDE DEF c
  <2> QED BY <1>1, <1>2, <2>1, <2>2 DEF Fixed, c
<1> QED BY <1>3, <1>4

\* When a script that was left alone ends, the list is as its form asks, but
\* for the grid's cells that are also held from another grantee; and it stops
\* only for an object that is gone, a grant option for PUBLIC, or one that
\* others depend on.
THEOREM PrivListCorrect == PrivSpec => []ListIsAsAsked
<1> DEFINE f == work.form
           Cause ==
             IF f.panel = "grid" THEN
                 \/ f.obj \notin there
                 \/ \E p \in Looked : 2 \in {f.cell[Public][p]}
                                         \cup IF f.newgrantee = Public THEN {f.newcell[p]} ELSE {}
                 \/ \E g \in f.rows, p \in Looked : f.cell[g][p] < f.orig[g][p] /\ Depended(f.obj, g, p)
             ELSE \/ f.mode = "grantopt" /\ Public \in f.to
                  \/ \E o \in Objects \ there : f.pick[o] = "ticked" /\ ~CoveredByAll(f, o)
                  \/ f.mode = "revoke" /\ \E o \in Objects, g \in f.to, p \in f.privs :
                                             Chosen(f, o) /\ Depended(o, g, p)
           s == Head(work.left)
<1>1. ASSUME PInv, work # NoWork PROVE f \in GridForm \cup WizardForm /\ work.left \in Seq(Statement)
  BY <1>1 DEF PInv, Typed, Work
<1>2. ASSUME PInv, work # NoWork, work.left = <<>>, work.alone,
             NEW o \in there, NEW g \in Grantees, NEW p \in Looked
      PROVE  \/ acl[o][g][p] = Asked(f, o, g, p, acl[o][g][p])
             \/ f.panel = "grid" /\ Held(o, g, p)
  <2>1. o \in Objects /\ Typed BY <1>2 DEF PInv, Typed, PrivTypeOK
  <2>2. CASE f \in GridForm
    <3>1. f.panel = "grid" /\ GridWork(f) BY <1>2, <2>2, Panels DEF PInv, GoesOn
    <3> QED BY <1>2, <2>1, <2>2, <3>1, GridEnds
  <2>3. CASE f \in WizardForm
    <3>1. WizardWork(f) BY <1>2, <2>3, Panels DEF PInv, GoesOn
    <3> QED BY <1>2, <2>1, <2>3, <3>1, WizardEnds
  <2> QED BY <1>1, <1>2, <2>2, <2>3
<1>3. ASSUME PInv, work # NoWork, work.left # <<>>, ~Allowed(s) PROVE Cause
  <2>0. Typed BY <1>3 DEF PInv
  <2>1. CASE f \in GridForm
    <3>1. f.panel = "grid" /\ GridWork(f) BY <1>3, <2>1, Panels DEF PInv, GoesOn
    <3>2. s \in RowStatements(f) \cup NewStatements(f) BY <1>3, <2>0, <2>1, <3>1, GridNext, TailRange
    <3>3. s.on = {f.obj} /\ s.all = {} /\ s.privs \subseteq PrivsOf(f.obj)
      BY <2>1, <3>2, RowsMean, NewsMean
    <3>4. \/ f.obj \notin there
          \/ s.op = "grant" /\ s.opt /\ Public \in s.to
          \/ s.op # "grant" /\ \E o \in Objects, g \in Grantees, p \in Looked :
                                  Touches(s, o, g, p) /\ Depended(o, g, p)
      BY <1>3, <3>3 DEF Allowed
    <3>5. CASE s.op = "grant" /\ s.opt /\ Public \in s.to /\ s \in RowStatements(f)
      <4>1. \E p \in Looked : f.cell[Public][p] = 2 BY <2>1, <3>5, RowsMean
      <4> QED BY <3>1, <4>1
    <3>6. CASE s.op = "grant" /\ s.opt /\ Public \in s.to /\ s \in NewStatements(f)
      <4>1. f.newgrantee = Public /\ \E p \in Looked : f.newcell[p] = 2 BY <2>1, <3>6, NewsMean
      <4> QED BY <3>1, <4>1
    <3>7. ASSUME s.op # "grant", NEW o \in Objects, NEW g \in Grantees, NEW p \in Looked,
                 Touches(s, o, g, p), Depended(o, g, p)
          PROVE  Cause
      <4>1. s \in RowStatements(f) /\ o = f.obj BY <2>1, <3>2, <3>3, <3>7, NewsMean DEF Touches
      <4>2. g \in f.rows /\ f.cell[g][p] < f.orig[g][p] BY <2>1, <3>7, <4>1, RowsMean
      <4> QED BY <3>1, <3>7, <4>1, <4>2
    <3> QED BY <3>1, <3>2, <3>4, <3>5, <3>6, <3>7
  <2>2. CASE f \in WizardForm
    <3>1. f.panel # "grid" /\ WizardWork(f) BY <1>3, <2>2, Panels DEF PInv, GoesOn, WizardForm
    <3>2. s \in GroupsOf(f) BY <1>3, <3>1, TailRange DEF WizardWork
    <3>3. /\ s \in Statement /\ s.to = f.to /\ s.opt = (f.mode = "grantopt")
          /\ \A o \in s.on \cup s.all : s.privs = f.privs \cap PrivsOf(o)
          /\ \A o \in s.on : f.pick[o] = "ticked" /\ ~CoveredByAll(f, o)
      BY <2>2, <3>2, GroupMeans
    <3>4. \/ \E o \in s.on : o \notin there
          \/ s.opt /\ Public \in s.to
          \/ s.op \in {"revoke", "revoke option"} /\
               \E o \in Objects, g \in Grantees, p \in Looked : Touches(s, o, g, p) /\ Depended(o, g, p)
      BY <1>3, <3>3 DEF Allowed
    <3>5. ASSUME s.op \in {"revoke", "revoke option"}, NEW o \in Objects, NEW g \in Grantees, NEW p \in Looked,
                 Touches(s, o, g, p), Depended(o, g, p)
          PROVE  Cause
      <4>1. f.mode = "revoke"
        <5>1. s.op = (IF f.mode \in {"revoke", "cascade"} THEN f.mode ELSE "grant") BY <2>2, <3>2, GroupMeans
        <5> QED BY <3>5, <5>1, Zenon
      <4>2. Chosen(f, o) /\ g \in f.to /\ p \in f.privs
        <5> HIDE DEF s, f
        <5>1. o \in s.on \cup s.all /\ g \in s.to /\ p \in s.privs BY <3>5 DEF Touches
        <5>2. s.to = f.to /\ Chosen(f, o) /\ s.privs = f.privs \cap PrivsOf(o)
          BY <2>2, <3>2, <5>1, GroupMeans
        <5> QED BY <5>1, <5>2
      <4> QED BY <3>1, <3>5, <4>1, <4>2
    <3> QED BY <3>1, <3>3, <3>4, <3>5 DEF Statement
  <2> QED BY <1>1, <1>3, <2>1, <2>2
<1>4. PInv => ListIsAsAsked
  <2> HIDE DEF Cause
  <2> QED BY <1>2, <1>3 DEF ListIsAsAsked, Cause
<1> QED BY <1>4, PInvAlways, PTL

\* A statement changes only cells that were changed in the grid or chosen in
\* the wizard, whatever else happened since the panel was loaded; and what was
\* passed on goes only with CASCADE, with the cells that were chosen.
THEOREM PrivCellsCorrect == PrivSpec => CellsLeftAlone
<1> DEFINE f == work.form
           s == Head(work.left)
           Settled(o, g, p) ==
             IF f.panel = "grid"
                THEN /\ o = f.obj
                     /\ \/ g \in f.rows /\ f.cell[g][p] # f.orig[g][p]
                        \/ g = f.newgrantee /\ f.newcell[p] > 0
                ELSE Asked(f, o, g, p, 0) # 0 \/ Asked(f, o, g, p, 1) # 1
           Cascades(o, g, p) == f.panel = "wizard" /\ f.mode = "cascade" /\ Asked(f, o, g, p, 1) = 0
<1>1. ASSUME PInv, RunGrant, NEW o \in Objects, NEW g \in Grantees, NEW p \in Looked, Touches(s, o, g, p)
      PROVE  Settled(o, g, p) /\ (s.op = "cascade" => Cascades(o, g, p))
  <2>1. Typed /\ work.left # <<>> /\ Allowed(s) BY <1>1 DEF PInv, RunGrant
  <2>2. f \in GridForm \cup WizardForm /\ work.left \in Seq(Statement)
    BY <2>1 DEF Typed, Work, NoWork
  <2>3. s \in Statement BY <2>1, <2>2
  <2> HIDE DEF s
  <2>4. Touches(s, o, g, p) BY <1>1
  <2>5. CASE f \in GridForm
    <3>1. f.panel = "grid" /\ GridWork(f) BY <1>1, <2>5, Panels DEF PInv, GoesOn
    <3>2. s \in RowStatements(f) \cup NewStatements(f) BY <2>1, <2>5, <3>1, GridNext, TailRange DEF s
    <3>3. s.on = {f.obj} /\ s.all = {} /\ s.op # "cascade" BY <2>5, <3>2, RowsMean, NewsMean
    <3>4. o = f.obj BY <2>4, <3>3 DEF Touches
    <3>5. CASE s \in RowStatements(f)
      <4> g \in f.rows /\ f.cell[g][p] # f.orig[g][p] BY <2>4, <2>5, <3>4, <3>5, RowsMean
      <4> QED BY <3>1, <3>3, <3>4
    <3>6. CASE s \in NewStatements(f)
      <4> g = f.newgrantee /\ f.newcell[p] > 0 BY <2>4, <2>5, <3>4, <3>6, NewsMean
      <4> QED BY <3>1, <3>3, <3>4
    <3> QED BY <3>2, <3>5, <3>6
  <2>6. CASE f \in WizardForm
    <3>1. f.panel = "wizard" /\ f.panel # "grid" /\ WizardWork(f)
      BY <1>1, <2>6, Panels DEF PInv, GoesOn, WizardForm
    <3>2. s \in GroupsOf(f) BY <2>1, <3>1, TailRange DEF WizardWork, s
    <3>3. Chosen(f, o) /\ g \in f.to /\ p \in f.privs \cap PrivsOf(o)
      BY <2>4, <2>6, <3>2, GroupMeans DEF Touches
    <3>4. \A c : Asked(f, o, g, p, c) = IF f.mode \in {"revoke", "cascade"} THEN 0
                                        ELSE IF f.mode = "grantopt" \/ c = 2 THEN 2 ELSE 1
      BY <3>1, <3>3 DEF Asked
    <3>5. s.op = "cascade" => f.mode = "cascade" BY <2>6, <3>2, GroupMeans
    <3> QED BY <3>1, <3>4, <3>5
  <2> QED BY <2>2, <2>5, <2>6
<1>2. ASSUME PInv, RunGrant, NEW o \in Objects, NEW g \in Grantees, NEW p \in Looked
      PROVE  /\ acl'[o][g][p] # acl[o][g][p] => Settled(o, g, p)
             /\ \A h \in Grantees :
                  (<<o, g, h, p>> \in passed') # (<<o, g, h, p>> \in passed) => Cascades(o, g, p)
  <2> HIDE DEF Settled, Cascades
  <2>1. Typed /\ work.left # <<>> /\ Allowed(s) /\ acl' = Granted(s) /\ passed' = PassedAfter(s)
    BY <1>2 DEF PInv, RunGrant
  <2>2. work.left \in Seq(Statement) BY <2>1 DEF Typed, Work, NoWork
  <2>3. s \in Statement BY <2>1, <2>2
  <2> HIDE DEF s
  <2>4. acl'[o][g][p] # acl[o][g][p] => Touches(s, o, g, p) BY <2>1, <2>3, GrantedCell
  <2>5. ASSUME NEW h \in Grantees, (<<o, g, h, p>> \in passed') # (<<o, g, h, p>> \in passed)
        PROVE  s.op = "cascade" /\ Touches(s, o, g, p)
    BY <2>1, <2>5 DEF PassedAfter
  <2> QED BY <1>1, <1>2, <2>4, <2>5 DEF s
<1>3. PInv /\ [PrivNext]_privVars
        => [RunGrant => \A o \in Objects, g \in Grantees, p \in Looked :
              /\ acl'[o][g][p] # acl[o][g][p] => Settled(o, g, p)
              /\ \A h \in Grantees :
                   (<<o, g, h, p>> \in passed') # (<<o, g, h, p>> \in passed) => Cascades(o, g, p)]_privVars
  <2> HIDE DEF Settled, Cascades
  <2> QED BY <1>2
<1> QED BY <1>3, PInvAlways, PTL DEF PrivSpec, CellsLeftAlone
-----------------------------------------------------------------------------
(* The Create panels, and the scripts of the properties panels.            *)

\* The statements of the Create script, the object its first statement makes,
\* and what there is after all of them.
Whole == RenderCreateDDL(sort, entry)
Plain == ~Whole[1].refused /\ Whole[1].named = "form"
Begun == Made(sort, Whole[1])
Complete == IF Len(Whole) = 2 THEN Altered(Begun, Whole[2]) ELSE Begun

\* No statement of a form, and no object, holds what the server refuses.
Clean(f) == \A a \in DOMAIN f : f[a] # "refused"
Sections == Lists \cup {"general", "info", "definition"}

\* Row r of section s of a k holds values the object had, those in h.
Fits(k, h, r, s) == DOMAIN r = Reads(k, s) /\ \A a \in Reads(k, s) : r[a] \in {AsRead(v) : v \in h[a]}

DShape ==
    /\ sort \in DOMAIN Stored /\ meddled \in Nat
    /\ thing # NoThing => DOMAIN thing = Stored[sort] /\ Clean(thing)
    /\ entry # NoThing => sort \in Creatable /\ entry \in Forms(sort) /\ Whole # Invalid
    /\ pending \in (IF entry = NoThing THEN {<<>>} ELSE {Whole, Tail(Whole), <<>>})
    /\ stopped => pending = <<>>
    /\ DOMAIN seen = Sections /\ DOMAIN had = Stored[sort]
    /\ PanelOpen \/ seen = NothingRead

Making ==
    entry # NoThing =>
      /\ pending = Whole => thing = NoThing
      /\ thing # NoThing =>
           \/ meddled >= (IF stopped THEN 2 ELSE 1)
           \/ ~stopped /\ meddled = 0 /\ pending = Tail(Whole) /\ Plain /\ thing = Begun
           \/ ~stopped /\ meddled = 0 /\ pending = <<>> /\ Plain /\ thing = Complete
           \/ stopped /\ meddled = 1 /\ Len(Whole) = 2 /\ Plain /\ thing = Begun

Reading ==
    PanelOpen =>
      /\ pending = <<>> /\ seen["general"] # Failing
      /\ \A a \in Stored[sort] : had[a] # {} /\ "refused" \notin had[a]
      /\ thing # NoThing =>
           /\ \A a \in Stored[sort] : thing[a] \in had[a]
           /\ \A s \in Sections : seen[s] \in {Unread, Failing} \/ Fits(sort, had, seen[s], s)
      /\ sort = "publication" /\ thing # NoThing => ("all" \in had["tables"] <=> seen["general"]["tables"] = "all")

DInv == DShape /\ Making /\ Reading
-----------------------------------------------------------------------------
(* The kinds of objects and their fields.                                  *)

Kinds26 == Creatable \cup Types \cup {"constraint", "domain", "cast", "language", "wrapper", "eventtrigger"}

\* Stored has them all; no field is called as the marks of what is not there.
LEMMA StoredKinds == DOMAIN Stored = Kinds26
BY DEF Stored, Kinds26, Creatable, Types

\* No kind has a field called "is": that is the mark of what is not there.
LEMMA IsNoField == \A k \in DOMAIN Stored : "is" \notin Stored[k]
<1>1. /\ "is" \notin Stored["database"]  /\ "is" \notin Stored["role"]
      /\ "is" \notin Stored["tablespace"] /\ "is" \notin Stored["schema"]
      /\ "is" \notin Stored["table"]     /\ "is" \notin Stored["sequence"]
      /\ "is" \notin Stored["view"]      /\ "is" \notin Stored["matview"]
      /\ "is" \notin Stored["function"]  /\ "is" \notin Stored["procedure"]
      /\ "is" \notin Stored["extension"] /\ "is" \notin Stored["publication"]
      /\ "is" \notin Stored["index"]     /\ "is" \notin Stored["trigger"]
      /\ "is" \notin Stored["rule"]      /\ "is" \notin Stored["policy"]
      /\ "is" \notin Stored["enum"]      /\ "is" \notin Stored["range"]
      /\ "is" \notin Stored["composite"] /\ "is" \notin Stored["constraint"]
      /\ "is" \notin Stored["domain"]    /\ "is" \notin Stored["cast"]
      /\ "is" \notin Stored["language"]  /\ "is" \notin Stored["wrapper"]
      /\ "is" \notin Stored["eventtrigger"]
      BY DEF Stored, Routine, OfTypes
<1> QED BY <1>1, StoredKinds DEF Kinds26, Creatable, Types

\* The fields of a Create form.
FieldsOf(k) ==
    (Stored[k] \ {"comment", "options", "tablespace", "version", "publish", "enabled", "type", "allowconn",
                  IF k \in {"function", "procedure"} THEN "owner" ELSE "comment",
                  IF k = "database" THEN "connlimit" ELSE "comment"})
    \cup (IF k = "database" THEN {"template"} ELSE {})

\* What is in a Create form.
LEMMA CreateForms ==
    ASSUME NEW k \in Creatable, NEW e \in Forms(k)
    PROVE  /\ DOMAIN e = FieldsOf(k) /\ Clean(e) /\ e # NoThing
           /\ k \in {"view", "matview"} => e["definition"] \in {Unsaid, Given, "whole"}
<1> DEFINE fields == Stored[k] \ {"comment", "options", "tablespace", "version", "publish", "enabled", "type", "allowconn",
                                IF k \in {"function", "procedure"} THEN "owner" ELSE "comment",
                                IF k = "database" THEN "connlimit" ELSE "comment"}
           sets == {S \in SUBSET fields : MaxSaid >= Min({Cardinality(S), Cardinality(fields \ S)})}
           Of(x, special) == Filled(fields, Unsaid, sets, x, {Unsaid} \cup special)
           any == CHOOSE a \in fields : TRUE
<1>0. k # "database" => FieldsOf(k) = fields BY DEF FieldsOf
<1>f. FieldsOf("database") = (Stored["database"] \ {"comment", "options", "tablespace", "version", "publish",
                                                   "enabled", "type", "allowconn", "connlimit"}) \cup {"template"}
      BY DEF FieldsOf
<1>n. "is" \notin FieldsOf(k)
  <2>1. k \in DOMAIN Stored BY StoredKinds DEF Kinds26
  <2> QED BY <2>1, IsNoField DEF FieldsOf
<1>e. \A g : DOMAIN g = FieldsOf(k) => g # NoThing BY <1>n DEF NoThing
<1>1. CASE k = "table"
  <2>1. e \in Of("columns", Shapes \cup {"half"}) \/ \E f \in Of("foreignkey", {"half"}) : e = [f EXCEPT !["columns"] = "plain"]
    <3>1. Forms(k) = UNION {Of("columns", Shapes \cup {"half"}),
                            {[f EXCEPT !["columns"] = "plain"] : f \in Of("foreignkey", {"half"})}} BY <1>1 DEF Forms
    <3> HIDE DEF Of
    <3> QED BY <3>1
  <2>2. CASE e \in Of("columns", Shapes \cup {"half"})
    <3>1. DOMAIN e = fields /\ \A a \in fields : e[a] \in ({Unsaid} \cup (Shapes \cup {"half"})) \cup {Given, Unsaid}
      <4> HIDE DEF fields, sets
      <4> QED BY <2>2 DEF Filled
    <3> QED BY <3>1, <1>0, <1>1, <1>e DEF Clean, Shapes, Unsaid, Given
  <2>3. CASE \E f \in Of("foreignkey", {"half"}) : e = [f EXCEPT !["columns"] = "plain"]
    <3>0. PICK f \in Of("foreignkey", {"half"}) : e = [f EXCEPT !["columns"] = "plain"] BY <2>3
    <3>1. DOMAIN f = fields /\ \A a \in fields : f[a] \in ({Unsaid} \cup {"half"}) \cup {Given, Unsaid}
      <4> HIDE DEF fields, sets
      <4> QED BY DEF Filled
    <3> QED BY <3>0, <3>1, <1>0, <1>1, <1>e DEF Clean, Unsaid, Given
  <2> QED BY <2>1, <2>2, <2>3
<1>2. CASE k \in {"view", "matview"}
  <2>1. e \in Of("definition", {Given, "whole"}) BY <1>2 DEF Forms
  <2>2. "definition" \in Stored["view"] /\ "definition" \in Stored["matview"] BY DEF Stored
  <2>4. "definition" \in fields BY <1>2, <2>2
  <2>3. /\ DOMAIN e = fields /\ \A a \in fields : e[a] \in ({Unsaid} \cup {Given, "whole"}) \cup {Given, Unsaid}
        /\ e["definition"] \in {Unsaid} \cup {Given, "whole"}
    <3> HIDE DEF fields, sets
    <3>1. DOMAIN e = fields /\ \A a \in fields : e[a] \in ({Unsaid} \cup {Given, "whole"}) \cup {Given, Unsaid}
          BY <2>1 DEF Filled
    <3>2. e["definition"] \in {Unsaid} \cup {Given, "whole"} BY <2>1, <2>4 DEF Filled
    <3> QED BY <3>1, <3>2
  <2> QED BY <2>3, <1>0, <1>2, <1>e DEF Clean, Unsaid, Given
<1>3. CASE k = "publication"
  <2>1. e \in Of("tables", {Given, "all"}) BY <1>3 DEF Forms
  <2>3. DOMAIN e = fields /\ \A a \in fields : e[a] \in ({Unsaid} \cup {Given, "all"}) \cup {Given, Unsaid}
    <3> HIDE DEF fields, sets
    <3> QED BY <2>1 DEF Filled
  <2> QED BY <2>3, <1>0, <1>3, <1>e DEF Clean, Unsaid, Given
<1>4. CASE k = "database"
  <2>1. e \in Filled(fields \cup {"template"}, Unsaid, sets, "template", {Unsaid, Given}) BY <1>4 DEF Forms
  <2>3. DOMAIN e = fields \cup {"template"} /\ \A a \in fields \cup {"template"} : e[a] \in {Unsaid, Given} \cup {Given, Unsaid}
    <3> HIDE DEF fields, sets
    <3> QED BY <2>1 DEF Filled
  <2>4. fields \cup {"template"} = FieldsOf(k) BY <1>4, <1>f
  <2> QED BY <2>3, <2>4, <1>4, <1>e DEF Clean, Unsaid, Given
<1>5. CASE k \notin {"table", "view", "matview", "publication", "database"}
  <2>1. e \in Of(any, {Given}) BY <1>5 DEF Forms
  <2>3. DOMAIN e = fields /\ \A a \in fields : e[a] \in ({Unsaid} \cup {Given}) \cup {Given, Unsaid}
    <3> HIDE DEF fields, sets, any
    <3> QED BY <2>1 DEF Filled
  <2> QED BY <2>3, <1>0, <1>5, <1>e DEF Clean, Unsaid, Given
<1> QED BY <1>1, <1>2, <1>3, <1>4, <1>5

\* What is in an object that was there.
LEMMA CatalogObjects ==
    ASSUME NEW k \in DOMAIN Stored, NEW o \in Catalog(k)
    PROVE  DOMAIN o = Stored[k] /\ Clean(o)
<1> DEFINE sets == {{}} \cup {{a} : a \in Stored[k]} \cup {Stored[k]}
           Of(x, special) == Filled(Stored[k], Default, sets, x, {Default, Given} \cup special)
           any == CHOOSE a \in Stored[k] : TRUE
           V == {Default, Given, "seconds", "all", "overloaded"} \cup Shapes
<1>1. o \in Of("columns", Shapes) \/ o \in Of("validuntil", {"seconds"}) \/ o \in Of("tables", {"all"})
      \/ o \in Of("function", {"overloaded"}) \/ o \in Of(any, {})
  <2> HIDE DEF sets, any
  <2> SUFFICES Catalog(k) \in {Of("columns", Shapes), Of("validuntil", {"seconds"}), Of("tables", {"all"}),
                   Of("function", {"overloaded"}), Of(any, {})} OBVIOUS
  <2> QED BY DEF Catalog, sets, any
<1>2. \A x, special : special \subseteq V /\ o \in Of(x, special) => DOMAIN o = Stored[k] /\ \A a \in Stored[k] : o[a] \in V
  <2> HIDE DEF sets
  <2> TAKE x, special
  <2> HAVE special \subseteq V /\ o \in Of(x, special)
  <2>0. o \in Of(x, special) OBVIOUS
  <2>1. DOMAIN o = Stored[k] /\ \A a \in Stored[k] : o[a] \in ({Default, Given} \cup special) \cup {Given, Default} BY <2>0 DEF Filled
  <2> QED BY <2>1
<1>3. DOMAIN o = Stored[k] /\ \A a \in Stored[k] : o[a] \in V
  <2> HIDE DEF Of, any
  <2> QED BY <1>1, <1>2
<1> QED BY <1>3 DEF Clean, Default, Given, Shapes

-----------------------------------------------------------------------------
(* The Create scripts.                                                     *)

\* The value field a shall have in a k made from form e, and the one a
\* statement that sets the fields of s gives it.
Wanted(k, e, a) ==
    IF a = "definition" THEN Given
    ELSE IF /\ a \in DOMAIN e /\ e[a] # Unsaid
            /\ ~(a = "owner" /\ k \in {"sequence", "view", "matview"})
            /\ ~(a = "deferrable" /\ e["constraint"] = Unsaid)
    THEN e[a]
    ELSE IF k = "extension" /\ a = "schema" THEN "public" ELSE Default
Value(s, a) == IF a \in DOMAIN s THEN s[a] ELSE Default

\* The script of form e is one statement, or two of which the second sets the
\* owner; unless it has commas or the name of its definition, what it sets is
\* what shall be.
Creation(c) ==
    /\ c = [op |-> "create", set |-> c.set, refused |-> c.refused, named |-> c.named]
    /\ c.refused \in BOOLEAN /\ Clean(c.set)
OneStatement(k, e, S) ==
    /\ S = <<S[1]>> /\ Creation(S[1])
    /\ ~S[1].refused /\ S[1].named = "form" => \A a \in Stored[k] : Value(S[1].set, a) = Wanted(k, e, a)
TwoStatements(k, e, S) ==
    /\ S = <<S[1], Stmt("alter", [owner |-> e["owner"]])>> /\ Creation(S[1])
    /\ "owner" \in DOMAIN e /\ e["owner"] # "refused" /\ Wanted(k, e, "owner") = e["owner"]
    /\ \A a \in Stored[k] : Value(S[1].set, a) = IF a = "owner" THEN Default ELSE Wanted(k, e, a)

\* Two sequences of one element.
LEMMA TwoOfOne == ASSUME NEW c, NEW d PROVE <<c>> \o <<d>> = <<c, d>>
<1> DEFINE s == <<c>> \o <<d>>
<1>1. s \in Seq({c, d}) /\ Len(s) = 2 OBVIOUS
<1>2. s[1] = c /\ s[2] = d OBVIOUS
<1>0. <<c>> \o <<d>> = s OBVIOUS
<1> HIDE DEF s
<1>3. s = <<s[1], s[2]>> BY <1>1
<1> QED BY <1>0, <1>2, <1>3

\* Statements with commas, or that run under another name.
LEMMA CommaStmt ==
    ASSUME NEW s, NEW b
    PROVE  [Stmt("create", s) EXCEPT !.refused = b] = [op |-> "create", set |-> s, refused |-> b, named |-> "form"]
BY DEF Stmt

\* And one that runs under the name of its definition.
LEMMA NamedStmt ==
    ASSUME NEW s
    PROVE  [Stmt("create", s) EXCEPT !.named = "definition"]
             = [op |-> "create", set |-> s, refused |-> FALSE, named |-> "definition"]
<1> DEFINE c == [op |-> "create", set |-> s, refused |-> FALSE, named |-> "form"]
           d == [op |-> "create", set |-> s, refused |-> FALSE, named |-> "definition"]
           f == [c EXCEPT !.named = "definition"]
<1>1. Stmt("create", s) = c BY DEF Stmt
<1>2. DOMAIN f = DOMAIN d OBVIOUS
<1>3. f.op = d.op /\ f.set = d.set /\ f.named = d.named OBVIOUS
<1>4. f.refused = c.refused OBVIOUS
<1>5. c.refused = d.refused OBVIOUS
<1>6. \A x \in DOMAIN f : f[x] = d[x] BY <1>3, <1>4, <1>5
<1>7. f = d BY <1>2, <1>6
<1> QED BY <1>1, <1>7

\* A statement that sets what was said of S.
LEMMA CreatesOne ==
    ASSUME NEW k, NEW e, Clean(e), NEW S, S \subseteq DOMAIN e,
           \A a \in Stored[k] \ S : Wanted(k, e, a) = Default,
           \A a \in S : Wanted(k, e, a) = IF e[a] = Unsaid THEN Default ELSE e[a]
    PROVE  OneStatement(k, e, Creates(e, S))
<1>1. Clean(Said(e, S)) BY DEF Clean, Said
<1>2. \A a \in Stored[k] : Value(Said(e, S), a) = Wanted(k, e, a) BY DEF Value, Said
<1> DEFINE c == Stmt("create", Said(e, S))
<1>3. c = [op |-> "create", set |-> Said(e, S), refused |-> FALSE, named |-> "form"] BY DEF Stmt
<1>4. c.set = Said(e, S) /\ c.refused = FALSE /\ c.named = "form" BY <1>3
<1> HIDE DEF c
<1>5. Creation(c) BY <1>1, <1>3, <1>4 DEF Creation
<1>6. <<c>>[1] = c OBVIOUS
<1>7. Creates(e, S) = <<c>> BY DEF Creates, c
<1> QED BY <1>2, <1>4, <1>5, <1>6, <1>7 DEF OneStatement

\* Another one that sets the owner, if it was said.
LEMMA CreatesTwo ==
    ASSUME NEW k, NEW e, Clean(e), NEW S, S \subseteq DOMAIN e, "owner" \notin S, "owner" \in DOMAIN e,
           \A a \in Stored[k] \ S : Wanted(k, e, a) = IF a = "owner" /\ e["owner"] # Unsaid THEN e["owner"] ELSE Default,
           \A a \in S : Wanted(k, e, a) = IF e[a] = Unsaid THEN Default ELSE e[a],
           Wanted(k, e, "owner") = IF e["owner"] = Unsaid THEN Default ELSE e["owner"],
           NEW T, T = Creates(e, S) \o OwnerAfter(e)
    PROVE  OneStatement(k, e, T) \/ TwoStatements(k, e, T)
<1> DEFINE c == Stmt("create", Said(e, S))
<1>1. c = [op |-> "create", set |-> Said(e, S), refused |-> FALSE, named |-> "form"] BY DEF Stmt
<1>2. Creates(e, S) = <<c>> BY DEF Creates
<1>3. Creation(c)
  <2>1. Clean(Said(e, S)) BY DEF Clean, Said
  <2>2. c.set = Said(e, S) /\ c.refused = FALSE /\ c.named = "form" BY <1>1
  <2> HIDE DEF c
  <2> QED BY <1>1, <2>1, <2>2 DEF Creation
<1>4. CASE e["owner"] = Unsaid
  <2>1. T = Creates(e, S)
    <3>1. OwnerAfter(e) = <<>> BY <1>4 DEF OwnerAfter
    <3> HIDE DEF c
    <3> QED BY <1>2, <3>1
  <2>2. OneStatement(k, e, Creates(e, S)) BY <1>4, CreatesOne
  <2> QED BY <2>1, <2>2
<1>5. CASE e["owner"] # Unsaid
  <2> DEFINE d == Stmt("alter", [owner |-> e["owner"]])
  <2>1. OwnerAfter(e) = <<d>> BY <1>5 DEF OwnerAfter
  <2>2. \A a \in Stored[k] : Value(Said(e, S), a) = IF a = "owner" THEN Default ELSE Wanted(k, e, a) BY DEF Value, Said
  <2>3. c.set = Said(e, S) BY <1>1
  <2> HIDE DEF c, d
  <2>4. T = <<c, d>> BY <1>2, <2>1, TwoOfOne
  <2>5. T[1] = c BY <2>4
  <2>6. T = <<T[1], d>> /\ Creation(T[1]) /\ T[1].set = Said(e, S) BY <2>3, <2>4, <2>5, <1>3
  <2> QED BY <2>2, <2>6, <1>5 DEF TwoStatements, d, Clean
<1> QED BY <1>4, <1>5

\* The builders, kind by kind.
LEMMA CreateTablespace ==
    ASSUME NEW e \in Forms("tablespace"), RenderCreateDDL("tablespace", e) # Invalid
    PROVE  OneStatement("tablespace", e, RenderCreateDDL("tablespace", e))
<1> DEFINE F == {"owner", "location"}
<1>1. Clean(e) /\ DOMAIN e = FieldsOf("tablespace") BY CreateForms DEF Creatable
<1>2. FieldsOf("tablespace") = {"owner", "location"}
      BY DEF FieldsOf, Stored, Routine
<1>3. RenderCreateDDL("tablespace", e) = Creates(e, F) BY DEF RenderCreateDDL, BuildCreateTablespace, Needs
<1>4. \A a \in Stored["tablespace"] \ F : Wanted("tablespace", e, a) = Default BY <1>1, <1>2 DEF Wanted, Stored, Routine
<1>5. \A a \in F : Wanted("tablespace", e, a) = IF e[a] = Unsaid THEN Default ELSE e[a] BY <1>1, <1>2 DEF Wanted
<1>6. F \subseteq DOMAIN e BY <1>1, <1>2
<1> HIDE DEF F
<1> QED BY <1>1, <1>3, <1>4, <1>5, <1>6, CreatesOne

\* A schema.
LEMMA CreateSchema ==
    ASSUME NEW e \in Forms("schema"), RenderCreateDDL("schema", e) # Invalid
    PROVE  OneStatement("schema", e, RenderCreateDDL("schema", e))
<1> DEFINE F == {"owner"}
<1>1. Clean(e) /\ DOMAIN e = FieldsOf("schema") BY CreateForms DEF Creatable
<1>2. FieldsOf("schema") = {"owner"}
      BY DEF FieldsOf, Stored, Routine
<1>3. RenderCreateDDL("schema", e) = Creates(e, F) BY DEF RenderCreateDDL, BuildCreateSchema
<1>4. \A a \in Stored["schema"] \ F : Wanted("schema", e, a) = Default BY <1>1, <1>2 DEF Wanted, Stored, Routine
<1>5. \A a \in F : Wanted("schema", e, a) = IF e[a] = Unsaid THEN Default ELSE e[a] BY <1>1, <1>2 DEF Wanted
<1>6. F \subseteq DOMAIN e BY <1>1, <1>2
<1> HIDE DEF F
<1> QED BY <1>1, <1>3, <1>4, <1>5, <1>6, CreatesOne

\* A sequence, whose owner the builder leaves out.
LEMMA CreateSequence ==
    ASSUME NEW e \in Forms("sequence"), RenderCreateDDL("sequence", e) # Invalid
    PROVE  OneStatement("sequence", e, RenderCreateDDL("sequence", e))
<1> DEFINE F == {"increment", "start", "minvalue", "maxvalue", "cache", "cycle"}
<1>1. Clean(e) /\ DOMAIN e = FieldsOf("sequence") BY CreateForms DEF Creatable
<1>2. FieldsOf("sequence") = {"owner", "start", "increment", "minvalue", "maxvalue", "cache", "cycle"}
      BY DEF FieldsOf, Stored, Routine
<1>3. RenderCreateDDL("sequence", e) = Creates(e, F) BY DEF RenderCreateDDL, BuildCreateSequence
<1>4. \A a \in Stored["sequence"] \ F : Wanted("sequence", e, a) = Default BY <1>1, <1>2 DEF Wanted, Stored, Routine
<1>5. \A a \in F : Wanted("sequence", e, a) = IF e[a] = Unsaid THEN Default ELSE e[a] BY <1>1, <1>2 DEF Wanted
<1>6. F \subseteq DOMAIN e BY <1>1, <1>2
<1> HIDE DEF F
<1> QED BY <1>1, <1>3, <1>4, <1>5, <1>6, CreatesOne

\* A function.
LEMMA CreateFunction ==
    ASSUME NEW e \in Forms("function"), RenderCreateDDL("function", e) # Invalid
    PROVE  OneStatement("function", e, RenderCreateDDL("function", e))
<1> DEFINE F == {"args", "returns", "language", "volatility", "strict", "security", "body"}
<1>1. Clean(e) /\ DOMAIN e = FieldsOf("function") BY CreateForms DEF Creatable
<1>2. FieldsOf("function") = {"args", "language", "security", "body", "returns", "volatility", "strict"}
      BY DEF FieldsOf, Stored, Routine
<1>3. RenderCreateDDL("function", e) = Creates(e, F) BY DEF RenderCreateDDL, BuildCreateFunction, Needs
<1>4. \A a \in Stored["function"] \ F : Wanted("function", e, a) = Default BY <1>1, <1>2 DEF Wanted, Stored, Routine
<1>5. \A a \in F : Wanted("function", e, a) = IF e[a] = Unsaid THEN Default ELSE e[a] BY <1>1, <1>2 DEF Wanted
<1>6. F \subseteq DOMAIN e BY <1>1, <1>2
<1> HIDE DEF F
<1> QED BY <1>1, <1>3, <1>4, <1>5, <1>6, CreatesOne

\* A procedure.
LEMMA CreateProcedure ==
    ASSUME NEW e \in Forms("procedure"), RenderCreateDDL("procedure", e) # Invalid
    PROVE  OneStatement("procedure", e, RenderCreateDDL("procedure", e))
<1> DEFINE F == {"args", "language", "security", "body"}
<1>1. Clean(e) /\ DOMAIN e = FieldsOf("procedure") BY CreateForms DEF Creatable
<1>2. FieldsOf("procedure") = {"args", "language", "security", "body"}
      BY DEF FieldsOf, Stored, Routine
<1>3. RenderCreateDDL("procedure", e) = Creates(e, F) BY DEF RenderCreateDDL, BuildCreateProcedure, Needs
<1>4. \A a \in Stored["procedure"] \ F : Wanted("procedure", e, a) = Default BY <1>1, <1>2 DEF Wanted, Stored, Routine
<1>5. \A a \in F : Wanted("procedure", e, a) = IF e[a] = Unsaid THEN Default ELSE e[a] BY <1>1, <1>2 DEF Wanted
<1>6. F \subseteq DOMAIN e BY <1>1, <1>2
<1> HIDE DEF F
<1> QED BY <1>1, <1>3, <1>4, <1>5, <1>6, CreatesOne

\* An index.
LEMMA CreateIndex ==
    ASSUME NEW e \in Forms("index"), RenderCreateDDL("index", e) # Invalid
    PROVE  OneStatement("index", e, RenderCreateDDL("index", e))
<1> DEFINE F == {"columns", "method", "unique", "include", "storage", "where"}
<1>1. Clean(e) /\ DOMAIN e = FieldsOf("index") BY CreateForms DEF Creatable
<1>2. FieldsOf("index") = {"columns", "method", "unique", "include", "storage", "where"}
      BY DEF FieldsOf, Stored, Routine
<1>3. RenderCreateDDL("index", e) = Creates(e, F) BY DEF RenderCreateDDL, BuildCreateIndex, Needs
<1>4. \A a \in Stored["index"] \ F : Wanted("index", e, a) = Default BY <1>1, <1>2 DEF Wanted, Stored, Routine
<1>5. \A a \in F : Wanted("index", e, a) = IF e[a] = Unsaid THEN Default ELSE e[a] BY <1>1, <1>2 DEF Wanted
<1>6. F \subseteq DOMAIN e BY <1>1, <1>2
<1> HIDE DEF F
<1> QED BY <1>1, <1>3, <1>4, <1>5, <1>6, CreatesOne

\* A rule.
LEMMA CreateRule ==
    ASSUME NEW e \in Forms("rule"), RenderCreateDDL("rule", e) # Invalid
    PROVE  OneStatement("rule", e, RenderCreateDDL("rule", e))
<1> DEFINE F == {"event", "action", "do", "where"}
<1>1. Clean(e) /\ DOMAIN e = FieldsOf("rule") BY CreateForms DEF Creatable
<1>2. FieldsOf("rule") = {"event", "action", "do", "where"}
      BY DEF FieldsOf, Stored, Routine
<1>3. RenderCreateDDL("rule", e) = Creates(e, F) BY DEF RenderCreateDDL, BuildCreateRule, Needs
<1>4. \A a \in Stored["rule"] \ F : Wanted("rule", e, a) = Default BY <1>1, <1>2 DEF Wanted, Stored, Routine
<1>5. \A a \in F : Wanted("rule", e, a) = IF e[a] = Unsaid THEN Default ELSE e[a] BY <1>1, <1>2 DEF Wanted
<1>6. F \subseteq DOMAIN e BY <1>1, <1>2
<1> HIDE DEF F
<1> QED BY <1>1, <1>3, <1>4, <1>5, <1>6, CreatesOne

\* A policy.
LEMMA CreatePolicy ==
    ASSUME NEW e \in Forms("policy"), RenderCreateDDL("policy", e) # Invalid
    PROVE  OneStatement("policy", e, RenderCreateDDL("policy", e))
<1> DEFINE F == {"permissive", "for", "roles", "using", "check"}
<1>1. Clean(e) /\ DOMAIN e = FieldsOf("policy") BY CreateForms DEF Creatable
<1>2. FieldsOf("policy") = {"permissive", "for", "roles", "using", "check"}
      BY DEF FieldsOf, Stored, Routine
<1>3. RenderCreateDDL("policy", e) = Creates(e, F) BY DEF RenderCreateDDL, BuildCreatePolicy
<1>4. \A a \in Stored["policy"] \ F : Wanted("policy", e, a) = Default BY <1>1, <1>2 DEF Wanted, Stored, Routine
<1>5. \A a \in F : Wanted("policy", e, a) = IF e[a] = Unsaid THEN Default ELSE e[a] BY <1>1, <1>2 DEF Wanted
<1>6. F \subseteq DOMAIN e BY <1>1, <1>2
<1> HIDE DEF F
<1> QED BY <1>1, <1>3, <1>4, <1>5, <1>6, CreatesOne

\* A trigger: only a constraint trigger is deferrable.
LEMMA CreateTrigger ==
    ASSUME NEW e \in Forms("trigger"), RenderCreateDDL("trigger", e) # Invalid
    PROVE  OneStatement("trigger", e, RenderCreateDDL("trigger", e))
<1> DEFINE F == {"timing", "events", "function", "constraint", "level", "condition"}
           G == F \cup {"deferrable"}
<1>1. Clean(e) /\ DOMAIN e = FieldsOf("trigger") BY CreateForms DEF Creatable
<1>2. FieldsOf("trigger") = G BY DEF FieldsOf, Stored, Routine
<1>3. RenderCreateDDL("trigger", e) = Creates(e, IF e["constraint"] = Unsaid THEN F ELSE G)
      BY DEF RenderCreateDDL, BuildCreateTrigger, Needs
<1>4. \A a \in Stored["trigger"] \ G : Wanted("trigger", e, a) = Default BY <1>1, <1>2 DEF Wanted, Stored, Routine
<1>5. \A a \in F : Wanted("trigger", e, a) = IF e[a] = Unsaid THEN Default ELSE e[a] BY <1>1, <1>2 DEF Wanted
<1>6. Wanted("trigger", e, "deferrable") = IF e["constraint"] = Unsaid \/ e["deferrable"] = Unsaid THEN Default ELSE e["deferrable"]
      BY <1>1, <1>2 DEF Wanted
<1>7. CASE e["constraint"] = Unsaid
  <2>1. \A a \in Stored["trigger"] \ F : Wanted("trigger", e, a) = Default BY <1>4, <1>6, <1>7
  <2>2. F \subseteq DOMAIN e BY <1>1, <1>2
  <2>3. RenderCreateDDL("trigger", e) = Creates(e, F) BY <1>3, <1>7
  <2> HIDE DEF F, G
  <2> QED BY <1>1, <2>1, <2>2, <2>3, <1>5, CreatesOne
<1>8. CASE e["constraint"] # Unsaid
  <2>1. \A a \in G : Wanted("trigger", e, a) = IF e[a] = Unsaid THEN Default ELSE e[a] BY <1>5, <1>6, <1>8
  <2>2. G \subseteq DOMAIN e BY <1>1, <1>2
  <2>3. RenderCreateDDL("trigger", e) = Creates(e, G) BY <1>3, <1>8
  <2> HIDE DEF F, G
  <2> QED BY <1>1, <2>1, <2>2, <2>3, <1>4, CreatesOne
<1> QED BY <1>7, <1>8

\* A view: a whole definition runs under the name it says.
LEMMA CreateView ==
    ASSUME NEW e \in Forms("view"), RenderCreateDDL("view", e) # Invalid
    PROVE  OneStatement("view", e, RenderCreateDDL("view", e))
<1> DEFINE F == {"definition"}
<1>1. Clean(e) /\ DOMAIN e = FieldsOf("view") /\ e["definition"] \in {Unsaid, Given, "whole"} BY CreateForms DEF Creatable
<1>2. FieldsOf("view") = {"owner", "definition"} BY DEF FieldsOf, Stored
<1>3. RenderCreateDDL("view", e) = FromDefinition(e) BY DEF RenderCreateDDL, BuildCreateView
<1>4. e["definition"] # Unsaid BY <1>3 DEF FromDefinition, Needs
<1>5. CASE e["definition"] = "whole"
  <2> DEFINE c == [Stmt("create", [definition |-> Given]) EXCEPT !.named = "definition"]
  <2>1. RenderCreateDDL("view", e) = <<c>> BY <1>3, <1>4, <1>5 DEF FromDefinition, Needs
  <2>2. c = [op |-> "create", set |-> [definition |-> Given], refused |-> FALSE, named |-> "definition"] BY NamedStmt
  <2>3. c.set = [definition |-> Given] /\ c.refused = FALSE /\ c.named = "definition" BY <2>2
  <2>4. Clean([definition |-> Given]) BY DEF Clean, Given
  <2> HIDE DEF c
  <2>5. Creation(c) BY <2>2, <2>3, <2>4 DEF Creation
  <2>6. <<c>>[1] = c OBVIOUS
  <2> QED BY <2>1, <2>3, <2>5, <2>6 DEF OneStatement
<1>6. CASE e["definition"] = Given
  <2>1. RenderCreateDDL("view", e) = Creates(e, F) BY <1>3, <1>4, <1>6 DEF FromDefinition, Needs, Given
  <2>2. \A a \in Stored["view"] \ F : Wanted("view", e, a) = Default BY <1>1, <1>2 DEF Wanted, Stored
  <2>3. \A a \in F : Wanted("view", e, a) = IF e[a] = Unsaid THEN Default ELSE e[a] BY <1>4, <1>6 DEF Wanted
  <2>4. F \subseteq DOMAIN e BY <1>1, <1>2
  <2> HIDE DEF F
  <2> QED BY <1>1, <2>1, <2>2, <2>3, <2>4, CreatesOne
<1> QED BY <1>1, <1>4, <1>5, <1>6

\* A materialized view, likewise.
LEMMA CreateMatview ==
    ASSUME NEW e \in Forms("matview"), RenderCreateDDL("matview", e) # Invalid
    PROVE  OneStatement("matview", e, RenderCreateDDL("matview", e))
<1> DEFINE F == {"definition"}
<1>1. Clean(e) /\ DOMAIN e = FieldsOf("matview") /\ e["definition"] \in {Unsaid, Given, "whole"} BY CreateForms DEF Creatable
<1>2. FieldsOf("matview") = {"owner", "definition"} BY DEF FieldsOf, Stored
<1>3. RenderCreateDDL("matview", e) = FromDefinition(e) BY DEF RenderCreateDDL, BuildCreateMatView
<1>4. e["definition"] # Unsaid BY <1>3 DEF FromDefinition, Needs
<1>5. CASE e["definition"] = "whole"
  <2> DEFINE c == [Stmt("create", [definition |-> Given]) EXCEPT !.named = "definition"]
  <2>1. RenderCreateDDL("matview", e) = <<c>> BY <1>3, <1>4, <1>5 DEF FromDefinition, Needs
  <2>2. c = [op |-> "create", set |-> [definition |-> Given], refused |-> FALSE, named |-> "definition"] BY NamedStmt
  <2>3. c.set = [definition |-> Given] /\ c.refused = FALSE /\ c.named = "definition" BY <2>2
  <2>4. Clean([definition |-> Given]) BY DEF Clean, Given
  <2> HIDE DEF c
  <2>5. Creation(c) BY <2>2, <2>3, <2>4 DEF Creation
  <2>6. <<c>>[1] = c OBVIOUS
  <2> QED BY <2>1, <2>3, <2>5, <2>6 DEF OneStatement
<1>6. CASE e["definition"] = Given
  <2>1. RenderCreateDDL("matview", e) = Creates(e, F) BY <1>3, <1>4, <1>6 DEF FromDefinition, Needs, Given
  <2>2. \A a \in Stored["matview"] \ F : Wanted("matview", e, a) = Default BY <1>1, <1>2 DEF Wanted, Stored
  <2>3. \A a \in F : Wanted("matview", e, a) = IF e[a] = Unsaid THEN Default ELSE e[a] BY <1>4, <1>6 DEF Wanted
  <2>4. F \subseteq DOMAIN e BY <1>1, <1>2
  <2> HIDE DEF F
  <2> QED BY <1>1, <2>1, <2>2, <2>3, <2>4, CreatesOne
<1> QED BY <1>1, <1>4, <1>5, <1>6

\* A database: the server refuses two options with a comma between them, and
\* a locale that is not template1's.
LEMMA CreateDatabase ==
    ASSUME NEW e \in Forms("database"), RenderCreateDDL("database", e) # Invalid
    PROVE  OneStatement("database", e, RenderCreateDDL("database", e))
<1> DEFINE F == {"owner", "encoding", "template", "collate", "ctype"}
           s == Said(e, F)
           b == Cardinality(DOMAIN s) > 1
           r == b \/ DOMAIN s \cap Locale # {}
           c == [op |-> "create", set |-> s, refused |-> r, named |-> "form"]
<1>1. Clean(e) /\ DOMAIN e = FieldsOf("database") BY CreateForms DEF Creatable
<1>2. FieldsOf("database") = F BY DEF FieldsOf, Stored
<1>3. RenderCreateDDL("database", e) = <<c>>
  <2> DEFINE d == [op |-> "create", set |-> s, refused |-> b, named |-> "form"]
  <2>1. Commas(e, F) = [Stmt("create", s) EXCEPT !.refused = b] BY DEF Commas
  <2>2. [Stmt("create", s) EXCEPT !.refused = b] = d
    <3> HIDE DEF s, b, F
    <3> QED BY CommaStmt DEF d
  <2>3. Commas(e, F) = d
    <3> HIDE DEF d, s, b, F
    <3> QED BY <2>1, <2>2
  <2>4. BuildCreateDatabase(e)
          = <<[d EXCEPT !.refused = d.refused \/ DOMAIN d.set \cap Locale # {}]>>
    <3> HIDE DEF d
    <3> QED BY <2>3 DEF BuildCreateDatabase
  <2>5. [d EXCEPT !.refused = d.refused \/ DOMAIN d.set \cap Locale # {}] = c
    <3> HIDE DEF s, b, F
    <3>1. d.set = s /\ d.refused = b OBVIOUS
    <3>2. [d EXCEPT !.refused = r] = c
      <4> HIDE DEF r
      <4> QED OBVIOUS
    <3> HIDE DEF d, c
    <3> QED BY <3>1, <3>2
  <2> HIDE DEF c, d
  <2> QED BY <2>4, <2>5 DEF RenderCreateDDL
<1>5. c.set = s /\ c.refused = r /\ c.named = "form"
  <2> HIDE DEF s, r
  <2> QED OBVIOUS
<1>6. Clean(s) BY <1>1, <1>2 DEF Clean, Said
<1>7. \A a \in Stored["database"] : Value(s, a) = Wanted("database", e, a)
      BY <1>1, <1>2 DEF Stored, Value, Said, Wanted
<1>9. r \in BOOLEAN OBVIOUS
<1>4. c = [op |-> "create", set |-> s, refused |-> r, named |-> "form"] OBVIOUS
<1> HIDE DEF c, s, F, r
<1>8. Creation(c) BY <1>4, <1>5, <1>6, <1>9 DEF Creation
<1> QED BY <1>3, <1>5, <1>7, <1>8 DEF OneStatement

\* A role: all its options have commas.
LEMMA CreateRole ==
    ASSUME NEW e \in Forms("role"), RenderCreateDDL("role", e) # Invalid
    PROVE  OneStatement("role", e, RenderCreateDDL("role", e))
<1> DEFINE c == [Stmt("create", e) EXCEPT !.refused = TRUE]
<1>1. Clean(e) BY CreateForms DEF Creatable
<1>3. RenderCreateDDL("role", e) = <<c>> BY DEF RenderCreateDDL, BuildCreateRole
<1>4. c = [op |-> "create", set |-> e, refused |-> TRUE, named |-> "form"] BY CommaStmt
<1>5. c.set = e /\ c.refused = TRUE /\ c.named = "form" BY <1>4
<1> HIDE DEF c
<1>8. Creation(c) BY <1>1, <1>4, <1>5 DEF Creation
<1> QED BY <1>3, <1>5, <1>8 DEF OneStatement

\* An extension, in the schema public if none is said.
LEMMA CreateExtension ==
    ASSUME NEW e \in Forms("extension"), RenderCreateDDL("extension", e) # Invalid
    PROVE  OneStatement("extension", e, RenderCreateDDL("extension", e))
<1> DEFINE x == IF e["schema"] = Unsaid THEN "public" ELSE e["schema"]
           s == [a \in {"schema"} |-> x]
           c == Stmt("create", s)
<1>1. Clean(e) /\ DOMAIN e = FieldsOf("extension") BY CreateForms DEF Creatable
<1>2. FieldsOf("extension") = {"schema"} BY DEF FieldsOf, Stored
<1>3. RenderCreateDDL("extension", e) = <<c>>
  <2> DEFINE f == [e EXCEPT !["schema"] = IF @ = Unsaid THEN "public" ELSE @]
  <2>1. f["schema"] = x BY <1>1, <1>2
  <2>2. x # Unsaid BY DEF Unsaid
  <2>3. Said(f, {"schema"}) = s
    <3> HIDE DEF f, x
    <3> QED BY <2>1, <2>2 DEF Said
  <2>4. RenderCreateDDL("extension", e) = Creates(f, {"schema"}) BY DEF RenderCreateDDL, BuildCreateExtension
  <2> HIDE DEF f, s
  <2> QED BY <2>3, <2>4 DEF Creates
<1>4. c = [op |-> "create", set |-> s, refused |-> FALSE, named |-> "form"] BY DEF Stmt
<1>5. c.set = s /\ c.refused = FALSE /\ c.named = "form" BY <1>4
<1>6. Clean(s) BY <1>1, <1>2 DEF Clean
<1>7. \A a \in Stored["extension"] : Value(s, a) = Wanted("extension", e, a) BY <1>1, <1>2 DEF Stored, Value, Wanted
<1> HIDE DEF c, s
<1>8. Creation(c) BY <1>4, <1>5, <1>6 DEF Creation
<1> QED BY <1>3, <1>5, <1>7, <1>8 DEF OneStatement

\* A publication, and a statement for its owner.
LEMMA CreatePublication ==
    ASSUME NEW e \in Forms("publication"), RenderCreateDDL("publication", e) # Invalid
    PROVE  OneStatement("publication", e, RenderCreateDDL("publication", e)) \/ TwoStatements("publication", e, RenderCreateDDL("publication", e))
<1> DEFINE F == {"tables"}
<1>1. Clean(e) /\ DOMAIN e = FieldsOf("publication") BY CreateForms DEF Creatable
<1>2. FieldsOf("publication") = {"owner", "tables"} BY DEF FieldsOf, Stored
<1>3. RenderCreateDDL("publication", e) = Creates(e, F) \o OwnerAfter(e) BY DEF RenderCreateDDL, BuildCreatePublication
<1>4. \A a \in Stored["publication"] \ F :
         Wanted("publication", e, a) = IF a = "owner" /\ e["owner"] # Unsaid THEN e["owner"] ELSE Default
      BY <1>1, <1>2 DEF Wanted, Stored
<1>5. \A a \in F \cup {"owner"} : Wanted("publication", e, a) = IF e[a] = Unsaid THEN Default ELSE e[a] BY <1>1, <1>2 DEF Wanted
<1>6. F \subseteq DOMAIN e /\ "owner" \notin F /\ "owner" \in DOMAIN e BY <1>1, <1>2
<1> HIDE DEF F
<1> QED BY <1>1, <1>3, <1>4, <1>5, <1>6, CreatesTwo

\* A table, likewise.
LEMMA CreateTable ==
    ASSUME NEW e \in Forms("table"), RenderCreateDDL("table", e) # Invalid
    PROVE  OneStatement("table", e, RenderCreateDDL("table", e)) \/ TwoStatements("table", e, RenderCreateDDL("table", e))
<1> DEFINE F == {"columns", "key", "unique", "check", "foreignkey", "exclusion", "partition"}
<1>1. Clean(e) /\ DOMAIN e = FieldsOf("table") BY CreateForms DEF Creatable
<1>2. FieldsOf("table") = {"owner", "columns", "key", "unique", "check", "foreignkey", "exclusion", "partition"} BY DEF FieldsOf, Stored
<1>3. RenderCreateDDL("table", e) = Creates(e, F) \o OwnerAfter(e) BY DEF RenderCreateDDL, BuildCreateTable, Needs
<1>4. \A a \in Stored["table"] \ F :
         Wanted("table", e, a) = IF a = "owner" /\ e["owner"] # Unsaid THEN e["owner"] ELSE Default
      BY <1>1, <1>2 DEF Wanted, Stored
<1>5. \A a \in F \cup {"owner"} : Wanted("table", e, a) = IF e[a] = Unsaid THEN Default ELSE e[a] BY <1>1, <1>2 DEF Wanted
<1>6. F \subseteq DOMAIN e /\ "owner" \notin F /\ "owner" \in DOMAIN e BY <1>1, <1>2
<1> HIDE DEF F
<1> QED BY <1>1, <1>3, <1>4, <1>5, <1>6, CreatesTwo

\* The script of any Create form.
LEMMA CreateScript ==
    ASSUME NEW k \in Creatable, NEW e \in Forms(k), NEW S, S = RenderCreateDDL(k, e), S # Invalid
    PROVE  OneStatement(k, e, S) \/ TwoStatements(k, e, S)
BY CreateTablespace, CreateSchema, CreateSequence, CreateFunction, CreateProcedure, CreateIndex, CreateRule,
   CreatePolicy, CreateTrigger, CreateView, CreateMatview, CreateDatabase, CreateRole, CreateExtension,
   CreatePublication, CreateTable DEF Creatable

\* What the script of a form makes, after its first statement and after all.
LEMMA WholeScript ==
    ASSUME sort \in Creatable, entry \in Forms(sort), Whole # Invalid
    PROVE  /\ Len(Whole) \in {1, 2} /\ Whole # <<>> /\ Whole # Tail(Whole) /\ Head(Whole) = Whole[1]
           /\ Whole[1].op = "create" /\ Whole[1].refused \in BOOLEAN
           /\ Len(Whole) = 1 => Tail(Whole) = <<>>
           /\ Len(Whole) = 2 => /\ Tail(Whole) # <<>> /\ Head(Tail(Whole)) = Whole[2] /\ Tail(Tail(Whole)) = <<>>
                                /\ Whole[2].op = "alter" /\ ~Whole[2].refused /\ Clean(Whole[2].set)
           /\ DOMAIN Begun = Stored[sort] /\ Clean(Begun)
           /\ Plain => \A a \in Stored[sort] :
                          /\ Complete[a] = Wanted(sort, entry, a)
                          /\ Begun[a] = Wanted(sort, entry, a) \/ (Len(Whole) = 2 /\ a = "owner" /\ Begun[a] = Default)
<1> DEFINE c == Whole[1]
           d == Stmt("alter", [owner |-> entry["owner"]])
<1>1. OneStatement(sort, entry, Whole) \/ TwoStatements(sort, entry, Whole) BY CreateScript DEF Whole
<1>2. Creation(c) BY <1>1 DEF OneStatement, TwoStatements
<1>3. c.op = "create" /\ c.refused \in BOOLEAN /\ Clean(c.set) BY <1>2 DEF Creation
<1>4. DOMAIN Begun = Stored[sort] /\ Clean(Begun) BY <1>3 DEF Begun, Made, Clean, Default
<1>5. \A a \in Stored[sort] : Begun[a] = Value(c.set, a) BY DEF Begun, Made, Value
<1>6. CASE OneStatement(sort, entry, Whole)
  <2>1. Whole = <<c>> BY <1>6 DEF OneStatement
  <2> HIDE DEF c
  <2>2. Len(Whole) = 1 /\ Whole # <<>> /\ Tail(Whole) = <<>> /\ Head(Whole) = c BY <2>1
  <2>3. Complete = Begun BY <2>2 DEF Complete
  <2>4. Plain => \A a \in Stored[sort] : Begun[a] = Wanted(sort, entry, a) BY <1>5, <1>6 DEF Plain, OneStatement, c
  <2>5. Plain => \A a \in Stored[sort] : Complete[a] = Wanted(sort, entry, a) /\ Begun[a] = Wanted(sort, entry, a)
        BY <2>3, <2>4
  <2>6. Len(Whole) # 2 /\ Len(Whole) \in {1, 2} /\ Whole # Tail(Whole) BY <2>2
  <2>7. Head(Whole) = Whole[1] /\ Whole[1].op = "create" /\ Whole[1].refused \in BOOLEAN BY <1>3, <2>2 DEF c
  <2> QED BY <1>4, <2>2, <2>5, <2>6, <2>7
<1>7. CASE TwoStatements(sort, entry, Whole)
  <2>1. Whole = <<c, d>> BY <1>7 DEF TwoStatements
  <2>2. d = [op |-> "alter", set |-> [owner |-> entry["owner"]], refused |-> FALSE, named |-> "form"] BY DEF Stmt
  <2>3. d.op = "alter" /\ ~d.refused /\ d.set = [owner |-> entry["owner"]] BY <2>2
  <2>4. Clean(d.set) BY <1>7, <2>3 DEF TwoStatements, Clean
  <2>5. \A a \in Stored[sort] : Begun[a] = IF a = "owner" THEN Default ELSE Wanted(sort, entry, a)
        BY <1>5, <1>7 DEF TwoStatements
  <2> HIDE DEF c, d
  <2>6. /\ Len(Whole) = 2 /\ Whole # <<>> /\ Head(Whole) = c /\ Whole[2] = d
        /\ Tail(Whole) = <<d>> BY <2>1
  <2>7. Tail(Whole) # <<>> /\ Head(Tail(Whole)) = d /\ Tail(Tail(Whole)) = <<>> /\ Len(Tail(Whole)) = 1 BY <2>6
  <2>8. \A a \in Stored[sort] : Complete[a] = Wanted(sort, entry, a)
    <3>1. Complete = Altered(Begun, d) BY <2>6 DEF Complete
    <3>2. \A a \in Stored[sort] : Complete[a] = IF a = "owner" THEN entry["owner"] ELSE Begun[a]
          BY <3>1, <2>3, <1>4 DEF Altered
    <3> QED BY <3>2, <2>5, <1>7 DEF TwoStatements
  <2>9. ASSUME NEW a \in Stored[sort]
        PROVE  Begun[a] = Wanted(sort, entry, a) \/ (Len(Whole) = 2 /\ a = "owner" /\ Begun[a] = Default)
    <3>1. CASE a = "owner" BY <3>1, <2>5, <2>6
    <3>2. CASE a # "owner" BY <3>2, <2>5
    <3> QED BY <3>1, <3>2
  <2>a. Len(Whole) # 1 /\ Len(Whole) \in {1, 2} /\ Whole # Tail(Whole) BY <2>6, <2>7
  <2>b. Whole[2].op = "alter" /\ ~Whole[2].refused /\ Clean(Whole[2].set) BY <2>3, <2>4, <2>6
  <2>c. Head(Whole) = Whole[1] /\ Whole[1].op = "create" /\ Whole[1].refused \in BOOLEAN BY <1>3, <2>6 DEF c
  <2>d. Head(Tail(Whole)) = Whole[2] BY <2>6, <2>7
  <2>e. \A a \in Stored[sort] :
           /\ Complete[a] = Wanted(sort, entry, a)
           /\ Begun[a] = Wanted(sort, entry, a) \/ (Len(Whole) = 2 /\ a = "owner" /\ Begun[a] = Default)
        BY <2>8, <2>9
  <2> QED BY <1>4, <2>6, <2>7, <2>a, <2>b, <2>c, <2>d, <2>e
<1> QED BY <1>1, <1>6, <1>7

\* What an alter statement leaves.
LEMMA AlteredClean ==
    ASSUME NEW o, Clean(o), NEW s, Clean(s.set)
    PROVE  DOMAIN Altered(o, s) = DOMAIN o /\ Clean(Altered(o, s))
BY DEF Altered, Clean

\* An object, and the rows read of one, are not the marks of what is not there.
LEMMA NotAMark ==
    ASSUME NEW k \in DOMAIN Stored, NEW o, DOMAIN o \subseteq Stored[k]
    PROVE  o # NoThing /\ o # Failing /\ o # Unread
BY IsNoField DEF NoThing, Failing, Unread
-----------------------------------------------------------------------------
(* The queries of the panels.                                              *)

\* The ends of a set of positions.
LEMMA EndsOf ==
    ASSUME NEW S, S \subseteq 1 .. 5, S # {}
    PROVE  Min(S) \in S /\ Max(S) \in S
<1>1. \E x \in S : \A y \in S : x <= y
  <2>1. CASE 1 \in S BY <2>1
  <2>2. CASE 1 \notin S /\ 2 \in S BY <2>2
  <2>3. CASE 1 \notin S /\ 2 \notin S /\ 3 \in S BY <2>3
  <2>4. CASE 1 \notin S /\ 2 \notin S /\ 3 \notin S /\ 4 \in S BY <2>4
  <2>5. CASE S \subseteq {5}
    <3>1. S = {5} BY <2>5
    <3> QED BY <3>1
  <2> QED BY <2>1, <2>2, <2>3, <2>4, <2>5
<1>2. \E x \in S : \A y \in S : x >= y
  <2>1. CASE 5 \in S BY <2>1
  <2>2. CASE 5 \notin S /\ 4 \in S BY <2>2
  <2>3. CASE 5 \notin S /\ 4 \notin S /\ 3 \in S BY <2>3
  <2>4. CASE 5 \notin S /\ 4 \notin S /\ 3 \notin S /\ 2 \in S BY <2>4
  <2>5. CASE S \subseteq {1}
    <3>1. S = {1} BY <2>5
    <3> QED BY <3>1
  <2> QED BY <2>1, <2>2, <2>3, <2>4, <2>5
<1> QED BY <1>1, <1>2 DEF Min, Max

\* What a query reads, when it is the only one and when it is the second of two.
LEMMA OneQuery ==
    ASSUME NEW k, NEW G, Queries(k) = <<<<"general", G>>>>
    PROVE  Reads(k, "general") = Stored[k] \cap G
<1> DEFINE q == <<"general", G>>
<1>1. Range(Queries(k)) = {q} BY DEF Range
<1>2. {r \in Range(Queries(k)) : r[1] = "general"} = {q} BY <1>1
<1>3. {p[2] : p \in {q}} = {G} OBVIOUS
<1> QED BY <1>2, <1>3 DEF Reads

\* The second of two.
LEMMA TwoQueries ==
    ASSUME NEW k, NEW G, NEW H, NEW t, t # "general", Queries(k) = <<<<"general", G>>, <<t, H>>>>
    PROVE  Reads(k, t) = Stored[k] \cap H
<1> DEFINE q == <<"general", G>>
           p == <<t, H>>
<1>1. Range(Queries(k)) = {q, p}
  <2> HIDE DEF q, p
  <2> DEFINE s == <<q, p>>
  <2>1. DOMAIN s = {1, 2} /\ s[1] = q /\ s[2] = p OBVIOUS
  <2>2. Queries(k) = s BY DEF q, p
  <2> HIDE DEF s
  <2> QED BY <2>1, <2>2 DEF Range
<1>2. {r \in Range(Queries(k)) : r[1] = t} = {p} BY <1>1
<1>3. {r[2] : r \in {p}} = {H} OBVIOUS
<1> QED BY <1>2, <1>3 DEF Reads

\* What of an object its one query leaves out.
Beyond(k) == CASE k = "role" -> {"password", "memberships", "options"}
               [] k \in {"sequence", "database", "tablespace"} -> {"options"}
               [] k = "rule" -> {"enabled"}
               [] OTHER -> {}
OneQueryKinds == {"sequence", "schema", "database", "role", "tablespace", "extension", "publication", "policy",
                  "rule", "trigger", "index", "cast", "language", "wrapper", "eventtrigger"}
WholeKinds == OneQueryKinds \ {"sequence", "database", "role", "tablespace", "rule"}

\* What the panels of one query read.
LEMMA SinglePanels ==
    /\ \A k \in OneQueryKinds :
          /\ Queries(k) = <<<<"general", Stored[k] \ Beyond(k)>>>>
          /\ Reads(k, "general") = Stored[k] \ Beyond(k)
    /\ \A k \in WholeKinds : Reads(k, "general") = Stored[k]
    /\ Queries("constraint") = <<<<"general", {"definition"}>>>>
    /\ Reads("constraint", "general") = {"definition"}
<1>1. ASSUME NEW k \in OneQueryKinds
      PROVE  /\ Queries(k) = <<<<"general", Stored[k] \ Beyond(k)>>>>
             /\ Reads(k, "general") = Stored[k] \ Beyond(k)
  <2>0. SUFFICES Queries(k) = <<<<"general", Stored[k] \ Beyond(k)>>>>
    <3>1. Queries(k) = <<<<"general", Stored[k] \ Beyond(k)>>>>
            => Reads(k, "general") = Stored[k] \cap (Stored[k] \ Beyond(k)) BY OneQuery
    <3> QED BY <3>1
  <2>1. CASE k \in {"sequence", "database", "tablespace"}
    <3>1. Beyond(k) = {"options"} BY <2>1 DEF Beyond
    <3> QED BY <2>1, <3>1 DEF Queries, Types, HandleSequenceProperties, HandleDatabaseProperties,
               HandleTablespaceProperties, GetSequenceGeneral
  <2>2. CASE k = "rule"
    <3>1. Beyond(k) = {"enabled"} BY <2>2 DEF Beyond
    <3> QED BY <2>2, <3>1 DEF Queries, Types, HandleRuleProperties, GetRuleDefinition
  <2>3. CASE k = "role"
    <3>1. Beyond(k) = {"password", "memberships", "options"} BY <2>3 DEF Beyond
    <3> QED BY <2>3, <3>1 DEF Queries, Types, HandleRoleProperties
  <2>4. CASE k \in {"extension", "publication", "policy", "schema", "trigger", "index",
                    "cast", "language", "wrapper", "eventtrigger"}
    <3>1. Beyond(k) = {} BY <2>4 DEF Beyond
    <3>2. Stored[k] \ Beyond(k) = Stored[k] BY <3>1
    <3>3. Queries(k) = <<<<"general", Stored[k]>>>>
      <4>1. CASE k \in {"extension", "publication", "policy", "trigger", "index"}
            BY <4>1 DEF Queries, Types, HandleExtensionProperties, HandlePublicationProperties,
                        HandlePolicyProperties, HandleTriggerProperties, HandleIndexProperties,
                        GetPolicyGeneral, GetTriggerGeneral, GetIndexGeneral
      <4>2. CASE k \in {"cast", "language", "wrapper", "eventtrigger"}
            BY <4>2 DEF Queries, Types, HandleCastProperties, HandleLanguageProperties,
                        HandleForeignDataWrapperProperties, HandleEventTriggerProperties, GetCastGeneral,
                        GetLanguageGeneral, GetForeignDataWrapperGeneral, GetEventTriggerGeneral
      <4>3. CASE k = "schema"
        <5>1. Stored["schema"] = {"owner", "comment"} BY DEF Stored
        <5> QED BY <4>3, <5>1 DEF Queries, Types, HandleSchemaProperties, GetSchemaGeneral
      <4> QED BY <2>4, <4>1, <4>2, <4>3
    <3> QED BY <3>2, <3>3
  <2> QED BY <2>1, <2>2, <2>3, <2>4 DEF OneQueryKinds
<1>2. Queries("constraint") = <<<<"general", {"definition"}>>>>
      BY DEF Queries, Types, HandleConstraintProperties, GetConstraintDetail
<1>3. "definition" \in Stored["constraint"] BY DEF Stored
<1>4. Reads("constraint", "general") = Stored["constraint"] \cap {"definition"} BY <1>2, OneQuery
<1>5. ASSUME NEW k \in WholeKinds PROVE Reads(k, "general") = Stored[k]
  <2>1. Beyond(k) = {} BY DEF Beyond, WholeKinds, OneQueryKinds
  <2>2. Reads(k, "general") = Stored[k] \ {} BY <1>1, <2>1 DEF WholeKinds
  <2> QED BY <2>2
<1> QED BY <1>1, <1>2, <1>3, <1>4, <1>5

\* What the second query of the panels of two reads.
LEMMA DoublePanels ==
    /\ \A k \in {"view", "matview"} :
          (\E G : Queries(k) = <<<<"general", G>>, <<"definition", {"definition"}>>>>) /\ Reads(k, "definition") = {"definition"}
    /\ \A k \in {"function", "procedure"} :
          /\ \E G, H : Queries(k) = <<<<"general", G>>, <<"definition", H>>>>
          /\ Reads(k, "definition") = Stored[k] \ {"owner", "comment"}
    /\ \A k \in Types :
          (\E G : Queries(k) = <<<<"general", G>>, <<"parts", {"parts"}>>>>) /\ Reads(k, "parts") = {"parts"}
    /\ \E G : Queries("domain") = <<<<"general", G>>, <<"checks", {"checks"}>>>>
    /\ Reads("domain", "checks") = {"checks"}
    /\ Reads("domain", "general") = {"base", "default", "notnull", "owner", "comment"}
<1>1. ASSUME NEW k \in {"view", "matview"}
      PROVE  (\E G : Queries(k) = <<<<"general", G>>, <<"definition", {"definition"}>>>>) /\ Reads(k, "definition") = {"definition"}
  <2>1. Queries(k) = <<<<"general", {"owner", "comment"}>>, <<"definition", {"definition"}>>>>
        BY DEF Queries, Types, HandleViewProperties, HandleMatViewProperties, GetViewGeneral, GetViewDefinition,
               GetMatViewGeneral, GetMatViewDefinition
  <2>2. "definition" \in Stored[k] BY DEF Stored
  <2>3. Reads(k, "definition") = Stored[k] \cap {"definition"} BY <2>1, TwoQueries
  <2> QED BY <2>1, <2>2, <2>3
<1>2. ASSUME NEW k \in {"function", "procedure"}
      PROVE  /\ \E G, H : Queries(k) = <<<<"general", G>>, <<"definition", H>>>>
             /\ Reads(k, "definition") = Stored[k] \ {"owner", "comment"}
  <2>1. Queries(k) = <<<<"general", GetFunctionGeneral>>, <<"definition", GetFunctionDefinition>>>>
        BY DEF Queries, Types, HandleFunctionProperties, HandleProcedureProperties
  <2>2. Reads(k, "definition") = Stored[k] \cap GetFunctionDefinition BY <2>1, TwoQueries
  <2> QED BY <2>1, <2>2 DEF GetFunctionDefinition
<1>3. ASSUME NEW k \in Types
      PROVE  (\E G : Queries(k) = <<<<"general", G>>, <<"parts", {"parts"}>>>>) /\ Reads(k, "parts") = {"parts"}
  <2>1. Queries(k) = <<<<"general", {"owner", "comment"}>>, <<"parts", {"parts"}>>>>
        BY DEF Queries, Types, HandleTypeProperties, GetTypeGeneral, ListEnumLabels, GetRangeSubtype, ListCompositeAttributes
  <2>2. "parts" \in Stored[k] BY DEF Stored, Types, OfTypes
  <2>3. Reads(k, "parts") = Stored[k] \cap {"parts"} BY <2>1, TwoQueries
  <2> QED BY <2>1, <2>2, <2>3
<1>4. /\ \E G : Queries("domain") = <<<<"general", G>>, <<"checks", {"checks"}>>>>
      /\ Reads("domain", "checks") = {"checks"}
      /\ Reads("domain", "general") = {"base", "default", "notnull", "owner", "comment"}
  <2> DEFINE G == {"base", "default", "notnull", "owner", "comment"}
             q == <<"general", G>>
             p == <<"checks", {"checks"}>>
  <2>1. Queries("domain") = <<q, p>>
        BY DEF Queries, Types, HandleDomainProperties, GetDomainGeneral, ListDomainConstraints
  <2>2. "checks" \in Stored["domain"] /\ G \subseteq Stored["domain"] BY DEF Stored
  <2>3. Reads("domain", "checks") = Stored["domain"] \cap {"checks"} BY <2>1, TwoQueries
  <2>4. Reads("domain", "general") = Stored["domain"] \cap G
    <3>1. Range(<<q, p>>) = {q, p}
      <4> DEFINE s == <<q, p>>
      <4> HIDE DEF q, p
      <4>1. DOMAIN s = {1, 2} /\ s[1] = q /\ s[2] = p OBVIOUS
      <4> HIDE DEF s
      <4>2. Range(s) = {q, p} BY <4>1 DEF Range
      <4> QED BY <4>2 DEF s
    <3>2. {r \in {q, p} : r[1] = "general"} = {q} OBVIOUS
    <3>3. {r[2] : r \in {q}} = {G} OBVIOUS
    <3> QED BY <2>1, <3>1, <3>2, <3>3 DEF Reads
  <2> QED BY <2>1, <2>2, <2>3, <2>4
<1> QED BY <1>1, <1>2, <1>3, <1>4

\* What the panel of a table reads.
LEMMA TablePanel ==
    /\ Reads("table", "columns") = {"columns"} /\ Reads("table", "key") = {"key"}
    /\ Reads("table", "info") = {"owner", "tablespace"}
<1> DEFINE a == <<"general", GetTableGeneral>>
           b == <<"columns", {"columns"}>>
           c == <<"constraints", GetTableConstraints>>
           d == <<"key", {"key"}>>
           f == <<"info", {"owner", "tablespace"}>>
<1>1. Queries("table") = <<a, b, c, d, f>>
      BY DEF Queries, Types, HandleTableProperties, GetTableColumnsDetailed, GetPrimaryKeyColumns, GetTableInfo
<1>2. Range(Queries("table")) = {a, b, c, d, f}
  <2> DEFINE s == <<a, b, c, d, f>>
  <2> HIDE DEF a, b, c, d, f
  <2>1. DOMAIN s = 1 .. 5 /\ s[1] = a /\ s[2] = b /\ s[3] = c /\ s[4] = d /\ s[5] = f OBVIOUS
  <2>2. Queries("table") = s BY <1>1
  <2> HIDE DEF s
  <2> QED BY <2>1, <2>2 DEF Range
<1>3. /\ {r \in {a, b, c, d, f} : r[1] = "columns"} = {b} /\ {r \in {a, b, c, d, f} : r[1] = "key"} = {d}
      /\ {r \in {a, b, c, d, f} : r[1] = "info"} = {f} OBVIOUS
<1>4. {r[2] : r \in {b}} = {{"columns"}} /\ {r[2] : r \in {d}} = {{"key"}} /\ {r[2] : r \in {f}} = {{"owner", "tablespace"}}
      OBVIOUS
<1>5. {"columns", "key", "owner", "tablespace"} \subseteq Stored["table"] BY DEF Stored
<1> HIDE DEF a, b, c, d, f
<1> QED BY <1>2, <1>3, <1>4, <1>5 DEF Reads

\* The sections a panel asks for.
Asks(k) == {Queries(k)[i][1] : i \in DOMAIN Queries(k)}

\* What they are, kind by kind.
LEMMA AsksOf ==
    ASSUME NEW k \in DOMAIN Stored
    PROVE  /\ DOMAIN Queries(k) \subseteq 1 .. 5
           /\ Asks(k) = CASE k = "table" -> {"general", "columns", "constraints", "key", "info"}
                          [] k \in {"view", "matview", "function", "procedure"} -> {"general", "definition"}
                          [] k \in Types -> {"general", "parts"} [] k = "domain" -> {"general", "checks"}
                          [] OTHER -> {"general"}
<1>1. CASE k = "table"
  <2>1. \E A, B, C, D, F : Queries(k) = <<<<"general", A>>, <<"columns", B>>, <<"constraints", C>>, <<"key", D>>, <<"info", F>>>>
        BY <1>1 DEF Queries, Types, HandleTableProperties
  <2>2. PICK A, B, C, D, F :
           Queries(k) = <<<<"general", A>>, <<"columns", B>>, <<"constraints", C>>, <<"key", D>>, <<"info", F>>>> BY <2>1
  <2>3. DOMAIN Queries(k) = 1 .. 5 BY <2>2
  <2>4. Asks(k) = {Queries(k)[1][1], Queries(k)[2][1], Queries(k)[3][1], Queries(k)[4][1], Queries(k)[5][1]}
        BY <2>3 DEF Asks
  <2>5. Asks(k) = {"general", "columns", "constraints", "key", "info"} BY <2>2, <2>4
  <2> QED BY <1>1, <2>3, <2>5 DEF Types
<1>2. ASSUME NEW G, NEW H, NEW t, Queries(k) = <<<<"general", G>>, <<t, H>>>>
      PROVE  DOMAIN Queries(k) = 1 .. 2 /\ Asks(k) = {"general", t}
  <2>1. DOMAIN Queries(k) = 1 .. 2 BY <1>2
  <2>2. Asks(k) = {Queries(k)[1][1], Queries(k)[2][1]} BY <2>1 DEF Asks
  <2> QED BY <2>1, <2>2, <1>2
<1>3. ASSUME NEW G, Queries(k) = <<<<"general", G>>>>
      PROVE  DOMAIN Queries(k) = {1} /\ Asks(k) = {"general"}
  <2>1. DOMAIN Queries(k) = {1} BY <1>3
  <2>2. Asks(k) = {Queries(k)[1][1]} BY <2>1 DEF Asks
  <2> QED BY <2>1, <2>2, <1>3
<1>4. CASE k \in {"view", "matview", "function", "procedure"}
  <2>1. PICK G, H : Queries(k) = <<<<"general", G>>, <<"definition", H>>>> BY <1>4, DoublePanels
  <2>2. DOMAIN Queries(k) = 1 .. 2 /\ Asks(k) = {"general", "definition"} BY <1>2, <2>1
  <2> QED BY <1>4, <2>2 DEF Types
<1>5. CASE k \in Types
  <2>1. PICK G : Queries(k) = <<<<"general", G>>, <<"parts", {"parts"}>>>> BY <1>5, DoublePanels
  <2>2. DOMAIN Queries(k) = 1 .. 2 /\ Asks(k) = {"general", "parts"} BY <1>2, <2>1
  <2> QED BY <1>5, <2>2 DEF Types
<1>6. CASE k = "domain"
  <2>1. PICK G : Queries(k) = <<<<"general", G>>, <<"checks", {"checks"}>>>> BY <1>6, DoublePanels
  <2>2. DOMAIN Queries(k) = 1 .. 2 /\ Asks(k) = {"general", "checks"} BY <1>2, <2>1
  <2> QED BY <1>6, <2>2 DEF Types
<1>7. CASE k \notin {"table", "view", "matview", "function", "procedure", "domain"} \cup Types
  <2>1. \E G : Queries(k) = <<<<"general", G>>>>
    <3>1. k \in OneQueryKinds \cup {"constraint"}
          BY <1>7, StoredKinds DEF Kinds26, Creatable, Types, OneQueryKinds
    <3> QED BY <3>1, SinglePanels
  <2>2. DOMAIN Queries(k) = {1} /\ Asks(k) = {"general"} BY <1>3, <2>1
  <2> QED BY <1>7, <2>2 DEF Types
<1> QED BY <1>1, <1>4, <1>5, <1>6, <1>7

\* The sections that are asked for are ones there are.
LEMMA AsksSections ==
    ASSUME NEW k \in DOMAIN Stored PROVE Asks(k) \subseteq Sections /\ "none" \notin Asks(k) /\ "general" \in Asks(k)
<1>1. {"general", "columns", "constraints", "key", "info", "definition", "parts", "checks"} \subseteq Sections
      BY DEF Sections, Lists
<1>2. \/ Asks(k) = {"general", "columns", "constraints", "key", "info"} \/ Asks(k) = {"general", "definition"}
      \/ Asks(k) = {"general", "parts"} \/ Asks(k) = {"general", "checks"} \/ Asks(k) = {"general"} BY AsksOf
<1> QED BY <1>1, <1>2

\* The next section is one that is unread; when there is none, all were read.
LEMMA NextIs ==
    ASSUME sort \in DOMAIN Stored
    PROVE  \/ NextSection # "none" /\ NextSection \in Asks(sort) /\ seen[NextSection] = Unread
           \/ NextSection = "none" /\ \A s \in Asks(sort) : seen[s] # Unread
<1> DEFINE left == {i \in DOMAIN Queries(sort) : seen[Queries(sort)[i][1]] = Unread}
<1>1. CASE left = {}
  <2>1. NextSection = "none" BY <1>1 DEF NextSection
  <2> QED BY <1>1, <2>1 DEF Asks
<1>2. CASE left # {}
  <2>1. left \subseteq 1 .. 5 BY AsksOf
  <2>2. Min(left) \in left
    <3> HIDE DEF left
    <3> QED BY <1>2, <2>1, EndsOf
  <2>3. NextSection = Queries(sort)[Min(left)][1] BY <1>2 DEF NextSection
  <2> DEFINE m == Min(left)
  <2>4. m \in DOMAIN Queries(sort) /\ seen[Queries(sort)[m][1]] = Unread BY <2>2
  <2> HIDE DEF m
  <2>5. Queries(sort)[m][1] \in Asks(sort) BY <2>4 DEF Asks
  <2> QED BY <2>3, <2>4, <2>5, AsksSections DEF m
<1> QED BY <1>1, <1>2
-----------------------------------------------------------------------------
(* The invariant.                                                          *)

\* A form just sent to its builder, or a panel not yet opened.
LEMMA InitInv == ASSUME DefinitionInit(DOMAIN Stored) PROVE DInv
<1>1. stopped = FALSE /\ seen = NothingRead /\ had = [a \in Stored[sort] |-> {}] /\ meddled = 0 /\ sort \in DOMAIN Stored
      BY DEF DefinitionInit
<1>2. DOMAIN seen = Sections /\ DOMAIN had = Stored[sort] BY <1>1 DEF NothingRead, Sections
<1>3. ~PanelOpen BY <1>1 DEF PanelOpen, NothingRead
<1>4. CASE /\ sort \in Creatable /\ entry \in Forms(sort) /\ RenderCreateDDL(sort, entry) # Invalid
           /\ pending = RenderCreateDDL(sort, entry) /\ thing = NoThing
  <2>1. entry # NoThing BY <1>4, CreateForms
  <2>2. Whole # Invalid /\ pending = Whole BY <1>4 DEF Whole
  <2>3. DShape BY <1>1, <1>2, <1>4, <2>1, <2>2 DEF DShape
  <2>4. Making BY <1>4 DEF Making
  <2> QED BY <2>3, <2>4, <1>3 DEF DInv, Reading
<1>5. CASE entry = NoThing /\ pending = <<>> /\ thing \in Catalog(sort)
  <2>1. DOMAIN thing = Stored[sort] /\ Clean(thing) BY <1>1, <1>5, CatalogObjects
  <2>2. DShape BY <1>1, <1>2, <1>5, <2>1 DEF DShape
  <2>3. Making BY <1>5 DEF Making
  <2> QED BY <2>2, <2>3, <1>3 DEF DInv, Reading
<1> QED BY <1>4, <1>5 DEF DefinitionInit

\* Where the script is: before its first statement, or before its second.
LEMMA Where ==
    ASSUME DInv, pending # <<>>
    PROVE  /\ entry # NoThing /\ sort \in Creatable /\ entry \in Forms(sort) /\ Whole # Invalid /\ ~stopped
           /\ \/ pending = Whole /\ Head(pending) = Whole[1] /\ Whole[1].op = "create" /\ thing = NoThing
              \/ /\ Len(Whole) = 2 /\ pending = Tail(Whole) /\ Head(pending) = Whole[2] /\ Tail(pending) = <<>>
                 /\ Whole[2].op = "alter" /\ ~Whole[2].refused /\ Clean(Whole[2].set)
<1>1. entry # NoThing /\ sort \in Creatable /\ entry \in Forms(sort) /\ Whole # Invalid /\ ~stopped
      BY DEF DInv, DShape
<1>2. pending \in {Whole, Tail(Whole)} BY <1>1 DEF DInv, DShape
<1>3. CASE pending = Whole BY <1>1, <1>3, WholeScript DEF DInv, Making
<1>4. CASE pending = Tail(Whole)
  <2>1. Len(Whole) = 2 BY <1>1, <1>4, WholeScript
  <2> QED BY <1>1, <1>4, <2>1, WholeScript
<1> QED BY <1>1, <1>2, <1>3, <1>4

\* The statement the builder's script is at is run.
LEMMA RunInv == ASSUME DInv, RunCreateStatement PROVE DInv'
<1> USE DEF RunCreateStatement
<1>1. pending # <<>> /\ ~Head(pending).refused /\ pending' = Tail(pending) OBVIOUS
<1>2. UNCHANGED <<sort, entry, stopped, seen, had, meddled>> OBVIOUS
<1>3. /\ entry # NoThing /\ sort \in Creatable /\ entry \in Forms(sort) /\ Whole # Invalid /\ ~stopped
      /\ \/ pending = Whole /\ Head(pending) = Whole[1] /\ Whole[1].op = "create" /\ thing = NoThing
         \/ /\ Len(Whole) = 2 /\ pending = Tail(Whole) /\ Head(pending) = Whole[2] /\ Tail(pending) = <<>>
            /\ Whole[2].op = "alter" /\ ~Whole[2].refused /\ Clean(Whole[2].set) BY <1>1, Where
<1>4. Whole' = Whole /\ Begun' = Begun /\ Complete' = Complete /\ (Plain <=> Plain') /\ (PanelOpen <=> PanelOpen')
      BY <1>2 DEF Whole, Begun, Complete, Plain, PanelOpen
<1>5. ~PanelOpen BY <1>1 DEF DInv, Reading
<1>6. /\ sort \in DOMAIN Stored /\ meddled \in Nat /\ DOMAIN seen = Sections /\ DOMAIN had = Stored[sort]
      /\ seen = NothingRead BY <1>5 DEF DInv, DShape
<1>7. CASE pending = Whole /\ Head(pending) = Whole[1] /\ Whole[1].op = "create" /\ thing = NoThing
  <2>1. Len(Whole) \in {1, 2} /\ Whole # Tail(Whole) /\ DOMAIN Begun = Stored[sort] /\ Clean(Begun) BY <1>3, WholeScript
  <2>2. pending' = Tail(Whole) /\ ~Whole[1].refused BY <1>1, <1>7
  <2>3. thing' = IF Whole[1].named = "form" THEN Begun ELSE NoThing BY <1>7 DEF Begun
  <2>4. thing' # NoThing => thing' = Begun /\ Plain BY <2>2, <2>3 DEF Plain
  <2>5. DShape' BY <1>2, <1>3, <1>4, <1>6, <2>1, <2>2, <2>4 DEF DShape, PanelOpen
  <2>6. Making'
    <3>1. pending' # Whole' BY <2>1, <2>2, <1>4
    <3>2. meddled >= 1 \/ meddled = 0 BY <1>6
    <3> QED BY <3>1, <3>2, <1>2, <1>3, <1>4, <2>2, <2>4 DEF Making
  <2> QED BY <2>5, <2>6, <1>4, <1>5 DEF DInv, Reading
<1>8. CASE /\ Len(Whole) = 2 /\ pending = Tail(Whole) /\ Head(pending) = Whole[2] /\ Tail(pending) = <<>>
           /\ Whole[2].op = "alter" /\ ~Whole[2].refused /\ Clean(Whole[2].set)
  <2>1. thing # NoThing /\ thing' = Altered(thing, Whole[2]) /\ pending' = <<>> BY <1>8, <1>1
  <2>2. DOMAIN thing = Stored[sort] /\ Clean(thing) BY <2>1 DEF DInv, DShape
  <2>3. DOMAIN thing' = Stored[sort] /\ Clean(thing') BY <1>8, <2>1, <2>2, AlteredClean
  <2>4. DShape' BY <1>2, <1>3, <1>4, <1>6, <2>1, <2>3 DEF DShape, PanelOpen
  <2>5. Whole # <<>> BY <1>3, WholeScript
  <2>6. Making'
    <3>1. \/ meddled >= 1
          \/ meddled = 0 /\ Plain /\ thing = Begun
      <4>1. ~(pending = <<>>) BY <1>1
      <4> QED BY <4>1, <1>3, <2>1 DEF DInv, Making
    <3>2. Plain /\ thing = Begun => thing' = Complete BY <1>8, <2>1 DEF Complete
    <3>3. pending' # Whole' BY <2>1, <2>5, <1>4
    <3> QED BY <3>1, <3>2, <3>3, <1>2, <1>3, <1>4, <2>1 DEF Making
  <2> QED BY <2>4, <2>6, <1>4, <1>5 DEF DInv, Reading
<1> QED BY <1>3, <1>7, <1>8

\* The script stops at a statement the server refuses, or the session does.
LEMMA StopInv == ASSUME DInv, StopCreate PROVE DInv'
<1> USE DEF StopCreate
<1>1. pending # <<>> /\ pending' = <<>> /\ stopped' = TRUE OBVIOUS
<1>2. UNCHANGED <<sort, entry, thing, seen, had>> OBVIOUS
<1>3. /\ entry # NoThing /\ sort \in Creatable /\ entry \in Forms(sort) /\ Whole # Invalid /\ ~stopped
      /\ \/ pending = Whole /\ Head(pending) = Whole[1] /\ Whole[1].op = "create" /\ thing = NoThing
         \/ /\ Len(Whole) = 2 /\ pending = Tail(Whole) /\ Head(pending) = Whole[2] /\ Tail(pending) = <<>>
            /\ Whole[2].op = "alter" /\ ~Whole[2].refused /\ Clean(Whole[2].set) BY <1>1, Where
<1>4. Whole' = Whole /\ Begun' = Begun /\ Complete' = Complete /\ (Plain <=> Plain') /\ (PanelOpen <=> PanelOpen')
      BY <1>2 DEF Whole, Begun, Complete, Plain, PanelOpen
<1>5. ~PanelOpen BY <1>1 DEF DInv, Reading
<1>6. /\ sort \in DOMAIN Stored /\ meddled \in Nat /\ DOMAIN seen = Sections /\ DOMAIN had = Stored[sort]
      /\ seen = NothingRead /\ (thing # NoThing => DOMAIN thing = Stored[sort] /\ Clean(thing)) BY <1>5 DEF DInv, DShape
<1>7. meddled' \in {meddled, meddled + 1} BY DEF Meddle
<1>8. DShape' BY <1>1, <1>2, <1>3, <1>4, <1>6, <1>7 DEF DShape, PanelOpen
<1>9. Making'
  <2>1. CASE thing = NoThing BY <2>1, <1>2 DEF Making
  <2>2. CASE thing # NoThing
    <3>1. Len(Whole) = 2 /\ ~Head(pending).refused BY <2>2, <1>3
    <3>2. meddled' = meddled + 1 BY <3>1, <2>2 DEF Meddle
    <3>3. \/ meddled >= 1
          \/ meddled = 0 /\ Plain /\ thing = Begun BY <1>1, <1>3, <2>2 DEF DInv, Making
    <3>4. pending' # Whole' BY <1>1, <1>3, <1>4, WholeScript
    <3>5. meddled' >= 2 \/ (meddled' = 1 /\ Plain /\ thing = Begun) BY <3>2, <3>3, <1>6
    <3> QED BY <3>1, <3>4, <3>5, <1>1, <1>2, <1>4 DEF Making
  <2> QED BY <2>1, <2>2
<1> QED BY <1>8, <1>9, <1>4, <1>5 DEF DInv, Reading

\* A row that is read while the object is there fits, and so does what fitted.
LEMMA RowFits ==
    ASSUME DShape, NEW s, thing # NoThing, NEW h, \A a \in Stored[sort] : thing[a] \in h[a]
    PROVE  Fits(sort, h, Row(sort, s), s)
<1>1. Row(sort, s) = [a \in Reads(sort, s) |-> AsRead(thing[a])] BY DEF Row
<1>2. Reads(sort, s) \subseteq Stored[sort] BY DEF Reads
<1> QED BY <1>1, <1>2 DEF Fits

\* A panel is opened: its general section is read first.
LEMMA OpenInv == ASSUME DInv, OpenProperties PROVE DInv'
<1> USE DEF OpenProperties
<1>1. /\ pending = <<>> /\ ~PanelOpen /\ thing # NoThing
      /\ seen' = [seen EXCEPT !["general"] = Row(sort, "general")]
      /\ had' = [a \in Stored[sort] |-> {thing[a]}]
      /\ UNCHANGED <<sort, entry, pending, thing, stopped, meddled>> OBVIOUS
<1>2. /\ sort \in DOMAIN Stored /\ DOMAIN seen = Sections /\ seen = NothingRead
      /\ DOMAIN thing = Stored[sort] /\ Clean(thing) /\ DShape /\ Making BY <1>1 DEF DInv, DShape
<1>3. Whole' = Whole /\ Begun' = Begun /\ Complete' = Complete /\ (Plain <=> Plain')
      BY <1>1 DEF Whole, Begun, Complete, Plain
<1>4. \A a \in Stored[sort] : thing[a] \in had'[a] BY <1>1
<1>5. Fits(sort, had', Row(sort, "general"), "general") BY <1>1, <1>2, <1>4, RowFits
<1>6. Row(sort, "general") # Failing /\ Row(sort, "general") # Unread
  <2>1. Reads(sort, "general") \subseteq Stored[sort] BY DEF Reads
  <2> QED BY <1>2, <1>5, <2>1, NotAMark DEF Fits
<1>7. "general" \in Sections BY DEF Sections
<1>8. /\ DOMAIN seen' = Sections /\ seen'["general"] = Row(sort, "general")
      /\ \A s \in Sections \ {"general"} : seen'[s] = Unread
      BY <1>1, <1>2, <1>7 DEF NothingRead, Sections
<1>9. PanelOpen' BY <1>6, <1>8 DEF PanelOpen
<1>10. DShape' BY <1>1, <1>2, <1>3, <1>8, <1>9 DEF DShape
<1>11. Making' BY <1>1, <1>2, <1>3 DEF Making
<1>12. Reading'
  <2>1. \A a \in Stored[sort] : had'[a] # {} /\ "refused" \notin had'[a] BY <1>1, <1>2 DEF Clean
  <2>3. \A s \in Sections : seen'[s] \in {Unread, Failing} \/ Fits(sort, had', seen'[s], s) BY <1>5, <1>8
  <2>4. sort = "publication" => ("all" \in had'["tables"] <=> seen'["general"]["tables"] = "all")
    <3>1. SUFFICES ASSUME sort = "publication" PROVE "all" \in had'["tables"] <=> seen'["general"]["tables"] = "all"
          OBVIOUS
    <3>2. "tables" \in Stored["publication"] BY DEF Stored
    <3>3. "tables" \in Reads(sort, "general") BY <3>1, <3>2, SinglePanels DEF OneQueryKinds, WholeKinds
    <3>4. seen'["general"]["tables"] = AsRead(thing["tables"]) BY <1>1, <1>8, <3>3 DEF Row
    <3>5. had'["tables"] = {thing["tables"]} BY <1>1, <3>1, <3>2
    <3> QED BY <3>4, <3>5 DEF AsRead
  <2> QED BY <1>1, <1>4, <1>6, <1>8, <2>1, <2>3, <2>4 DEF Reading
<1> QED BY <1>10, <1>11, <1>12 DEF DInv

\* The next section is read, of the object as it is by then, or its read fails.
LEMMA ReadInv == ASSUME DInv, ReadSection PROVE DInv'
<1> DEFINE n == NextSection
<1>1. PanelOpen /\ n # "none" /\ UNCHANGED <<sort, entry, pending, thing, stopped, had>> BY DEF ReadSection
<1>2. /\ meddled' \in {meddled, meddled + 1}
      /\ \/ seen' = [seen EXCEPT ![n] = Row(sort, n)]
         \/ seen' = [seen EXCEPT ![n] = Failing] BY DEF ReadSection, Meddle
<1>3. /\ sort \in DOMAIN Stored /\ DOMAIN seen = Sections /\ meddled \in Nat /\ DShape BY DEF DInv, DShape
<1>4. n \in Sections /\ n # "general"
  <2>1. n \in Asks(sort) /\ seen[n] = Unread BY <1>1, <1>3, NextIs
  <2> QED BY <1>1, <1>3, <2>1, AsksSections DEF PanelOpen
<1>5. Whole' = Whole /\ Begun' = Begun /\ Complete' = Complete /\ (Plain <=> Plain')
      BY <1>1 DEF Whole, Begun, Complete, Plain
<1> HIDE DEF n
<1>6. DOMAIN seen' = Sections /\ \A s \in Sections \ {n} : seen'[s] = seen[s] BY <1>2, <1>3
<1>7. PanelOpen' /\ seen'["general"] = seen["general"]
  <2>1. "general" \in Sections \ {n} BY <1>4 DEF Sections
  <2> QED BY <2>1, <1>1, <1>6 DEF PanelOpen
<1>8. DShape' BY <1>1, <1>2, <1>3, <1>5, <1>6, <1>7 DEF DShape
<1>9. Making'
  <2>1. meddled' >= meddled BY <1>2, <1>3
  <2>2. pending = <<>> BY <1>1 DEF DInv, Reading
  <2>3. CASE meddled' = meddled BY <2>3, <1>1, <1>5 DEF DInv, Making
  <2>4. CASE meddled' = meddled + 1
    <3>1. entry # NoThing /\ thing # NoThing /\ stopped => meddled >= 1 BY <1>3 DEF DInv, Making
    <3> QED BY <3>1, <2>4, <1>1, <1>3, <1>5 DEF DInv, Making
  <2> QED BY <2>3, <2>4, <1>2
<1>10. Reading'
  <2>1. ASSUME thing # NoThing PROVE Row(sort, n) \in {Unread, Failing} \/ Fits(sort, had, Row(sort, n), n)
    <3>1. \A a \in Stored[sort] : thing[a] \in had[a] BY <1>1, <2>1 DEF DInv, Reading
    <3> QED BY <1>3, <2>1, <3>1, RowFits
  <2>3. ASSUME thing # NoThing, NEW s \in Sections
        PROVE  seen'[s] \in {Unread, Failing} \/ Fits(sort, had, seen'[s], s)
    <3>1. CASE s = n
      <4>1. seen'[s] = Failing \/ seen'[s] = Row(sort, n) BY <3>1, <1>2, <1>3, <1>4
      <4> QED BY <4>1, <2>1, <2>3, <3>1
    <3>2. CASE s # n
      <4>1. seen'[s] = seen[s] BY <3>2, <1>6
      <4> QED BY <4>1, <2>3, <1>1 DEF DInv, Reading
    <3> QED BY <3>1, <3>2
  <2> QED BY <1>1, <1>7, <2>3 DEF DInv, Reading
<1> QED BY <1>8, <1>9, <1>10 DEF DInv

\* Another session changes the object or drops it, between two statements or
\* two reads.
LEMMA MeddleInv == ASSUME DInv, Meddlers PROVE DInv'
<1>1. /\ meddled' = meddled + 1 /\ thing # NoThing /\ (PanelOpen => NextSection # "none")
      /\ UNCHANGED <<sort, entry, pending, stopped, seen>> BY DEF Meddlers, Meddle
<1>2. \/ thing' = NoThing /\ had' = had
      \/ \E a \in Stored[sort], v \in {"plain", "theirs"} :
            thing' = [thing EXCEPT ![a] = v] /\ had' = IF PanelOpen THEN [had EXCEPT ![a] = @ \cup {v}] ELSE had
      BY DEF Meddlers
<1>3. /\ sort \in DOMAIN Stored /\ meddled \in Nat /\ DOMAIN had = Stored[sort]
      /\ DOMAIN thing = Stored[sort] /\ Clean(thing) BY <1>1 DEF DInv, DShape
<1>4. /\ Whole' = Whole /\ Begun' = Begun /\ Complete' = Complete /\ (Plain <=> Plain')
      /\ (PanelOpen <=> PanelOpen') BY <1>1 DEF Whole, Begun, Complete, Plain, PanelOpen
<1>5. /\ thing' # NoThing => DOMAIN thing' = Stored[sort] /\ Clean(thing')
      /\ DOMAIN had' = Stored[sort] BY <1>2, <1>3 DEF Clean
<1>6. DShape' BY <1>1, <1>3, <1>4, <1>5 DEF DInv, DShape, PanelOpen
<1>7. Making'
  <2>1. entry # NoThing => pending # Whole /\ (stopped => meddled >= 1) BY <1>1, <1>3 DEF DInv, Making
  <2> QED BY <2>1, <1>1, <1>3, <1>4 DEF Making
<1>8. Reading'
  <2>1. SUFFICES ASSUME PanelOpen PROVE Reading' BY <1>4 DEF Reading
  <2>2. /\ pending = <<>> /\ seen["general"] # Failing
        /\ \A a \in Stored[sort] : had[a] # {} /\ "refused" \notin had[a] /\ thing[a] \in had[a]
        /\ \A s \in Sections : seen[s] \in {Unread, Failing} \/ Fits(sort, had, seen[s], s)
        BY <1>1, <2>1 DEF DInv, Reading
  <2>3. \A a \in Stored[sort] : had[a] \subseteq had'[a] /\ "refused" \notin had'[a]
        BY <1>2, <1>3, <2>2
  <2>4. thing' # NoThing => \A a \in Stored[sort] : thing'[a] \in had'[a] BY <1>2, <1>3, <2>1, <2>2
  <2>5. \A r, s : Fits(sort, had, r, s) => Fits(sort, had', r, s)
    <3>1. \A s : Reads(sort, s) \subseteq Stored[sort] BY DEF Reads
    <3> QED BY <2>3, <3>1 DEF Fits
  <2>6. sort # "publication"
    <3>1. SUFFICES ASSUME sort = "publication" PROVE FALSE OBVIOUS
    <3>2. Asks(sort) = {"general"} BY <1>3, <3>1, AsksOf DEF Types
    <3>3. seen["general"] = Unread BY <1>1, <1>3, <2>1, <3>2, NextIs
    <3> QED BY <3>3, <2>1 DEF PanelOpen
  <2>7. \A a \in Stored[sort] : had'[a] # {} BY <2>2, <2>3
  <2>8. \A s \in Sections : seen[s] \in {Unread, Failing} \/ Fits(sort, had', seen[s], s) BY <2>2, <2>5
  <2> QED BY <1>1, <2>2, <2>3, <2>4, <2>6, <2>7, <2>8 DEF Reading
<1> QED BY <1>6, <1>7, <1>8 DEF DInv

\* Nothing happens to the forms.
LEMMA StutterInv == ASSUME DInv, UNCHANGED definitionVars PROVE DInv'
<1>1. UNCHANGED <<sort, entry, pending, thing, stopped, seen, had, meddled>> BY DEF definitionVars
<1>2. Whole' = Whole /\ Begun' = Begun /\ Complete' = Complete /\ (Plain <=> Plain') /\ (PanelOpen <=> PanelOpen')
      BY <1>1 DEF Whole, Begun, Complete, Plain, PanelOpen
<1>3. DShape' BY <1>1, <1>2 DEF DInv, DShape, PanelOpen
<1>4. Making' BY <1>1, <1>2 DEF DInv, Making
<1>5. Reading' BY <1>1, <1>2 DEF DInv, Reading
<1> QED BY <1>3, <1>4, <1>5 DEF DInv

\* Every step of the Create panels and of the properties panels keeps it.
LEMMA NextInv == ASSUME DInv, [DefinitionNext]_definitionVars PROVE DInv'
BY RunInv, StopInv, OpenInv, ReadInv, MeddleInv, StutterInv DEF DefinitionNext

\* In every behaviour the script is where the statements that ran have left
\* the object, and each section read was put together from values the object
\* had while the panel was read.
THEOREM DefinitionInvariant == DefinitionSpec => []DInv
<1>1. DefinitionInit(DOMAIN Stored) => DInv BY InitInv
<1>2. DInv /\ [DefinitionNext]_definitionVars => DInv' BY NextInv
<1> QED BY <1>1, <1>2, PTL DEF DefinitionSpec
-----------------------------------------------------------------------------
(* The object a Create panel makes.                                        *)

\* What has been made of the form, when no other session has touched it.
LEMMA CreatedFollows == ASSUME DInv PROVE CreatedAsSaid
<1>1. SUFFICES ASSUME entry # NoThing, thing # NoThing, pending = <<>>, meddled = (IF stopped THEN 1 ELSE 0),
                      NEW a \in Stored[sort]
               PROVE  \/ thing[a] = (IF a = "definition" THEN Given ELSE Meant(a))
                      \/ stopped /\ a = "owner" /\ thing[a] = Default
      BY DEF CreatedAsSaid
<1>2. sort \in Creatable /\ entry \in Forms(sort) /\ Whole # Invalid BY <1>1 DEF DInv, DShape
<1>3. Wanted(sort, entry, a) = (IF a = "definition" THEN Given ELSE Meant(a)) BY DEF Wanted, Meant, Unheeded
<1>4. Plain => /\ Complete[a] = Wanted(sort, entry, a)
               /\ Begun[a] = Wanted(sort, entry, a) \/ (Len(Whole) = 2 /\ a = "owner" /\ Begun[a] = Default)
      BY <1>2, WholeScript
<1>5. Len(Whole) = 2 => Tail(Whole) # <<>> BY <1>2, WholeScript
<1>6. CASE stopped
  <2>1. Plain /\ thing = Begun BY <1>1, <1>6 DEF DInv, Making
  <2> QED BY <2>1, <1>3, <1>4, <1>6
<1>7. CASE ~stopped
  <2>1. Plain /\ (thing = Complete \/ (Len(Whole) # 2 /\ thing = Begun)) BY <1>1, <1>5, <1>7 DEF DInv, Making
  <2> QED BY <2>1, <1>3, <1>4
<1> QED BY <1>6, <1>7

\* An object a Create panel has made has every field as the form said it and
\* the default for the rest, or its script stopped before the owner was set
\* (ddl.go: each BuildCreate... writes every field of its form, once).
THEOREM CreatedAsSaidAlways == DefinitionSpec => []CreatedAsSaid
BY DefinitionInvariant, CreatedFollows, PTL

\* The types of the Create panels and of the properties panels.
THEOREM DefinitionTypeCorrect == DefinitionSpec => []DefinitionTypeOK
<1>1. DInv => DefinitionTypeOK BY DEF DInv, DShape, Reading, DefinitionTypeOK
<1> QED BY <1>1, DefinitionInvariant, PTL
-----------------------------------------------------------------------------
(* The script of the SQL tab.                                              *)

\* The values field a was read with while the panel was read.
Known(a) == {AsRead(v) : v \in had[a]}

\* A field some statement says is one that is said, one no statement says is
\* the default.
LEMMA MakesSaid ==
    ASSUME NEW k \in DOMAIN Stored, NEW s, DOMAIN s \subseteq 1 .. 5, NEW a \in Stored[k], NEW V,
           \A i \in DOMAIN s : a \in DOMAIN s[i].set => s[i].set[a] \in V,
           (\E i \in DOMAIN s : a \in DOMAIN s[i].set) \/ Default \in V
    PROVE  Makes(k, s)[a] \in V
<1> DEFINE says == {i \in DOMAIN s : a \in DOMAIN s[i].set}
<1>1. Makes(k, s)[a] = IF says = {} THEN Default ELSE s[Max(says)].set[a] BY DEF Makes
<1>2. CASE says = {} BY <1>1, <1>2
<1>3. CASE says # {}
  <2>1. says \subseteq 1 .. 5 OBVIOUS
  <2>2. Max(says) \in says
    <3> HIDE DEF says
    <3> QED BY <1>3, <2>1, EndsOf
  <2> DEFINE m == Max(says)
  <2>3. m \in DOMAIN s /\ a \in DOMAIN s[m].set BY <2>2
  <2>4. Makes(k, s)[a] = s[m].set[a] BY <1>1, <1>3
  <2> HIDE DEF m
  <2> QED BY <2>3, <2>4
<1> QED BY <1>2, <1>3

\* A field the object has is no mark, and a value that was read is not one
\* the server refuses.
LEMMA MakesThing ==
    ASSUME NEW k \in DOMAIN Stored, NEW s PROVE Makes(k, s) # NoThing
<1>1. DOMAIN Makes(k, s) = Stored[k] BY DEF Makes
<1> QED BY <1>1, NotAMark

\* The panel has been read to its end and the object is there.
ReadAll == DInv /\ PanelOpen /\ NextSection = "none" /\ thing # NoThing

\* Every field has been read, and never as a value the server refuses.
LEMMA KnownClean ==
    ASSUME ReadAll, NEW a \in Stored[sort]
    PROVE  "refused" \notin Known(a) /\ Known(a) # {}
BY DEF ReadAll, DInv, Reading, Known, AsRead

\* A panel read to its end has every section it asks for, or knows that its
\* read failed; a panel whose general section fails is an error page.
LEMMA AllRead ==
    ASSUME ReadAll
    PROVE  /\ sort \in DOMAIN Stored /\ seen["general"] # Failing
           /\ \A s \in Asks(sort) : s \in DOMAIN seen /\ (seen[s] = Failing \/ Fits(sort, had, seen[s], s))
           /\ Fits(sort, had, seen["general"], "general")
<1>1. sort \in DOMAIN Stored /\ seen["general"] # Failing /\ DOMAIN seen = Sections
      BY DEF ReadAll, DInv, DShape, Reading
<1>2. \A s \in Asks(sort) : seen[s] # Unread /\ s \in Sections BY <1>1, NextIs, AsksSections DEF ReadAll
<1>3. \A s \in Sections : seen[s] \in {Unread, Failing} \/ Fits(sort, had, seen[s], s)
      BY DEF ReadAll, DInv, Reading
<1>4. "general" \in Asks(sort) BY <1>1, AsksSections
<1> QED BY <1>1, <1>2, <1>3, <1>4

\* A script of one statement that says what was read, or an alter statement
\* for the comment besides.
LEMMA OneScript ==
    ASSUME ReadAll, NEW g, NEW S, S \subseteq Stored[sort], \A a \in S : g[a] \in Known(a),
           SqlTab(sort) = Script(g, S)
    PROVE  Rebuilt(sort) # NoThing /\ \A a \in S : Rebuilt(sort)[a] \in Known(a)
<1> DEFINE c == Stmt("create", Only(g, S))
           s == <<c>>
<1>1. SqlTab(sort) = s BY DEF Script
<1>2. c.set = Only(g, S) BY DEF Stmt
<1>3. DOMAIN c.set = S /\ \A a \in S : c.set[a] = g[a] BY <1>2 DEF Only
<1> HIDE DEF c
<1>4. DOMAIN s = {1} /\ s[1] = c /\ s # <<>> OBVIOUS
<1>5. sort \in DOMAIN Stored BY AllRead
<1> HIDE DEF s
<1>6. "refused" \notin {s[1].set[a] : a \in DOMAIN s[1].set} BY <1>3, <1>4, KnownClean
<1>7. Rebuilt(sort) = Makes(sort, s) BY <1>1, <1>4, <1>6 DEF Rebuilt
<1>8. ASSUME NEW a \in S PROVE Makes(sort, s)[a] \in Known(a)
  <2>1. \A i \in DOMAIN s : a \in DOMAIN s[i].set => s[i].set[a] \in Known(a) BY <1>3, <1>4
  <2>2. 1 \in DOMAIN s /\ a \in DOMAIN s[1].set BY <1>3, <1>4
  <2>3. DOMAIN s \subseteq 1 .. 5 BY <1>4
  <2> HIDE DEF Known
  <2> QED BY <1>5, <2>1, <2>2, <2>3, MakesSaid
<1> QED BY <1>5, <1>7, <1>8, MakesThing

\* Which is two statements if the object has a comment, and one if not.
LEMMA CommentScript ==
    ASSUME ReadAll, NEW g, NEW S, S \subseteq Stored[sort], "comment" \in Stored[sort] \ S,
           \A a \in S \cup {"comment"} : g[a] \in Known(a),
           SqlTab(sort) = Script(g, S) \o CommentOn(g)
    PROVE  Rebuilt(sort) # NoThing /\ \A a \in S \cup {"comment"} : Rebuilt(sort)[a] \in Known(a)
<1> DEFINE c == Stmt("create", Only(g, S))
           d == Stmt("alter", [comment |-> g["comment"]])
           s == SqlTab(sort)
<1>1. s = IF g["comment"] = Default THEN <<c>> ELSE <<c, d>>
  <2>1. Script(g, S) = <<c>> BY DEF Script
  <2>2. CASE g["comment"] = Default
    <3>1. CommentOn(g) = <<>> BY <2>2 DEF CommentOn
    <3>2. s = <<c>> \o <<>> BY <2>1, <3>1
    <3> HIDE DEF c, s
    <3>3. s = <<c>> BY <3>2
    <3> QED BY <2>2, <3>3
  <2>3. CASE g["comment"] # Default
    <3>1. CommentOn(g) = <<d>> BY <2>3 DEF CommentOn
    <3>2. s = <<c>> \o <<d>> BY <2>1, <3>1
    <3> HIDE DEF c, d, s
    <3>3. s = <<c, d>> BY <3>2, TwoOfOne
    <3> QED BY <2>3, <3>3
  <2> QED BY <2>2, <2>3
<1>2. c.set = Only(g, S) /\ d.set = [comment |-> g["comment"]] BY DEF Stmt
<1>3. /\ DOMAIN c.set = S /\ \A a \in S : c.set[a] = g[a]
      /\ DOMAIN d.set = {"comment"} /\ d.set["comment"] = g["comment"] BY <1>2 DEF Only
<1> HIDE DEF c, d, s
<1>4. /\ DOMAIN s \subseteq 1 .. 5 /\ 1 \in DOMAIN s /\ s[1] = c /\ s # <<>>
      /\ \A i \in DOMAIN s : s[i] = c \/ (i = 2 /\ s[i] = d)
      /\ g["comment"] # Default => 2 \in DOMAIN s /\ s[2] = d
  <2>1. CASE g["comment"] = Default
    <3>1. s = <<c>> BY <1>1, <2>1
    <3> QED BY <2>1, <3>1
  <2>2. CASE g["comment"] # Default
    <3>1. s = <<c, d>> BY <1>1, <2>2
    <3> QED BY <3>1
  <2> QED BY <2>1, <2>2
<1>5. sort \in DOMAIN Stored BY AllRead
<1>6. "refused" \notin {s[1].set[a] : a \in DOMAIN s[1].set} BY <1>3, <1>4, KnownClean
<1>7. Rebuilt(sort) = Makes(sort, s) BY <1>4, <1>6 DEF Rebuilt, s
<1>8. ASSUME NEW a \in S \cup {"comment"} PROVE Makes(sort, s)[a] \in Known(a)
  <2>1. \A i \in DOMAIN s : a \in DOMAIN s[i].set => s[i].set[a] = g[a] BY <1>3, <1>4
  <2>2. (\E i \in DOMAIN s : a \in DOMAIN s[i].set) \/ g[a] = Default BY <1>3, <1>4
  <2>3. g[a] \in Known(a) /\ a \in Stored[sort] OBVIOUS
  <2> HIDE DEF Known
  <2>4. \A i \in DOMAIN s : a \in DOMAIN s[i].set => s[i].set[a] \in Known(a) BY <2>1, <2>3
  <2> QED BY <1>4, <1>5, <2>2, <2>3, <2>4, MakesSaid
<1> QED BY <1>5, <1>7, <1>8, MakesThing

\* What a script of the SQL tab shall be.
Faithful == Rebuilt(sort) # NoThing /\ \A a \in Stored[sort] \ Omitted : Rebuilt(sort)[a] \in Known(a)

\* Then the script makes the object that was read, as far as it says.
LEMMA FaithfulRebuilds == ASSUME Faithful PROVE SqlRebuilds
BY DEF Faithful, SqlRebuilds, Known

\* The general row of a panel that reads all of Stored in one query.
LEMMA GeneralRow ==
    ASSUME ReadAll
    PROVE  /\ DOMAIN seen["general"] = Reads(sort, "general")
           /\ \A a \in Reads(sort, "general") : seen["general"][a] \in Known(a)
BY AllRead DEF Fits, Known

\* The definition, unless that read failed: then there is no script.
LEMMA DefinitionRow ==
    ASSUME ReadAll, sort \in {"view", "matview", "function", "procedure"}
    PROVE  \/ seen["definition"] = Failing /\ "definition" \in DOMAIN seen
           \/ /\ seen["definition"] # Failing /\ DOMAIN seen["definition"] = Reads(sort, "definition")
              /\ \A a \in Reads(sort, "definition") : seen["definition"][a] \in Known(a)
<1>1. "definition" \in Asks(sort) BY AllRead, AsksOf DEF Types
<1>2. seen["definition"] = Failing \/ Fits(sort, had, seen["definition"], "definition") BY <1>1, AllRead
<1> QED BY <1>1, <1>2, AllRead DEF Fits, Known

\* A view or a function whose definition could not be read has no script.
LEMMA NoScript ==
    ASSUME ReadAll, sort \in {"view", "matview", "function", "procedure"}, seen["definition"] = Failing
    PROVE  SqlRebuilds
<1>1. SqlTab(sort) = <<>> BY DEF SqlTab, Types
<1>2. Rebuilt(sort) = NoThing BY <1>1 DEF Rebuilt
<1> QED BY <1>2 DEF SqlRebuilds

\* The scripts of one statement, and those with a comment besides.
LEMMA FaithfulSequence == ASSUME ReadAll, sort = "sequence" PROVE Faithful
<1> DEFINE g == seen["general"]
           S == {"type", "start", "increment", "minvalue", "maxvalue", "cache", "cycle"}
<1>1. SqlTab(sort) = Script(g, S) \o CommentOn(g) BY DEF SqlTab, Types, BuildCreateSequenceScript
<1>2. S \cup {"comment"} \subseteq Reads(sort, "general") BY SinglePanels DEF Stored, OneQueryKinds, WholeKinds, Beyond
<1>3. \A a \in S \cup {"comment"} : g[a] \in Known(a) BY <1>2, GeneralRow
<1>4. S \subseteq Stored[sort] /\ "comment" \in Stored[sort] \ S BY DEF Stored
<1>5. Stored[sort] \ Omitted \subseteq S \cup {"comment"} BY DEF Stored, Omitted, Types
<1> HIDE DEF g, S
<1> QED BY <1>1, <1>3, <1>4, <1>5, CommentScript DEF Faithful

\* A schema.
LEMMA FaithfulSchema == ASSUME ReadAll, sort = "schema" PROVE Faithful
<1> DEFINE g == seen["general"]
           S == {"owner"}
<1>1. SqlTab(sort) = Script(g, S) \o CommentOn(g) BY DEF SqlTab, Types, BuildCreateSchemaScript
<1>2. S \cup {"comment"} \subseteq Reads(sort, "general") BY SinglePanels DEF Stored, OneQueryKinds, WholeKinds, Beyond
<1>3. \A a \in S \cup {"comment"} : g[a] \in Known(a) BY <1>2, GeneralRow
<1>4. S \subseteq Stored[sort] /\ "comment" \in Stored[sort] \ S BY DEF Stored
<1>5. Stored[sort] \ Omitted \subseteq S \cup {"comment"} BY DEF Stored, Omitted, Types
<1> HIDE DEF g, S
<1> QED BY <1>1, <1>3, <1>4, <1>5, CommentScript DEF Faithful

\* A role, but for its password, its members and its settings.
LEMMA FaithfulRole == ASSUME ReadAll, sort = "role" PROVE Faithful
<1> DEFINE g == seen["general"]
           S == {"login", "superuser", "createdb", "createrole", "inherit", "replication", "connlimit", "validuntil"}
<1>1. SqlTab(sort) = Script(g, S) \o CommentOn(g) BY DEF SqlTab, Types, BuildCreateRoleScript
<1>2. S \cup {"comment"} \subseteq Reads(sort, "general") BY SinglePanels DEF Stored, OneQueryKinds, WholeKinds, Beyond
<1>3. \A a \in S \cup {"comment"} : g[a] \in Known(a) BY <1>2, GeneralRow
<1>4. S \subseteq Stored[sort] /\ "comment" \in Stored[sort] \ S BY DEF Stored
<1>5. Stored[sort] \ Omitted \subseteq S \cup {"comment"} BY DEF Stored, Omitted, Types
<1> HIDE DEF g, S
<1> QED BY <1>1, <1>3, <1>4, <1>5, CommentScript DEF Faithful

\* A tablespace.
LEMMA FaithfulTablespace == ASSUME ReadAll, sort = "tablespace" PROVE Faithful
<1> DEFINE g == seen["general"]
           S == {"owner", "location"}
<1>1. SqlTab(sort) = Script(g, S) \o CommentOn(g) BY DEF SqlTab, Types, BuildCreateTablespaceScript
<1>2. S \cup {"comment"} \subseteq Reads(sort, "general") BY SinglePanels DEF Stored, OneQueryKinds, WholeKinds, Beyond
<1>3. \A a \in S \cup {"comment"} : g[a] \in Known(a) BY <1>2, GeneralRow
<1>4. S \subseteq Stored[sort] /\ "comment" \in Stored[sort] \ S BY DEF Stored
<1>5. Stored[sort] \ Omitted \subseteq S \cup {"comment"} BY DEF Stored, Omitted, Types
<1> HIDE DEF g, S
<1> QED BY <1>1, <1>3, <1>4, <1>5, CommentScript DEF Faithful

\* An extension.
LEMMA FaithfulExtension == ASSUME ReadAll, sort = "extension" PROVE Faithful
<1> DEFINE g == seen["general"]
           S == {"schema", "version"}
<1>1. SqlTab(sort) = Script(g, S) \o CommentOn(g) BY DEF SqlTab, Types, BuildCreateExtensionScript
<1>2. S \cup {"comment"} \subseteq Reads(sort, "general") BY SinglePanels DEF Stored, OneQueryKinds, WholeKinds, Beyond
<1>3. \A a \in S \cup {"comment"} : g[a] \in Known(a) BY <1>2, GeneralRow
<1>4. S \subseteq Stored[sort] /\ "comment" \in Stored[sort] \ S BY DEF Stored
<1>5. Stored[sort] \ Omitted \subseteq S \cup {"comment"} BY DEF Stored, Omitted, Types
<1> HIDE DEF g, S
<1> QED BY <1>1, <1>3, <1>4, <1>5, CommentScript DEF Faithful

\* A policy.
LEMMA FaithfulPolicy == ASSUME ReadAll, sort = "policy" PROVE Faithful
<1> DEFINE g == seen["general"]
           S == {"permissive", "for", "roles", "using", "check"}
<1>1. SqlTab(sort) = Script(g, S)
  <2>1. SqlTab(sort) = Script(g, Stored["policy"]) BY DEF SqlTab, Types, BuildCreatePolicyScript
  <2>2. Stored["policy"] = S BY DEF Stored
  <2> HIDE DEF g, S
  <2> QED BY <2>1, <2>2
<1>2. S \subseteq Reads(sort, "general") BY SinglePanels DEF Stored, OneQueryKinds, WholeKinds, Beyond
<1>3. \A a \in S : g[a] \in Known(a) BY <1>2, GeneralRow
<1>4. S \subseteq Stored[sort] BY DEF Stored
<1>5. Stored[sort] \ Omitted \subseteq S BY DEF Stored, Omitted, Types
<1> HIDE DEF g, S
<1> QED BY <1>1, <1>3, <1>4, <1>5, OneScript DEF Faithful

\* A constraint: its definition is all that is said.
LEMMA FaithfulConstraint == ASSUME ReadAll, sort = "constraint" PROVE Faithful
<1> DEFINE g == seen["general"]
           S == {"definition"}
<1>1. SqlTab(sort) = Script(g, S) BY DEF SqlTab, Types, AddConstraint
<1>2. S \subseteq Reads(sort, "general") BY SinglePanels DEF Stored, OneQueryKinds, WholeKinds, Beyond
<1>3. \A a \in S : g[a] \in Known(a) BY <1>2, GeneralRow
<1>4. S \subseteq Stored[sort] BY DEF Stored
<1>5. Stored[sort] \ Omitted \subseteq S BY DEF Stored, Omitted, Types
<1> HIDE DEF g, S
<1> QED BY <1>1, <1>3, <1>4, <1>5, OneScript DEF Faithful

\* An event trigger.
LEMMA FaithfulEventtrigger == ASSUME ReadAll, sort = "eventtrigger" PROVE Faithful
<1> DEFINE g == seen["general"]
           S == {"event", "tags", "function"}
<1>1. SqlTab(sort) = Script(g, S) BY DEF SqlTab, Types, BuildCreateEventTriggerScript
<1>2. S \subseteq Reads(sort, "general") BY SinglePanels DEF Stored, OneQueryKinds, WholeKinds, Beyond
<1>3. \A a \in S : g[a] \in Known(a) BY <1>2, GeneralRow
<1>4. S \subseteq Stored[sort] BY DEF Stored
<1>5. Stored[sort] \ Omitted \subseteq S BY DEF Stored, Omitted, Types
<1> HIDE DEF g, S
<1> QED BY <1>1, <1>3, <1>4, <1>5, OneScript DEF Faithful

\* A language.
LEMMA FaithfulLanguage == ASSUME ReadAll, sort = "language" PROVE Faithful
<1> DEFINE g == seen["general"]
           S == {"trusted", "handler", "inline", "validator"}
<1>1. SqlTab(sort) = Script(g, S) BY DEF SqlTab, Types, BuildCreateLanguageScript
<1>2. S \subseteq Reads(sort, "general") BY SinglePanels DEF Stored, OneQueryKinds, WholeKinds, Beyond
<1>3. \A a \in S : g[a] \in Known(a) BY <1>2, GeneralRow
<1>4. S \subseteq Stored[sort] BY DEF Stored
<1>5. Stored[sort] \ Omitted \subseteq S BY DEF Stored, Omitted, Types
<1> HIDE DEF g, S
<1> QED BY <1>1, <1>3, <1>4, <1>5, OneScript DEF Faithful

\* An index, as the server writes it.
LEMMA FaithfulIndex == ASSUME ReadAll, sort = "index" PROVE Faithful
<1> DEFINE g == seen["general"]
           S == {"columns", "method", "unique", "include", "storage", "where"}
<1>0. DOMAIN g \ {"owner", "comment", "enabled", "tablespace"} = S BY GeneralRow, SinglePanels DEF Stored, OneQueryKinds, WholeKinds, Beyond
<1>1. SqlTab(sort) = Script(g, S)
  <2>1. SqlTab(sort) = ServerDefinition(g) BY DEF SqlTab, Types
  <2> HIDE DEF g, S
  <2> QED BY <1>0, <2>1 DEF ServerDefinition
<1>2. S \subseteq Reads(sort, "general") BY SinglePanels DEF Stored, OneQueryKinds, WholeKinds, Beyond
<1>3. \A a \in S : g[a] \in Known(a) BY <1>2, GeneralRow
<1>4. S \subseteq Stored[sort] BY DEF Stored
<1>5. Stored[sort] \ Omitted \subseteq S BY DEF Stored, Omitted, Types
<1> HIDE DEF g, S
<1> QED BY <1>1, <1>3, <1>4, <1>5, OneScript DEF Faithful

\* A trigger, as the server writes it.
LEMMA FaithfulTrigger == ASSUME ReadAll, sort = "trigger" PROVE Faithful
<1> DEFINE g == seen["general"]
           S == {"timing", "events", "function", "constraint", "deferrable", "level", "condition"}
<1>0. DOMAIN g \ {"owner", "comment", "enabled", "tablespace"} = S BY GeneralRow, SinglePanels DEF Stored, OneQueryKinds, WholeKinds, Beyond
<1>1. SqlTab(sort) = Script(g, S)
  <2>1. SqlTab(sort) = ServerDefinition(g) BY DEF SqlTab, Types
  <2> HIDE DEF g, S
  <2> QED BY <1>0, <2>1 DEF ServerDefinition
<1>2. S \subseteq Reads(sort, "general") BY SinglePanels DEF Stored, OneQueryKinds, WholeKinds, Beyond
<1>3. \A a \in S : g[a] \in Known(a) BY <1>2, GeneralRow
<1>4. S \subseteq Stored[sort] BY DEF Stored
<1>5. Stored[sort] \ Omitted \subseteq S BY DEF Stored, Omitted, Types
<1> HIDE DEF g, S
<1> QED BY <1>1, <1>3, <1>4, <1>5, OneScript DEF Faithful

\* A rule, as the server writes it.
LEMMA FaithfulRule == ASSUME ReadAll, sort = "rule" PROVE Faithful
<1> DEFINE g == seen["general"]
           S == {"event", "action", "do", "where"}
<1>0. DOMAIN g \ {"owner", "comment", "enabled", "tablespace"} = S BY GeneralRow, SinglePanels DEF Stored, OneQueryKinds, WholeKinds, Beyond
<1>1. SqlTab(sort) = Script(g, S)
  <2>1. SqlTab(sort) = ServerDefinition(g) BY DEF SqlTab, Types
  <2> HIDE DEF g, S
  <2> QED BY <1>0, <2>1 DEF ServerDefinition
<1>2. S \subseteq Reads(sort, "general") BY SinglePanels DEF Stored, OneQueryKinds, WholeKinds, Beyond
<1>3. \A a \in S : g[a] \in Known(a) BY <1>2, GeneralRow
<1>4. S \subseteq Stored[sort] BY DEF Stored
<1>5. Stored[sort] \ Omitted \subseteq S BY DEF Stored, Omitted, Types
<1> HIDE DEF g, S
<1> QED BY <1>1, <1>3, <1>4, <1>5, OneScript DEF Faithful

\* The definition of a view is read on its own, and so is what the server
\* writes of a function.
LEMMA RebuildsDefinition ==
    ASSUME ReadAll, sort \in {"view", "matview", "function", "procedure"}
    PROVE  SqlRebuilds
<1> DEFINE d == seen["definition"]
           S == Reads(sort, "definition")
<1>1. CASE d = Failing BY <1>1, NoScript
<1>2. CASE d # Failing
  <2>1. DOMAIN d = S /\ \A a \in S : d[a] \in Known(a) BY <1>2, DefinitionRow
  <2>2. S \subseteq Stored[sort] /\ "owner" \notin S /\ "comment" \notin S BY DoublePanels DEF Reads
  <2>3. SqlTab(sort) = Script(d, S)
    <3>1. CASE sort \in {"view", "matview"}
      <4>1. SqlTab(sort) = Script(d, {"definition"}) BY <1>2, <3>1 DEF SqlTab, Types, BuildCreateViewScript, BuildCreateMatViewScript
      <4>2. S = {"definition"} BY <3>1, DoublePanels
      <4> QED BY <4>1, <4>2
    <3>2. CASE sort \in {"function", "procedure"}
      <4>1. SqlTab(sort) = ServerDefinition(d) BY <1>2, <3>2 DEF SqlTab, Types
      <4>2. "enabled" \notin S /\ "tablespace" \notin S
        <5>1. "enabled" \notin Stored[sort] /\ "tablespace" \notin Stored[sort] BY <3>2 DEF Stored, Routine
        <5> QED BY <5>1, <2>2
      <4> HIDE DEF d, S
      <4>3. DOMAIN d \ {"owner", "comment", "enabled", "tablespace"} = S BY <2>1, <2>2, <4>2
      <4> QED BY <4>1, <4>3 DEF ServerDefinition
    <3> QED BY <3>1, <3>2
  <2>4. Stored[sort] \ Omitted \subseteq S
    <3>1. {"owner", "comment"} \subseteq Omitted BY DEF Omitted, Types
    <3>2. CASE sort \in {"view", "matview"}
      <4>1. Omitted = {"owner", "options", "comment"} BY <3>2 DEF Omitted, Types
      <4> QED BY <3>2, <4>1, DoublePanels DEF Stored
    <3>3. CASE sort \in {"function", "procedure"} BY <3>1, <3>3, DoublePanels
    <3> QED BY <3>2, <3>3
  <2> HIDE DEF d, S
  <2>5. Faithful BY <2>1, <2>2, <2>3, <2>4, OneScript DEF Faithful
  <2> QED BY <2>5, FaithfulRebuilds
<1> QED BY <1>1, <1>2

\* A script of one statement with a value the server refuses makes nothing.
LEMMA Refused ==
    ASSUME NEW s, SqlTab(sort) = s, NEW a, a \in DOMAIN s[1].set, s[1].set[a] = "refused"
    PROVE  Rebuilt(sort) = NoThing
BY DEF Rebuilt

\* What a Script(g, S) says.
LEMMA ScriptSays ==
    ASSUME NEW g, NEW S
    PROVE  /\ DOMAIN Script(g, S) = {1} /\ Script(g, S) # <<>>
           /\ DOMAIN Script(g, S)[1].set = S /\ \A a \in S : Script(g, S)[1].set[a] = g[a]
<1> DEFINE c == Stmt("create", Only(g, S))
<1>1. c.set = Only(g, S) BY DEF Stmt
<1>2. DOMAIN c.set = S /\ \A a \in S : c.set[a] = g[a] BY <1>1 DEF Only
<1>3. Script(g, S) = <<c>> BY DEF Script
<1> HIDE DEF c
<1> QED BY <1>2, <1>3

\* A cast whose function is overloaded cannot be made from its name alone:
\* the server refuses the script. Any other is made as it was read.
LEMMA RebuildsCast == ASSUME ReadAll, sort = "cast" PROVE SqlRebuilds
<1> DEFINE g == seen["general"]
           S == {"context", "method", "function"}
           h == [g EXCEPT !["function"] = IF @ = "overloaded" THEN "refused" ELSE @]
<1>1. SqlTab(sort) = Script(h, S) BY DEF SqlTab, Types, BuildCreateCastScript
<1>2. S \subseteq Stored[sort] /\ Stored[sort] \ Omitted \subseteq S BY DEF Stored, Omitted, Types
<1>3. DOMAIN g = Stored[sort] /\ \A a \in S : g[a] \in Known(a) BY <1>2, GeneralRow, SinglePanels DEF OneQueryKinds, WholeKinds
<1>4. CASE g["function"] = "overloaded"
  <2>1. h["function"] = "refused" BY <1>2, <1>3, <1>4
  <2>2. "overloaded" \in had["function"]
    <3>1. g["function"] \in Known("function") BY <1>3
    <3> QED BY <1>4, <3>1 DEF Known, AsRead
  <2> HIDE DEF h
  <2>3. "function" \in DOMAIN Script(h, S)[1].set /\ Script(h, S)[1].set["function"] = "refused" BY <2>1, ScriptSays
  <2>4. Rebuilt(sort) = NoThing BY <1>1, <2>3, Refused
  <2> QED BY <2>2, <2>4 DEF SqlRebuilds
<1>5. CASE g["function"] # "overloaded"
  <2>1. \A a \in S : h[a] = g[a] BY <1>2, <1>3, <1>5
  <2> HIDE DEF g, h, S
  <2>2. \A a \in S : h[a] \in Known(a) BY <1>3, <2>1
  <2>3. Faithful BY <1>1, <1>2, <2>2, OneScript DEF Faithful
  <2> QED BY <2>3, FaithfulRebuilds
<1> QED BY <1>4, <1>5

\* A database whose locale is that of template1 is made as it was read; of
\* any other the server refuses the script.
LEMMA RebuildsDatabase == ASSUME ReadAll, sort = "database" PROVE SqlRebuilds
<1> DEFINE g == seen["general"]
           S == {"owner", "encoding", "collate", "ctype", "tablespace", "connlimit"}
           h == [a \in DOMAIN g |-> IF a \in Locale /\ g[a] # Default THEN "refused" ELSE g[a]]
           s == SqlTab(sort)
<1>1. s = Script(h, S) \o CommentOn(g) BY DEF SqlTab, Types, BuildCreateDatabaseScript
<1>2. S \cup {"comment"} \subseteq Reads(sort, "general") BY SinglePanels DEF Stored, OneQueryKinds, Beyond
<1>3. DOMAIN g = Reads(sort, "general") /\ \A a \in S \cup {"comment"} : g[a] \in Known(a) BY <1>2, GeneralRow
<1>4. S \subseteq Stored[sort] /\ "comment" \in Stored[sort] \ S BY DEF Stored
<1>5. Stored[sort] \ Omitted \subseteq S \cup {"comment"} BY DEF Stored, Omitted, Types
<1>6. Locale \subseteq S BY DEF Locale
<1>7. \A a \in S \cup {"comment"} : h[a] = IF a \in Locale /\ g[a] # Default THEN "refused" ELSE g[a]
      BY <1>2, <1>3
<1>8. CommentOn(h) = CommentOn(g)
  <2>1. h["comment"] = g["comment"] BY <1>7 DEF Locale
  <2> HIDE DEF g, h
  <2> QED BY <2>1 DEF CommentOn
<1> HIDE DEF g, h, S
<1>9. CASE \E a \in Locale : g[a] # Default
  <2>1. PICK a \in Locale : g[a] # Default BY <1>9
  <2>2. h[a] = "refused" BY <1>6, <1>7, <2>1
  <2>3. s[1] = Stmt("create", Only(h, S))
    <3> DEFINE c == Stmt("create", Only(h, S))
               d == Stmt("alter", [comment |-> g["comment"]])
    <3>1. Script(h, S) = <<c>> BY DEF Script
    <3>2. CommentOn(g) = <<>> \/ CommentOn(g) = <<d>> BY DEF CommentOn
    <3> HIDE DEF c, d
    <3>3. (<<c>> \o <<>>)[1] = c /\ <<c>> \o <<d>> = <<c, d>> BY TwoOfOne
    <3>4. (<<c>> \o <<d>>)[1] = c BY <3>3
    <3>5. s[1] = c BY <1>1, <3>1, <3>2, <3>3, <3>4
    <3> QED BY <3>5 DEF c
  <2>4. s[1].set = Only(h, S) BY <2>3 DEF Stmt
  <2>5. a \in DOMAIN s[1].set /\ s[1].set[a] = "refused" BY <1>6, <2>1, <2>2, <2>4 DEF Only
  <2>6. Rebuilt(sort) = NoThing
    <3> HIDE DEF s
    <3>1. SqlTab(sort) = s BY DEF s
    <3> QED BY <2>5, <3>1, Refused
  <2>7. had[a] # {Default}
    <3>1. g[a] \in Known(a) BY <1>3, <1>6, <2>1
    <3> QED BY <2>1, <3>1 DEF Known, AsRead, Default
  <2> QED BY <2>1, <2>6, <2>7 DEF SqlRebuilds
<1>10. CASE ~\E a \in Locale : g[a] # Default
  <2>1. \A a \in S \cup {"comment"} : h[a] \in Known(a)
    <3> HIDE DEF Known
    <3> QED BY <1>3, <1>7, <1>10
  <2>2. Faithful BY <1>1, <1>4, <1>5, <1>8, <2>1, CommentScript DEF Faithful
  <2> QED BY <2>2, FaithfulRebuilds
<1> QED BY <1>9, <1>10

\* The options of a wrapper are written as the server lists them, which it
\* does not take back; a wrapper without options is made as it was read.
LEMMA RebuildsWrapper == ASSUME ReadAll, sort = "wrapper" PROVE SqlRebuilds
<1> DEFINE g == seen["general"]
           S == {"handler", "validator", "options"}
           h == [g EXCEPT !["options"] = IF @ = Default THEN @ ELSE "refused"]
<1>1. SqlTab(sort) = Script(h, S) BY DEF SqlTab, Types, BuildCreateForeignDataWrapperScript
<1>2. S \subseteq Stored[sort] /\ Stored[sort] \ Omitted \subseteq S BY DEF Stored, Omitted, Types
<1>3. DOMAIN g = Stored[sort] /\ \A a \in S : g[a] \in Known(a) BY <1>2, GeneralRow, SinglePanels DEF OneQueryKinds, WholeKinds
<1>4. CASE g["options"] # Default
  <2>1. h["options"] = "refused" BY <1>2, <1>3, <1>4
  <2>2. had["options"] # {Default}
    <3>1. g["options"] \in Known("options") BY <1>3
    <3> QED BY <1>4, <3>1 DEF Known, AsRead, Default
  <2> HIDE DEF h
  <2>3. "options" \in DOMAIN Script(h, S)[1].set /\ Script(h, S)[1].set["options"] = "refused" BY <2>1, ScriptSays
  <2>4. Rebuilt(sort) = NoThing BY <1>1, <2>3, Refused
  <2> QED BY <2>2, <2>4 DEF SqlRebuilds
<1>5. CASE g["options"] = Default
  <2>1. \A a \in S : h[a] = g[a] BY <1>2, <1>3, <1>5
  <2> HIDE DEF g, h, S
  <2>2. \A a \in S : h[a] \in Known(a) BY <1>3, <2>1
  <2>3. Faithful BY <1>1, <1>2, <2>2, OneScript DEF Faithful
  <2> QED BY <2>3, FaithfulRebuilds
<1> QED BY <1>4, <1>5

\* Only the parts of a type matter, and only they are read.
LEMMA RebuildsType == ASSUME ReadAll, sort \in Types PROVE SqlRebuilds
<1> DEFINE p == seen["parts"]
           S == {"parts"}
<1>1. SqlTab(sort) = Script(IF p # Failing THEN p ELSE [parts |-> IF sort = "range" THEN "refused" ELSE "none"], S)
      BY DEF SqlTab, Types, CreateType
<1>2. S \subseteq Stored[sort] /\ Stored[sort] \ Omitted \subseteq S BY DEF Stored, OfTypes, Omitted, Types
<1>3. "parts" \in Asks(sort) BY AllRead, AsksOf DEF Types
<1>4. "parts" \in DOMAIN seen /\ (p = Failing \/ Fits(sort, had, p, "parts")) BY <1>3, AllRead
<1>5. Reads(sort, "parts") = S BY DoublePanels
<1>6. CASE p # Failing
  <2>1. SqlTab(sort) = Script(p, S) BY <1>1, <1>6
  <2>2. \A a \in S : p[a] \in Known(a) BY <1>4, <1>5, <1>6 DEF Fits, Known
  <2> HIDE DEF p, S
  <2>3. Faithful BY <1>2, <2>1, <2>2, OneScript DEF Faithful
  <2> QED BY <2>3, FaithfulRebuilds
<1>7. CASE p = Failing
  <2> DEFINE x == IF sort = "range" THEN "refused" ELSE "none"
             q == [parts |-> x]
             s == Script(q, S)
  <2>1. SqlTab(sort) = s BY <1>1, <1>7
  <2>2. q["parts"] = x OBVIOUS
  <2> HIDE DEF q, x
  <2>3. DOMAIN s = {1} /\ s # <<>> /\ DOMAIN s[1].set = S /\ s[1].set["parts"] = x BY <2>2, ScriptSays
  <2> HIDE DEF s
  <2>4. CASE sort = "range"
    <3>1. Rebuilt(sort) = NoThing BY <2>1, <2>3, <2>4, Refused DEF x
    <3> QED BY <3>1, <2>4, <1>7 DEF SqlRebuilds
  <2>5. CASE sort # "range"
    <3>1. "refused" \notin {s[1].set[a] : a \in DOMAIN s[1].set} BY <2>3, <2>5 DEF x
    <3>2. Rebuilt(sort) = Makes(sort, s) BY <2>1, <2>3, <3>1 DEF Rebuilt
    <3>3. Rebuilt(sort) # NoThing BY <3>2, MakesThing, AllRead
    <3>4. Makes(sort, s)["parts"] \in {"none"}
      <4>1. s[1].set["parts"] = "none" BY <2>3, <2>5 DEF x
      <4>2. \A i \in DOMAIN s : "parts" \in DOMAIN s[i].set => s[i].set["parts"] \in {"none"} BY <2>3, <4>1
      <4>3. DOMAIN s \subseteq 1 .. 5 /\ 1 \in DOMAIN s /\ "parts" \in DOMAIN s[1].set /\ "parts" \in Stored[sort]
            BY <1>2, <2>3
      <4> QED BY <4>2, <4>3, MakesSaid, AllRead
    <3>5. \A a \in Stored[sort] \ Omitted : a = "parts" /\ Rebuilt(sort)[a] = "none" BY <1>2, <3>2, <3>4
    <3>6. \E t \in DOMAIN seen : seen[t] = Failing /\ "parts" \in Reads(sort, t) BY <1>4, <1>5, <1>7
    <3> QED BY <3>3, <3>5, <3>6 DEF SqlRebuilds
  <2> QED BY <2>4, <2>5
<1> QED BY <1>6, <1>7

\* A domain, of two reads: without the checks when theirs failed.
LEMMA RebuildsDomain == ASSUME ReadAll, sort = "domain" PROVE SqlRebuilds
<1> DEFINE g == seen["general"]
           c == seen["checks"]
           known == IF c = Failing THEN Default ELSE c["checks"]
           h == [a \in DOMAIN g \cup {"checks"} |-> IF a = "checks" THEN known ELSE g[a]]
           S == {"base", "default", "notnull", "checks"}
<1>1. SqlTab(sort) = Script(h, S) BY DEF SqlTab, Types, CreateDomain
<1>2. S \subseteq Stored[sort] /\ Stored[sort] \ Omitted \subseteq S BY DEF Stored, Omitted, Types
<1>3. /\ DOMAIN g = {"base", "default", "notnull", "owner", "comment"}
      /\ \A a \in DOMAIN g : g[a] \in Known(a) BY GeneralRow, DoublePanels
<1>4. "checks" \in Asks(sort) BY AllRead, AsksOf DEF Types
<1>5. "checks" \in DOMAIN seen /\ (c = Failing \/ Fits(sort, had, c, "checks")) BY <1>4, AllRead
<1>6. Reads(sort, "checks") = {"checks"} BY DoublePanels
<1>7. h["checks"] = known /\ \A a \in S \ {"checks"} : h[a] = g[a] /\ h[a] \in Known(a) BY <1>3
<1>8. CASE c # Failing
  <2>1. known \in Known("checks") BY <1>5, <1>6, <1>8 DEF Fits, Known
  <2>2. \A a \in S : h[a] \in Known(a) BY <1>7, <2>1
  <2> HIDE DEF h, S
  <2>3. Faithful BY <1>1, <1>2, <2>2, OneScript DEF Faithful
  <2> QED BY <2>3, FaithfulRebuilds
<1>9. CASE c = Failing
  <2> DEFINE s == Script(h, S)
  <2>0. known = Default BY <1>9
  <2> HIDE DEF h
  <2>1. DOMAIN s = {1} /\ s # <<>> /\ DOMAIN s[1].set = S /\ \A a \in S : s[1].set[a] = h[a] BY ScriptSays
  <2> HIDE DEF s
  <2>2. "refused" \notin {s[1].set[a] : a \in DOMAIN s[1].set}
    <3>1. \A a \in S \ {"checks"} : h[a] # "refused" BY <1>2, <1>7, KnownClean
    <3> QED BY <2>0, <2>1, <3>1, <1>7 DEF Default
  <2>3. Rebuilt(sort) = Makes(sort, s) BY <1>1, <2>1, <2>2 DEF Rebuilt, s
  <2>4. ASSUME NEW a \in S \ {"checks"} PROVE Makes(sort, s)[a] \in Known(a)
    <3>1. \A i \in DOMAIN s : a \in DOMAIN s[i].set => s[i].set[a] \in Known(a) BY <2>1, <1>7
    <3>2. 1 \in DOMAIN s /\ a \in DOMAIN s[1].set BY <2>1
    <3>3. DOMAIN s \subseteq 1 .. 5 /\ a \in Stored[sort] BY <2>1, <1>2
    <3> HIDE DEF Known
    <3> QED BY <3>1, <3>2, <3>3, MakesSaid, AllRead
  <2>5. Rebuilt(sort) # NoThing BY <2>3, MakesThing, AllRead
  <2>6. Makes(sort, s)["checks"] \in {Default}
    <3>1. s[1].set["checks"] = Default BY <1>7, <2>0, <2>1
    <3>2. \A i \in DOMAIN s : "checks" \in DOMAIN s[i].set => s[i].set["checks"] \in {Default} BY <2>1, <3>1
    <3>3. DOMAIN s \subseteq 1 .. 5 /\ "checks" \in Stored[sort] BY <2>1, <1>2
    <3> QED BY <3>2, <3>3, MakesSaid, AllRead
  <2>7. \A a \in Stored[sort] \ Omitted :
           Rebuilt(sort)[a] \in Known(a) \/ (a = "checks" /\ Rebuilt(sort)[a] = Default)
        BY <1>2, <2>3, <2>4, <2>6
  <2>8. \E t \in DOMAIN seen : seen[t] = Failing /\ "checks" \in Reads(sort, t) BY <1>5, <1>6, <1>9
  <2> QED BY <2>5, <2>7, <2>8 DEF SqlRebuilds, Known
<1> QED BY <1>8, <1>9

\* A pair and what comes after it.
LEMMA OneMore == ASSUME NEW c, NEW d, NEW f PROVE <<c, d>> \o <<>> = <<c, d>> /\ <<c, d>> \o <<f>> = <<c, d, f>>
<1>1. <<c, d>> \o <<>> = <<c, d>> OBVIOUS
<1> DEFINE s == <<c, d>> \o <<f>>
<1>2. s \in Seq({c, d, f}) /\ Len(s) = 3 OBVIOUS
<1>3. s[1] = c /\ s[2] = d /\ s[3] = f OBVIOUS
<1>0. <<c, d>> \o <<f>> = s OBVIOUS
<1> HIDE DEF s
<1>4. s = <<s[1], s[2], s[3]>> BY <1>2
<1> QED BY <1>0, <1>1, <1>3, <1>4

\* A publication: of all tables or of none, its owner and its comment.
LEMMA RebuildsPublication == ASSUME ReadAll, sort = "publication" PROVE SqlRebuilds
<1> DEFINE g == seen["general"]
           h == [g EXCEPT !["tables"] = IF @ = "all" THEN @ ELSE Default]
           S == {"tables", "publish"}
           c == Stmt("create", Only(h, S))
           d == Stmt("alter", [owner |-> g["owner"]])
           f == Stmt("alter", [comment |-> g["comment"]])
           s == SqlTab(sort)
<1>1. s = IF g["comment"] = Default THEN <<c, d>> ELSE <<c, d, f>>
  <2>1. s = (<<c>> \o <<d>>) \o CommentOn(g) BY DEF SqlTab, Types, BuildCreatePublicationScript, Script
  <2>2. CommentOn(g) = IF g["comment"] = Default THEN <<>> ELSE <<f>> BY DEF CommentOn
  <2> HIDE DEF c, d, f, s
  <2>3. <<c>> \o <<d>> = <<c, d>> BY TwoOfOne
  <2>4. <<c, d>> \o <<>> = <<c, d>> /\ <<c, d>> \o <<f>> = <<c, d, f>> BY OneMore
  <2> QED BY <2>1, <2>2, <2>3, <2>4
<1>2. /\ S \subseteq Stored[sort] /\ Stored[sort] = S \cup {"owner", "comment"}
      /\ Omitted = (IF "all" \in had["tables"] THEN {} ELSE {"tables"}) BY DEF Stored, Omitted, Types
<1>3. DOMAIN g = Stored[sort] /\ \A a \in Stored[sort] : g[a] \in Known(a) BY GeneralRow, SinglePanels DEF OneQueryKinds, WholeKinds
<1>4. "all" \in had["tables"] <=> g["tables"] = "all" BY DEF ReadAll, DInv, Reading
<1>5. h["publish"] = g["publish"] /\ h["tables"] = IF g["tables"] = "all" THEN "all" ELSE Default BY <1>2, <1>3
<1>6. /\ c.set = Only(h, S) /\ d.set = [owner |-> g["owner"]] /\ f.set = [comment |-> g["comment"]] BY DEF Stmt
<1> HIDE DEF h
<1>7. /\ DOMAIN c.set = S /\ c.set["publish"] = h["publish"] /\ c.set["tables"] = h["tables"]
      /\ DOMAIN d.set = {"owner"} /\ d.set["owner"] = g["owner"]
      /\ DOMAIN f.set = {"comment"} /\ f.set["comment"] = g["comment"] BY <1>6 DEF Only
<1> HIDE DEF c, d, f, s, g
<1>8. /\ DOMAIN s \subseteq 1 .. 5 /\ {1, 2} \subseteq DOMAIN s /\ s[1] = c /\ s[2] = d /\ s # <<>>
      /\ \A i \in DOMAIN s : s[i] \in {c, d} \/ (i = 3 /\ s[i] = f)
      /\ g["comment"] # Default => 3 \in DOMAIN s /\ s[3] = f
  <2>1. CASE g["comment"] = Default
    <3>1. s = <<c, d>> BY <1>1, <2>1
    <3> QED BY <2>1, <3>1
  <2>2. CASE g["comment"] # Default
    <3>1. s = <<c, d, f>> BY <1>1, <2>2
    <3> QED BY <3>1
  <2> QED BY <2>1, <2>2
<1>9. "refused" \notin {s[1].set[a] : a \in DOMAIN s[1].set}
  <2>1. h["publish"] # "refused" BY <1>2, <1>3, <1>5, KnownClean
  <2>2. h["tables"] # "refused" BY <1>5 DEF Default
  <2> QED BY <1>7, <1>8, <2>1, <2>2
<1>10. Rebuilt(sort) = Makes(sort, s) BY <1>8, <1>9 DEF Rebuilt, s
<1>11. ASSUME NEW a \in Stored[sort] \ Omitted PROVE Makes(sort, s)[a] \in Known(a)
  <2>1. a = "tables" => h["tables"] = g["tables"] BY <1>2, <1>4, <1>5
  <2>2. \A i \in DOMAIN s : a \in DOMAIN s[i].set => s[i].set[a] = g[a] BY <1>2, <1>5, <1>7, <1>8, <2>1
  <2>3. (\E i \in DOMAIN s : a \in DOMAIN s[i].set) \/ g[a] = Default
    <3>1. a \in {"tables", "publish", "owner", "comment"} BY <1>2
    <3>2. CASE a \in S
      <4>1. 1 \in DOMAIN s /\ a \in DOMAIN s[1].set BY <3>2, <1>7, <1>8
      <4> QED BY <4>1
    <3>3. CASE a = "owner"
      <4>1. 2 \in DOMAIN s /\ a \in DOMAIN s[2].set BY <3>3, <1>7, <1>8
      <4> QED BY <4>1
    <3>4. CASE a = "comment" /\ g[a] # Default
      <4>1. 3 \in DOMAIN s /\ a \in DOMAIN s[3].set BY <3>4, <1>7, <1>8
      <4> QED BY <4>1
    <3> QED BY <3>1, <3>2, <3>3, <3>4
  <2>4. g[a] \in Known(a) BY <1>3
  <2> HIDE DEF Known
  <2>5. \A i \in DOMAIN s : a \in DOMAIN s[i].set => s[i].set[a] \in Known(a) BY <2>2, <2>4
  <2> QED BY <1>8, <2>3, <2>4, <2>5, MakesSaid, AllRead
<1>12. Faithful BY <1>10, <1>11, MakesThing, AllRead DEF Faithful
<1> QED BY <1>12, FaithfulRebuilds

\* A table: the columns as they are written, its key, and what is known of it.
LEMMA RebuildsTable == ASSUME ReadAll, sort = "table" PROVE SqlRebuilds
<1> DEFINE cols == seen["columns"]
           key  == seen["key"]
           info == seen["info"]
           known == info # Failing
           none == IF key["key"] = Default THEN "none" ELSE "refused"
           x == IF cols = Failing THEN none ELSE ColumnLine(cols["columns"])
           t == IF known THEN info["tablespace"] ELSE Default
           c == Stmt("create", [columns |-> x, key |-> key["key"], tablespace |-> t])
           d == Stmt("alter", [owner |-> info["owner"]])
           s == SqlTab(sort)
           S == {"columns", "key", "tablespace"}
<1>1. /\ {"columns", "key", "info"} \subseteq DOMAIN seen
      /\ cols = Failing \/ Fits(sort, had, cols, "columns")
      /\ key = Failing \/ Fits(sort, had, key, "key")
      /\ info = Failing \/ Fits(sort, had, info, "info")
  <2>1. Asks(sort) = {"general", "columns", "constraints", "key", "info"} BY AllRead, AsksOf DEF Types
  <2> QED BY <2>1, AllRead
<1>2. /\ S \subseteq Stored[sort] /\ Stored[sort] \ Omitted = S \cup {"owner"} /\ "owner" \in Stored[sort]
      BY DEF Stored, Omitted, Types
<1>3. CASE key = Failing
  <2>1. SqlTab(sort) = <<>> BY <1>3 DEF SqlTab, Types
  <2>2. Rebuilt(sort) = NoThing BY <2>1 DEF Rebuilt
  <2> QED BY <1>1, <1>3, <2>2 DEF SqlRebuilds
<1>4. CASE key # Failing
  <2>1. s = IF known THEN <<c, d>> ELSE <<c>>
    <3>1. s = <<c>> \o (IF known THEN <<d>> ELSE <<>>) BY <1>4 DEF SqlTab, Types, BuildCreateTableScript
    <3> HIDE DEF c, d, s, known
    <3>2. <<c>> \o <<d>> = <<c, d>> BY TwoOfOne
    <3>3. <<c>> \o <<>> = <<c>> OBVIOUS
    <3> QED BY <3>1, <3>2, <3>3
  <2>2. key["key"] \in Known("key") BY <1>1, <1>4, TablePanel DEF Fits, Known
  <2>3. known => info["owner"] \in Known("owner") /\ info["tablespace"] \in Known("tablespace")
        BY <1>1, TablePanel DEF Fits, Known
  <2>4. cols # Failing => cols["columns"] \in Known("columns") BY <1>1, TablePanel DEF Fits, Known
  <2>5. c.set = [columns |-> x, key |-> key["key"], tablespace |-> t] /\ d.set = [owner |-> info["owner"]] BY DEF Stmt
  <2>6. t \in Known("tablespace") \/ (t = Default /\ info = Failing) BY <2>3
  <2>7. \/ x = "refused" /\ (cols = Failing \/ had["columns"] \cap {"array", "collated", "reserved"} # {})
        \/ x # "refused" /\ x \in Known("columns")
        \/ x = "none" /\ cols = Failing
        \/ x = "imprecise" /\ "precise" \in had["columns"]
        \/ x = "plain" /\ "generated" \in had["columns"]
    <3>1. CASE cols = Failing BY <3>1
    <3>2. CASE cols # Failing
      <4>1. PICK v \in had["columns"] : cols["columns"] = AsRead(v) BY <2>4, <3>2 DEF Known
      <4>2. "refused" \notin Known("columns") BY <1>2, KnownClean
      <4>3. x = ColumnLine(AsRead(v)) /\ AsRead(v) \in Known("columns") BY <3>2, <4>1 DEF Known
      <4>4. CASE v \in {"array", "collated", "reserved"} BY <4>1, <4>3, <4>4 DEF ColumnLine, AsRead
      <4>5. CASE v \in {"precise", "generated"} BY <4>1, <4>3, <4>5 DEF ColumnLine, AsRead
      <4>6. CASE v \notin {"array", "collated", "reserved", "precise", "generated"}
        <5>1. x = AsRead(v) BY <4>3, <4>6 DEF ColumnLine, AsRead
        <5> QED BY <5>1, <4>2, <4>3
      <4> QED BY <4>4, <4>5, <4>6
    <3> QED BY <3>1, <3>2
  <2> HIDE DEF x, t
  <2>8. /\ DOMAIN c.set = S /\ c.set["columns"] = x /\ c.set["key"] = key["key"] /\ c.set["tablespace"] = t
        /\ DOMAIN d.set = {"owner"} /\ d.set["owner"] = info["owner"] BY <2>5
  <2> HIDE DEF c, d, s
  <2>9. /\ DOMAIN s \subseteq 1 .. 5 /\ 1 \in DOMAIN s /\ s[1] = c /\ s # <<>>
        /\ \A i \in DOMAIN s : s[i] = c \/ (s[i] = d /\ known)
        /\ known => 2 \in DOMAIN s /\ s[2] = d
    <3>1. CASE known
      <4>1. s = <<c, d>> BY <2>1, <3>1
      <4> QED BY <3>1, <4>1
    <3>2. CASE ~known
      <4>1. s = <<c>> BY <2>1, <3>2
      <4> QED BY <3>2, <4>1
    <3> QED BY <3>1, <3>2
  <2>10. CASE x = "refused"
    <3>1. Rebuilt(sort) = NoThing BY <2>8, <2>9, <2>10, Refused DEF s
    <3> QED BY <1>1, <2>7, <2>10, <3>1 DEF SqlRebuilds
  <2>11. CASE x # "refused"
    <3>1. t # "refused" /\ key["key"] # "refused"
      <4>1. "refused" \notin Known("tablespace") /\ "refused" \notin Known("key") BY <1>2, KnownClean
      <4> QED BY <4>1, <2>2, <2>6 DEF Default
    <3>2. "refused" \notin {s[1].set[a] : a \in DOMAIN s[1].set} BY <2>8, <2>9, <2>11, <3>1
    <3>3. Rebuilt(sort) = Makes(sort, s) BY <2>9, <3>2 DEF Rebuilt, s
    <3>4. ASSUME NEW a \in S \cup {"owner"}, NEW V,
                 a \in S => c.set[a] \in V,
                 a = "owner" => (IF known THEN info["owner"] ELSE Default) \in V
          PROVE  Makes(sort, s)[a] \in V
      <4>1. \A i \in DOMAIN s : a \in DOMAIN s[i].set => s[i].set[a] \in V BY <3>4, <2>8, <2>9
      <4>2. (\E i \in DOMAIN s : a \in DOMAIN s[i].set) \/ Default \in V
        <5>1. CASE a \in S
          <6>1. 1 \in DOMAIN s /\ a \in DOMAIN s[1].set BY <2>8, <2>9, <5>1
          <6> QED BY <6>1
        <5>2. CASE a = "owner" /\ known
          <6>1. 2 \in DOMAIN s /\ a \in DOMAIN s[2].set BY <2>8, <2>9, <5>2
          <6> QED BY <6>1
        <5>3. CASE a = "owner" /\ ~known BY <3>4, <5>3
        <5> QED BY <5>1, <5>2, <5>3
      <4>3. a \in Stored[sort] BY <1>2
      <4> HIDE DEF S
      <4> QED BY <2>9, <4>1, <4>2, <4>3, MakesSaid, AllRead
    <3>5. Makes(sort, s)["key"] \in Known("key")
      <4>1. c.set["key"] \in Known("key") BY <2>2, <2>8
      <4> HIDE DEF Known
      <4> QED BY <4>1, <3>4
    <3>6. Makes(sort, s)["tablespace"] \in Known("tablespace")
          \/ (info = Failing /\ Makes(sort, s)["tablespace"] = Default)
      <4>1. \/ c.set["tablespace"] \in Known("tablespace")
            \/ info = Failing /\ c.set["tablespace"] \in {Default} BY <2>6, <2>8
      <4>2. CASE c.set["tablespace"] \in Known("tablespace")
        <5> HIDE DEF Known
        <5> QED BY <4>2, <3>4
      <4>3. CASE info = Failing /\ c.set["tablespace"] \in {Default}
        <5>1. Makes(sort, s)["tablespace"] \in {Default} BY <4>3, <3>4
        <5> QED BY <4>3, <5>1
      <4> QED BY <4>1, <4>2, <4>3
    <3>7. Makes(sort, s)["owner"] \in Known("owner") \/ (info = Failing /\ Makes(sort, s)["owner"] = Default)
      <4>1. CASE known
        <5> DEFINE V == Known("owner")
        <5>1. info["owner"] \in V BY <4>1, <2>3
        <5>2. (IF known THEN info["owner"] ELSE Default) \in V BY <4>1, <5>1
        <5>3. "owner" \notin S OBVIOUS
        <5> HIDE DEF V, known, info, S
        <5>4. Makes(sort, s)["owner"] \in V BY <5>2, <5>3, <3>4
        <5> QED BY <5>4 DEF V
      <4>2. CASE ~known
        <5> DEFINE V == {Default}
        <5>1. (IF known THEN info["owner"] ELSE Default) \in V BY <4>2
        <5>2. "owner" \notin S OBVIOUS
        <5> HIDE DEF V, known, S
        <5>3. Makes(sort, s)["owner"] \in V BY <5>1, <5>2, <3>4
        <5> QED BY <4>2, <5>3 DEF V, known
      <4> QED BY <4>1, <4>2
    <3>8. Makes(sort, s)["columns"] = x
      <4>1. c.set["columns"] \in {x} BY <2>8
      <4>2. Makes(sort, s)["columns"] \in {x} BY <4>1, <3>4
      <4> QED BY <4>2
    <3>9. Rebuilt(sort) # NoThing BY <3>3, MakesThing, AllRead
    <3>10. \A a \in Stored[sort] \ Omitted :
              \/ Rebuilt(sort)[a] \in Known(a)
              \/ a \in {"owner", "tablespace"} /\ info = Failing /\ Rebuilt(sort)[a] = Default
              \/ a = "columns" /\ cols = Failing /\ Rebuilt(sort)[a] = "none"
              \/ a = "columns" /\ Rebuilt(sort)[a] = "imprecise" /\ "precise" \in had[a]
              \/ a = "columns" /\ Rebuilt(sort)[a] = "plain" /\ "generated" \in had[a]
      <4>1. Rebuilt(sort)["columns"] = x BY <3>3, <3>8
      <4>2. \/ Rebuilt(sort)["columns"] \in Known("columns")
            \/ cols = Failing /\ Rebuilt(sort)["columns"] = "none"
            \/ Rebuilt(sort)["columns"] = "imprecise" /\ "precise" \in had["columns"]
            \/ Rebuilt(sort)["columns"] = "plain" /\ "generated" \in had["columns"] BY <4>1, <2>7, <2>11
      <4> HIDE DEF Known
      <4> QED BY <1>2, <3>3, <3>5, <3>6, <3>7, <4>2
    <3>11. /\ info = Failing => \A a \in {"owner", "tablespace"} :
                \E sec \in DOMAIN seen : seen[sec] = Failing /\ a \in Reads(sort, sec)
           /\ cols = Failing => \E sec \in DOMAIN seen : seen[sec] = Failing /\ "columns" \in Reads(sort, sec)
      <4>1. Reads(sort, "info") = {"owner", "tablespace"} /\ Reads(sort, "columns") = {"columns"} BY TablePanel
      <4> QED BY <4>1, <1>1
    <3> QED BY <3>9, <3>10, <3>11 DEF SqlRebuilds, Known
  <2> QED BY <2>10, <2>11
<1> QED BY <1>3, <1>4

\* Whatever the kind.
LEMMA RebuildsFollows == ASSUME DInv PROVE SqlRebuilds
<1>1. CASE ~(PanelOpen /\ NextSection = "none" /\ thing # NoThing) BY <1>1 DEF SqlRebuilds
<1>2. CASE PanelOpen /\ NextSection = "none" /\ thing # NoThing
  <2>1. ReadAll /\ sort \in DOMAIN Stored BY <1>2 DEF ReadAll, DInv, DShape
  <2>2. CASE sort \in {"sequence", "schema", "role", "tablespace", "extension", "policy", "constraint",
                       "eventtrigger", "language", "index", "trigger", "rule"}
    <3>1. Faithful BY <2>1, <2>2, FaithfulSequence, FaithfulSchema, FaithfulRole, FaithfulTablespace,
          FaithfulExtension, FaithfulPolicy, FaithfulConstraint, FaithfulEventtrigger, FaithfulLanguage, FaithfulIndex,
          FaithfulTrigger, FaithfulRule
    <3> QED BY <3>1, FaithfulRebuilds
  <2>3. CASE sort \in {"view", "matview", "function", "procedure"} BY <2>1, <2>3, RebuildsDefinition
  <2>4. CASE sort \in Types BY <2>1, <2>4, RebuildsType
  <2>5. CASE sort \in {"cast", "database", "wrapper", "domain", "publication", "table"}
        BY <2>1, <2>5, RebuildsCast, RebuildsDatabase, RebuildsWrapper, RebuildsDomain, RebuildsPublication,
           RebuildsTable
  <2>6. DOMAIN Stored = Creatable \cup Types \cup {"constraint", "domain", "cast", "language", "wrapper", "eventtrigger"}
        BY StoredKinds DEF Kinds26
  <2> QED BY <2>1, <2>2, <2>3, <2>4, <2>5, <2>6 DEF Creatable
<1> QED BY <1>1, <1>2

\* The script of a properties panel, once the panel is read to its end, makes
\* an object with every field as it was at some moment of the reading; what it
\* leaves out or gets wrong is what Omitted and SqlRebuilds name, or it is a
\* script the server refuses as a whole (properties.go: the panel's Handle...
\* queries, script.go: the BuildCreate...Script functions).
THEOREM SqlRebuildsAlways == DefinitionSpec => []SqlRebuilds
BY DefinitionInvariant, RebuildsFollows, PTL
-----------------------------------------------------------------------------
(* The four together: a behaviour of Forms is one of each.                 *)

\* The text the splitter starts from when none has been sent.
LEMMA NoText == {<<>>} \subseteq Texts
<1>1. FlattenSeq(<<>>) = <<>> BY DEF FlattenSeq
<1>2. <<>> \in BoundedSeq(Pieces, MaxPieces)
  <2>1. <<>> \in [1 .. 0 -> Pieces] OBVIOUS
  <2>2. 0 \in 0 .. MaxPieces BY SplitAssumption
  <2> QED BY <2>1, <2>2 DEF BoundedSeq, SeqOf
<1> QED BY <1>1, <1>2 DEF Texts

\* The four start together,
LEMMA FormsStart == Init => AlterInit /\ PrivInit /\ SplitInit(Texts) /\ DefinitionInit(DOMAIN Stored)
<1> SUFFICES ASSUME Init PROVE AlterInit /\ PrivInit /\ SplitInit(Texts) /\ DefinitionInit(DOMAIN Stored) OBVIOUS
<1>1. SplitInit(Texts) BY NoText DEF Init, SplitInit
<1>2. "rule" \in DOMAIN Stored BY StoredKinds DEF Kinds26, Creatable
<1>3. DefinitionInit(DOMAIN Stored) BY <1>2 DEF Init, DefinitionInit
<1> QED BY <1>1, <1>3 DEF Init

\* and each step of one leaves the other three as they were.
LEMMA FormsStep ==
    [Next]_vars => /\ [AlterNext]_alterVars /\ [PrivNext]_privVars
                   /\ [SplitNext]_splitVars /\ [DefinitionNext]_definitionVars
BY DEF Next, vars

\* Forms composes the four components: each of its behaviours is one of the
\* Alter panels, of the privilege panels, of the splitter and of the Create
\* and properties panels (the handlers of the web server, which share nothing
\* but the objects of the database).
THEOREM FormsComposes == Spec => AlterSpec /\ PrivSpec /\ SplitSpec /\ DefinitionSpec
BY FormsStart, FormsStep, PTL DEF Spec, AlterSpec, PrivSpec, SplitSpec, DefinitionSpec

\* So that Forms has what each of them has: its types, and what the forms
\* are made into and left with.
THEOREM FormsTypeCorrect == Spec => []TypeOK
BY FormsComposes, AlterTypeCorrect, PrivTypeCorrect, SplitTypeCorrect, DefinitionTypeCorrect, PTL DEF TypeOK

\* And what the forms are made into and left with.
THEOREM FormsCorrect ==
    Spec => /\ [](EditorInStep /\ AsAsked /\ ListIsAsAsked /\ CreatedAsSaid /\ SqlRebuilds /\ SplitAsServer)
            /\ UntouchedKept /\ CellsLeftAlone
BY FormsComposes, EditorInStepAlways, AsAskedAlways, UntouchedKeptAlways, PrivListCorrect, PrivCellsCorrect,
   CreatedAsSaidAlways, SqlRebuildsAlways, SplitAsServerAlways, PTL
=============================================================================
