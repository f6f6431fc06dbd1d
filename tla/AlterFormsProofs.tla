-------------------------- MODULE AlterFormsProofs --------------------------
(***************************************************************************)
(* Proofs about the Alter panels: what a form is made into, that the       *)
(* script tab keeps in step with the panel, that a script touches only     *)
(* what its user touched, and that one nothing interfered with brings      *)
(* about what its form says.                                               *)
(***************************************************************************)
EXTENDS AlterForms, SplitScriptProofs

\* The values of the fields, the names of the columns; what the catalog holds
\* of an object of kind k, and the forms of its panel.
Values == {Blank, "old", "new", "fine", "rounded", "theirs", "bad"}
ColumnNames == Columns \cup {Blank, "c9"}
Part == [Parts -> Values]
ColumnRow == [name : ColumnNames, part : Part, orig : Part, drop : BOOLEAN, rename : ColumnNames]
ObjectOf(k) ==
    {o \in [schema : {"s1", "s2"}, name : {"n1", "n2", "n9"}, attr : [Attributes[k] -> Values],
            role : [Sides -> SUBSET Roles], cols : [Columns -> [name : ColumnNames, part : Part]],
            added : SUBSET Extras] :
       /\ k # "role" => \A d \in Sides : o.role[d] = {}
       /\ k # "table" => \A c \in Columns : o.cols[c].name = Blank
       /\ \A c, d \in Columns : o.cols[c].name = o.cols[d].name /\ o.cols[c].name # Blank => c = d}
FormOf(k) ==
    {f \in [load : Nat \ {0}, kind : {k}, at : {<<"s1", "n1">>}, newschema : {Blank, "s2"},
            newname : {Blank, "n2"}, attr : [Attributes[k] -> Values], role : [Sides -> SUBSET Roles],
            roleOrig : [Sides -> SUBSET Roles], listed : SUBSET Roles, row : [Columns -> ColumnRow],
            extra : [Extras -> {Blank, "half", "whole"}]] :
       /\ k \notin Movable => f.newschema = Blank
       /\ k = "extension" => f.newname = Blank
       /\ k # "role" => f.role = f.roleOrig
       /\ k # "table" => /\ \A c \in Columns : f.row[c].name = Blank
                         /\ \A x \in Extras : f.extra[x] = Blank
       /\ \A c, d \in Columns : f.row[c].name = f.row[d].name /\ f.row[c].name # Blank => c = d}

\* The statements form f is made into: those that set attributes and grant or
\* revoke memberships, those of the columns and of the lower half of the
\* panel, the one that moves the object and the one that renames it.
SetStatements(f) ==
    {[op |-> "set", at |-> f.at, attrs |-> [a \in S |-> f.attr[a]]] :
        S \in SUBSET {a \in DOMAIN f.attr : f.attr[a] # Blank}}
MemberStatements(f, d) ==
    {[op |-> "grant", at |-> f.at, side |-> d, to |-> r] : r \in f.role[d] \ f.roleOrig[d]}
    \cup {[op |-> "revoke", at |-> f.at, side |-> d, to |-> r] : r \in f.roleOrig[d] \ f.role[d]}
RoleStatements(f) == UNION {MemberStatements(f, d) : d \in Sides}
Changed(f, c) == {p \in Parts : Differs(f.row[c], p)}
Changes(f, c, S) ==
    {[op |-> "column", at |-> f.at, col |-> f.row[c].name, part |-> p, to |-> f.row[c].part[p]] : p \in S}
Drop(f, c) == [op |-> "drop column", at |-> f.at, col |-> f.row[c].name]
Rename(f, c) == [op |-> "rename column", at |-> f.at, col |-> f.row[c].name, to |-> f.row[c].rename]
StatementsOf(f, c) ==
    IF f.row[c].name = Blank THEN {}
    ELSE IF f.row[c].drop THEN {Drop(f, c)}
    ELSE Changes(f, c, Changed(f, c))
         \cup (IF f.row[c].rename \in {Blank, f.row[c].name} THEN {} ELSE {Rename(f, c)})
ColumnsStatements(f) == UNION {StatementsOf(f, c) : c \in Columns}
AddStatements(f) == {[op |-> "add", at |-> f.at, to |-> x] : x \in {y \in Extras : f.extra[y] = "whole"}}

Early(f) == SetStatements(f) \cup RoleStatements(f)
Late(f)  == ColumnsStatements(f) \cup AddStatements(f)
Final(f) == IF f.newschema = Blank THEN f.at[1] ELSE f.newschema
Moves(f) == IF f.newschema = Blank THEN <<>> ELSE <<[op |-> "schema", at |-> f.at, to |-> f.newschema]>>
Renames(f) == RenameTo(f, <<Final(f), f.at[2]>>)
PlaceStatements(f) ==
    (IF f.newschema = Blank THEN {} ELSE {[op |-> "schema", at |-> f.at, to |-> f.newschema]})
    \cup (IF f.newname = Blank THEN {} ELSE {[op |-> "rename", at |-> <<Final(f), f.at[2]>>, to |-> f.newname]})

\* The statements after which a column has another name, or is gone, are the
\* last of that column.
InOrder(s, t) ==
    s.op \in {"drop column", "rename column"} /\ t.op \in {"column", "drop column", "rename column"} => t.col # s.col
Sorted(L) == \A i, j \in DOMAIN L : i < j => InOrder(L[i], L[j])

\* FormStatements T leave out nothing of what the form asks for.
AllSet(f, T) ==
    \A a \in DOMAIN f.attr : f.attr[a] # Blank => \E s \in T : s.op = "set" /\ a \in DOMAIN s.attrs

\* The statements of form f: A sets it up, then it is moved and renamed, and C
\* alters the columns and the rest.
Shaped(f, A, C) ==
    /\ A \in Seq(Early(f)) /\ C \in Seq(Late(f)) /\ (f.kind # "table" => C = <<>>) /\ Sorted(C)
    /\ RoleStatements(f) \subseteq Range(A) /\ Late(f) \subseteq Range(C) /\ AllSet(f, Range(A))

-----------------------------------------------------------------------------
(* What a form is made into.                                               *)

\* The parts of a form of kind k.
LEMMA FormShape ==
    ASSUME NEW k \in Kinds, NEW f \in FormOf(k)
    PROVE  /\ f.kind = k /\ f.at = <<"s1", "n1">> /\ f.at[1] = "s1" /\ f.at[2] = "n1"
           /\ f.attr \in [Attributes[k] -> Values] /\ f.row \in [Columns -> ColumnRow]
           /\ f.role \in [Sides -> SUBSET Roles] /\ f.roleOrig \in [Sides -> SUBSET Roles]
           /\ f.extra \in [Extras -> {Blank, "half", "whole"}]
           /\ f.newschema \in {Blank, "s2"} /\ f.newname \in {Blank, "n2"}
           /\ f.load \in Nat \ {0} /\ f.listed \subseteq Roles
<1> DEFINE R == [load : Nat \ {0}, kind : {k}, at : {<<"s1", "n1">>}, newschema : {Blank, "s2"},
            newname : {Blank, "n2"}, attr : [Attributes[k] -> Values], role : [Sides -> SUBSET Roles],
            roleOrig : [Sides -> SUBSET Roles], listed : SUBSET Roles, row : [Columns -> ColumnRow],
            extra : [Extras -> {Blank, "half", "whole"}]]
<1>1. f \in R BY DEF FormOf
<1>2. f.at = <<"s1", "n1">> BY <1>1
<1> QED BY <1>1, <1>2

\* One statement, or none, sets all of S that is not blank.
LEMMA TogetherSets ==
    ASSUME NEW f, NEW S \in SUBSET DOMAIN f.attr
    PROVE  /\ Together(f, S) \in Seq(SetStatements(f))
           /\ \A a \in S : f.attr[a] # Blank =>
                \E s \in Range(Together(f, S)) : s.op = "set" /\ a \in DOMAIN s.attrs
<1> DEFINE given == {a \in S : f.attr[a] # Blank}
           s == [op |-> "set", at |-> f.at, attrs |-> [a \in given |-> f.attr[a]]]
<1>1. Together(f, S) = IF given = {} THEN <<>> ELSE <<s>> BY DEF Together
<1>2. s \in SetStatements(f)
  <2>1. given \in SUBSET {a \in DOMAIN f.attr : f.attr[a] # Blank} OBVIOUS
  <2> QED BY <2>1 DEF SetStatements
<1>3. s.op = "set" /\ DOMAIN s.attrs = given OBVIOUS
<1> HIDE DEF s
<1>4. CASE given = {} BY <1>1, <1>4
<1>5. CASE given # {}
  <2>1. Together(f, S) = <<s>> BY <1>1, <1>5
  <2>2. Range(<<s>>) = {s} BY DEF Range
  <2> QED BY <1>2, <1>3, <2>1, <2>2
<1> QED BY <1>4, <1>5

\* Owner, schema and name: what sets the owner, then the two moves.
LEMMA OwnerSchemaRename ==
    ASSUME NEW k \in Kinds, NEW f \in FormOf(k), NEW hasOwner \in BOOLEAN, NEW hasSchema \in BOOLEAN,
           hasSchema \/ k \notin Movable
    PROVE  AlterOwnerSchemaRename(f, hasOwner, hasSchema) =
             ((IF hasOwner THEN Together(f, {"owner"}) ELSE <<>>) \o Moves(f)) \o Renames(f)
<1>1. ~hasSchema => f.newschema = Blank BY DEF FormOf
<1>2. (IF hasSchema /\ f.newschema # Blank THEN f.newschema ELSE f.at[1]) = Final(f)
  BY <1>1 DEF Final
<1>3. (IF hasSchema /\ f.newschema # Blank THEN <<[op |-> "schema", at |-> f.at, to |-> f.newschema]>> ELSE <<>>)
        = Moves(f)
  BY <1>1 DEF Moves
<1> QED BY <1>2, <1>3, Zenon DEF AlterOwnerSchemaRename, Renames

\* The statements that move and rename the object.
LEMMA MovesType ==
    ASSUME NEW f
    PROVE  Moves(f) \in Seq(PlaceStatements(f)) /\ Renames(f) \in Seq(PlaceStatements(f))
<1> DEFINE s == [op |-> "schema", at |-> f.at, to |-> f.newschema]
           r == [op |-> "rename", at |-> <<Final(f), f.at[2]>>, to |-> f.newname]
           S == IF f.newschema = Blank THEN {} ELSE {s}
           R == IF f.newname = Blank THEN {} ELSE {r}
<1>1. /\ Moves(f) = (IF f.newschema = Blank THEN <<>> ELSE <<s>>)
      /\ Renames(f) = (IF f.newname = Blank THEN <<>> ELSE <<r>>)
      /\ PlaceStatements(f) = S \cup R
  BY DEF Moves, Renames, RenameTo, PlaceStatements
<1> HIDE DEF s, r
<1>2. <<s>> \in Seq(S \cup {s}) /\ <<r>> \in Seq(R \cup {r}) /\ <<>> \in Seq(S) /\ <<>> \in Seq(R)
  OBVIOUS
<1>3. Moves(f) \in Seq(S) BY <1>1, <1>2
<1>4. Renames(f) \in Seq(R) BY <1>1, <1>2
<1> HIDE DEF S, R
<1> QED BY <1>1, <1>3, <1>4, SeqWidens

\* The image of a finite set is finite.
LEMMA FiniteImage ==
    ASSUME NEW S, IsFiniteSet(S), NEW f, f = [x \in S |-> f[x]] PROVE IsFiniteSet({f[x] : x \in S})
<1> DEFINE T == {f[x] : x \in S}
<1>1. f \in Surjection(S, T) BY DEF Surjection
<1> QED BY <1>1, FS_Surjection

\* Membership returns one statement for each role.
LEMMA MembershipRange ==
    ASSUME NEW f, NEW d, NEW op, NEW rs \in SUBSET Roles,
           NEW T, T = {[op |-> op, at |-> f.at, side |-> d, to |-> r] : r \in rs}
    PROVE  Membership(f, d, op, rs) \in Seq(T) /\ Range(Membership(f, d, op, rs)) = T
<1> DEFINE g == [r \in rs |-> [op |-> op, at |-> f.at, side |-> d, to |-> r]]
<1>1. IsFiniteSet(rs) BY FS_Subset, AlterAssumption
<1>2. {g[r] : r \in rs} = T OBVIOUS
<1>3. g = [r \in rs |-> g[r]] OBVIOUS
<1>4. Membership(f, d, op, rs) = SetToSeq(T) BY DEF Membership
<1> HIDE DEF g
<1>5. IsFiniteSet(T) BY <1>1, <1>2, <1>3, FiniteImage
<1> QED BY <1>4, <1>5, SetToSeqElements

\* A role's panel grants and revokes exactly the memberships that differ.
LEMMA RoleMembership ==
    ASSUME NEW k \in Kinds, NEW f \in FormOf(k)
    PROVE  /\ RoleMembershipStatements(f) \in Seq(RoleStatements(f))
           /\ RoleStatements(f) \subseteq Range(RoleMembershipStatements(f))
<1> DEFINE T == RoleStatements(f)
           Of(d) == Membership(f, d, "grant", ListDiff(f.role[d], f.roleOrig[d]).added)
                    \o Membership(f, d, "revoke", ListDiff(f.role[d], f.roleOrig[d]).removed)
<1>1. ASSUME NEW d \in Sides PROVE Of(d) \in Seq(T) /\ MemberStatements(f, d) \subseteq Range(Of(d))
  <2> DEFINE gs == f.role[d] \ f.roleOrig[d]
             rs == f.roleOrig[d] \ f.role[d]
             G == {[op |-> "grant", at |-> f.at, side |-> d, to |-> r] : r \in gs}
             R == {[op |-> "revoke", at |-> f.at, side |-> d, to |-> r] : r \in rs}
             a == Membership(f, d, "grant", gs)
             b == Membership(f, d, "revoke", rs)
  <2>1. Of(d) = a \o b BY DEF ListDiff
  <2>2. gs \subseteq Roles /\ rs \subseteq Roles BY FormShape
  <2>3. MemberStatements(f, d) = G \cup R /\ MemberStatements(f, d) \subseteq T
    BY DEF MemberStatements, RoleStatements
  <2> HIDE DEF G, R
  <2>4. a \in Seq(G) /\ Range(a) = G BY <2>2, MembershipRange DEF G
  <2>5. b \in Seq(R) /\ Range(b) = R BY <2>2, MembershipRange DEF R
  <2> HIDE DEF a, b, T, Of
  <2>6. a \in Seq(T) /\ b \in Seq(T) BY <2>3, <2>4, <2>5, SeqWidens
  <2> QED BY <2>1, <2>3, <2>4, <2>5, <2>6, ConcatRange
<1>2. Sides = {"memberof", "members"} BY DEF Sides
<1>3. RoleMembershipStatements(f) = Of("memberof") \o Of("members") BY DEF RoleMembershipStatements
<1>4. T = MemberStatements(f, "memberof") \cup MemberStatements(f, "members") BY <1>2 DEF RoleStatements
<1> HIDE DEF T, Of
<1> QED BY <1>1, <1>2, <1>3, <1>4, ConcatRange DEF T

-----------------------------------------------------------------------------
(* The columns.                                                            *)

\* A sequence of at most one statement is in order.
LEMMA SortedShort == Sorted(<<>>) /\ \A s : Sorted(<<s>>) /\ <<s>> \in Seq({s}) /\ Range(<<s>>) = {s}
<1>1. Sorted(<<>>) BY DEF Sorted
<1> SUFFICES ASSUME NEW s PROVE Sorted(<<s>>) /\ <<s>> \in Seq({s}) /\ Range(<<s>>) = {s} BY <1>1
<1>2. DOMAIN <<s>> = {1} /\ <<s>>[1] = s OBVIOUS
<1>3. Sorted(<<s>>) BY <1>2 DEF Sorted
<1> QED BY <1>2, <1>3 DEF Range

\* The statements of one row: what Differs, part by part, and its new name
\* last; or the one that drops it.
LEMMA ColumnRange ==
    ASSUME NEW k \in Kinds, NEW f \in FormOf(k), NEW c \in Columns
    PROVE  /\ ColumnStatements(f, c) \in Seq(StatementsOf(f, c))
           /\ StatementsOf(f, c) \subseteq Range(ColumnStatements(f, c))
           /\ Sorted(ColumnStatements(f, c))
<1> DEFINE r == f.row[c]
           St(p) == [op |-> "column", at |-> f.at, col |-> r.name, part |-> p, to |-> r.part[p]]
           Change(p) == IF Differs(r, p) THEN <<St(p)>> ELSE <<>>
           last == IF r.rename \in {Blank, r.name} THEN <<>> ELSE <<Rename(f, c)>>
           T == StatementsOf(f, c)
           L == ColumnStatements(f, c)
<1>1. L = IF r.name = Blank THEN <<>> ELSE IF r.drop THEN <<Drop(f, c)>>
          ELSE ((Change("type") \o Change("nullable")) \o Change("default")) \o last
  BY DEF ColumnStatements, Drop, Rename
<1>2. Parts = {"type", "nullable", "default"} BY DEF Parts
<1>3. CASE r.name = Blank
  <2>1. L = <<>> /\ T = {} BY <1>1, <1>3 DEF StatementsOf
  <2> HIDE DEF L, T
  <2> QED BY <2>1, SortedShort DEF L, T
<1>4. CASE r.name # Blank /\ r.drop
  <2>1. L = <<Drop(f, c)>> /\ T = {Drop(f, c)} BY <1>1, <1>4 DEF StatementsOf
  <2> HIDE DEF L, T
  <2> QED BY <2>1, SortedShort DEF L, T
<1>5. CASE r.name # Blank /\ ~r.drop
  <2> DEFINE U == Changes(f, c, Changed(f, c))
             V == IF r.rename \in {Blank, r.name} THEN {} ELSE {Rename(f, c)}
             a == Change("type")
             b == Change("nullable")
             d == Change("default")
             m == (a \o b) \o d
  <2>1. T = U \cup V /\ L = m \o last BY <1>1, <1>5 DEF StatementsOf
  <2>2. U = {St(p) : p \in {q \in Parts : Differs(r, q)}} BY DEF Changes, Changed
  <2>3. \A p \in Parts : Differs(r, p) => St(p) \in U BY <2>2
  <2>4. \A p \in Parts : Change(p) \in Seq(U) /\ (Differs(r, p) => St(p) \in Range(Change(p)))
    <3> TAKE p \in Parts
    <3> DEFINE s == St(p)
    <3>1. CASE Differs(r, p)
      <4>1. Change(p) = <<s>> /\ s \in U BY <2>3, <3>1
      <4> HIDE DEF s, U, Change
      <4>2. Range(<<s>>) = {s} /\ <<s>> \in Seq(U) BY <4>1 DEF Range
      <4> QED BY <4>1, <4>2 DEF s
    <3>2. CASE ~Differs(r, p)
      <4>1. Change(p) = <<>> BY <3>2
      <4> HIDE DEF U, Change
      <4> QED BY <3>2, <4>1
    <3> QED BY <3>1, <3>2
  <2>5. last \in Seq(V) /\ V \subseteq Range(last)
    <3> DEFINE s == Rename(f, c)
    <3>1. <<s>> \in Seq({s}) /\ Range(<<s>>) = {s} BY DEF Range
    <3>2. CASE r.rename \in {Blank, r.name} BY <3>2
    <3>3. CASE r.rename \notin {Blank, r.name}
      <4>1. last = <<s>> /\ V = {s} BY <3>3
      <4> HIDE DEF last, V, s
      <4> QED BY <3>1, <4>1
    <3> QED BY <3>2, <3>3
  <2>6. a \in Seq(U) /\ b \in Seq(U) /\ d \in Seq(U) BY <1>2, <2>4
  <2>7. m \in Seq(U) /\ Range(m) = Range(a) \cup Range(b) \cup Range(d)
    <3> HIDE DEF a, b, d, U
    <3>1. a \o b \in Seq(U) /\ Range(a \o b) = Range(a) \cup Range(b) BY <2>6, ConcatRange
    <3> DEFINE e == a \o b
    <3>2. e \in Seq(U) /\ m = e \o d /\ Range(e) = Range(a) \cup Range(b) BY <3>1
    <3> HIDE DEF e, m
    <3>3. e \o d \in Seq(U) /\ Range(e \o d) = Range(e) \cup Range(d) BY <2>6, <3>2, ConcatRange
    <3> QED BY <3>2, <3>3
  <2>8. U \subseteq Range(m)
    <3> SUFFICES ASSUME NEW p \in Parts, Differs(r, p) PROVE St(p) \in Range(m)
      BY <2>2
    <3>1. St(p) \in Range(Change(p)) BY <2>4
    <3> HIDE DEF St, Change, m
    <3> QED BY <1>2, <2>7, <3>1
  <2>9. \A s \in U : s.op = "column"
    <3>1. \A p : St(p).op = "column" OBVIOUS
    <3> HIDE DEF St
    <3> QED BY <2>2, <3>1
  <2>10. last = <<>> \/ Len(last) = 1 OBVIOUS
  <2> HIDE DEF U, V, a, b, d, m, last, T, L
  <2>11. m \in Seq(T) /\ last \in Seq(T) BY <2>1, <2>5, <2>7, SeqWidens
  <2>12. m \o last \in Seq(T) /\ Range(m \o last) = Range(m) \cup Range(last) BY <2>11, ConcatRange
  <2>13. Sorted(m \o last)
    <3> SUFFICES ASSUME NEW i \in DOMAIN (m \o last), NEW j \in DOMAIN (m \o last), i < j
                 PROVE  InOrder((m \o last)[i], (m \o last)[j])
      BY DEF Sorted
    <3>0. /\ Len(last) \in {0, 1} /\ DOMAIN (m \o last) = 1 .. Len(m) + Len(last)
          /\ Len(m) \in Nat
      BY <2>10, <2>11
    <3> DEFINE n == Len(m)
               l == Len(last)
    <3>a. i \in 1 .. n + l /\ j \in 1 .. n + l BY <3>0
    <3> HIDE DEF n, l
    <3>b. n \in Nat /\ l \in {0, 1} BY <3>0 DEF n, l
    <3>c. i \in 1 .. n BY <3>a, <3>b
    <3>1. i \in 1 .. Len(m) BY <3>c DEF n
    <3>2. (m \o last)[i] = m[i] /\ m[i] \in U BY <2>7, <2>11, <3>1
    <3>3. m[i].op = "column" BY <2>9, <3>2
    <3> QED BY <3>2, <3>3 DEF InOrder
  <2> QED BY <2>1, <2>5, <2>8, <2>12, <2>13 DEF T, L
<1> QED BY <1>3, <1>4, <1>5

\* FormStatements that add something may follow any others.
LEMMA SortedWith ==
    ASSUME NEW T, NEW a \in Seq(T), NEW b \in Seq(T), Sorted(a), \A s \in Range(b) : s.op = "add"
    PROVE  Sorted(a \o b)
<1> DEFINE m == Len(a)
           n == Len(b)
<1>1. /\ DOMAIN (a \o b) = 1 .. m + n /\ DOMAIN a = 1 .. m /\ m \in Nat /\ n \in Nat
      /\ \A i \in 1 .. m : (a \o b)[i] = a[i]
      /\ \A i \in m + 1 .. m + n : (a \o b)[i] \in Range(b)
  <2>1. \A i \in m + 1 .. m + n : (a \o b)[i] = b[i - m] /\ i - m \in DOMAIN b OBVIOUS
  <2> QED BY <2>1 DEF Range
<1> HIDE DEF m, n
<1> SUFFICES ASSUME NEW i \in 1 .. m + n, NEW j \in 1 .. m + n, i < j
             PROVE  InOrder((a \o b)[i], (a \o b)[j])
  BY <1>1 DEF Sorted
<1>2. CASE j \in 1 .. m
  <2> i \in 1 .. m BY <1>1, <1>2
  <2> QED BY <1>1, <1>2 DEF Sorted
<1>3. CASE j \in m + 1 .. m + n
  <2> (a \o b)[j].op = "add" BY <1>1, <1>3
  <2> QED BY DEF InOrder
<1> QED BY <1>1, <1>2, <1>3

\* The rows one after the other.
LEMMA ColumnsRange ==
    ASSUME NEW k \in Kinds, NEW f \in FormOf(k)
    PROVE  LET L == FlattenSeq([i \in 1 .. Cardinality(Columns) |-> ColumnStatements(f, SetToSeq(Columns)[i])])
           IN  L \in Seq(ColumnsStatements(f)) /\ ColumnsStatements(f) \subseteq Range(L) /\ Sorted(L)
<1> DEFINE n == Cardinality(Columns)
           q == SetToSeq(Columns)
           parts == [i \in 1 .. n |-> ColumnStatements(f, q[i])]
           T == ColumnsStatements(f)
           R == {x \in T \X T : InOrder(x[1], x[2])}
           L == FlattenSeq(parts)
<1>1. /\ n \in Nat /\ q \in Seq(Columns) /\ Len(q) = n /\ Range(q) = Columns
      /\ \A i, j \in 1 .. n : q[i] = q[j] => i = j
  BY AlterAssumption, FS_CardinalityType, SetToSeqElements
<1> HIDE DEF n, q
<1>2. \A i \in 1 .. n : q[i] \in Columns BY <1>1
<1>3. \A c \in Columns : ColumnStatements(f, c) \in Seq(T)
  <2> TAKE c \in Columns
  <2>1. StatementsOf(f, c) \subseteq T BY DEF ColumnsStatements
  <2> QED BY <2>1, ColumnRange, SeqWidens
<1>4. parts \in Seq(Seq(T)) /\ Len(parts) = n
  <2> HIDE DEF T
  <2> QED BY <1>1, <1>2, <1>3
<1>5. \A i \in 1 .. n : parts[i] = ColumnStatements(f, q[i]) OBVIOUS
<1>6. \A c \in Columns : \A s \in StatementsOf(f, c) : s.col = f.row[c].name /\ s.col # Blank
  <2> TAKE c \in Columns
  <2> TAKE s \in StatementsOf(f, c)
  <2>1. f.row[c].name # Blank BY DEF StatementsOf
  <2>2. \A p : [op |-> "column", at |-> f.at, col |-> f.row[c].name, part |-> p, to |-> f.row[c].part[p]].col
                 = f.row[c].name
    OBVIOUS
  <2>3. \A u \in Changes(f, c, Changed(f, c)) : u.col = f.row[c].name
    BY <2>2 DEF Changes
  <2>4. Drop(f, c).col = f.row[c].name /\ Rename(f, c).col = f.row[c].name BY DEF Drop, Rename
  <2> QED BY <2>1, <2>3, <2>4 DEF StatementsOf
<1>7. \A i \in 1 .. n : \A x, y \in DOMAIN parts[i] : x < y => <<parts[i][x], parts[i][y]>> \in R
  <2> TAKE i \in 1 .. n
  <2> DEFINE l == ColumnStatements(f, q[i])
  <2>1. l \in Seq(T) /\ Sorted(l) BY <1>2, <1>3, ColumnRange
  <2> HIDE DEF T, l
  <2>2. \A x, y \in DOMAIN l : x < y => <<l[x], l[y]>> \in R
    BY <2>1 DEF Sorted
  <2> QED BY <1>5, <2>2 DEF l
<1>8. \A i, j \in 1 .. n : i < j => \A x \in Range(parts[i]), y \in Range(parts[j]) : <<x, y>> \in R
  <2> SUFFICES ASSUME NEW i \in 1 .. n, NEW j \in 1 .. n, i < j, NEW x \in Range(parts[i]), NEW y \in Range(parts[j])
               PROVE  <<x, y>> \in R
    OBVIOUS
  <2>1. q[i] \in Columns /\ q[j] \in Columns /\ q[i] # q[j] BY <1>1, <1>2
  <2>2. x \in StatementsOf(f, q[i]) /\ y \in StatementsOf(f, q[j])
    BY <1>5, <2>1, ColumnRange, RangeType
  <2>3. x.col # y.col BY <1>6, <2>1, <2>2 DEF FormOf
  <2>4. x \in T /\ y \in T BY <2>1, <2>2 DEF ColumnsStatements
  <2> HIDE DEF T
  <2> QED BY <2>3, <2>4 DEF InOrder
<1>9. L \in Seq(T) /\ \A i \in 1 .. n : Range(parts[i]) \subseteq Range(L)
  <2> HIDE DEF parts, T
  <2> QED BY <1>4, FlattenSeqElements
<1>10. T \subseteq Range(L)
  <2> SUFFICES ASSUME NEW c \in Columns, NEW s \in StatementsOf(f, c) PROVE s \in Range(L)
    BY DEF ColumnsStatements
  <2>1. PICK i \in 1 .. n : q[i] = c BY <1>1 DEF Range
  <2>2. s \in Range(parts[i]) BY <1>5, <2>1, ColumnRange
  <2> HIDE DEF L
  <2> QED BY <1>9, <2>2
<1>11. Sorted(L)
  <2>1. \A i, j \in DOMAIN L : i < j => <<L[i], L[j]>> \in R
    <3> HIDE DEF parts, T, R
    <3> QED BY <1>4, <1>7, <1>8, FlattenSeqPairs
  <2> HIDE DEF L, T
  <2> QED BY <2>1 DEF Sorted
<1> HIDE DEF L, T
<1> QED BY <1>9, <1>10, <1>11 DEF L, T, n, q

\* Clause adds what its row of the form describes whole.
LEMMA ClauseRange ==
    ASSUME NEW k \in Kinds, NEW f \in FormOf(k), NEW x \in Extras
    PROVE  /\ Clause(f, x) \in Seq(AddStatements(f))
           /\ f.extra[x] = "whole" => [op |-> "add", at |-> f.at, to |-> x] \in Range(Clause(f, x))
<1> DEFINE s == [op |-> "add", at |-> f.at, to |-> x]
           T == AddStatements(f)
<1>1. CASE f.extra[x] = "whole"
  <2>1. Clause(f, x) = <<s>> BY <1>1 DEF Clause
  <2>2. s \in T BY <1>1 DEF AddStatements
  <2> HIDE DEF s, T
  <2>3. <<s>> \in Seq(T) BY <2>2
  <2> QED BY <2>1, <2>3, SortedShort DEF s, T
<1>2. CASE f.extra[x] # "whole"
  <2>1. Clause(f, x) = <<>> BY <1>2 DEF Clause
  <2> QED BY <1>2, <2>1
<1> QED BY <1>1, <1>2

\* The lower half of the panel, clause by clause.
LEMMA ClausesRange ==
    ASSUME NEW k \in Kinds, NEW f \in FormOf(k),
           NEW clauses, clauses = <<NewColumn(f), BuildForeignKeyClause(f), BuildExclusionClause(f),
                                    BuildAttachPartitionStmt(f), BuildDetachPartitionStmt(f)>>,
           \A i \in DOMAIN clauses : clauses[i] # Error
    PROVE  FlattenSeq(clauses) \in Seq(AddStatements(f)) /\ AddStatements(f) \subseteq Range(FlattenSeq(clauses))
<1> DEFINE T == AddStatements(f)
           xs == <<"column", "foreign key", "exclusion", "attach", "detach">>
<1>1. DOMAIN clauses = 1 .. 5 /\ Len(clauses) = 5 OBVIOUS
<1>a. 1 \in 1 .. 5 /\ 2 \in 1 .. 5 /\ 3 \in 1 .. 5 /\ 4 \in 1 .. 5 /\ 5 \in 1 .. 5 OBVIOUS
<1>b. \A i \in 1 .. 5 : i = 1 \/ i = 2 \/ i = 3 \/ i = 4 \/ i = 5 OBVIOUS
<1>c. xs[1] = "column" /\ xs[2] = "foreign key" /\ xs[3] = "exclusion" /\ xs[4] = "attach" /\ xs[5] = "detach"
  OBVIOUS
<1> HIDE DEF xs
<1>2. \A i \in 1 .. 5 : clauses[i] = Clause(f, xs[i])
  <2>1. /\ clauses[1] = NewColumn(f) /\ clauses[2] = BuildForeignKeyClause(f)
        /\ clauses[3] = BuildExclusionClause(f) /\ clauses[4] = BuildAttachPartitionStmt(f)
        /\ clauses[5] = BuildDetachPartitionStmt(f)
    OBVIOUS
  <2>2. clauses[1] # Error /\ clauses[2] # Error /\ clauses[4] # Error BY <1>1, <1>a, Zenon
  <2>3. clauses[1] = Clause(f, "column") BY <2>1, <2>2, Zenon DEF NewColumn
  <2>4. clauses[2] = Clause(f, "foreign key") BY <2>1, <2>2, Zenon DEF BuildForeignKeyClause
  <2>5. clauses[3] = Clause(f, "exclusion") BY <2>1 DEF BuildExclusionClause
  <2>6. clauses[4] = Clause(f, "attach") BY <2>1, <2>2, Zenon DEF BuildAttachPartitionStmt
  <2>7. clauses[5] = Clause(f, "detach") BY <2>1 DEF BuildDetachPartitionStmt
  <2>b. clauses[1] = Clause(f, xs[1]) /\ clauses[2] = Clause(f, xs[2]) /\ clauses[3] = Clause(f, xs[3])
        /\ clauses[4] = Clause(f, xs[4]) /\ clauses[5] = Clause(f, xs[5])
    BY <2>3, <2>4, <2>5, <2>6, <2>7, <1>c, Zenon
  <2> QED
    <3> TAKE i \in 1 .. 5
    <3>1. CASE i = 1 BY <2>b, <3>1
    <3>2. CASE i = 2 BY <2>b, <3>2
    <3>3. CASE i = 3 BY <2>b, <3>3
    <3>4. CASE i = 4 BY <2>b, <3>4
    <3>5. CASE i = 5 BY <2>b, <3>5
    <3> QED BY <1>b, <3>1, <3>2, <3>3, <3>4, <3>5
<1>3. \A i \in 1 .. 5 : xs[i] \in Extras
  <2> TAKE i \in 1 .. 5
  <2>1. CASE i = 1 BY <1>c, <2>1 DEF Extras
  <2>2. CASE i = 2 BY <1>c, <2>2 DEF Extras
  <2>3. CASE i = 3 BY <1>c, <2>3 DEF Extras
  <2>4. CASE i = 4 BY <1>c, <2>4 DEF Extras
  <2>5. CASE i = 5 BY <1>c, <2>5 DEF Extras
  <2> QED BY <1>b, <2>1, <2>2, <2>3, <2>4, <2>5
<1>4. \A x \in Extras : \E i \in 1 .. 5 : xs[i] = x
  <2> QED BY <1>a, <1>c, Zenon DEF Extras
<1> HIDE DEF T
<1>5. \A i \in 1 .. 5 : clauses[i] \in Seq(T) BY <1>2, <1>3, ClauseRange DEF T
<1>6. clauses \in Seq(Seq(T))
  <2>1. clauses \in [1 .. 5 -> Seq(T)]
    <3>1. clauses = [i \in 1 .. 5 |-> clauses[i]] OBVIOUS
    <3> QED BY <1>5, <3>1
  <2> QED BY <2>1
<1>7. FlattenSeq(clauses) \in Seq(T) /\ \A i \in 1 .. 5 : Range(clauses[i]) \subseteq Range(FlattenSeq(clauses))
  BY <1>1, <1>6, FlattenSeqElements
<1>8. T \subseteq Range(FlattenSeq(clauses))
  <2> SUFFICES ASSUME NEW x \in Extras, f.extra[x] = "whole"
               PROVE  [op |-> "add", at |-> f.at, to |-> x] \in Range(FlattenSeq(clauses))
    BY DEF T, AddStatements
  <2>1. PICK i \in 1 .. 5 : xs[i] = x BY <1>4
  <2>2. [op |-> "add", at |-> f.at, to |-> x] \in Range(clauses[i]) BY <1>2, <2>1, ClauseRange
  <2> QED BY <1>7, <2>2
<1> QED BY <1>7, <1>8 DEF T

-----------------------------------------------------------------------------
(* The script of a form.                                                   *)

\* Concatenation is associative.
LEMMA Associative == \A T : \A s, t, u \in Seq(T) : (s \o t) \o u = s \o (t \o u)
BY ConcatAssociative

\* What the panels of the other kinds leave out.
LEMMA OtherKinds ==
    ASSUME NEW k \in Kinds, NEW f \in FormOf(k)
    PROVE  /\ k # "table" => Late(f) = {}
           /\ k # "role" => RoleStatements(f) = {}
           /\ k \notin Movable => Moves(f) = <<>> /\ Renames(f) = RenameTo(f, f.at)
           /\ DOMAIN f.attr = Attributes[k] /\ f.kind = k
<1>1. ASSUME k # "table" PROVE Late(f) = {}
  <2>1. (\A c \in Columns : f.row[c].name = Blank) /\ \A x \in Extras : f.extra[x] = Blank
    BY <1>1 DEF FormOf
  <2>2. \A c \in Columns : StatementsOf(f, c) = {} BY <2>1 DEF StatementsOf
  <2>3. ColumnsStatements(f) = {} BY <2>2 DEF ColumnsStatements
  <2>4. {y \in Extras : f.extra[y] = "whole"} = {} BY <2>1 DEF Blank
  <2>5. AddStatements(f) = {} BY <2>4 DEF AddStatements
  <2> QED BY <2>3, <2>5 DEF Late
<1>2. ASSUME k # "role" PROVE RoleStatements(f) = {}
  <2>1. f.role = f.roleOrig BY <1>2 DEF FormOf
  <2>2. \A d \in Sides : f.role[d] \ f.roleOrig[d] = {} /\ f.roleOrig[d] \ f.role[d] = {} BY <2>1
  <2>3. \A d \in Sides : MemberStatements(f, d) = {} BY <2>2 DEF MemberStatements
  <2> QED BY <2>3 DEF RoleStatements
<1>3. ASSUME k \notin Movable PROVE Moves(f) = <<>> /\ Renames(f) = RenameTo(f, f.at)
  <2>1. f.newschema = Blank BY <1>3 DEF FormOf
  <2>2. Moves(f) = <<>> /\ Final(f) = f.at[1] BY <2>1 DEF Moves, Final
  <2>3. <<f.at[1], f.at[2]>> = f.at BY FormShape
  <2> QED BY <2>2, <2>3 DEF Renames
<1>4. DOMAIN f.attr = Attributes[k] /\ f.kind = k BY FormShape
<1> QED BY <1>1, <1>2, <1>3, <1>4

\* The script of an object that is no table: what sets it up, then where it
\* goes.
LEMMA PlainShape ==
    ASSUME NEW k \in Kinds, NEW f \in FormOf(k), k # "table", NEW A \in Seq(Early(f)),
           RoleStatements(f) \subseteq Range(A), AllSet(f, Range(A)), NEW L,
           L = (A \o Moves(f)) \o Renames(f)
    PROVE  Shaped(f, A, <<>>) /\ L = ((A \o Moves(f)) \o Renames(f)) \o <<>>
<1>1. Late(f) = {} /\ f.kind = k BY OtherKinds
<1>2. <<>> \in Seq(Late(f)) OBVIOUS
<1>3. Shaped(f, A, <<>>) BY <1>1, <1>2, SortedShort DEF Shaped
<1> DEFINE T == Early(f) \cup PlaceStatements(f)
           m == Moves(f)
           n == Renames(f)
<1>4. m \in Seq(T) /\ n \in Seq(T) /\ A \in Seq(T) BY MovesType, SeqWidens
<1> HIDE DEF T, m, n
<1>5. A \o m \in Seq(T) BY <1>4
<1>6. (A \o m) \o n \in Seq(T) BY <1>4, <1>5
<1>7. ((A \o m) \o n) \o <<>> = (A \o m) \o n BY <1>6, ConcatEmptySeq
<1> QED BY <1>3, <1>7 DEF m, n

\* A statement that sets several attributes.
LEMMA SetsOf ==
    ASSUME NEW k \in Kinds, NEW f \in FormOf(k), NEW S \in SUBSET Attributes[k]
    PROVE  Together(f, S) \in Seq(Early(f))
<1>1. Together(f, S) \in Seq(SetStatements(f)) BY OtherKinds, TogetherSets
<1> QED BY <1>1, SeqWidens DEF Early

\* Kinds with one statement, or none, before the object is moved.
LEMMA OneSet ==
    ASSUME NEW k \in Kinds, NEW f \in FormOf(k), k # "table", k # "role", NEW A, A = Together(f, Attributes[k]),
           RunAlter(f) = (A \o Moves(f)) \o Renames(f)
    PROVE  \E B, C : Shaped(f, B, C) /\ RunAlter(f) = ((B \o Moves(f)) \o Renames(f)) \o C
<1>1. A \in Seq(Early(f)) BY SetsOf
<1>2. AllSet(f, Range(A)) BY OtherKinds, TogetherSets DEF AllSet
<1>3. RoleStatements(f) = {} BY OtherKinds
<1>4. RoleStatements(f) \subseteq Range(A) BY <1>3
<1> QED BY <1>1, <1>2, <1>4, PlainShape

\* Two of them, one after the other.
LEMMA TwoSets ==
    ASSUME NEW k \in Kinds, NEW f \in FormOf(k), NEW S \in SUBSET Attributes[k], NEW T \in SUBSET Attributes[k],
           NEW a, NEW b, a = Together(f, S), b = Together(f, T)
    PROVE  /\ a \o b \in Seq(Early(f))
           /\ \A x \in S \cup T : f.attr[x] # Blank => \E s \in Range(a \o b) : s.op = "set" /\ x \in DOMAIN s.attrs
<1>1. a \in Seq(Early(f)) /\ b \in Seq(Early(f)) BY SetsOf
<1>2. a \o b \in Seq(Early(f)) /\ Range(a \o b) = Range(a) \cup Range(b) BY <1>1, ConcatRange
<1>3. \A x \in S : f.attr[x] # Blank => \E s \in Range(a) : s.op = "set" /\ x \in DOMAIN s.attrs
  BY OtherKinds, TogetherSets
<1>4. \A x \in T : f.attr[x] # Blank => \E s \in Range(b) : s.op = "set" /\ x \in DOMAIN s.attrs
  BY OtherKinds, TogetherSets
<1> QED BY <1>2, <1>3, <1>4

\* Every builder: the attributes and the memberships, then the schema, then
\* the name, and for a table the columns and the clauses after that.
LEMMA AlterShape ==
    ASSUME NEW k \in Kinds, NEW f \in FormOf(k), RunAlter(f) # Error
    PROVE  \E A, C : Shaped(f, A, C) /\ RunAlter(f) = ((A \o Moves(f)) \o Renames(f)) \o C
<1> DEFINE L == RunAlter(f)
           M == Moves(f)
           R == Renames(f)
           Ends == \E A, C : Shaped(f, A, C) /\ RunAlter(f) = ((A \o Moves(f)) \o Renames(f)) \o C
<1>1. f.kind = k /\ DOMAIN f.attr = Attributes[k] BY OtherKinds
<1>2. \A A \in Seq(Early(f)) : A \o <<>> = A /\ <<>> \o A = A BY ConcatEmptySeq
<1>3. /\ Attributes["schema"] = {"owner"} /\ Attributes["tablespace"] = {"owner"} /\ Attributes["publication"] = {"owner"}
      /\ Attributes["table"] = {"owner"} /\ Attributes["view"] = {"owner"} /\ Attributes["matview"] = {"owner"}
      /\ Attributes["function"] = {"owner"} /\ Attributes["procedure"] = {"owner"}
      /\ Attributes["database"] = {"owner", "connlimit", "allowconn"}
      /\ "owner" \in Attributes["sequence"]
      /\ Attributes["extension"] = {"version"} /\ Attributes["index"] = {} /\ Attributes["rule"] = {}
      /\ Attributes["trigger"] = {"enabled"} /\ Attributes["policy"] = {"roles", "using_expr", "with_check_expr"}
  BY DEF Attributes
<1>4. ASSUME k \notin Movable PROVE M = <<>> /\ R = RenameTo(f, f.at) BY <1>4, OtherKinds
<1>5. ASSUME k \in {"tablespace", "publication"}, L = AlterOwnerSchemaRename(f, TRUE, FALSE) PROVE Ends
  <2>1. k \notin Movable BY <1>5 DEF Movable
  <2>2. L = (Together(f, {"owner"}) \o M) \o R BY <1>5, <2>1, OwnerSchemaRename
  <2>3. Attributes[k] = {"owner"} BY <1>3, <1>5
  <2>4. L = (Together(f, Attributes[k]) \o M) \o R BY <2>2, <2>3
  <2>5. k # "table" /\ k # "role" BY <1>5
  <2> QED BY <2>4, <2>5, OneSet
<1>6. ASSUME k \in {"view", "matview", "function", "procedure"}, L = AlterOwnerSchemaRename(f, TRUE, TRUE) PROVE Ends
  <2>1. L = (Together(f, {"owner"}) \o M) \o R BY <1>6, OwnerSchemaRename
  <2>3. Attributes[k] = {"owner"} BY <1>3, <1>6
  <2>4. L = (Together(f, Attributes[k]) \o M) \o R BY <2>1, <2>3
  <2>5. k # "table" /\ k # "role" BY <1>6
  <2> QED BY <2>4, <2>5, OneSet
<1>7. ASSUME k \in {"schema", "trigger", "policy"}, L = Together(f, Attributes[k]) \o RenameTo(f, f.at) PROVE Ends
  <2> DEFINE A == Together(f, Attributes[k])
  <2>1. k \notin Movable BY <1>7 DEF Movable
  <2>2. A \in Seq(Early(f)) BY SetsOf
  <2>3. A \o <<>> = A BY <1>2, <2>2
  <2>4. L = (A \o M) \o R BY <1>4, <1>7, <2>1, <2>3
  <2> QED BY <1>7, <2>4, OneSet
<1>8. ASSUME k \in {"index", "rule"}, L = RenameTo(f, f.at) PROVE Ends
  <2> DEFINE A == Together(f, Attributes[k])
  <2>1. k \notin Movable BY <1>8 DEF Movable
  <2>2. A = <<>> BY <1>3, <1>8 DEF Together
  <2>3. RenameTo(f, f.at) \in Seq(PlaceStatements(f)) BY <1>4, <2>1, MovesType
  <2>4. RenameTo(f, f.at) = (<<>> \o <<>>) \o RenameTo(f, f.at)
    <3>1. <<>> \o <<>> = <<>> OBVIOUS
    <3>2. <<>> \o RenameTo(f, f.at) = RenameTo(f, f.at) BY <2>3, ConcatEmptySeq
    <3> QED BY <3>1, <3>2
  <2>5. L = (A \o M) \o R BY <1>4, <1>8, <2>1, <2>2, <2>4
  <2> QED BY <1>8, <2>5, OneSet
<1>9. CASE k = "database"
  <2> DEFINE a == Together(f, {"owner"}) \o Together(f, {"connlimit"})
             b == Together(f, {"allowconn"})
             A == a \o b
  <2>1. k \notin Movable BY <1>9 DEF Movable
  <2>2. L = A \o RenameTo(f, f.at) BY <1>1, <1>9 DEF RunAlter, BuildAlterDatabase
  <2>3. /\ a \in Seq(Early(f))
        /\ \A x \in {"owner", "connlimit"} : f.attr[x] # Blank => \E s \in Range(a) : s.op = "set" /\ x \in DOMAIN s.attrs
    <3> {"owner"} \in SUBSET Attributes[k] /\ {"connlimit"} \in SUBSET Attributes[k] BY <1>3, <1>9
    <3> QED BY TwoSets
  <2>4. /\ b \in Seq(Early(f))
        /\ f.attr["allowconn"] # Blank => \E s \in Range(b) : s.op = "set" /\ "allowconn" \in DOMAIN s.attrs
    <3> {"allowconn"} \in SUBSET Attributes[k] BY <1>3, <1>9
    <3> QED BY <1>1, SetsOf, TogetherSets
  <2> HIDE DEF a, b
  <2>5. A \in Seq(Early(f)) /\ Range(A) = Range(a) \cup Range(b) BY <2>3, <2>4, ConcatRange
  <2>6. AllSet(f, Range(A)) BY <1>1, <1>3, <1>9, <2>3, <2>4, <2>5 DEF AllSet
  <2>7. RoleStatements(f) = {} BY <1>9, OtherKinds
  <2>8. RoleStatements(f) \subseteq Range(A) BY <2>7
  <2>9. A \o <<>> = A BY <1>2, <2>5
  <2>10. L = (A \o M) \o R BY <1>4, <2>1, <2>2, <2>9
  <2> HIDE DEF A
  <2> QED BY <1>9, <2>5, <2>6, <2>8, <2>10, PlainShape
<1>10. CASE k = "role"
  <2> DEFINE a == Together(f, Attributes[k])
             b == RoleMembershipStatements(f)
             A == a \o b
  <2>1. k \notin Movable BY <1>10 DEF Movable
  <2>2. L = A \o RenameTo(f, f.at) BY <1>1, <1>10 DEF RunAlter, BuildAlterRole
  <2>3. a \in Seq(Early(f)) /\ AllSet(f, Range(a)) BY SetsOf, <1>1, TogetherSets DEF AllSet
  <2>4. b \in Seq(Early(f)) /\ RoleStatements(f) \subseteq Range(b) BY RoleMembership, SeqWidens DEF Early
  <2> HIDE DEF a, b
  <2>5. A \in Seq(Early(f)) /\ Range(A) = Range(a) \cup Range(b) BY <2>3, <2>4, ConcatRange
  <2>6. AllSet(f, Range(A)) BY <2>3, <2>5 DEF AllSet
  <2>7. RoleStatements(f) \subseteq Range(A) BY <2>4, <2>5
  <2>8. A \o <<>> = A BY <1>2, <2>5
  <2>9. L = (A \o M) \o R BY <1>4, <2>1, <2>2, <2>8
  <2> HIDE DEF A
  <2> QED BY <1>10, <2>5, <2>6, <2>7, <2>9, PlainShape
<1>11. CASE k = "sequence"
  <2> DEFINE a == Together(f, Attributes["sequence"] \ {"owner"})
             b == Together(f, {"owner"})
             A == a \o b
             T == Early(f) \cup PlaceStatements(f)
  <2>1. L = a \o ((b \o M) \o R)
    <3>1. L = a \o AlterOwnerSchemaRename(f, TRUE, TRUE) BY <1>1, <1>11 DEF RunAlter, BuildAlterSequence
    <3> QED BY <3>1, OwnerSchemaRename
  <2>2. a \in Seq(Early(f)) /\ b \in Seq(Early(f))
    <3> {"owner"} \in SUBSET Attributes[k] /\ Attributes["sequence"] \ {"owner"} \in SUBSET Attributes[k]
      BY <1>3, <1>11
    <3> QED BY SetsOf
  <2>3. A \in Seq(Early(f)) /\ AllSet(f, Range(A))
    <3>1. {"owner"} \in SUBSET Attributes[k] /\ Attributes["sequence"] \ {"owner"} \in SUBSET Attributes[k]
      BY <1>3, <1>11
    <3>2. Attributes[k] = {"owner"} \cup (Attributes["sequence"] \ {"owner"}) BY <1>3, <1>11
    <3> QED BY <1>1, <3>1, <3>2, TwoSets DEF AllSet
  <2>4. RoleStatements(f) = {} BY <1>11, OtherKinds
  <2>5. RoleStatements(f) \subseteq Range(A) BY <2>4
  <2>6. a \in Seq(T) /\ b \in Seq(T) /\ M \in Seq(T) /\ R \in Seq(T) BY <2>2, MovesType, SeqWidens
  <2>7. a \o ((b \o M) \o R) = (A \o M) \o R
    <3> HIDE DEF a, b, M, R, T, A, L, Ends
    <3>1. b \o M \in Seq(T) BY <2>6
    <3> DEFINE e == b \o M
    <3>e. e \in Seq(T) BY <3>1
    <3> HIDE DEF e
    <3>a. \A s, t, u \in Seq(T) : (s \o t) \o u = s \o (t \o u) BY Associative
    <3>2. a \o (e \o R) = (a \o e) \o R BY <2>6, <3>e, <3>a, ZenonT(60)
    <3>3. a \o (b \o M) = (a \o b) \o M BY <2>6, <3>a, ZenonT(60)
    <3> QED BY <3>2, <3>3 DEF e, A
  <2>8. L = (A \o M) \o R BY <2>1, <2>7
  <2> HIDE DEF A
  <2> QED BY <1>11, <2>3, <2>5, <2>8, PlainShape
<1>12. CASE k = "extension"
  <2> DEFINE A == Together(f, {"version"})
  <2>1. f.newname = Blank BY <1>12 DEF FormOf
  <2>2. [f EXCEPT !.newname = Blank] = f
    BY <2>1, Zenon DEF FormOf
  <2>3. L = A \o AlterOwnerSchemaRename(f, FALSE, TRUE)
    BY <1>1, <1>12, <2>2 DEF RunAlter, BuildAlterExtension
  <2>4. AlterOwnerSchemaRename(f, FALSE, TRUE) = (<<>> \o M) \o R BY OwnerSchemaRename
  <2>5. A \in Seq(Early(f)) BY <1>3, <1>12, SetsOf
  <2> DEFINE T == Early(f) \cup PlaceStatements(f)
  <2>6. A \in Seq(T) /\ M \in Seq(T) /\ R \in Seq(T) BY <2>5, MovesType, SeqWidens
  <2>7. A \o ((<<>> \o M) \o R) = (A \o M) \o R
    <3> HIDE DEF A, M, R, T
    <3>1. <<>> \o M = M BY <2>6, ConcatEmptySeq
    <3> QED BY <2>6, <3>1, ConcatAssociative
  <2>8. L = (A \o M) \o R BY <2>3, <2>4, <2>7
  <2>9. Attributes[k] = {"version"} BY <1>3, <1>12
  <2>10. L = (Together(f, Attributes[k]) \o M) \o R BY <2>8, <2>9
  <2>11. k # "table" /\ k # "role" BY <1>12
  <2> QED BY <2>10, <2>11, OneSet
<1>13. CASE k = "table"
  <2> DEFINE clauses == <<NewColumn(f), BuildForeignKeyClause(f), BuildExclusionClause(f),
                          BuildAttachPartitionStmt(f), BuildDetachPartitionStmt(f)>>
             A == Together(f, {"owner"})
             a == FlattenSeq([i \in 1 .. Cardinality(Columns) |-> ColumnStatements(f, SetToSeq(Columns)[i])])
             b == FlattenSeq(clauses)
             C == a \o b
             T == (Early(f) \cup PlaceStatements(f)) \cup Late(f)
  <2>1. L = BuildAlterTableForm(f) BY <1>1, <1>13 DEF RunAlter
  <2>2. \A i \in DOMAIN clauses : clauses[i] # Error BY <2>1 DEF BuildAlterTableForm
  <2>3. L = (AlterOwnerSchemaRename(f, TRUE, TRUE) \o a) \o b BY <2>1, <2>2 DEF BuildAlterTableForm
  <2>4. AlterOwnerSchemaRename(f, TRUE, TRUE) = (A \o M) \o R BY OwnerSchemaRename
  <2>5. A \in Seq(Early(f)) /\ AllSet(f, Range(A))
    BY <1>1, <1>3, <1>13, SetsOf, TogetherSets DEF AllSet
  <2>6. a \in Seq(ColumnsStatements(f)) /\ ColumnsStatements(f) \subseteq Range(a) /\ Sorted(a) BY ColumnsRange
  <2>7. b \in Seq(AddStatements(f)) /\ AddStatements(f) \subseteq Range(b)
    <3> HIDE DEF clauses
    <3>1. clauses = <<NewColumn(f), BuildForeignKeyClause(f), BuildExclusionClause(f),
                      BuildAttachPartitionStmt(f), BuildDetachPartitionStmt(f)>>
      BY DEF clauses
    <3> QED BY <2>2, <3>1, ClausesRange
  <2>8. \A s \in AddStatements(f) : s.op = "add" BY DEF AddStatements
  <2>9. RoleStatements(f) = {} BY <1>13, OtherKinds
  <2> HIDE DEF A, a, b, clauses
  <2>10. a \in Seq(Late(f)) /\ b \in Seq(Late(f)) BY <2>6, <2>7, SeqWidens DEF Late
  <2>11. C \in Seq(Late(f)) /\ Range(C) = Range(a) \cup Range(b) BY <2>10, ConcatRange
  <2>12. Sorted(C) BY <2>6, <2>7, <2>8, <2>10, RangeType, SortedWith
  <2>13. Shaped(f, A, C) BY <1>1, <1>13, <2>5, <2>6, <2>7, <2>9, <2>11, <2>12 DEF Shaped, Late
  <2>14. A \in Seq(T) /\ M \in Seq(T) /\ R \in Seq(T) /\ a \in Seq(T) /\ b \in Seq(T)
    BY <2>5, <2>10, MovesType, SeqWidens
  <2>15. (((A \o M) \o R) \o a) \o b = ((A \o M) \o R) \o C
    <3> HIDE DEF M, R, T, L, Ends, C, A
    <3>1. A \o M \in Seq(T) BY <2>14
    <3>2. (A \o M) \o R \in Seq(T) BY <2>14, <3>1
    <3> DEFINE e == (A \o M) \o R
    <3>3. e \in Seq(T) BY <3>2
    <3> HIDE DEF e
    <3>4. (e \o a) \o b = e \o (a \o b) BY <2>14, <3>3, Associative, SMTT(30)
    <3> QED BY <3>4 DEF e, C
  <2>16. L = ((A \o M) \o R) \o C BY <2>3, <2>4, <2>15
  <2> QED BY <2>13, <2>16
<1> HIDE DEF Ends
<1>14. ASSUME k \in {"tablespace", "publication"} PROVE Ends
  <2>1. CASE k = "tablespace" BY <1>1, <1>5, <2>1 DEF RunAlter, BuildAlterTablespace
  <2>2. CASE k = "publication" BY <1>1, <1>5, <2>2 DEF RunAlter, BuildAlterPublication
  <2> QED BY <1>14, <2>1, <2>2
<1>15. ASSUME k \in {"view", "matview", "function", "procedure"} PROVE Ends
  <2>1. CASE k = "view" BY <1>1, <1>6, <2>1 DEF RunAlter, BuildAlterView
  <2>2. CASE k = "matview" BY <1>1, <1>6, <2>2 DEF RunAlter, BuildAlterMatView
  <2>3. CASE k = "function" BY <1>1, <1>6, <2>3 DEF RunAlter, BuildAlterFunction
  <2>4. CASE k = "procedure" BY <1>1, <1>6, <2>4 DEF RunAlter, BuildAlterProcedure
  <2> QED BY <1>15, <2>1, <2>2, <2>3, <2>4
<1>16. ASSUME k \in {"schema", "trigger", "policy"} PROVE Ends
  <2>1. CASE k = "schema" BY <1>1, <1>3, <1>7, <2>1 DEF RunAlter, BuildAlterSchema
  <2>2. CASE k = "trigger" BY <1>1, <1>3, <1>7, <2>2 DEF RunAlter, BuildAlterTrigger
  <2>3. CASE k = "policy" BY <1>1, <1>3, <1>7, <2>3 DEF RunAlter, BuildAlterPolicyForm
  <2> QED BY <1>16, <2>1, <2>2, <2>3
<1>17. ASSUME k \in {"index", "rule"} PROVE Ends
  <2>1. CASE k = "index"
    <3>1. RunAlter(f) = BuildAlterIndex(f) BY <1>1, <2>1 DEF RunAlter
    <3>2. RunAlter(f) = RenameTo(f, f.at) BY <3>1 DEF BuildAlterIndex
    <3> QED BY <1>8, <2>1, <3>2
  <2>2. CASE k = "rule" BY <1>1, <1>8, <2>2 DEF RunAlter, BuildAlterRule
  <2> QED BY <1>17, <2>1, <2>2
<1>18. k \in {"schema", "tablespace", "publication", "table", "view", "matview", "function", "procedure", "database",
              "role", "sequence", "extension", "index", "rule", "trigger", "policy"}
  BY DEF Kinds, Attributes
<1> QED BY <1>9, <1>10, <1>11, <1>12, <1>13, <1>14, <1>15, <1>16, <1>17, <1>18 DEF Ends

-----------------------------------------------------------------------------
(* The inductive invariant.                                                *)

PanelWork(v) == v = [left |-> v.left, form |-> v.form, touched |-> v.touched]

\* What is not as it was loaded was touched.
Told(v) ==
    /\ \A c \in Columns :
         /\ \A p \in Parts : v.form.row[c].part[p] # v.form.row[c].orig[p] => <<c, p>> \in v.touched
         /\ v.form.row[c].drop \/ v.form.row[c].rename # Blank => <<c, "name">> \in v.touched
    /\ \A d \in Sides, r \in Roles :
         (r \in v.form.role[d]) # (r \in v.form.roleOrig[d] \cap v.form.listed) => <<d, r>> \in v.touched

\* A form of kind k someone filled in by load n, with what was touched in it.
Snapshot(v, k, n, roles) ==
    /\ PanelWork(v) /\ v.form \in FormOf(k) /\ v.form.load <= n /\ Told(v)
    /\ \A d \in Sides : v.form.role[d] \subseteq roles
Here == [left |-> <<>>, form |-> form, touched |-> touched]

FormStatements(f) == Early(f) \cup PlaceStatements(f) \cup Late(f)

Shape ==
    /\ AlterTypeOK /\ loads \in Nat /\ obj \in ObjectOf(kind) /\ exist \subseteq Roles
    /\ form # Nothing => Snapshot(Here, kind, loads, exist)
    /\ asked # Idle => Snapshot(asked, kind, loads, exist)
    /\ editor # Idle => Snapshot(editor, kind, loads, exist) /\ RunAlter(editor.form) # Error
    /\ run # Idle => Snapshot(run, kind, loads, exist) /\ run.left \in Seq(FormStatements(run.form))
    /\ panel = "open" => form # Nothing /\ form.listed = listed
    /\ fetching # "nothing" => form # Nothing /\ kind = "table"
    /\ fetching = "columns" => due
    /\ due \in BOOLEAN /\ behind \in BOOLEAN

\* While only its own script altered object o since load q, an attribute that
\* was not touched is still there as the form has it.
AsShown(v, q, o) ==
    v.form.load = q => \A a \in DOMAIN v.form.attr :
        <<a>> \in v.touched \/ v.form.attr[a] = Blank \/ o.attr[a] \in {v.form.attr[a], "fine"}

\* And before that script starts, the place and the columns are those that
\* were loaded, if the columns were read at all.
AtLoad(v, q, o) ==
    v.form.load = q =>
        /\ o.schema = "s1" /\ o.name = "n1"
        /\ (\A c \in Columns : v.form.row[c].name = Blank)
           \/ (\A c \in Columns : v.form.row[c].name = o.cols[c].name)
        /\ \A c \in Columns : v.form.row[c].name # Blank => o.cols[c].part = v.form.row[c].orig

Unaltered ==
    /\ run # Idle => AsShown(run, quiet, obj)
    /\ run.form.load # quiet \/ run = Idle =>
         \A v \in {Here, asked, editor} : v.form # Nothing => AsShown(v, quiet, obj) /\ AtLoad(v, quiet, obj)

InStep ==
    panel = "open" /\ ~due /\ ~behind /\ RunAlter(form) # Error =>
        IF asked # Idle THEN asked.form = form ELSE editor # Idle /\ editor.form = form

\* What is left of the script, and the place the object o has by then.
Staged(f, L, o) ==
    \E A \in Seq(Early(f)), C \in Seq(Late(f)) :
       /\ Sorted(C) /\ (f.kind # "table" => C = <<>>)
       /\ \/ /\ L = ((A \o Moves(f)) \o Renames(f)) \o C
             /\ o.schema = f.at[1] /\ o.name = f.at[2]
          \/ L = Renames(f) \o C /\ o.schema = Final(f) /\ o.name = f.at[2]
          \/ L = C /\ o.schema = Final(f) /\ o.name = IF f.newname = Blank THEN f.at[2] ELSE f.newname

GivenOr(given, was) == IF given = Blank THEN was ELSE given
WantedPart(r, p) == IF p = "default" THEN r.part[p] ELSE GivenOr(r.part[p], r.orig[p])
ChangeOf(f, c, p) ==
    [op |-> "column", at |-> f.at, col |-> f.row[c].name, part |-> p, to |-> f.row[c].part[p]]

\* A column keeps the name it was loaded with until its last statement, and
\* everything asked for it was done or is still to come.
ColumnDone(f, T, c, o) ==
    LET r == f.row[c]
    IN  /\ T \cap StatementsOf(f, c) # {} => o.cols[c].name = r.name
        /\ r.drop => o.cols[c] = NoColumn \/ Drop(f, c) \in T
        /\ ~r.drop =>
             /\ o.cols[c].name = GivenOr(r.rename, r.name) \/ Rename(f, c) \in T
             /\ \A p \in Parts : o.cols[c].part[p] = WantedPart(r, p) \/ ChangeOf(f, c, p) \in T

\* Everything form f asks for was done or is among the statements T to come.
AttributesDone(f, T, o) ==
    \A a \in DOMAIN f.attr : f.attr[a] # Blank =>
         o.attr[a] = f.attr[a] \/ \E s \in T : s.op = "set" /\ a \in DOMAIN s.attrs
MembersDone(f, T, o) ==
    \A d \in Sides : \A s \in MemberStatements(f, d) : s \in T \/ (s.to \in o.role[d]) = (s.op = "grant")
ExtrasDone(f, T, o) == \A s \in AddStatements(f) : s \in T \/ s.to \in o.added
ColumnsDone(f, T, o) ==
    \A c \in Columns :
         IF f.row[c].name # Blank THEN ColumnDone(f, T, c, o)
         ELSE o.cols[c].name = Blank \/ \A d \in Columns : f.row[d].name = Blank
AllDone(f, T, o) == AttributesDone(f, T, o) /\ MembersDone(f, T, o) /\ ExtrasDone(f, T, o) /\ ColumnsDone(f, T, o)

Progress ==
    run # Idle /\ run.form.load = quiet => Staged(run.form, run.left, obj) /\ AllDone(run.form, Range(run.left), obj)

AInv == Shape /\ Unaltered /\ InStep /\ Progress

\* A form that was rendered remains one that was.
LEMMA SnapshotLater ==
    ASSUME NEW v, NEW k, NEW n \in Nat, NEW m \in Nat, n <= m, NEW e, NEW g, e \subseteq g, k \in Kinds, Snapshot(v, k, n, e)
    PROVE  Snapshot(v, k, m, g)
<1>1. v.form.load \in Nat BY FormShape DEF Snapshot
<1>2. v.form.load <= m BY <1>1 DEF Snapshot
<1> QED BY <1>2 DEF Snapshot

\* A form is not Nothing, nor work with one Idle.
LEMMA FormsAre ==
    ASSUME NEW k \in Kinds, NEW v, v.form \in FormOf(k)
    PROVE  v.form # Nothing /\ v # Idle /\ v.form.load \in Nat \ {0} /\ DOMAIN v.form.attr = Attributes[k]
<1>1. v.form.load \in Nat \ {0} /\ DOMAIN v.form.attr = Attributes[k] BY FormShape
<1>2. Nothing.load = 0 BY DEF Nothing
<1>3. v.form # Nothing BY <1>1, <1>2
<1>4. Idle.form = Nothing BY DEF Idle
<1> QED BY <1>1, <1>3, <1>4

\* What the invariant says of the types of the variables.
LEMMA InvTypes ==
    ASSUME AInv
    PROVE  /\ kind \in Kinds /\ loads \in Nat /\ quiet \in Nat /\ quiet <= loads + 1 /\ obj \in ObjectOf(kind) /\ exist \subseteq Roles
           /\ listed \subseteq exist /\ DOMAIN obj.attr = Attributes[kind]
           /\ form # Nothing => Snapshot(Here, kind, loads, exist)
           /\ form # Nothing => form.load \in Nat \ {0} /\ form.load <= loads /\ form \in FormOf(kind)
           /\ \A v \in {asked, editor, run} : v # Idle =>
                /\ Snapshot(v, kind, loads, exist) /\ v.form # Nothing
                /\ v.form.load \in Nat \ {0} /\ v.form.load <= loads
           /\ Idle.form = Nothing /\ Nothing.load = 0 /\ Idle.left = <<>>
<1>1. Idle.form = Nothing /\ Nothing.load = 0 /\ Idle.left = <<>> BY DEF Idle, Nothing
<1>2. Shape BY DEF AInv
<1>3. kind \in Kinds /\ loads \in Nat /\ quiet \in Nat /\ quiet <= loads + 1 /\ listed \subseteq exist /\ DOMAIN obj.attr = Attributes[kind]
  BY <1>2 DEF Shape, AlterTypeOK
<1>4. \A v : Snapshot(v, kind, loads, exist) =>
        v.form \in FormOf(kind) /\ v.form # Nothing /\ v.form.load \in Nat \ {0} /\ v.form.load <= loads
  BY <1>3, FormsAre DEF Snapshot
<1>5. Here.form = form BY DEF Here
<1>6. form # Nothing => Snapshot(Here, kind, loads, exist) BY <1>2 DEF Shape
<1>7. form # Nothing => form.load \in Nat \ {0} /\ form.load <= loads /\ form \in FormOf(kind)
  BY <1>4, <1>5, <1>6
<1>8. \A v \in {asked, editor, run} : v # Idle => Snapshot(v, kind, loads, exist) BY <1>2 DEF Shape
<1>9. \A v \in {asked, editor, run} : v # Idle =>
        Snapshot(v, kind, loads, exist) /\ v.form # Nothing /\ v.form.load \in Nat \ {0} /\ v.form.load <= loads
  BY <1>4, <1>8
<1>10. obj \in ObjectOf(kind) /\ exist \subseteq Roles BY <1>2 DEF Shape
<1> QED BY <1>1, <1>3, <1>6, <1>7, <1>9, <1>10

\* Once another session or a failed script came in between, nothing is
\* promised of the forms there are.
LEMMA Disturbed ==
    ASSUME Shape', quiet' = 0 \/ quiet' = loads' + 1
    PROVE  Unaltered' /\ Progress'
<1>1. loads' \in Nat /\ kind' \in Kinds BY DEF Shape, AlterTypeOK
<1>2. \A v : Snapshot(v, kind', loads', exist') => v.form.load # quiet'
  <2> TAKE v
  <2> HAVE Snapshot(v, kind', loads', exist')
  <2>1. v.form.load \in Nat \ {0} /\ v.form.load <= loads' BY <1>1, FormsAre DEF Snapshot
  <2> QED BY <1>1, <2>1
<1>3. Idle.form = Nothing BY DEF Idle
<1>4. Here'.form = form' BY DEF Here
<1>5. \A v \in {Here', asked', editor', run'} : v.form # Nothing => v.form.load # quiet'
  BY <1>2, <1>3, <1>4 DEF Shape
<1>6. run' # Idle => run'.form.load # quiet' BY <1>2 DEF Shape
<1>7. \A v \in {Here', asked', editor'} : v.form # Nothing => AsShown(v, quiet', obj') /\ AtLoad(v, quiet', obj')
  BY <1>5 DEF AsShown, AtLoad
<1>8. Unaltered' BY <1>6, <1>7 DEF Unaltered, AsShown
<1>9. Progress' BY <1>6 DEF Progress
<1> QED BY <1>8, <1>9

\* The drop-downs of the panel are filled anew.
LEMMA DropdownsKeep ==
    ASSUME AInv, DdlDropdowns PROVE AInv'
<1>1. Shape'
  <2>1. AlterTypeOK' BY InvTypes DEF DdlDropdowns, AInv, Shape, AlterTypeOK
  <2>2. UNCHANGED <<kind, obj, exist, form, touched, due, asked, editor, run, fetching, behind, loads, Here>> /\ panel' # "open"
    BY DEF DdlDropdowns, Here
  <2> QED BY <2>1, <2>2 DEF AInv, Shape
<1>2. quiet' = loads' + 1 BY DEF DdlDropdowns
<1>3. InStep' BY DEF DdlDropdowns, InStep
<1> QED BY <1>1, <1>2, <1>3, Disturbed DEF AInv

\* A run ends, at its end or before.
LEMMA StopKeeps ==
    ASSUME AInv, StopRun \/ FinishRun PROVE AInv'
<1>1. Shape'
  <2>1. AlterTypeOK' BY InvTypes DEF StopRun, FinishRun, AInv, Shape, AlterTypeOK
  <2>2. UNCHANGED <<kind, obj, exist, form, touched, due, asked, editor, listed, fetching, behind, loads, Here>> /\ run' = Idle
    BY DEF StopRun, FinishRun, Here
  <2>3. panel' = "open" => panel = "open" BY DEF StopRun, FinishRun
  <2> QED BY <2>1, <2>2, <2>3 DEF AInv, Shape
<1>2. quiet' = 0 BY DEF StopRun, FinishRun
<1>3. InStep' BY DEF StopRun, FinishRun, InStep, AInv
<1> QED BY <1>1, <1>2, <1>3, Disturbed DEF AInv

\* The parts of an object of kind k.
LEMMA ObjectParts ==
    ASSUME NEW k \in Kinds, NEW o \in ObjectOf(k)
    PROVE  /\ o.attr \in [Attributes[k] -> Values] /\ o.role \in [Sides -> SUBSET Roles]
           /\ o.cols \in [Columns -> [name : ColumnNames, part : Part]] /\ o.added \subseteq Extras
           /\ o.schema \in {"s1", "s2"} /\ o.name \in {"n1", "n2", "n9"}
           /\ o = [schema |-> o.schema, name |-> o.name, attr |-> o.attr, role |-> o.role, cols |-> o.cols, added |-> o.added]
<1>1. o \in [schema : {"s1", "s2"}, name : {"n1", "n2", "n9"}, attr : [Attributes[k] -> Values],
            role : [Sides -> SUBSET Roles], cols : [Columns -> [name : ColumnNames, part : Part]],
            added : SUBSET Extras]
  BY DEF ObjectOf
<1> QED BY <1>1

\* A column that is not there has no name.
LEMMA NoColumnFits == NoColumn \in [name : ColumnNames, part : Part] /\ NoColumn.name = Blank
BY DEF NoColumn, ColumnNames, Part, Values

\* Columns may take other names, as long as they stay apart.
LEMMA ColumnsFit ==
    ASSUME NEW k \in Kinds, NEW o \in ObjectOf(k), NEW cs \in [Columns -> [name : ColumnNames, part : Part]],
           k # "table" => \A c \in Columns : cs[c].name = Blank,
           \A c, d \in Columns : cs[c].name = cs[d].name /\ cs[c].name # Blank => c = d
    PROVE  /\ [o EXCEPT !.cols = cs] \in ObjectOf(k)
           /\ [o EXCEPT !.cols = cs].cols = cs
<1> DEFINE b == [o EXCEPT !.cols = cs]
<1>1. b = [schema |-> o.schema, name |-> o.name, attr |-> o.attr, role |-> o.role, cols |-> cs, added |-> o.added]
  BY ObjectParts
<1>2. b.schema = o.schema /\ b.name = o.name /\ b.attr = o.attr /\ b.role = o.role /\ b.cols = cs /\ b.added = o.added
  BY <1>1
<1>3. k # "role" => \A d \in Sides : o.role[d] = {} BY DEF ObjectOf
<1>4. b \in [schema : {"s1", "s2"}, name : {"n1", "n2", "n9"}, attr : [Attributes[k] -> Values],
             role : [Sides -> SUBSET Roles], cols : [Columns -> [name : ColumnNames, part : Part]],
             added : SUBSET Extras]
  BY <1>1, ObjectParts
<1> HIDE DEF b
<1>5. b \in ObjectOf(k) BY <1>2, <1>3, <1>4 DEF ObjectOf
<1> QED BY <1>2, <1>5 DEF b

\* An object's columns have names of their own.
LEMMA NamesApart ==
    ASSUME NEW k \in Kinds, NEW o \in ObjectOf(k)
    PROVE  /\ k # "table" => \A c \in Columns : o.cols[c].name = Blank
           /\ \A c, d \in Columns : o.cols[c].name = o.cols[d].name /\ o.cols[c].name # Blank => c = d
BY DEF ObjectOf

\* What the other sessions do to an object.
LEMMA TheirsFits ==
    ASSUME NEW k \in Kinds, NEW o \in ObjectOf(k)
    PROVE  /\ \A a \in Attributes[k] : [o EXCEPT !.attr[a] = "theirs"] \in ObjectOf(k)
           /\ \A c \in Columns, p \in Parts : [o EXCEPT !.cols[c].part[p] = "theirs"] \in ObjectOf(k)
           /\ \A c \in Columns : [o EXCEPT !.cols[c] = NoColumn] \in ObjectOf(k)
           /\ [o EXCEPT !.name = "n9"] \in ObjectOf(k)
           /\ k = "role" => \A d \in Sides, r \in Roles :
                /\ [o EXCEPT !.role[d] = @ \cup {r}] \in ObjectOf(k)
                /\ [o EXCEPT !.role[d] = @ \ {r}] \in ObjectOf(k)
<1> DEFINE C == [name : ColumnNames, part : Part]
<1> USE ObjectParts
<1>1. ASSUME NEW a \in Attributes[k] PROVE [o EXCEPT !.attr[a] = "theirs"] \in ObjectOf(k)
  <2>1. [o.attr EXCEPT ![a] = "theirs"] \in [Attributes[k] -> Values] BY DEF Values
  <2> QED BY <2>1, SMTT(30) DEF ObjectOf
<1>2. ASSUME NEW c \in Columns, NEW p \in Parts PROVE [o EXCEPT !.cols[c].part[p] = "theirs"] \in ObjectOf(k)
  <2> DEFINE b == [o.cols[c] EXCEPT !.part[p] = "theirs"]
             cs == [o.cols EXCEPT ![c] = b]
  <2>1. b \in C /\ b.name = o.cols[c].name
    <3>1. o.cols[c] \in C BY ObjectParts
    <3>2. o.cols[c].part \in Part BY <3>1
    <3>3. [o.cols[c].part EXCEPT ![p] = "theirs"] \in Part BY <3>2 DEF Part, Values
    <3>4. b = [o.cols[c] EXCEPT !.part = [o.cols[c].part EXCEPT ![p] = "theirs"]] OBVIOUS
    <3> HIDE DEF b
    <3> QED BY <3>1, <3>3, <3>4
  <2> HIDE DEF b
  <2>2. cs \in [Columns -> C] /\ \A e \in Columns : cs[e].name = o.cols[e].name BY <2>1
  <2>3. [o EXCEPT !.cols[c].part[p] = "theirs"] = [o EXCEPT !.cols = cs] BY DEF b
  <2> HIDE DEF cs
  <2> QED BY <2>2, <2>3, ColumnsFit, NamesApart
<1>3. ASSUME NEW c \in Columns PROVE [o EXCEPT !.cols[c] = NoColumn] \in ObjectOf(k)
  <2> DEFINE cs == [o.cols EXCEPT ![c] = NoColumn]
  <2>1. cs \in [Columns -> C] /\ \A e \in Columns : cs[e].name \in {Blank, o.cols[e].name} BY NoColumnFits
  <2>2. [o EXCEPT !.cols[c] = NoColumn] = [o EXCEPT !.cols = cs] OBVIOUS
  <2> HIDE DEF cs
  <2> QED BY <2>1, <2>2, ColumnsFit, NamesApart
<1>4. [o EXCEPT !.name = "n9"] \in ObjectOf(k) BY DEF ObjectOf
<1>5. ASSUME k = "role", NEW d \in Sides, NEW r \in Roles, NEW S \in SUBSET Roles
      PROVE  [o EXCEPT !.role[d] = S] \in ObjectOf(k)
  <2>1. [o.role EXCEPT ![d] = S] \in [Sides -> SUBSET Roles] OBVIOUS
  <2> QED BY <1>5, <2>1 DEF ObjectOf
<1>6. ASSUME k = "role", NEW d \in Sides, NEW r \in Roles
      PROVE  [o EXCEPT !.role[d] = @ \cup {r}] \in ObjectOf(k) /\ [o EXCEPT !.role[d] = @ \ {r}] \in ObjectOf(k)
  <2>1. o.role[d] \cup {r} \in SUBSET Roles /\ o.role[d] \ {r} \in SUBSET Roles OBVIOUS
  <2> QED BY <1>5, <1>6, <2>1
<1> QED BY <1>1, <1>2, <1>3, <1>4, <1>6

\* Another session alters the object, drops a column of it or creates a
\* role: a run is not alone any more.
LEMMA OtherSessionKeeps ==
    ASSUME AInv, OtherSession PROVE AInv'
<1>0. Theirs /\ UNCHANGED <<kind, panel, listed, form, touched, due, asked, editor, fetching, behind, run, loads, Here>> /\ quiet' = 0
  BY DEF OtherSession, Here
<1>1. /\ obj' \in ObjectOf(kind) /\ exist \subseteq exist' /\ exist' \subseteq Roles
      /\ \A d \in Sides : obj'.role[d] \subseteq exist'
  <2>0. \A d \in Sides : obj.role[d] \subseteq exist BY DEF AInv, Shape, AlterTypeOK
  <2> USE ObjectParts, InvTypes
  <2>1. CASE UNCHANGED exist /\ \E a \in Attributes[kind] : obj' = [obj EXCEPT !.attr[a] = "theirs"]
    <3> PICK a \in Attributes[kind] : obj' = [obj EXCEPT !.attr[a] = "theirs"] BY <2>1
    <3>1. obj' \in ObjectOf(kind) BY TheirsFits
    <3>2. obj'.role = obj.role OBVIOUS
    <3> QED BY <2>0, <2>1, <3>1, <3>2
  <2>2. CASE UNCHANGED exist /\ \E c \in Columns, p \in Parts : obj' = [obj EXCEPT !.cols[c].part[p] = "theirs"]
    <3> PICK c \in Columns, p \in Parts : obj' = [obj EXCEPT !.cols[c].part[p] = "theirs"] BY <2>2
    <3>1. obj' \in ObjectOf(kind) BY TheirsFits
    <3>2. obj'.role = obj.role OBVIOUS
    <3> QED BY <2>0, <2>2, <3>1, <3>2
  <2>3. CASE UNCHANGED exist /\ \E c \in Columns : obj' = [obj EXCEPT !.cols[c] = NoColumn]
    <3> PICK c \in Columns : obj' = [obj EXCEPT !.cols[c] = NoColumn] BY <2>3
    <3>1. obj' \in ObjectOf(kind) BY TheirsFits
    <3>2. obj'.role = obj.role OBVIOUS
    <3> QED BY <2>0, <2>3, <3>1, <3>2
  <2>4. CASE UNCHANGED exist /\ obj' = [obj EXCEPT !.name = "n9"]
    BY <2>0, <2>4, TheirsFits
  <2>5. CASE kind = "role" /\ \E d \in Sides, r \in Roles :
               exist' = exist \cup {r} /\ obj' = [obj EXCEPT !.role[d] = @ \cup {r}]
    <3> PICK d \in Sides, r \in Roles : exist' = exist \cup {r} /\ obj' = [obj EXCEPT !.role[d] = @ \cup {r}]
      BY <2>5
    <3>1. obj' \in ObjectOf(kind) BY <2>5, TheirsFits
    <3>2. \A e \in Sides : obj'.role[e] = IF e = d THEN obj.role[d] \cup {r} ELSE obj.role[e] OBVIOUS
    <3> QED BY <2>0, <3>1, <3>2
  <2>6. CASE kind = "role" /\ \E d \in Sides, r \in Roles :
               UNCHANGED exist /\ obj' = [obj EXCEPT !.role[d] = @ \ {r}]
    <3> PICK d \in Sides, r \in Roles : UNCHANGED exist /\ obj' = [obj EXCEPT !.role[d] = @ \ {r}]
      BY <2>6
    <3>1. obj' \in ObjectOf(kind) BY <2>6, TheirsFits
    <3>2. \A e \in Sides : obj'.role[e] = IF e = d THEN obj.role[d] \ {r} ELSE obj.role[e] OBVIOUS
    <3> QED BY <2>0, <3>1, <3>2
  <2>7. \/ UNCHANGED exist /\ \E a \in Attributes[kind] : obj' = [obj EXCEPT !.attr[a] = "theirs"]
        \/ UNCHANGED exist /\ \E c \in Columns, p \in Parts : obj' = [obj EXCEPT !.cols[c].part[p] = "theirs"]
        \/ UNCHANGED exist /\ \E c \in Columns : obj' = [obj EXCEPT !.cols[c] = NoColumn]
        \/ UNCHANGED exist /\ obj' = [obj EXCEPT !.name = "n9"]
        \/ kind = "role" /\ \E d \in Sides, r \in Roles :
             exist' = exist \cup {r} /\ obj' = [obj EXCEPT !.role[d] = @ \cup {r}]
        \/ kind = "role" /\ \E d \in Sides, r \in Roles :
             UNCHANGED exist /\ obj' = [obj EXCEPT !.role[d] = @ \ {r}]
    BY <1>0, ZenonT(60) DEF Theirs
  <2> QED BY <2>1, <2>2, <2>3, <2>4, <2>5, <2>6, <2>7
<1>2. Shape'
  <2>1. AlterTypeOK'
    <3>1. DOMAIN obj'.attr = Attributes[kind] /\ obj'.added \subseteq Extras BY <1>1, InvTypes, ObjectParts
    <3> QED BY <1>0, <1>1, <3>1, InvTypes DEF AInv, Shape, AlterTypeOK
  <2>2. \A v : Snapshot(v, kind, loads, exist) => Snapshot(v, kind, loads, exist') BY <1>1, InvTypes, SnapshotLater
  <2> QED BY <1>0, <1>1, <2>1, <2>2 DEF AInv, Shape
<1>3. InStep' BY <1>0 DEF InStep, AInv
<1> QED BY <1>0, <1>2, <1>3, Disturbed DEF AInv

-----------------------------------------------------------------------------
(* The panel.                                                              *)

\* A change of the form, if it says what it touched.
LEMMA ChangeKeeps ==
    ASSUME AInv, panel = "open", NEW f \in FormOf(kind), form' = f,
           UNCHANGED <<kind, obj, exist, panel, listed, editor, run, loads, quiet>>,
           asked' \in {asked, Idle}, due' \in BOOLEAN, behind' \in BOOLEAN,
           touched \subseteq touched', f.load = form.load, f.listed = form.listed,
           \A d \in Sides : f.role[d] \subseteq exist,
           \A c \in Columns : f.row[c].name = form.row[c].name /\ f.row[c].orig = form.row[c].orig,
           Told([left |-> <<>>, form |-> f, touched |-> touched']),
           \A a \in Attributes[kind] : f.attr[a] = form.attr[a] \/ <<a>> \in touched',
           due' \/ RunAlter(f) = Error, fetching' # "nothing" => kind = "table", fetching' = "columns" => due'
    PROVE  AInv'
<1> DEFINE v == [left |-> <<>>, form |-> f, touched |-> touched']
<1>1. Here' = v /\ v.form = f /\ v.touched = touched' /\ Here.form = form /\ Here.touched = touched BY DEF Here
<1>2. /\ form # Nothing /\ form.load \in Nat \ {0} /\ form.load <= loads /\ form \in FormOf(kind)
      /\ kind \in Kinds
  BY InvTypes DEF AInv, Shape
<1>3. DOMAIN f.attr = Attributes[kind] /\ DOMAIN form.attr = Attributes[kind] /\ f # Nothing
  <2>1. f.load = form.load /\ Nothing.load = 0 BY DEF Nothing
  <2> QED BY <1>2, <2>1, FormShape
<1>4. Snapshot(v, kind, loads, exist)
  <2>1. PanelWork(v) BY DEF PanelWork
  <2> HIDE DEF v
  <2> QED BY <1>1, <1>2, <2>1 DEF Snapshot, v
<1>8. UNCHANGED Idle OBVIOUS
<1>5. Shape'
  <2>1. AlterTypeOK' BY DEF AInv, Shape, AlterTypeOK
  <2>2. asked' # Idle => Snapshot(asked', kind, loads, exist) BY <1>8 DEF AInv, Shape
  <2>3. Here' = v /\ v.form = f BY <1>1
  <2>4. /\ editor # Idle => Snapshot(editor, kind, loads, exist) /\ RunAlter(editor.form) # Error
        /\ run # Idle => Snapshot(run, kind, loads, exist) /\ run.left \in Seq(FormStatements(run.form))
        /\ loads \in Nat /\ obj \in ObjectOf(kind) /\ exist \subseteq Roles /\ f.listed = listed
    BY <1>2 DEF AInv, Shape
  <2> HIDE DEF v
  <2> QED BY <1>2, <1>3, <1>4, <1>8, <2>1, <2>2, <2>3, <2>4 DEF Shape
<1>6. Unaltered'
  <2>1. ASSUME AsShown(Here, quiet, obj) PROVE AsShown(v, quiet, obj)
    <3> HIDE DEF v
    <3> QED BY <1>1, <1>3, <2>1 DEF AsShown
  <2>2. ASSUME AtLoad(Here, quiet, obj) PROVE AtLoad(v, quiet, obj)
    <3> HIDE DEF v
    <3> QED BY <1>1, <2>2 DEF AtLoad
  <2>3. Idle.form = Nothing BY DEF Idle
  <2> HIDE DEF v
  <2> QED BY <1>1, <1>2, <1>8, <2>1, <2>2, <2>3 DEF AInv, Unaltered
<1>7. InStep' BY <1>8 DEF InStep, AInv
<1>9. Progress' BY DEF Progress, AInv
<1> QED BY <1>5, <1>6, <1>7, <1>9 DEF AInv

\* A form is the record of its parts.
LEMMA FormFields ==
    ASSUME NEW k \in Kinds, NEW f \in FormOf(k)
    PROVE  f = [load |-> f.load, kind |-> f.kind, at |-> f.at, newschema |-> f.newschema, newname |-> f.newname,
                attr |-> f.attr, role |-> f.role, roleOrig |-> f.roleOrig, listed |-> f.listed, row |-> f.row,
                extra |-> f.extra]
<1> DEFINE R == [load : Nat \ {0}, kind : {k}, at : {<<"s1", "n1">>}, newschema : {Blank, "s2"},
            newname : {Blank, "n2"}, attr : [Attributes[k] -> Values], role : [Sides -> SUBSET Roles],
            roleOrig : [Sides -> SUBSET Roles], listed : SUBSET Roles, row : [Columns -> ColumnRow],
            extra : [Extras -> {Blank, "half", "whole"}]]
<1>1. f \in R BY DEF FormOf
<1> QED BY <1>1

\* A record with these fields, each of its kind, is a form.
LEMMA FormIs ==
    ASSUME NEW k \in Kinds, NEW f,
           f = [load |-> f.load, kind |-> k, at |-> <<"s1", "n1">>, newschema |-> f.newschema, newname |-> f.newname,
                attr |-> f.attr, role |-> f.role, roleOrig |-> f.roleOrig, listed |-> f.listed, row |-> f.row,
                extra |-> f.extra],
           f.load \in Nat \ {0}, f.newschema \in {Blank, "s2"}, f.newname \in {Blank, "n2"},
           f.attr \in [Attributes[k] -> Values], f.role \in [Sides -> SUBSET Roles],
           f.roleOrig \in [Sides -> SUBSET Roles], f.listed \subseteq Roles, f.row \in [Columns -> ColumnRow],
           f.extra \in [Extras -> {Blank, "half", "whole"}],
           k \notin Movable => f.newschema = Blank,
           k = "extension" => f.newname = Blank,
           k # "role" => f.role = f.roleOrig,
           k # "table" => /\ \A c \in Columns : f.row[c].name = Blank
                          /\ \A x \in Extras : f.extra[x] = Blank,
           \A c, d \in Columns : f.row[c].name = f.row[d].name /\ f.row[c].name # Blank => c = d
    PROVE  f \in FormOf(k)
<1> DEFINE R == [load : Nat \ {0}, kind : {k}, at : {<<"s1", "n1">>}, newschema : {Blank, "s2"},
            newname : {Blank, "n2"}, attr : [Attributes[k] -> Values], role : [Sides -> SUBSET Roles],
            roleOrig : [Sides -> SUBSET Roles], listed : SUBSET Roles, row : [Columns -> ColumnRow],
            extra : [Extras -> {Blank, "half", "whole"}]]
<1>1. f \in R
  <2>1. \A a \in Nat \ {0}, b \in {k}, c \in {<<"s1", "n1">>}, d \in {Blank, "s2"}, e \in {Blank, "n2"} :
        \A g \in [Attributes[k] -> Values], h, i \in [Sides -> SUBSET Roles], j \in SUBSET Roles,
           l \in [Columns -> ColumnRow], m \in [Extras -> {Blank, "half", "whole"}] :
          [load |-> a, kind |-> b, at |-> c, newschema |-> d, newname |-> e, attr |-> g, role |-> h, roleOrig |-> i,
           listed |-> j, row |-> l, extra |-> m] \in R
    OBVIOUS
  <2>2. k \in {k} /\ <<"s1", "n1">> \in {<<"s1", "n1">>} /\ f.listed \in SUBSET Roles OBVIOUS
  <2> HIDE DEF R
  <2>3. [load |-> f.load, kind |-> k, at |-> <<"s1", "n1">>, newschema |-> f.newschema, newname |-> f.newname,
                attr |-> f.attr, role |-> f.role, roleOrig |-> f.roleOrig, listed |-> f.listed, row |-> f.row,
                extra |-> f.extra] \in R
    BY <2>1, <2>2, Zenon
  <2> QED BY <2>3, Zenon
<1>2. f \in {g \in R :
       /\ k \notin Movable => g.newschema = Blank
       /\ k = "extension" => g.newname = Blank
       /\ k # "role" => g.role = g.roleOrig
       /\ k # "table" => /\ \A c \in Columns : g.row[c].name = Blank
                         /\ \A x \in Extras : g.extra[x] = Blank
       /\ \A c, d \in Columns : g.row[c].name = g.row[d].name /\ g.row[c].name # Blank => c = d}
  <2> HIDE DEF R
  <2> QED BY <1>1
<1> QED BY <1>2 DEF FormOf

\* What the form of each kind leaves blank.
LEMMA FormLimits ==
    ASSUME NEW k \in Kinds, NEW f \in FormOf(k)
    PROVE  /\ k \notin Movable => f.newschema = Blank
           /\ k = "extension" => f.newname = Blank
           /\ k # "role" => f.role = f.roleOrig
           /\ k # "table" => /\ \A c \in Columns : f.row[c].name = Blank
                             /\ \A x \in Extras : f.extra[x] = Blank
           /\ \A c, d \in Columns : f.row[c].name = f.row[d].name /\ f.row[c].name # Blank => c = d
BY DEF FormOf

\* While the panel is open its form is one that was rendered.
LEMMA OpenForm ==
    ASSUME AInv, panel = "open"
    PROVE  /\ form # Nothing /\ form \in FormOf(kind) /\ kind \in Kinds /\ Told(Here) /\ Here.form = form /\ Here.touched = touched
           /\ form.listed = listed /\ listed \subseteq exist /\ exist \subseteq Roles
           /\ \A d \in Sides : form.role[d] \subseteq exist
<1>1. Here.form = form /\ Here.touched = touched BY DEF Here
<1>2. form # Nothing /\ form.listed = listed BY DEF AInv, Shape
<1> QED BY <1>1, <1>2, InvTypes DEF Snapshot

With(f, ns, nn, att, ro, rw, ex) ==
    [load |-> f.load, kind |-> f.kind, at |-> f.at, newschema |-> ns, newname |-> nn, attr |-> att,
     role |-> ro, roleOrig |-> f.roleOrig, listed |-> f.listed, row |-> rw, extra |-> ex]

\* A form whose fields were edited is a form of its kind.
LEMMA WithFits ==
    ASSUME NEW k \in Kinds, NEW f \in FormOf(k), NEW ns \in {Blank, "s2"}, NEW nn \in {Blank, "n2"},
           NEW att \in [Attributes[k] -> Values], NEW ro \in [Sides -> SUBSET Roles], NEW rw \in [Columns -> ColumnRow],
           NEW ex \in [Extras -> {Blank, "half", "whole"}],
           k \notin Movable => ns = Blank, k = "extension" => nn = Blank, k # "role" => ro = f.role,
           k # "table" => rw = f.row /\ ex = f.extra,
           \A c \in Columns : rw[c].name = f.row[c].name
    PROVE  /\ With(f, ns, nn, att, ro, rw, ex) \in FormOf(k)
           /\ With(f, f.newschema, f.newname, f.attr, f.role, f.row, f.extra) = f
<1> DEFINE g == With(f, ns, nn, att, ro, rw, ex)
<1>1. /\ f.kind = k /\ f.at = <<"s1", "n1">> /\ f.load \in Nat \ {0} /\ f.listed \subseteq Roles
      /\ f.roleOrig \in [Sides -> SUBSET Roles]
  BY FormShape
<1>2. g = [load |-> f.load, kind |-> k, at |-> <<"s1", "n1">>, newschema |-> ns, newname |-> nn, attr |-> att,
           role |-> ro, roleOrig |-> f.roleOrig, listed |-> f.listed, row |-> rw, extra |-> ex]
  BY <1>1, Zenon DEF With
<1> HIDE DEF g
<1>3. /\ g.load = f.load /\ g.newschema = ns /\ g.newname = nn /\ g.attr = att /\ g.role = ro /\ g.roleOrig = f.roleOrig
      /\ g.listed = f.listed /\ g.row = rw /\ g.extra = ex
  BY <1>2
<1>4. g \in FormOf(k)
  <2>1. g = [load |-> g.load, kind |-> k, at |-> <<"s1", "n1">>, newschema |-> g.newschema, newname |-> g.newname,
             attr |-> g.attr, role |-> g.role, roleOrig |-> g.roleOrig, listed |-> g.listed, row |-> g.row,
             extra |-> g.extra]
    BY <1>2, <1>3, Zenon
  <2> QED BY <1>1, <1>3, <2>1, FormIs, FormLimits
<1>5. With(f, f.newschema, f.newname, f.attr, f.role, f.row, f.extra) = f BY FormFields, Zenon DEF With
<1> QED BY <1>4, <1>5 DEF g

\* An edit of one field, the one named in touched, keeps the invariant: its
\* five kinds are instances.
LEMMA EditKeeps ==
    ASSUME AInv, Editable, NEW what, NEW f, NEW ns \in {Blank, "s2"}, NEW nn \in {Blank, "n2"},
           NEW att \in [Attributes[kind] -> Values], NEW ro \in [Sides -> SUBSET exist], NEW rw \in [Columns -> ColumnRow],
           NEW ex \in [Extras -> {Blank, "half", "whole"}],
           f = With(form, ns, nn, att, ro, rw, ex), Edit(f, what),
           kind \notin Movable => ns = Blank, kind = "extension" => nn = Blank, kind # "role" => ro = form.role,
           kind # "table" => rw = form.row /\ ex = form.extra,
           \A c \in Columns : rw[c].name = form.row[c].name /\ rw[c].orig = form.row[c].orig,
           \A c \in Columns, p \in Parts : rw[c].part[p] = form.row[c].part[p] \/ what = <<c, p>>,
           \A c \in Columns : what = <<c, "name">> \/ (rw[c].drop = form.row[c].drop /\ rw[c].rename = form.row[c].rename),
           \A d \in Sides, r \in Roles : (r \in ro[d]) = (r \in form.role[d]) \/ what = <<d, r>>,
           \A a \in Attributes[kind] : att[a] = form.attr[a] \/ what = <<a>>
    PROVE  AInv'
<1>0. panel = "open" BY DEF Editable
<1>1. /\ form # Nothing /\ form \in FormOf(kind) /\ kind \in Kinds /\ Told(Here) /\ Here.form = form /\ Here.touched = touched
      /\ exist \subseteq Roles
  BY <1>0, OpenForm
<1>2. ro \in [Sides -> SUBSET Roles] BY <1>1
<1>3. f \in FormOf(kind) BY <1>1, <1>2, WithFits
<1>4. /\ f.load = form.load /\ f.attr = att /\ f.role = ro /\ f.roleOrig = form.roleOrig
      /\ f.listed = form.listed /\ f.row = rw
  BY DEF With
<1>5. /\ form' = f /\ touched' = touched \cup {what} /\ due' = TRUE
      /\ UNCHANGED <<kind, obj, exist, panel, listed, asked, editor, fetching, behind, run, loads, quiet>>
  BY DEF Edit
<1>6. Told([left |-> <<>>, form |-> f, touched |-> touched'])
  <2> DEFINE v == [left |-> <<>>, form |-> f, touched |-> touched']
  <2>1. v.form = f /\ v.touched = touched' OBVIOUS
  <2> HIDE DEF v
  <2>2. \A c \in Columns : \A p \in Parts : rw[c].part[p] # rw[c].orig[p] => <<c, p>> \in v.touched
    BY <1>1, <1>5, <2>1 DEF Told
  <2>3. \A c \in Columns : rw[c].drop \/ rw[c].rename # Blank => <<c, "name">> \in v.touched
    BY <1>1, <1>5, <2>1 DEF Told
  <2>4. \A d \in Sides, r \in Roles : (r \in ro[d]) # (r \in form.roleOrig[d] \cap form.listed) => <<d, r>> \in v.touched
    BY <1>1, <1>5, <2>1 DEF Told
  <2>5. Told(v) BY <1>4, <2>1, <2>2, <2>3, <2>4 DEF Told
  <2> QED BY <2>5 DEF v
<1>7. fetching' # "nothing" => kind = "table" BY <1>5 DEF AInv, Shape
<1>8. behind' \in BOOLEAN BY <1>5 DEF AInv, Shape
<1> QED BY <1>0, <1>3, <1>4, <1>5, <1>6, <1>7, <1>8, ChangeKeeps

\* What an edit starts from.
LEMMA EditFrom ==
    ASSUME AInv, Editable
    PROVE  /\ kind \in Kinds /\ form \in FormOf(kind)
           /\ form.newschema \in {Blank, "s2"} /\ form.newname \in {Blank, "n2"}
           /\ form.attr \in [Attributes[kind] -> Values] /\ form.role \in [Sides -> SUBSET exist]
           /\ form.row \in [Columns -> ColumnRow] /\ form.extra \in [Extras -> {Blank, "half", "whole"}]
           /\ kind \notin Movable => form.newschema = Blank
           /\ kind = "extension" => form.newname = Blank
           /\ form.listed \subseteq exist /\ exist \subseteq Roles
           /\ form = With(form, form.newschema, form.newname, form.attr, form.role, form.row, form.extra)
<1>1. panel = "open" BY DEF Editable
<1>2. form.role \in [Sides -> SUBSET Roles] BY <1>1, OpenForm, FormShape
<1>3. form = With(form, form.newschema, form.newname, form.attr, form.role, form.row, form.extra)
  BY <1>1, OpenForm, FormFields, Zenon DEF With
<1> QED BY <1>1, <1>2, <1>3, OpenForm, FormShape, FormLimits

\* The user edits an attribute.
LEMMA EditAttributeKeeps ==
    ASSUME AInv, EditAttribute PROVE AInv'
<1>0. Editable BY DEF EditAttribute
<1>1. PICK a \in Attributes[kind] : \E x \in {Blank, "new"} \cup (IF a = "connlimit" THEN {"bad"} ELSE {}) :
        Edit([form EXCEPT !.attr[a] = x], <<a>>)
  BY DEF EditAttribute
<1>2. PICK x \in {Blank, "new"} \cup (IF a = "connlimit" THEN {"bad"} ELSE {}) : Edit([form EXCEPT !.attr[a] = x], <<a>>)
  BY <1>1
<1>3. x \in Values BY DEF Values
<1> DEFINE att == [form.attr EXCEPT ![a] = x]
<1>4. [form EXCEPT !.attr[a] = x] = With(form, form.newschema, form.newname, att, form.role, form.row, form.extra)
  BY <1>0, EditFrom DEF With
<1>5. att \in [Attributes[kind] -> Values] /\ \A b \in Attributes[kind] : att[b] = form.attr[b] \/ <<a>> = <<b>>
  BY <1>0, <1>3, EditFrom
<1> HIDE DEF att
<1> DEFINE f == With(form, form.newschema, form.newname, att, form.role, form.row, form.extra)
<1>6. Edit(f, <<a>>) BY <1>2, <1>4
<1> HIDE DEF f
<1>7. f = With(form, form.newschema, form.newname, att, form.role, form.row, form.extra) BY DEF f
<1> QED BY <1>0, <1>5, <1>6, <1>7, EditFrom, EditKeeps

\* The user edits the schema or the name.
LEMMA EditPlaceKeeps ==
    ASSUME AInv, EditPlace PROVE AInv'
<1>0. Editable BY DEF EditPlace
<1>1. CASE kind \in Movable /\ Edit([form EXCEPT !.newschema = "s2"], <<"newschema">>)
  <2>1. [form EXCEPT !.newschema = "s2"] = With(form, "s2", form.newname, form.attr, form.role, form.row, form.extra)
    BY <1>0, EditFrom DEF With
  <2> DEFINE f == [form EXCEPT !.newschema = "s2"]
  <2>2. Edit(f, <<"newschema">>) BY <1>1
  <2> HIDE DEF f
  <2>3. f = With(form, "s2", form.newname, form.attr, form.role, form.row, form.extra) BY <2>1 DEF f
  <2> QED BY <1>0, <1>1, <2>2, <2>3, EditFrom, EditKeeps
<1>2. CASE kind # "extension" /\ Edit([form EXCEPT !.newname = "n2"], <<"newname">>)
  <2>1. [form EXCEPT !.newname = "n2"] = With(form, form.newschema, "n2", form.attr, form.role, form.row, form.extra)
    BY <1>0, EditFrom DEF With
  <2> DEFINE f == [form EXCEPT !.newname = "n2"]
  <2>2. Edit(f, <<"newname">>) BY <1>2
  <2> HIDE DEF f
  <2>3. f = With(form, form.newschema, "n2", form.attr, form.role, form.row, form.extra) BY <2>1 DEF f
  <2> QED BY <1>0, <1>2, <2>2, <2>3, EditFrom, EditKeeps
<1> QED BY <1>1, <1>2 DEF EditPlace

\* A row keeps the name and the values it was loaded with.
LEMMA RowEdit ==
    ASSUME AInv, Editable, kind = "table", NEW c \in Columns, NEW r \in ColumnRow, NEW what,
           Edit([form EXCEPT !.row = [form.row EXCEPT ![c] = r]], what),
           r.name = form.row[c].name, r.orig = form.row[c].orig,
           \A p \in Parts : r.part[p] = form.row[c].part[p] \/ what = <<c, p>>,
           what = <<c, "name">> \/ (r.drop = form.row[c].drop /\ r.rename = form.row[c].rename)
    PROVE  AInv'
<1> DEFINE rw == [form.row EXCEPT ![c] = r]
           f == [form EXCEPT !.row = rw]
<1>1. f = With(form, form.newschema, form.newname, form.attr, form.role, rw, form.extra)
  BY EditFrom DEF With
<1>2. rw \in [Columns -> ColumnRow] /\ \A d \in Columns : rw[d] = IF d = c THEN r ELSE form.row[d]
  BY EditFrom
<1>3. Edit(f, what) OBVIOUS
<1> HIDE DEF f, rw
<1>4. /\ \A d \in Columns : rw[d].name = form.row[d].name /\ rw[d].orig = form.row[d].orig
      /\ \A d \in Columns, p \in Parts : rw[d].part[p] = form.row[d].part[p] \/ what = <<d, p>>
      /\ \A d \in Columns : what = <<d, "name">> \/ (rw[d].drop = form.row[d].drop /\ rw[d].rename = form.row[d].rename)
  <2>1. ASSUME NEW d \in Columns
        PROVE  /\ rw[d].name = form.row[d].name /\ rw[d].orig = form.row[d].orig
               /\ \A p \in Parts : rw[d].part[p] = form.row[d].part[p] \/ what = <<d, p>>
               /\ what = <<d, "name">> \/ (rw[d].drop = form.row[d].drop /\ rw[d].rename = form.row[d].rename)
    <3>1. CASE d = c
      <4> rw[d] = r BY <1>2, <3>1
      <4> QED BY <3>1
    <3>2. CASE d # c
      <4> rw[d] = form.row[d] BY <1>2, <3>2
      <4> QED OBVIOUS
    <3> QED BY <3>1, <3>2
  <2> QED BY <2>1
<1>5. /\ form.newschema \in {Blank, "s2"} /\ form.newname \in {Blank, "n2"}
      /\ form.attr \in [Attributes[kind] -> Values] /\ form.role \in [Sides -> SUBSET exist]
      /\ form.extra \in [Extras -> {Blank, "half", "whole"}]
      /\ kind \notin Movable => form.newschema = Blank
      /\ kind = "extension" => form.newname = Blank
  BY EditFrom
<1>6. rw \in [Columns -> ColumnRow] BY <1>2
<1> QED BY <1>1, <1>3, <1>4, <1>5, <1>6, EditKeeps, SMTT(60)

\* The user edits the row of a column.
LEMMA EditColumnKeeps ==
    ASSUME AInv, EditColumn PROVE AInv'
<1>0. Editable /\ kind = "table" BY DEF EditColumn
<1>1. PICK c \in Columns :
        \/ \E p \in Parts : \E x \in {"new"} \cup (IF p = "nullable" THEN {} ELSE {Blank}) :
             Edit([form EXCEPT !.row[c].part[p] = x], <<c, p>>)
        \/ \E n \in Columns \cup {"c9"} : Edit([form EXCEPT !.row[c].rename = n], <<c, "name">>)
        \/ Edit([form EXCEPT !.row[c].drop = TRUE], <<c, "name">>)
  BY DEF EditColumn
<1>2. form.row[c] \in ColumnRow BY <1>0, EditFrom
<1>3. form.row[c] = [name |-> form.row[c].name, part |-> form.row[c].part, orig |-> form.row[c].orig,
                     drop |-> form.row[c].drop, rename |-> form.row[c].rename]
  BY <1>2 DEF ColumnRow
<1>4. CASE \E p \in Parts : \E x \in {"new"} \cup (IF p = "nullable" THEN {} ELSE {Blank}) :
             Edit([form EXCEPT !.row[c].part[p] = x], <<c, p>>)
  <2>1. PICK p \in Parts : \E x \in {"new"} \cup (IF p = "nullable" THEN {} ELSE {Blank}) :
          Edit([form EXCEPT !.row[c].part[p] = x], <<c, p>>)
    BY <1>4
  <2>2. PICK x \in {"new"} \cup (IF p = "nullable" THEN {} ELSE {Blank}) : Edit([form EXCEPT !.row[c].part[p] = x], <<c, p>>)
    BY <2>1
  <2> DEFINE q == [form.row[c].part EXCEPT ![p] = x]
             r == [form.row[c] EXCEPT !.part = q]
  <2>3. [form EXCEPT !.row[c].part[p] = x] = [form EXCEPT !.row = [form.row EXCEPT ![c] = r]] OBVIOUS
  <2>4. form.row[c].part \in Part BY <1>2 DEF ColumnRow
  <2>5. q \in Part /\ \A y \in Parts : q[y] = form.row[c].part[y] \/ <<c, p>> = <<c, y>> BY <2>4 DEF Part, Values
  <2> HIDE DEF q
  <2>6. r \in ColumnRow /\ r.name = form.row[c].name /\ r.orig = form.row[c].orig /\ r.part = q
        /\ r.drop = form.row[c].drop /\ r.rename = form.row[c].rename
    BY <1>2, <1>3, <2>5 DEF ColumnRow
  <2>7. Edit([form EXCEPT !.row = [form.row EXCEPT ![c] = r]], <<c, p>>) BY <2>2, <2>3
  <2> HIDE DEF r
  <2> QED BY <1>0, <2>5, <2>6, <2>7, RowEdit
<1>5. CASE \E n \in Columns \cup {"c9"} : Edit([form EXCEPT !.row[c].rename = n], <<c, "name">>)
  <2>1. PICK n \in Columns \cup {"c9"} : Edit([form EXCEPT !.row[c].rename = n], <<c, "name">>) BY <1>5
  <2> DEFINE r == [form.row[c] EXCEPT !.rename = n]
  <2>2. [form EXCEPT !.row[c].rename = n] = [form EXCEPT !.row = [form.row EXCEPT ![c] = r]] OBVIOUS
  <2>3. r \in ColumnRow /\ r.name = form.row[c].name /\ r.orig = form.row[c].orig /\ r.part = form.row[c].part
    BY <1>2, <1>3 DEF ColumnRow, ColumnNames
  <2>4. Edit([form EXCEPT !.row = [form.row EXCEPT ![c] = r]], <<c, "name">>) BY <2>1, <2>2
  <2> HIDE DEF r
  <2> QED BY <1>0, <2>3, <2>4, RowEdit
<1>6. CASE Edit([form EXCEPT !.row[c].drop = TRUE], <<c, "name">>)
  <2> DEFINE r == [form.row[c] EXCEPT !.drop = TRUE]
  <2>2. [form EXCEPT !.row[c].drop = TRUE] = [form EXCEPT !.row = [form.row EXCEPT ![c] = r]] OBVIOUS
  <2>3. r \in ColumnRow /\ r.name = form.row[c].name /\ r.orig = form.row[c].orig /\ r.part = form.row[c].part
    BY <1>2, <1>3 DEF ColumnRow
  <2>4. Edit([form EXCEPT !.row = [form.row EXCEPT ![c] = r]], <<c, "name">>) BY <1>6, <2>2
  <2> HIDE DEF r
  <2> QED BY <1>0, <2>3, <2>4, RowEdit
<1> QED BY <1>1, <1>4, <1>5, <1>6

\* The user adds or removes a member.
LEMMA EditMembershipKeeps ==
    ASSUME AInv, EditMembership PROVE AInv'
<1>0. Editable /\ kind = "role" BY DEF EditMembership
<1>1. PICK d \in Sides, r \in listed :
        Edit([form EXCEPT !.role[d] = IF r \in @ THEN @ \ {r} ELSE @ \cup {r}], <<d, r>>)
  BY DEF EditMembership
<1>2. r \in exist BY InvTypes
<1> DEFINE S == IF r \in form.role[d] THEN form.role[d] \ {r} ELSE form.role[d] \cup {r}
           ro == [form.role EXCEPT ![d] = S]
           f == [form EXCEPT !.role[d] = IF r \in @ THEN @ \ {r} ELSE @ \cup {r}]
<1>3. f = [form EXCEPT !.role = ro] OBVIOUS
<1>4. f = With(form, form.newschema, form.newname, form.attr, ro, form.row, form.extra)
  <2> HIDE DEF ro
  <2> QED BY <1>0, <1>3, EditFrom DEF With
<1>5. Edit(f, <<d, r>>) BY <1>1
<1>6. S \in SUBSET exist /\ \A q : q = r \/ (q \in S) = (q \in form.role[d]) BY <1>0, <1>2, EditFrom
<1> HIDE DEF f, S
<1>7. ro \in [Sides -> SUBSET exist] /\ \A e \in Sides, q \in Roles : (q \in ro[e]) = (q \in form.role[e]) \/ <<d, r>> = <<e, q>>
  BY <1>0, <1>6, EditFrom
<1> HIDE DEF ro
<1> QED BY <1>0, <1>4, <1>5, <1>7, EditFrom, EditKeeps

\* The user edits a row of the lower half.
LEMMA EditExtraKeeps ==
    ASSUME AInv, EditExtra PROVE AInv'
<1>0. Editable /\ kind = "table" BY DEF EditExtra
<1>1. PICK x \in Extras, y \in {"half", "whole"} : Edit([form EXCEPT !.extra[x] = y], <<x>>)
  BY DEF EditExtra
<1> DEFINE ex == [form.extra EXCEPT ![x] = y]
           f == [form EXCEPT !.extra[x] = y]
<1>2. f = With(form, form.newschema, form.newname, form.attr, form.role, form.row, ex)
  BY <1>0, EditFrom DEF With
<1>3. ex \in [Extras -> {Blank, "half", "whole"}] BY <1>0, EditFrom
<1>4. Edit(f, <<x>>) BY <1>1
<1> HIDE DEF ex, f
<1> QED BY <1>0, <1>2, <1>3, <1>4, EditFrom, EditKeeps

\* The user picks the table a foreign key refers to.
LEMMA PickRefTableKeeps ==
    ASSUME AInv, PickRefTable PROVE AInv'
<1>1. /\ panel = "open" /\ kind = "table" /\ due' = TRUE /\ asked' = Idle /\ behind' \in BOOLEAN
      /\ UNCHANGED <<kind, obj, exist, panel, listed, form, touched, editor, run, loads, quiet>>
  BY DEF PickRefTable, Editable, Fetch
<1>2. /\ form \in FormOf(kind) /\ Told(Here) /\ \A d \in Sides : form.role[d] \subseteq exist
  BY <1>1, OpenForm
<1>3. Told([left |-> <<>>, form |-> form, touched |-> touched']) BY <1>1, <1>2 DEF Here
<1> QED BY <1>1, <1>2, <1>3, ChangeKeeps

\* What was fetched sets an entry of the panel's lower half, and its SQL is due.
LEMMA FetchedKeeps ==
    ASSUME AInv, fetching # "nothing", fetching' = "nothing", due' = TRUE, behind' \in BOOLEAN,
           NEW x \in Extras, NEW to \in {Blank, "half"}, form' = [form EXCEPT !.extra[x] = to],
           UNCHANGED <<kind, obj, exist, panel, listed, touched, asked, editor, run, loads, quiet, Idle>>
    PROVE  AInv'
<1>1. UNCHANGED <<kind, obj, exist, panel, listed, touched, asked, editor, run, loads, quiet, Idle>> OBVIOUS
<1>2. form # Nothing /\ kind = "table" BY DEF AInv, Shape
<1>3. /\ form \in FormOf(kind) /\ kind \in Kinds /\ Snapshot(Here, kind, loads, exist) /\ Here.form = form /\ Here.touched = touched
  BY <1>2, InvTypes DEF Here
<1> DEFINE ex == [form.extra EXCEPT ![x] = to]
           f == [form EXCEPT !.extra[x] = to]
<1>4. f = With(form, form.newschema, form.newname, form.attr, form.role, form.row, ex)
  <2>1. form = [load |-> form.load, kind |-> form.kind, at |-> form.at, newschema |-> form.newschema,
                newname |-> form.newname, attr |-> form.attr, role |-> form.role, roleOrig |-> form.roleOrig,
                listed |-> form.listed, row |-> form.row, extra |-> form.extra]
    BY <1>3, FormFields
  <2>2. f = [form EXCEPT !.extra = ex] OBVIOUS
  <2> HIDE DEF f, ex
  <2> QED BY <2>1, <2>2 DEF With
<1>5. form.extra \in [Extras -> {Blank, "half", "whole"}] BY <1>3, FormShape
<1>6. ex \in [Extras -> {Blank, "half", "whole"}] BY <1>5
<1> HIDE DEF f
<1>7. /\ f.load = form.load /\ f.listed = form.listed /\ f.role = form.role /\ f.row = form.row /\ f.attr = form.attr
      /\ f.roleOrig = form.roleOrig /\ f.extra = ex /\ f.kind = form.kind /\ form.kind = kind
  <2>1. form.kind = kind BY <1>3, FormShape
  <2> HIDE DEF ex
  <2> QED BY <1>4, <2>1 DEF With
<1>8. f \in FormOf(kind)
  <2> HIDE DEF ex
  <2>1. /\ form.newschema \in {Blank, "s2"} /\ form.newname \in {Blank, "n2"} /\ form.attr \in [Attributes[kind] -> Values]
        /\ form.role \in [Sides -> SUBSET Roles] /\ form.row \in [Columns -> ColumnRow]
    BY <1>3, FormShape
  <2>2. (kind \notin Movable => form.newschema = Blank) /\ (kind = "extension" => form.newname = Blank)
    BY <1>3, FormLimits
  <2> QED BY <1>2, <1>3, <1>4, <1>6, <2>1, <2>2, WithFits
<1>10. form' = f BY DEF f
<1> DEFINE v == [left |-> <<>>, form |-> f, touched |-> touched']
<1>11. Told(v) /\ \A d \in Sides : f.role[d] \subseteq exist
  <2>1. v.form = f /\ v.touched = touched BY <1>1
  <2> HIDE DEF v
  <2> QED BY <1>3, <1>7, <2>1 DEF Told, Snapshot
<1>12. CASE panel = "open"
  <2> HIDE DEF ex
  <2> QED BY <1>1, <1>7, <1>8, <1>10, <1>11, <1>12, ChangeKeeps
<1>13. CASE panel # "open"
  <2>1. Snapshot(v, kind, loads, exist)
    <3>1. PanelWork(v) /\ v.form = f BY DEF PanelWork
    <3>2. form.load <= loads BY <1>2, InvTypes
    <3> HIDE DEF v
    <3> QED BY <1>7, <1>8, <1>11, <3>1, <3>2 DEF Snapshot
  <2>2. Here' = v BY <1>10 DEF Here
  <2>3. v.form = f /\ v.touched = touched BY <1>1
  <2> HIDE DEF v
  <2>4. Shape' BY <1>1, <1>13, <2>1, <2>2 DEF AInv, Shape, AlterTypeOK
  <2>5. AsShown(Here, quiet, obj) => AsShown(v, quiet, obj) BY <1>3, <1>7, <2>3 DEF AsShown
  <2>6. AtLoad(Here, quiet, obj) => AtLoad(v, quiet, obj) BY <1>3, <1>7, <2>3, ZenonT(60) DEF AtLoad
  <2>7. Unaltered' BY <1>1, <1>2, <1>3, <2>2, <2>5, <2>6 DEF AInv, Unaltered
  <2>8. InStep' BY <1>1, <1>13 DEF InStep
  <2>9. Progress' BY <1>1 DEF AInv, Progress
  <2> QED BY <2>4, <2>7, <2>8, <2>9 DEF AInv
<1> QED BY <1>12, <1>13

\* The columns of that table arrive.
LEMMA RefColumnsKeeps ==
    ASSUME AInv, HandleDDLFKRefColumns PROVE AInv'
<1>1. /\ fetching = "columns" /\ fetching' = "nothing" /\ form' = [form EXCEPT !.extra["foreign key"] = "half"]
      /\ UNCHANGED <<kind, obj, exist, panel, listed, touched, due, asked, editor, behind, run, loads, quiet, Idle>>
  BY DEF HandleDDLFKRefColumns
<1>2. due' = TRUE
  <2>1. due BY <1>1 DEF AInv, Shape
  <2>2. due \in BOOLEAN BY DEF AInv, Shape
  <2> QED BY <1>1, <2>1, <2>2
<1>3. behind' \in BOOLEAN BY <1>1 DEF AInv, Shape
<1>4. "foreign key" \in Extras BY DEF Extras
<1> QED BY <1>1, <1>2, <1>3, <1>4, FetchedKeeps

\* A button of a row is pressed: whatever was under way is aborted.
LEMMA PressRowKeeps ==
    ASSUME AInv, PressRow PROVE AInv'
<1>1. /\ panel = "open" /\ kind = "table" /\ asked' = Idle /\ behind' = (behind \/ asked # Idle)
      /\ fetching' \in {"add", "remove"} /\ Here' = Here
      /\ UNCHANGED <<kind, obj, exist, panel, listed, form, touched, due, editor, run, loads, quiet, Idle>>
  BY DEF PressRow, Editable, Fetch, Here
<1>2. Idle.form = Nothing BY DEF Idle
<1>3. Shape' BY <1>1 DEF AInv, Shape, AlterTypeOK
<1>4. Unaltered' BY <1>1, <1>2 DEF AInv, Unaltered
<1>5. InStep' BY <1>1 DEF AInv, InStep
<1>6. Progress' BY <1>1 DEF AInv, Progress
<1> QED BY <1>3, <1>4, <1>5, <1>6 DEF AInv

\* The answer for a row adds it, takes it away, or is an error.
LEMMA ColumnRowKeeps ==
    ASSUME AInv, HandleDDLColumnRow PROVE AInv'
<1>1. /\ fetching # "nothing" /\ fetching' = "nothing"
      /\ UNCHANGED <<kind, obj, exist, panel, listed, touched, asked, editor, behind, run, loads, quiet, Idle>>
      /\ (due' = due /\ form' = form)
         \/ (due' = TRUE /\ form' \in {form, [form EXCEPT !.extra["column"] = Blank]})
  BY DEF HandleDDLColumnRow
<1>2. CASE form' = form
  <2>1. Here' = Here BY <1>1, <1>2 DEF Here
  <2>2. due' \in BOOLEAN /\ (due => due')
    <3>1. due \in BOOLEAN BY DEF AInv, Shape
    <3>2. due' = due \/ due' = TRUE BY <1>1, Zenon
    <3>3. CASE due' = due BY <3>1, <3>3, Zenon
    <3>4. CASE due' = TRUE BY <3>4, Zenon
    <3> QED BY <3>2, <3>3, <3>4, Zenon
  <2>3. Shape' BY <1>1, <1>2, <2>1, <2>2 DEF AInv, Shape, AlterTypeOK
  <2>4. Unaltered' BY <1>1, <1>2, <2>1 DEF AInv, Unaltered
  <2>5. InStep' BY <1>1, <1>2, <2>2 DEF AInv, InStep
  <2>6. Progress' BY <1>1 DEF AInv, Progress
  <2> QED BY <2>3, <2>4, <2>5, <2>6 DEF AInv
<1>3. CASE due' = TRUE /\ form' = [form EXCEPT !.extra["column"] = Blank]
  <2>1. behind' \in BOOLEAN BY <1>1 DEF AInv, Shape
  <2>2. "column" \in Extras BY DEF Extras
  <2> QED BY <1>1, <1>3, <2>1, <2>2, FetchedKeeps
<1> QED BY <1>1, <1>2, <1>3

\* The browser asks for a preview of the form as it is.
LEMMA SendPreviewKeeps ==
    ASSUME AInv, SendPreview PROVE AInv'
<1>1. /\ panel = "open" /\ asked' = Here /\ Here' = Here /\ due' = FALSE
      /\ fetching' = "nothing" /\ behind' = FALSE
      /\ UNCHANGED <<kind, obj, exist, panel, listed, form, touched, editor, run, loads, quiet, Idle>>
  BY DEF SendPreview, Here
<1>2. form # Nothing /\ Snapshot(Here, kind, loads, exist) /\ Here # Idle /\ Here.form = form
  <2>1. form # Nothing /\ Here.form = form BY <1>1 DEF AInv, Shape, Here
  <2> QED BY <2>1, InvTypes
<1>3. Shape' BY <1>1, <1>2 DEF AInv, Shape, AlterTypeOK
<1>4. Unaltered' BY <1>1 DEF AInv, Unaltered
<1>5. InStep' BY <1>1, <1>2 DEF InStep
<1>6. Progress' BY <1>1 DEF AInv, Progress
<1> QED BY <1>3, <1>4, <1>5, <1>6 DEF AInv

\* The answer arrives in the script tab, or is dropped as it is late.
LEMMA PreviewKeeps ==
    ASSUME AInv, HandleDDLPreview PROVE AInv'
<1>1. /\ asked # Idle /\ asked' = Idle /\ Here' = Here
      /\ editor' = IF RunAlter(asked.form) = Error THEN editor ELSE asked
      /\ UNCHANGED <<kind, obj, exist, panel, listed, form, touched, due, fetching, behind, run, loads, quiet, Idle>>
  BY DEF HandleDDLPreview, RenderPreview, Here
<1>2. Snapshot(asked, kind, loads, exist) BY <1>1, InvTypes
<1>3. Shape'
  <2>1. asked.form.load <= loads BY <1>2 DEF Snapshot
  <2> QED BY <1>1, <1>2, <2>1 DEF AInv, Shape, AlterTypeOK
<1>4. Unaltered'
  <2>1. Idle.form = Nothing BY DEF Idle
  <2> QED BY <1>1, <2>1 DEF AInv, Unaltered
<1>5. InStep' BY <1>1 DEF AInv, InStep
<1>6. Progress' BY <1>1 DEF AInv, Progress
<1> QED BY <1>3, <1>4, <1>5, <1>6 DEF AInv

\* What a load fills the form with.
LEMMA PrefillFits ==
    ASSUME AInv, NEW attrs \in BOOLEAN, NEW members \in BOOLEAN, NEW cols \in BOOLEAN,
           NEW f, f = Prefill(attrs, members, cols)
    PROVE  LET v == [left |-> <<>>, form |-> f, touched |-> {}]
           IN  /\ Snapshot(v, kind, loads + 1, exist) /\ f.load = loads + 1 /\ f.listed = listed
               /\ Found => AsShown(v, loads + 1, obj) /\ AtLoad(v, loads + 1, obj)
<1> USE InvTypes, ObjectParts
<1> DEFINE roles == [d \in Sides |-> IF Found /\ members THEN obj.role[d] ELSE {}]
           R(c) == [name |-> obj.cols[c].name, part |-> obj.cols[c].part,
                    orig |-> obj.cols[c].part, drop |-> FALSE, rename |-> Blank]
           NoRow == [name |-> Blank, part |-> NoColumn.part, orig |-> NoColumn.part,
                     drop |-> FALSE, rename |-> Blank]
           att == [a \in Attributes[kind] |-> IF Found /\ attrs THEN Shown(a) ELSE Blank]
           ro == [d \in Sides |-> roles[d] \cap listed]
           rw == [c \in Columns |-> IF Found /\ cols THEN R(c) ELSE NoRow]
           ex == [x \in Extras |-> Blank]
           v == [left |-> <<>>, form |-> f, touched |-> {}]
<1>1. f = [load |-> loads + 1, kind |-> kind, at |-> <<"s1", "n1">>, newschema |-> Blank, newname |-> Blank,
           attr |-> att, role |-> ro, roleOrig |-> roles, listed |-> listed, row |-> rw, extra |-> ex]
  BY Zenon DEF Prefill
<1>2. \A d \in Sides : roles[d] \subseteq exist /\ roles[d] \subseteq Roles /\ (kind # "role" => roles[d] = {})
  <2>1. \A d \in Sides : obj.role[d] \subseteq exist BY DEF AInv, Shape, AlterTypeOK
  <2>2. kind # "role" => \A d \in Sides : obj.role[d] = {} BY DEF ObjectOf
  <2> QED BY <2>1, <2>2
<1>3. att \in [Attributes[kind] -> Values]
  <2>1. \A a \in Attributes[kind] : obj.attr[a] \in Values OBVIOUS
  <2>2. \A a \in Attributes[kind] : Shown(a) \in Values BY <2>1 DEF Shown, Values
  <2>3. Blank \in Values BY DEF Values
  <2> QED BY <2>2, <2>3
<1>4. \A c \in Columns : /\ rw[c] \in ColumnRow /\ rw[c].part = rw[c].orig /\ ~rw[c].drop /\ rw[c].rename = Blank
                         /\ rw[c].name = IF Found /\ cols THEN obj.cols[c].name ELSE Blank
                         /\ Found /\ cols => rw[c].orig = obj.cols[c].part
  <2> TAKE c \in Columns
  <2>1. obj.cols[c] \in [name : ColumnNames, part : Part] OBVIOUS
  <2>2. Blank \in ColumnNames /\ NoColumn.part \in Part BY NoColumnFits DEF ColumnNames
  <2>3. R(c) \in ColumnRow /\ NoRow \in ColumnRow BY <2>1, <2>2 DEF ColumnRow
  <2> QED BY <2>3
<1>5. \A c \in Columns : kind # "table" => rw[c].name = Blank BY <1>4, NamesApart
<1>6. \A c, d \in Columns : rw[c].name = rw[d].name /\ rw[c].name # Blank => c = d BY <1>4, NamesApart
<1>7. ro \in [Sides -> SUBSET Roles] /\ roles \in [Sides -> SUBSET Roles] BY <1>2
<1>8. kind # "role" => ro = roles BY <1>2
<1>9. rw \in [Columns -> ColumnRow] /\ ex \in [Extras -> {Blank, "half", "whole"}] BY <1>4
<1>10. \A a \in Attributes[kind] : att[a] = Blank \/ (Found => obj.attr[a] \in {att[a], "fine"})
  BY DEF Shown
<1>11. \A x \in Extras : ex[x] = Blank OBVIOUS
<1>12. \A d \in Sides : ro[d] = roles[d] \cap listed OBVIOUS
<1> HIDE DEF att, ro, rw, ex, roles
<1>13. /\ f.load = loads + 1 /\ f.newschema = Blank /\ f.newname = Blank /\ f.attr = att /\ f.role = ro
       /\ f.roleOrig = roles /\ f.listed = listed /\ f.row = rw /\ f.extra = ex
  BY <1>1
<1>14. f \in FormOf(kind)
  <2>1. f = [load |-> f.load, kind |-> kind, at |-> <<"s1", "n1">>, newschema |-> f.newschema, newname |-> f.newname,
             attr |-> f.attr, role |-> f.role, roleOrig |-> f.roleOrig, listed |-> f.listed, row |-> f.row,
             extra |-> f.extra]
    BY <1>1, <1>13, Zenon
  <2>2. f.load \in Nat \ {0} /\ listed \subseteq Roles BY <1>13
  <2> QED BY <1>3, <1>5, <1>6, <1>7, <1>8, <1>9, <1>11, <1>13, <2>1, <2>2, FormIs, SMTT(30)
<1>15. v.form = f /\ v.touched = {} /\ PanelWork(v) BY DEF PanelWork
<1> HIDE DEF v
<1>16. Told(v)
  <2>1. \A c \in Columns : rw[c].part = rw[c].orig /\ ~rw[c].drop /\ rw[c].rename = Blank BY <1>4
  <2> QED BY <1>12, <1>13, <1>15, <2>1 DEF Told
<1>17. Snapshot(v, kind, loads + 1, exist)
  <2>1. \A d \in Sides : ro[d] \subseteq exist BY <1>2, <1>12
  <2>2. loads + 1 <= loads + 1 OBVIOUS
  <2> QED BY <1>13, <1>14, <1>15, <1>16, <2>1, <2>2 DEF Snapshot
<1>18. ASSUME Found PROVE AsShown(v, loads + 1, obj) /\ AtLoad(v, loads + 1, obj)
  <2>1. DOMAIN att = Attributes[kind] BY <1>3
  <2>2. AsShown(v, loads + 1, obj) BY <1>10, <1>13, <1>15, <1>18, <2>1 DEF AsShown
  <2>3. obj.schema = "s1" /\ obj.name = "n1" BY <1>18 DEF Found
  <2>4. AtLoad(v, loads + 1, obj) BY <1>4, <1>13, <1>15, <1>18, <2>3 DEF AtLoad
  <2> QED BY <2>2, <2>4
<1> QED BY <1>13, <1>17, <1>18 DEF v

\* The panel is rendered from the object as it is.
LEMMA PanelKeeps ==
    ASSUME AInv, HandleDDLPanel PROVE AInv'
<1>1. PICK attrs \in BOOLEAN, members \in BOOLEAN, cols \in BOOLEAN : form' = Prefill(attrs, members, cols)
  BY DEF HandleDDLPanel
<1>2. PICK f : f = Prefill(attrs, members, cols) OBVIOUS
<1> DEFINE v == [left |-> <<>>, form |-> f, touched |-> {}]
<1>3. /\ Snapshot(v, kind, loads + 1, exist) /\ f.load = loads + 1 /\ f.listed = listed
      /\ Found => AsShown(v, loads + 1, obj) /\ AtLoad(v, loads + 1, obj)
  BY <1>2, PrefillFits
<1>4. /\ Here' = v /\ form' = f /\ asked' = Idle /\ panel' = "open" /\ loads' = loads + 1 /\ due' = TRUE
      /\ fetching' = "nothing" /\ behind' = FALSE /\ quiet' = IF Found THEN quiet ELSE 0
      /\ UNCHANGED <<kind, obj, exist, listed, editor, run, Idle>>
  BY <1>1, <1>2 DEF HandleDDLPanel, Here
<1>5. v.form = f OBVIOUS
<1> HIDE DEF v
<1>6. f # Nothing BY <1>3, <1>5, InvTypes, FormsAre DEF Snapshot
<1>7. \A w : Snapshot(w, kind, loads, exist) => Snapshot(w, kind, loads + 1, exist)
  <2>1. loads + 1 \in Nat /\ loads <= loads + 1 BY InvTypes
  <2> QED BY <2>1, InvTypes, SnapshotLater
<1>8. Shape'
  <2>1. AlterTypeOK'
    <3>1. run.form.load <= loads + 1 /\ editor.form.load <= loads + 1
      <4>1. run.form.load <= loads /\ editor.form.load <= loads /\ run.form.load \in Nat /\ editor.form.load \in Nat
        BY InvTypes DEF AInv, Shape, AlterTypeOK
      <4> QED BY <4>1, InvTypes
    <3>2. quiet' \in 0 .. loads' + 1 BY <1>4, InvTypes
    <3> QED BY <1>4, <3>1, <3>2 DEF AInv, Shape, AlterTypeOK
  <2>2. loads' \in Nat BY <1>4, InvTypes
  <2> QED BY <1>3, <1>4, <1>6, <1>7, <2>1, <2>2 DEF AInv, Shape
<1>9. Unaltered'
  <2>1. \A w \in {editor, run} : w # Idle => w.form.load \in Nat \ {0} BY InvTypes
  <2>2. run # Idle => AsShown(run, quiet', obj) BY <1>4, <2>1 DEF AInv, Unaltered, AsShown
  <2>3. AsShown(v, quiet', obj) /\ AtLoad(v, quiet', obj)
    <3>1. CASE Found /\ quiet = loads + 1 BY <1>3, <1>4, <3>1
    <3>2. CASE ~(Found /\ quiet = loads + 1)
      <4>1. f.load # quiet' BY <1>3, <1>4, <3>2, InvTypes
      <4> QED BY <1>5, <4>1 DEF AsShown, AtLoad
    <3> QED BY <3>1, <3>2
  <2>4. ASSUME run.form.load # quiet' \/ run = Idle, editor.form # Nothing
        PROVE  AsShown(editor, quiet', obj) /\ AtLoad(editor, quiet', obj)
    <3>1. editor # Idle BY <2>4, InvTypes
    <3>2. CASE quiet' = quiet BY <2>4, <3>2 DEF AInv, Unaltered
    <3>3. CASE quiet' = 0 BY <2>1, <3>1, <3>3 DEF AsShown, AtLoad
    <3> QED BY <1>4, <3>2, <3>3
  <2>5. Idle.form = Nothing BY DEF Idle
  <2> QED BY <1>4, <2>2, <2>3, <2>4, <2>5 DEF Unaltered
<1>10. InStep' BY <1>4 DEF InStep
<1>11. Progress'
  <2>1. run # Idle => run.form.load \in Nat \ {0} BY InvTypes
  <2> QED BY <1>4, <2>1 DEF AInv, Progress
<1> QED BY <1>8, <1>9, <1>10, <1>11 DEF AInv

-----------------------------------------------------------------------------
(* A script starts.                                                        *)

\* The statements of a script are those of its parts.
LEMMA RangeOf ==
    ASSUME NEW f, NEW A \in Seq(Early(f)), NEW C \in Seq(Late(f)), NEW L,
           L = ((A \o Moves(f)) \o Renames(f)) \o C
    PROVE  L \in Seq(FormStatements(f)) /\ Range(A) \subseteq Range(L) /\ Range(C) \subseteq Range(L)
<1> DEFINE T == FormStatements(f)
           m == Moves(f)
           r == Renames(f)
<1>1. A \in Seq(T) /\ C \in Seq(T) /\ m \in Seq(T) /\ r \in Seq(T)
  BY MovesType, SeqWidens DEF FormStatements
<1> HIDE DEF T, m, r
<1>2. A \o m \in Seq(T) /\ Range(A) \subseteq Range(A \o m) BY <1>1, ConcatRange
<1> DEFINE d == A \o m
<1>3. d \in Seq(T) /\ Range(A) \subseteq Range(d) BY <1>2
<1> HIDE DEF d
<1>4. d \o r \in Seq(T) /\ Range(d) \subseteq Range(d \o r) BY <1>1, <1>3, ConcatRange
<1> DEFINE e == d \o r
<1>5. e \in Seq(T) /\ Range(d) \subseteq Range(e) BY <1>4
<1> HIDE DEF e
<1>6. e \o C \in Seq(T) /\ Range(e \o C) = Range(e) \cup Range(C) BY <1>1, <1>5, ConcatRange
<1>7. L = e \o C BY DEF e, d, m, r
<1> QED BY <1>3, <1>5, <1>6, <1>7 DEF T

\* A form is made into a script that asks for all it says and, begun
\* against the object the form was rendered from, has everything before it.
LEMMA FormBegins ==
    ASSUME NEW k \in Kinds, NEW f \in FormOf(k), RunAlter(f) # Error, NEW o \in ObjectOf(k),
           o.schema = "s1", o.name = "n1",
           \/ \A c \in Columns : f.row[c].name = Blank
           \/ \A c \in Columns : f.row[c].name = o.cols[c].name,
           \A c \in Columns : f.row[c].name # Blank => o.cols[c].part = f.row[c].orig
    PROVE  /\ RunAlter(f) \in Seq(FormStatements(f)) /\ Staged(f, RunAlter(f), o)
           /\ AllDone(f, Range(RunAlter(f)), o)
<1> DEFINE L == RunAlter(f)
           T == Range(L)
<1>1. PICK A, C : Shaped(f, A, C) /\ L = ((A \o Moves(f)) \o Renames(f)) \o C BY AlterShape
<1>2. /\ A \in Seq(Early(f)) /\ C \in Seq(Late(f)) /\ (f.kind # "table" => C = <<>>) /\ Sorted(C)
      /\ RoleStatements(f) \subseteq Range(A) /\ Late(f) \subseteq Range(C) /\ AllSet(f, Range(A))
  BY <1>1 DEF Shaped
<1>3. L \in Seq(FormStatements(f)) /\ Range(A) \subseteq T /\ Range(C) \subseteq T BY <1>1, <1>2, RangeOf
<1>4. Staged(f, L, o)
  <2>1. o.schema = f.at[1] /\ o.name = f.at[2] BY FormShape
  <2> QED BY <1>1, <1>2, <2>1 DEF Staged
<1> HIDE DEF L, T
<1>5. AttributesDone(f, T, o) BY <1>2, <1>3 DEF AttributesDone, AllSet
<1>6. MembersDone(f, T, o) BY <1>2, <1>3 DEF MembersDone, RoleStatements
<1>7. ExtrasDone(f, T, o) BY <1>2, <1>3 DEF ExtrasDone, Late
<1>8. ColumnsDone(f, T, o)
  <2> SUFFICES ASSUME NEW c \in Columns
               PROVE  IF f.row[c].name # Blank THEN ColumnDone(f, T, c, o)
                      ELSE o.cols[c].name = Blank \/ \A d \in Columns : f.row[d].name = Blank
    BY DEF ColumnsDone
  <2>1. CASE f.row[c].name = Blank BY <2>1
  <2>2. CASE f.row[c].name # Blank
    <3> DEFINE r == f.row[c]
    <3>1. o.cols[c].name = r.name /\ o.cols[c].part = r.orig BY <2>2
    <3>2. StatementsOf(f, c) \subseteq T BY <1>2, <1>3 DEF Late, ColumnsStatements
    <3>3. r.drop => Drop(f, c) \in T BY <2>2, <3>2 DEF StatementsOf
    <3>4. ASSUME ~r.drop PROVE o.cols[c].name = GivenOr(r.rename, r.name) \/ Rename(f, c) \in T
      <4>1. CASE r.rename \in {Blank, r.name} BY <3>1, <4>1 DEF GivenOr
      <4>2. CASE r.rename \notin {Blank, r.name} BY <2>2, <3>2, <3>4, <4>2 DEF StatementsOf
      <4> QED BY <4>1, <4>2
    <3>5. ASSUME ~r.drop, NEW p \in Parts PROVE o.cols[c].part[p] = WantedPart(r, p) \/ ChangeOf(f, c, p) \in T
      <4>1. CASE Differs(r, p)
        <5>1. ChangeOf(f, c, p) \in Changes(f, c, Changed(f, c)) BY <4>1 DEF Changes, Changed, ChangeOf
        <5> QED BY <2>2, <3>2, <3>5, <5>1 DEF StatementsOf
      <4>2. CASE ~Differs(r, p) BY <3>1, <4>2 DEF Differs, WantedPart, GivenOr
      <4> QED BY <4>1, <4>2
    <3> HIDE DEF r
    <3>6. ColumnDone(f, T, c, o) BY <3>1, <3>3, <3>4, <3>5 DEF ColumnDone, r
    <3> QED BY <2>2, <3>6
  <2> QED BY <2>1, <2>2
<1> QED BY <1>3, <1>4, <1>5, <1>6, <1>7, <1>8 DEF AllDone, L, T

\* A run starts with the script of the form.
LEMMA StartRunKeeps ==
    ASSUME AInv, StartRun PROVE AInv'
<1>1. /\ run = Idle /\ editor # Idle /\ run' = [editor EXCEPT !.left = RunAlter(editor.form)]
      /\ UNCHANGED <<kind, obj, exist, panel, listed, form, touched, due, asked, editor, fetching, behind, loads, quiet, Idle, Here>>
  BY DEF StartRun, Here
<1>2. Snapshot(editor, kind, loads, exist) /\ RunAlter(editor.form) # Error /\ editor.form # Nothing
      /\ editor.form \in FormOf(kind) /\ editor.form.load <= loads
  BY <1>1, InvTypes DEF AInv, Shape, Snapshot
<1> DEFINE f == editor.form
           L == RunAlter(f)
<1>3. run'.left = L /\ run'.form = f /\ run'.touched = editor.touched /\ PanelWork(run')
  <2>1. editor = [left |-> editor.left, form |-> editor.form, touched |-> editor.touched] BY <1>2 DEF Snapshot, PanelWork
  <2> QED BY <1>1, <2>1 DEF PanelWork
<1> HIDE DEF L
<1>4. Snapshot(run', kind, loads, exist) BY <1>2, <1>3 DEF Snapshot, Told
<1>5. run' # Idle BY <1>4, InvTypes, FormsAre DEF Snapshot
<1>6. L \in Seq(FormStatements(f))
  <2>1. PICK A, C : Shaped(f, A, C) /\ L = ((A \o Moves(f)) \o Renames(f)) \o C
    BY <1>2, InvTypes, AlterShape DEF L
  <2>2. A \in Seq(Early(f)) /\ C \in Seq(Late(f)) BY <2>1 DEF Shaped
  <2> QED BY <2>1, <2>2, RangeOf
<1>7. AsShown(editor, quiet, obj) /\ AtLoad(editor, quiet, obj) BY <1>1, <1>2 DEF AInv, Unaltered
<1>8. AsShown(run', quiet, obj) BY <1>3, <1>7 DEF AsShown
<1>9. Shape'
  <2>1. AlterTypeOK' BY <1>1, <1>2, <1>3 DEF AInv, Shape, AlterTypeOK
  <2> QED BY <1>1, <1>3, <1>4, <1>6, <2>1 DEF AInv, Shape
<1>10. Unaltered' BY <1>1, <1>8 DEF AInv, Unaltered
<1>11. InStep' BY <1>1 DEF AInv, InStep
<1>12. Progress'
  <2> SUFFICES ASSUME f.load = quiet PROVE Staged(f, L, obj) /\ AllDone(f, Range(L), obj)
    BY <1>1, <1>3 DEF Progress
  <2>1. /\ obj.schema = "s1" /\ obj.name = "n1"
        /\ (\A c \in Columns : f.row[c].name = Blank) \/ (\A c \in Columns : f.row[c].name = obj.cols[c].name)
        /\ \A c \in Columns : f.row[c].name # Blank => obj.cols[c].part = f.row[c].orig
    BY <1>7 DEF AtLoad
  <2> HIDE DEF f
  <2>2. f \in FormOf(kind) /\ RunAlter(f) # Error BY <1>2 DEF f
  <2> QED BY <2>1, <2>2, InvTypes, FormBegins DEF L
<1> QED BY <1>9, <1>10, <1>11, <1>12 DEF AInv

-----------------------------------------------------------------------------
(* A statement runs.                                                       *)

\* The first statement of two scripts, one after the other.
LEMMA HeadOfTwo ==
    ASSUME NEW T, NEW a \in Seq(T), NEW b \in Seq(T), a # <<>>
    PROVE  /\ Head(a) \in T /\ Tail(a) \in Seq(T)
           /\ a \o b # <<>> /\ Head(a \o b) = Head(a) /\ Tail(a \o b) = Tail(a) \o b
<1>1. Len(a) \in Nat /\ Len(a) # 0 /\ Len(b) \in Nat OBVIOUS
<1>2. Head(a) \in T /\ Tail(a) \in Seq(T) /\ Len(Tail(a)) = Len(a) - 1 OBVIOUS
<1>3. a \o b \in Seq(T) /\ Len(a \o b) = Len(a) + Len(b) OBVIOUS
<1>4. a \o b # <<>> /\ Head(a \o b) = Head(a)
  <2>1. 1 \in 1 .. Len(a) BY <1>1
  <2>2. (a \o b)[1] = a[1] BY <2>1
  <2> QED BY <1>1, <1>3, <2>2
<1>5. Tail(a \o b) = Tail(a) \o b
  <2> DEFINE u == Tail(a \o b)
             w == Tail(a) \o b
             m == Len(a)
             n == Len(b)
  <2>1. m \in Nat /\ m # 0 /\ n \in Nat BY <1>1
  <2>2. u \in Seq(T) /\ w \in Seq(T) /\ Len(u) = (m + n) - 1 /\ Len(w) = (m - 1) + n
    BY <1>1, <1>2, <1>3, <1>4
  <2>3. \A i \in 1 .. (m + n) - 1 : u[i] = w[i]
    <3> SUFFICES ASSUME NEW i \in 1 .. (m + n) - 1 PROVE u[i] = w[i] OBVIOUS
    <3>1. u[i] = (a \o b)[i + 1] BY <1>1, <1>3, <1>4
    <3>2. CASE i \in 1 .. m - 1
      <4>1. (a \o b)[i + 1] = a[i + 1] BY <1>1, <3>2
      <4>2. Tail(a)[i] = a[i + 1] BY <1>1, <3>2
      <4>3. w[i] = Tail(a)[i] BY <1>1, <1>2, <3>2
      <4> QED BY <3>1, <4>1, <4>2, <4>3
    <3>3. CASE i \in m .. (m + n) - 1
      <4>1. (a \o b)[i + 1] = b[(i + 1) - m] BY <1>1, <3>3
      <4>2. w[i] = b[i - (m - 1)] BY <1>1, <1>2, <3>3
      <4> QED BY <1>1, <3>1, <3>3, <4>1, <4>2
    <3> QED BY <1>1, <3>2, <3>3
  <2> HIDE DEF u, w, m, n
  <2>4. Len(u) = Len(w) BY <2>1, <2>2
  <2> QED BY <2>1, <2>2, <2>3, <2>4
<1> QED BY <1>2, <1>4, <1>5

\* The first statement of a script that begins with one.
LEMMA OneFirst ==
    ASSUME NEW T, NEW x \in T, NEW b \in Seq(T)
    PROVE  <<x>> \o b # <<>> /\ Head(<<x>> \o b) = x /\ Tail(<<x>> \o b) = b
<1> DEFINE a == <<x>>
<1>1. a \in Seq(T) /\ a # <<>> /\ Head(a) = x /\ Tail(a) = <<>> OBVIOUS
<1> HIDE DEF a
<1>2. <<>> \o b = b BY ConcatEmptySeq
<1> QED BY <1>1, <1>2, HeadOfTwo DEF a

\* What comes first in a script under way, where the object is by then, and
\* that what is left is under way when the object moved as it says.
LEMMA StagedHead ==
    ASSUME NEW k \in Kinds, NEW f \in FormOf(k), NEW o, NEW L, Staged(f, L, o), L # <<>>,
           NEW s, s = Head(L)
    PROVE  /\ \A t \in Range(Tail(L)) : InOrder(s, t)
           /\ \/ /\ s \in Early(f) /\ o.schema = f.at[1] /\ o.name = f.at[2]
                 /\ \A p : p.schema = o.schema /\ p.name = o.name => Staged(f, Tail(L), p)
              \/ /\ f.newschema # Blank /\ s = [op |-> "schema", at |-> f.at, to |-> f.newschema]
                 /\ o.schema = f.at[1] /\ o.name = f.at[2]
                 /\ \A p : p.schema = f.newschema /\ p.name = o.name => Staged(f, Tail(L), p)
              \/ /\ f.newname # Blank /\ s = [op |-> "rename", at |-> <<Final(f), f.at[2]>>, to |-> f.newname]
                 /\ o.schema = Final(f) /\ o.name = f.at[2]
                 /\ \A p : p.schema = o.schema /\ p.name = f.newname => Staged(f, Tail(L), p)
              \/ /\ s \in Late(f) /\ k = "table" /\ o.schema = Final(f) /\ o.name = GivenOr(f.newname, f.at[2])
                 /\ \A p : p.schema = o.schema /\ p.name = o.name => Staged(f, Tail(L), p)
<1> DEFINE M == Moves(f)
           R == Renames(f)
           T == FormStatements(f)
           Goal == /\ \A t \in Range(Tail(L)) : InOrder(s, t)
           /\ \/ /\ s \in Early(f) /\ o.schema = f.at[1] /\ o.name = f.at[2]
                 /\ \A p : p.schema = o.schema /\ p.name = o.name => Staged(f, Tail(L), p)
              \/ /\ f.newschema # Blank /\ s = [op |-> "schema", at |-> f.at, to |-> f.newschema]
                 /\ o.schema = f.at[1] /\ o.name = f.at[2]
                 /\ \A p : p.schema = f.newschema /\ p.name = o.name => Staged(f, Tail(L), p)
              \/ /\ f.newname # Blank /\ s = [op |-> "rename", at |-> <<Final(f), f.at[2]>>, to |-> f.newname]
                 /\ o.schema = Final(f) /\ o.name = f.at[2]
                 /\ \A p : p.schema = o.schema /\ p.name = f.newname => Staged(f, Tail(L), p)
              \/ /\ s \in Late(f) /\ k = "table" /\ o.schema = Final(f) /\ o.name = GivenOr(f.newname, f.at[2])
                 /\ \A p : p.schema = o.schema /\ p.name = o.name => Staged(f, Tail(L), p)
<1>0. f.kind = k BY FormShape
<1>1. PICK A \in Seq(Early(f)), C \in Seq(Late(f)) :
        /\ Sorted(C) /\ (f.kind # "table" => C = <<>>)
        /\ \/ /\ L = ((A \o M) \o R) \o C
              /\ o.schema = f.at[1] /\ o.name = f.at[2]
           \/ L = R \o C /\ o.schema = Final(f) /\ o.name = f.at[2]
           \/ L = C /\ o.schema = Final(f) /\ o.name = IF f.newname = Blank THEN f.at[2] ELSE f.newname
  BY DEF Staged
<1>2. A \in Seq(T) /\ C \in Seq(T) /\ M \in Seq(T) /\ R \in Seq(T) BY MovesType, SeqWidens DEF FormStatements
<1>3. /\ f.newschema = Blank => M = <<>> /\ Final(f) = f.at[1]
      /\ f.newschema # Blank => M = <<[op |-> "schema", at |-> f.at, to |-> f.newschema]>> /\ Final(f) = f.newschema
      /\ f.newname = Blank => R = <<>>
      /\ f.newname # Blank => R = <<[op |-> "rename", at |-> <<Final(f), f.at[2]>>, to |-> f.newname]>>
  BY DEF Moves, Renames, RenameTo, Final
<1>4. \A x \in Early(f) : x.op \in {"set", "grant", "revoke"}
  BY DEF Early, SetStatements, RoleStatements, MemberStatements
<1>5. ASSUME s.op \in {"set", "grant", "revoke", "schema", "rename"} PROVE \A t : InOrder(s, t) BY <1>5 DEF InOrder
<1> HIDE DEF M, R, T
<1>6. ASSUME L = C, o.schema = Final(f), o.name = GivenOr(f.newname, f.at[2]) PROVE Goal
  <2>1. C # <<>> /\ k = "table" BY <1>0, <1>1, <1>6
  <2>2. s \in Late(f) /\ Tail(C) \in Seq(Late(f)) BY <1>6, <2>1
  <2>3. /\ Sorted(Tail(C)) /\ \A t \in Range(Tail(C)) : InOrder(s, t)
    <3> DEFINE n == Len(C)
               d == Tail(C)
    <3>1. n \in Nat /\ n # 0 /\ DOMAIN C = 1 .. n /\ DOMAIN d = 1 .. n - 1 /\ s = C[1] /\ \A i \in 1 .. n - 1 : d[i] = C[i + 1]
      BY <1>6, <2>1
    <3> HIDE DEF n, d
    <3>2. \A i \in 1 .. n - 1 : i + 1 \in DOMAIN C /\ 1 \in DOMAIN C /\ 1 < i + 1 BY <3>1
    <3>3. \A i \in 1 .. n - 1 : InOrder(s, d[i]) BY <1>1, <3>1, <3>2 DEF Sorted
    <3>4. Sorted(d)
      <4> SUFFICES ASSUME NEW i \in 1 .. n - 1, NEW j \in 1 .. n - 1, i < j PROVE InOrder(d[i], d[j])
        BY <3>1 DEF Sorted
      <4>1. i + 1 < j + 1 BY <3>1
      <4> QED BY <1>1, <3>1, <3>2, <4>1 DEF Sorted
    <3> QED BY <3>1, <3>3, <3>4 DEF d, Range
  <2>4. \A p : p.schema = o.schema /\ p.name = o.name => Staged(f, Tail(L), p)
    <3> TAKE p
    <3> HAVE p.schema = o.schema /\ p.name = o.name
    <3>1. Tail(L) = Tail(C) /\ p.schema = Final(f) /\ p.name = IF f.newname = Blank THEN f.at[2] ELSE f.newname
      BY <1>6 DEF GivenOr
    <3>2. f.kind = "table" /\ A \in Seq(Early(f)) BY <1>0, <2>1
    <3> QED BY <2>2, <2>3, <3>1, <3>2 DEF Staged
  <2> QED BY <1>6, <2>1, <2>2, <2>3, <2>4
<1>7. ASSUME L = R \o C, o.schema = Final(f), o.name = f.at[2] PROVE Goal
  <2>1. CASE f.newname = Blank
    <3>1. L = C BY <1>2, <1>3, <1>7, <2>1, ConcatEmptySeq
    <3> QED BY <1>6, <1>7, <2>1, <3>1 DEF GivenOr
  <2>2. CASE f.newname # Blank
    <3> DEFINE x == [op |-> "rename", at |-> <<Final(f), f.at[2]>>, to |-> f.newname]
    <3>1. x \in T BY <2>2 DEF T, FormStatements, PlaceStatements
    <3>2. s = x /\ Tail(L) = C
      <4> HIDE DEF x
      <4> QED BY <1>2, <1>3, <1>7, <2>2, <3>1, OneFirst DEF x
    <3>3. \A p : p.schema = o.schema /\ p.name = f.newname => Staged(f, Tail(L), p)
      BY <1>1, <1>7, <2>2, <3>2 DEF Staged
    <3> QED BY <1>5, <1>7, <2>2, <3>2, <3>3
  <2> QED BY <2>1, <2>2
<1>8. ASSUME L = ((A \o M) \o R) \o C, o.schema = f.at[1], o.name = f.at[2] PROVE Goal
  <2>1. CASE A # <<>>
    <3> DEFINE d == Tail(A)
    <3>1. Head(A) \in Early(f) /\ d \in Seq(Early(f)) BY <2>1
    <3>2. A \o M # <<>> /\ Head(A \o M) = Head(A) /\ Tail(A \o M) = d \o M BY <1>2, <2>1, HeadOfTwo
    <3>3. A \o M \in Seq(T) BY <1>2
    <3>4. (A \o M) \o R # <<>> /\ Head((A \o M) \o R) = Head(A) /\ Tail((A \o M) \o R) = (d \o M) \o R
      <4> DEFINE e == A \o M
      <4>1. e \in Seq(T) /\ e # <<>> /\ Head(e) = Head(A) /\ Tail(e) = d \o M BY <3>2, <3>3
      <4> HIDE DEF e, d
      <4>2. e \o R # <<>> /\ Head(e \o R) = Head(e) /\ Tail(e \o R) = Tail(e) \o R BY <1>2, <4>1, HeadOfTwo
      <4> QED BY <4>1, <4>2 DEF e
    <3>5. (A \o M) \o R \in Seq(T) BY <1>2, <3>3
    <3>6. Head(L) = Head(A) /\ Tail(L) = ((d \o M) \o R) \o C
      <4> DEFINE e == (A \o M) \o R
      <4>1. e \in Seq(T) /\ e # <<>> /\ Head(e) = Head(A) /\ Tail(e) = (d \o M) \o R BY <3>4, <3>5
      <4> HIDE DEF e, d
      <4>2. e \o C # <<>> /\ Head(e \o C) = Head(e) /\ Tail(e \o C) = Tail(e) \o C BY <1>2, <4>1, HeadOfTwo
      <4>3. L = e \o C BY <1>8 DEF e
      <4> QED BY <4>1, <4>2, <4>3
    <3> HIDE DEF d
    <3>7. \A p : p.schema = o.schema /\ p.name = o.name => Staged(f, Tail(L), p)
      BY <1>1, <1>8, <3>1, <3>6 DEF Staged, M, R
    <3> QED BY <1>4, <1>5, <1>8, <3>1, <3>6, <3>7
  <2>2. CASE A = <<>>
    <3>1. A \o M = M BY <1>2, <2>2, ConcatEmptySeq
    <3>2. CASE f.newschema = Blank
      <4>1. M \o R = R BY <1>2, <1>3, <3>2, ConcatEmptySeq
      <4>2. L = R \o C BY <1>8, <3>1, <4>1
      <4> QED BY <1>3, <1>7, <1>8, <3>2, <4>2
    <3>3. CASE f.newschema # Blank
      <4> DEFINE x == [op |-> "schema", at |-> f.at, to |-> f.newschema]
      <4>1. x \in T BY <3>3 DEF T, FormStatements, PlaceStatements
      <4>2. M = <<x>> BY <1>3, <3>3
      <4> HIDE DEF x
      <4>3. L = (M \o R) \o C BY <1>8, <3>1
      <4>4. L = M \o (R \o C)
        <5> HIDE DEF Goal
        <5>1. (M \o R) \o C = M \o (R \o C) BY <1>2, Associative, SMTT(30)
        <5> QED BY <4>3, <5>1
      <4>5. R \o C \in Seq(T) BY <1>2
      <4>6. s = x /\ Tail(L) = R \o C BY <4>1, <4>2, <4>4, <4>5, OneFirst
      <4>7. \A p : p.schema = f.newschema /\ p.name = o.name => Staged(f, Tail(L), p)
        BY <1>1, <1>3, <1>8, <3>3, <4>6 DEF Staged, R
      <4> QED BY <1>5, <1>8, <3>3, <4>6, <4>7 DEF x
    <3> QED BY <3>2, <3>3
  <2> QED BY <2>1, <2>2
<1> HIDE DEF Goal
<1>9. Goal BY <1>1, <1>6, <1>7, <1>8 DEF GivenOr
<1> QED BY <1>9 DEF Goal

\* And where the object is when nothing is left.
LEMMA StagedEnd ==
    ASSUME NEW k \in Kinds, NEW f \in FormOf(k), NEW o, Staged(f, <<>>, o)
    PROVE  o.schema = Final(f) /\ o.name = GivenOr(f.newname, f.at[2])
<1> DEFINE M == Moves(f)
           R == Renames(f)
           T == FormStatements(f)
<1>1. PICK A \in Seq(Early(f)), C \in Seq(Late(f)) :
           \/ /\ <<>> = ((A \o M) \o R) \o C
              /\ o.schema = f.at[1] /\ o.name = f.at[2]
           \/ <<>> = R \o C /\ o.schema = Final(f) /\ o.name = f.at[2]
           \/ <<>> = C /\ o.schema = Final(f) /\ o.name = IF f.newname = Blank THEN f.at[2] ELSE f.newname
  BY DEF Staged
<1>2. A \in Seq(T) /\ C \in Seq(T) /\ M \in Seq(T) /\ R \in Seq(T) BY MovesType, SeqWidens DEF FormStatements
<1>3. /\ f.newschema = Blank => Final(f) = f.at[1]
      /\ M = <<>> => f.newschema = Blank
      /\ R = <<>> => f.newname = Blank
  BY DEF Moves, Renames, RenameTo, Final
<1> HIDE DEF M, R, T
<1>4. \A a, b \in Seq(T) : a \o b = <<>> => a = <<>> /\ b = <<>>
  <2> TAKE a, b \in Seq(T)
  <2> HAVE a \o b = <<>>
  <2>1. a = <<>> BY HeadOfTwo
  <2>2. a \o b = b BY <2>1, ConcatEmptySeq
  <2> QED BY <2>1, <2>2
<1>5. CASE <<>> = ((A \o M) \o R) \o C /\ o.schema = f.at[1] /\ o.name = f.at[2]
  <2>1. A \o M \in Seq(T) BY <1>2
  <2>2. (A \o M) \o R \in Seq(T) BY <1>2, <2>1
  <2>3. (A \o M) \o R = <<>> BY <1>2, <1>4, <1>5, <2>2
  <2>4. A \o M = <<>> /\ R = <<>> BY <1>2, <1>4, <2>1, <2>3
  <2>5. M = <<>> BY <1>2, <1>4, <2>4
  <2> QED BY <1>3, <1>5, <2>4, <2>5 DEF GivenOr
<1>6. CASE <<>> = R \o C /\ o.schema = Final(f) /\ o.name = f.at[2]
  <2>1. R = <<>> BY <1>2, <1>4, <1>6
  <2> QED BY <1>3, <1>6, <2>1 DEF GivenOr
<1> QED BY <1>1, <1>5, <1>6 DEF GivenOr

\* An object from its parts.
ObjectWith(sc, nm, att, ro, cs, ad) ==
    [schema |-> sc, name |-> nm, attr |-> att, role |-> ro, cols |-> cs, added |-> ad]
SameBut(p, o, part) ==
    /\ part # "place" => p.schema = o.schema /\ p.name = o.name
    /\ part # "attr" => p.attr = o.attr
    /\ part # "role" => p.role = o.role
    /\ part # "cols" => p.cols = o.cols
    /\ part # "added" => p.added = o.added

\* An object is the record of its parts.
LEMMA ObjectFrom ==
    ASSUME NEW k \in Kinds, NEW o \in ObjectOf(k)
    PROVE  /\ o = ObjectWith(o.schema, o.name, o.attr, o.role, o.cols, o.added)
           /\ o.schema \in {"s1", "s2"} /\ o.name \in {"n1", "n2", "n9"} /\ o.attr \in [Attributes[k] -> Values]
           /\ o.role \in [Sides -> SUBSET Roles] /\ o.cols \in [Columns -> [name : ColumnNames, part : Part]]
           /\ o.added \in SUBSET Extras
           /\ k # "role" => \A d \in Sides : o.role[d] = {}
           /\ k # "table" => \A c \in Columns : o.cols[c].name = Blank
           /\ \A c, d \in Columns : o.cols[c].name = o.cols[d].name /\ o.cols[c].name # Blank => c = d
<1>1. k # "role" => \A d \in Sides : o.role[d] = {} BY DEF ObjectOf
<1> QED BY <1>1, ObjectParts, NamesApart DEF ObjectWith

\* An object with one of its parts replaced.
LEMMA WithAttr ==
    ASSUME NEW k \in Kinds, NEW o \in ObjectOf(k), NEW x \in [Attributes[k] -> Values],
           NEW p, p = [o EXCEPT !.attr = x]
    PROVE  p \in ObjectOf(k) /\ SameBut(p, o, "attr") /\ p.attr = x
<1> DEFINE O == [schema : {"s1", "s2"}, name : {"n1", "n2", "n9"}, attr : [Attributes[k] -> Values],
                role : [Sides -> SUBSET Roles], cols : [Columns -> [name : ColumnNames, part : Part]],
                added : SUBSET Extras]
<1>0. /\ o = ObjectWith(o.schema, o.name, o.attr, o.role, o.cols, o.added)
      /\ o.schema \in {"s1", "s2"} /\ o.name \in {"n1", "n2", "n9"} /\ o.attr \in [Attributes[k] -> Values]
      /\ o.role \in [Sides -> SUBSET Roles] /\ o.cols \in [Columns -> [name : ColumnNames, part : Part]]
      /\ o.added \in SUBSET Extras
      /\ k # "role" => \A d \in Sides : o.role[d] = {}
      /\ k # "table" => \A c \in Columns : o.cols[c].name = Blank
      /\ \A c, d \in Columns : o.cols[c].name = o.cols[d].name /\ o.cols[c].name # Blank => c = d
  BY ObjectFrom
<1>1. p = ObjectWith(o.schema, o.name, x, o.role, o.cols, o.added) BY <1>0 DEF ObjectWith
<1>2. p \in O BY <1>0, <1>1 DEF ObjectWith
<1>3. SameBut(p, o, "attr") /\ p.attr = x  BY <1>1 DEF SameBut, ObjectWith
<1>4. /\ k # "role" => \A d \in Sides : p.role[d] = {}
      /\ k # "table" => \A c \in Columns : p.cols[c].name = Blank
      /\ \A c, d \in Columns : p.cols[c].name = p.cols[d].name /\ p.cols[c].name # Blank => c = d
  BY <1>0, <1>3 DEF SameBut
<1>5. p \in ObjectOf(k) BY <1>2, <1>4 DEF ObjectOf
<1> QED BY <1>3, <1>5

\* An object whose memberships change.
LEMMA WithRole ==
    ASSUME NEW k \in Kinds, NEW o \in ObjectOf(k), NEW x \in [Sides -> SUBSET Roles],
           k = "role",
           NEW p, p = [o EXCEPT !.role = x]
    PROVE  p \in ObjectOf(k) /\ SameBut(p, o, "role") /\ p.role = x
<1> DEFINE O == [schema : {"s1", "s2"}, name : {"n1", "n2", "n9"}, attr : [Attributes[k] -> Values],
                role : [Sides -> SUBSET Roles], cols : [Columns -> [name : ColumnNames, part : Part]],
                added : SUBSET Extras]
<1>0. /\ o = ObjectWith(o.schema, o.name, o.attr, o.role, o.cols, o.added)
      /\ o.schema \in {"s1", "s2"} /\ o.name \in {"n1", "n2", "n9"} /\ o.attr \in [Attributes[k] -> Values]
      /\ o.role \in [Sides -> SUBSET Roles] /\ o.cols \in [Columns -> [name : ColumnNames, part : Part]]
      /\ o.added \in SUBSET Extras
      /\ k # "role" => \A d \in Sides : o.role[d] = {}
      /\ k # "table" => \A c \in Columns : o.cols[c].name = Blank
      /\ \A c, d \in Columns : o.cols[c].name = o.cols[d].name /\ o.cols[c].name # Blank => c = d
  BY ObjectFrom
<1>1. p = ObjectWith(o.schema, o.name, o.attr, x, o.cols, o.added) BY <1>0 DEF ObjectWith
<1>2. p \in O BY <1>0, <1>1 DEF ObjectWith
<1>3. SameBut(p, o, "role") /\ p.role = x  BY <1>1 DEF SameBut, ObjectWith
<1>4. /\ k # "role" => \A d \in Sides : p.role[d] = {}
      /\ k # "table" => \A c \in Columns : p.cols[c].name = Blank
      /\ \A c, d \in Columns : p.cols[c].name = p.cols[d].name /\ p.cols[c].name # Blank => c = d
  BY <1>0, <1>3 DEF SameBut
<1>5. p \in ObjectOf(k) BY <1>2, <1>4 DEF ObjectOf
<1> QED BY <1>3, <1>5

\* An object whose columns change.
LEMMA WithCols ==
    ASSUME NEW k \in Kinds, NEW o \in ObjectOf(k), NEW x \in [Columns -> [name : ColumnNames, part : Part]],
           k = "table", \A c, d \in Columns : x[c].name = x[d].name /\ x[c].name # Blank => c = d,
           NEW p, p = [o EXCEPT !.cols = x]
    PROVE  p \in ObjectOf(k) /\ SameBut(p, o, "cols") /\ p.cols = x
<1> DEFINE O == [schema : {"s1", "s2"}, name : {"n1", "n2", "n9"}, attr : [Attributes[k] -> Values],
                role : [Sides -> SUBSET Roles], cols : [Columns -> [name : ColumnNames, part : Part]],
                added : SUBSET Extras]
<1>0. /\ o = ObjectWith(o.schema, o.name, o.attr, o.role, o.cols, o.added)
      /\ o.schema \in {"s1", "s2"} /\ o.name \in {"n1", "n2", "n9"} /\ o.attr \in [Attributes[k] -> Values]
      /\ o.role \in [Sides -> SUBSET Roles] /\ o.cols \in [Columns -> [name : ColumnNames, part : Part]]
      /\ o.added \in SUBSET Extras
      /\ k # "role" => \A d \in Sides : o.role[d] = {}
      /\ k # "table" => \A c \in Columns : o.cols[c].name = Blank
      /\ \A c, d \in Columns : o.cols[c].name = o.cols[d].name /\ o.cols[c].name # Blank => c = d
  BY ObjectFrom
<1>1. p = ObjectWith(o.schema, o.name, o.attr, o.role, x, o.added) BY <1>0 DEF ObjectWith
<1>2. p \in O BY <1>0, <1>1 DEF ObjectWith
<1>3. SameBut(p, o, "cols") /\ p.cols = x  BY <1>1 DEF SameBut, ObjectWith
<1>4. /\ k # "role" => \A d \in Sides : p.role[d] = {}
      /\ k # "table" => \A c \in Columns : p.cols[c].name = Blank
      /\ \A c, d \in Columns : p.cols[c].name = p.cols[d].name /\ p.cols[c].name # Blank => c = d
  BY <1>0, <1>3 DEF SameBut
<1>5. p \in ObjectOf(k) BY <1>2, <1>4 DEF ObjectOf
<1> QED BY <1>3, <1>5

\* An object that gets something added.
LEMMA WithAdded ==
    ASSUME NEW k \in Kinds, NEW o \in ObjectOf(k), NEW x \in SUBSET Extras,
           NEW p, p = [o EXCEPT !.added = x]
    PROVE  p \in ObjectOf(k) /\ SameBut(p, o, "added") /\ p.added = x
<1> DEFINE O == [schema : {"s1", "s2"}, name : {"n1", "n2", "n9"}, attr : [Attributes[k] -> Values],
                role : [Sides -> SUBSET Roles], cols : [Columns -> [name : ColumnNames, part : Part]],
                added : SUBSET Extras]
<1>0. /\ o = ObjectWith(o.schema, o.name, o.attr, o.role, o.cols, o.added)
      /\ o.schema \in {"s1", "s2"} /\ o.name \in {"n1", "n2", "n9"} /\ o.attr \in [Attributes[k] -> Values]
      /\ o.role \in [Sides -> SUBSET Roles] /\ o.cols \in [Columns -> [name : ColumnNames, part : Part]]
      /\ o.added \in SUBSET Extras
      /\ k # "role" => \A d \in Sides : o.role[d] = {}
      /\ k # "table" => \A c \in Columns : o.cols[c].name = Blank
      /\ \A c, d \in Columns : o.cols[c].name = o.cols[d].name /\ o.cols[c].name # Blank => c = d
  BY ObjectFrom
<1>1. p = ObjectWith(o.schema, o.name, o.attr, o.role, o.cols, x) BY <1>0 DEF ObjectWith
<1>2. p \in O BY <1>0, <1>1 DEF ObjectWith
<1>3. SameBut(p, o, "added") /\ p.added = x  BY <1>1 DEF SameBut, ObjectWith
<1>4. /\ k # "role" => \A d \in Sides : p.role[d] = {}
      /\ k # "table" => \A c \in Columns : p.cols[c].name = Blank
      /\ \A c, d \in Columns : p.cols[c].name = p.cols[d].name /\ p.cols[c].name # Blank => c = d
  BY <1>0, <1>3 DEF SameBut
<1>5. p \in ObjectOf(k) BY <1>2, <1>4 DEF ObjectOf
<1> QED BY <1>3, <1>5

\* An object that is moved.
LEMMA WithSchema ==
    ASSUME NEW k \in Kinds, NEW o \in ObjectOf(k), NEW x \in {"s1", "s2"},
           NEW p, p = [o EXCEPT !.schema = x]
    PROVE  p \in ObjectOf(k) /\ SameBut(p, o, "place") /\ p.schema = x /\ p.name = o.name
<1> DEFINE O == [schema : {"s1", "s2"}, name : {"n1", "n2", "n9"}, attr : [Attributes[k] -> Values],
                role : [Sides -> SUBSET Roles], cols : [Columns -> [name : ColumnNames, part : Part]],
                added : SUBSET Extras]
<1>0. /\ o = ObjectWith(o.schema, o.name, o.attr, o.role, o.cols, o.added)
      /\ o.schema \in {"s1", "s2"} /\ o.name \in {"n1", "n2", "n9"} /\ o.attr \in [Attributes[k] -> Values]
      /\ o.role \in [Sides -> SUBSET Roles] /\ o.cols \in [Columns -> [name : ColumnNames, part : Part]]
      /\ o.added \in SUBSET Extras
      /\ k # "role" => \A d \in Sides : o.role[d] = {}
      /\ k # "table" => \A c \in Columns : o.cols[c].name = Blank
      /\ \A c, d \in Columns : o.cols[c].name = o.cols[d].name /\ o.cols[c].name # Blank => c = d
  BY ObjectFrom
<1>1. p = ObjectWith(x, o.name, o.attr, o.role, o.cols, o.added) BY <1>0 DEF ObjectWith
<1>2. p \in O BY <1>0, <1>1 DEF ObjectWith
<1>3. SameBut(p, o, "place") /\ p.schema = x /\ p.name = o.name BY <1>1 DEF SameBut, ObjectWith
<1>4. /\ k # "role" => \A d \in Sides : p.role[d] = {}
      /\ k # "table" => \A c \in Columns : p.cols[c].name = Blank
      /\ \A c, d \in Columns : p.cols[c].name = p.cols[d].name /\ p.cols[c].name # Blank => c = d
  BY <1>0, <1>3 DEF SameBut
<1>5. p \in ObjectOf(k) BY <1>2, <1>4 DEF ObjectOf
<1> QED BY <1>3, <1>5

\* An object that is renamed.
LEMMA WithName ==
    ASSUME NEW k \in Kinds, NEW o \in ObjectOf(k), NEW x \in {"n1", "n2"},
           NEW p, p = [o EXCEPT !.name = x]
    PROVE  p \in ObjectOf(k) /\ SameBut(p, o, "place") /\ p.name = x /\ p.schema = o.schema
<1> DEFINE O == [schema : {"s1", "s2"}, name : {"n1", "n2", "n9"}, attr : [Attributes[k] -> Values],
                role : [Sides -> SUBSET Roles], cols : [Columns -> [name : ColumnNames, part : Part]],
                added : SUBSET Extras]
<1>0. /\ o = ObjectWith(o.schema, o.name, o.attr, o.role, o.cols, o.added)
      /\ o.schema \in {"s1", "s2"} /\ o.name \in {"n1", "n2", "n9"} /\ o.attr \in [Attributes[k] -> Values]
      /\ o.role \in [Sides -> SUBSET Roles] /\ o.cols \in [Columns -> [name : ColumnNames, part : Part]]
      /\ o.added \in SUBSET Extras
      /\ k # "role" => \A d \in Sides : o.role[d] = {}
      /\ k # "table" => \A c \in Columns : o.cols[c].name = Blank
      /\ \A c, d \in Columns : o.cols[c].name = o.cols[d].name /\ o.cols[c].name # Blank => c = d
  BY ObjectFrom
<1>1. p = ObjectWith(o.schema, x, o.attr, o.role, o.cols, o.added) BY <1>0 DEF ObjectWith
<1>2. p \in O BY <1>0, <1>1 DEF ObjectWith
<1>3. SameBut(p, o, "place") /\ p.name = x /\ p.schema = o.schema BY <1>1 DEF SameBut, ObjectWith
<1>4. /\ k # "role" => \A d \in Sides : p.role[d] = {}
      /\ k # "table" => \A c \in Columns : p.cols[c].name = Blank
      /\ \A c, d \in Columns : p.cols[c].name = p.cols[d].name /\ p.cols[c].name # Blank => c = d
  BY <1>0, <1>3 DEF SameBut
<1>5. p \in ObjectOf(k) BY <1>2, <1>4 DEF ObjectOf
<1> QED BY <1>3, <1>5

\* What a statement that sets attributes does to the object.
LEMMA SetEffect ==
    ASSUME NEW k \in Kinds, NEW f \in FormOf(k), NEW o \in ObjectOf(k), NEW s \in SetStatements(f),
           NEW p, p = Apply(o, s)
    PROVE  /\ p \in ObjectOf(k) /\ SameBut(p, o, "attr") /\ s.op = "set" /\ s.at = f.at
           /\ \A a \in DOMAIN s.attrs : f.attr[a] # Blank
           /\ \A a \in Attributes[k] : p.attr[a] = IF a \in DOMAIN s.attrs THEN f.attr[a] ELSE o.attr[a]
<1> USE ObjectFrom
<1>1. PICK S \in SUBSET {a \in DOMAIN f.attr : f.attr[a] # Blank} :
        s = [op |-> "set", at |-> f.at, attrs |-> [a \in S |-> f.attr[a]]]
  BY DEF SetStatements
<1>2. s.op = "set" /\ DOMAIN s.attrs = S /\ s.at = f.at /\ \A a \in S : s.attrs[a] = f.attr[a] BY <1>1
<1> DEFINE att == [a \in DOMAIN o.attr |-> IF a \in DOMAIN s.attrs THEN s.attrs[a] ELSE o.attr[a]]
<1>3. p = [o EXCEPT !.attr = att] BY <1>2 DEF Apply
<1>4. att \in [Attributes[k] -> Values] /\ \A a \in Attributes[k] : att[a] = IF a \in S THEN f.attr[a] ELSE o.attr[a]
  <2>1. f.attr \in [Attributes[k] -> Values] BY FormShape
  <2>2. DOMAIN o.attr = Attributes[k] /\ \A a \in Attributes[k] : o.attr[a] \in Values OBVIOUS
  <2>3. \A a \in Attributes[k] : att[a] = IF a \in S THEN f.attr[a] ELSE o.attr[a] BY <1>2, <2>2
  <2>4. \A a \in Attributes[k] : att[a] \in Values BY <2>1, <2>2, <2>3
  <2>5. att = [a \in Attributes[k] |-> att[a]] BY <2>2
  <2> HIDE DEF att
  <2> QED BY <2>3, <2>4, <2>5
<1> HIDE DEF att
<1>5. p \in ObjectOf(k) /\ SameBut(p, o, "attr") /\ p.attr = att BY <1>3, <1>4, WithAttr
<1> QED BY <1>1, <1>2, <1>4, <1>5

\* A grant or a revoke, and what it changes.
MemberStep(f, d, s, o, p) ==
    /\ SameBut(p, o, "role") /\ s.op \in {"grant", "revoke"} /\ s.at = f.at /\ s.side = d
    /\ s.op = "grant" => s.to \in f.role[d] \ f.roleOrig[d]
    /\ s.op = "revoke" => s.to \in f.roleOrig[d] \ f.role[d]
    /\ \A e \in Sides : p.role[e] = IF e # d THEN o.role[e]
                                     ELSE IF s.op = "grant" THEN o.role[d] \cup {s.to} ELSE o.role[d] \ {s.to}

\* What a grant or a revoke of a membership does to it.
LEMMA MemberEffect ==
    ASSUME NEW k \in Kinds, NEW f \in FormOf(k), NEW o \in ObjectOf(k), NEW d \in Sides, NEW s \in MemberStatements(f, d),
           NEW p, p = Apply(o, s)
    PROVE  p \in ObjectOf(k) /\ MemberStep(f, d, s, o, p)
<1> USE ObjectFrom
<1>1. /\ s.op \in {"grant", "revoke"} /\ s.at = f.at /\ s.side = d
      /\ s.op = "grant" => s.to \in f.role[d] \ f.roleOrig[d]
      /\ s.op = "revoke" => s.to \in f.roleOrig[d] \ f.role[d]
  BY DEF MemberStatements
<1>2. k = "role" /\ s.to \in Roles
  <2>1. RoleStatements(f) # {} BY DEF RoleStatements
  <2>2. f.role[d] \subseteq Roles /\ f.roleOrig[d] \subseteq Roles BY FormShape
  <2> QED BY <1>1, <2>1, <2>2, OtherKinds
<1> DEFINE ro == [o.role EXCEPT ![d] = IF s.op = "grant" THEN @ \cup {s.to} ELSE @ \ {s.to}]
<1>3. p = [o EXCEPT !.role = ro]
  <2>1. CASE s.op = "grant"
    <3>1. p = [o EXCEPT !.role[s.side] = @ \cup {s.to}] BY <2>1 DEF Apply
    <3> QED BY <1>1, <2>1, <3>1
  <2>2. CASE s.op = "revoke"
    <3>1. p = [o EXCEPT !.role[s.side] = @ \ {s.to}] BY <2>2 DEF Apply
    <3> QED BY <1>1, <2>2, <3>1
  <2> QED BY <1>1, <2>1, <2>2
<1>4. ro \in [Sides -> SUBSET Roles]
      /\ \A e \in Sides : ro[e] = IF e # d THEN o.role[e]
                                  ELSE IF s.op = "grant" THEN o.role[d] \cup {s.to} ELSE o.role[d] \ {s.to}
  BY <1>2
<1> HIDE DEF ro
<1>5. p \in ObjectOf(k) /\ SameBut(p, o, "role") /\ p.role = ro BY <1>2, <1>3, <1>4, WithRole
<1> QED BY <1>1, <1>4, <1>5 DEF MemberStep

\* What moving or renaming does to it.
LEMMA PlaceEffect ==
    ASSUME NEW k \in Kinds, NEW f \in FormOf(k), NEW o \in ObjectOf(k), NEW s \in PlaceStatements(f),
           NEW p, p = Apply(o, s)
    PROVE  /\ p \in ObjectOf(k) /\ SameBut(p, o, "place") /\ s.op \in {"schema", "rename"}
           /\ s.op = "schema" => s.at = f.at /\ p.schema = f.newschema /\ p.name = o.name
           /\ s.op = "rename" => s.at = <<Final(f), f.at[2]>> /\ p.schema = o.schema /\ p.name = f.newname
<1> USE ObjectFrom, FormShape
<1>1. CASE f.newschema # Blank /\ s = [op |-> "schema", at |-> f.at, to |-> f.newschema]
  <2>1. s.op = "schema" /\ s.to = "s2" /\ s.to = f.newschema /\ s.at = f.at BY <1>1
  <2>2. p = [o EXCEPT !.schema = s.to] BY <2>1 DEF Apply
  <2>3. p \in ObjectOf(k) /\ SameBut(p, o, "place") /\ p.schema = s.to /\ p.name = o.name
    BY <2>1, <2>2, WithSchema
  <2> QED BY <2>1, <2>3
<1>2. CASE f.newname # Blank /\ s = [op |-> "rename", at |-> <<Final(f), f.at[2]>>, to |-> f.newname]
  <2>1. s.op = "rename" /\ s.to = "n2" /\ s.to = f.newname /\ s.at = <<Final(f), f.at[2]>> BY <1>2
  <2>2. p = [o EXCEPT !.name = s.to] BY <2>1 DEF Apply
  <2>3. p \in ObjectOf(k) /\ SameBut(p, o, "place") /\ p.name = s.to /\ p.schema = o.schema
    BY <2>1, <2>2, WithName
  <2> QED BY <2>1, <2>3
<1> QED BY <1>1, <1>2 DEF PlaceStatements

\* What adding a part does to it.
LEMMA AddEffect ==
    ASSUME NEW k \in Kinds, NEW f \in FormOf(k), NEW o \in ObjectOf(k), NEW s \in AddStatements(f),
           NEW p, p = Apply(o, s)
    PROVE  /\ p \in ObjectOf(k) /\ SameBut(p, o, "added") /\ s.op = "add" /\ s.at = f.at
           /\ p.added = o.added \cup {s.to}
<1>1. s.op = "add" /\ s.to \in Extras /\ s.at = f.at BY DEF AddStatements
<1> DEFINE ad == o.added \cup {s.to}
<1>2. p = [o EXCEPT !.added = ad] BY <1>1 DEF Apply
<1>3. ad \in SUBSET Extras BY <1>1, ObjectFrom
<1> HIDE DEF ad
<1>4. p \in ObjectOf(k) /\ SameBut(p, o, "added") /\ p.added = ad BY <1>2, <1>3, WithAdded, Zenon
<1> QED BY <1>1, <1>4 DEF ad

\* A statement of column c, and what it changes: only the columns with the
\* name the row was loaded with.
ColumnChange(f, c, s, o, p, e) ==
    \/ /\ \E q \in Parts : s = ChangeOf(f, c, q) /\ Differs(f.row[c], q) /\ ~f.row[c].drop
             /\ \A x \in Parts : p.cols[e].part[x] = IF x = q THEN f.row[c].part[q] ELSE o.cols[e].part[x]
       /\ p.cols[e].name = o.cols[e].name
    \/ /\ s = Rename(f, c) /\ ~f.row[c].drop /\ f.row[c].rename \notin {Blank, f.row[c].name}
       /\ p.cols[e].name = f.row[c].rename /\ p.cols[e].part = o.cols[e].part
    \/ s = Drop(f, c) /\ f.row[c].drop /\ p.cols[e] = NoColumn
ColumnStep(f, c, s, o, p) ==
    /\ SameBut(p, o, "cols") /\ s.op \in {"column", "drop column", "rename column"} /\ s.at = f.at
    /\ s.col = f.row[c].name /\ f.row[c].name # Blank
    /\ \A e \in Columns : o.cols[e].name # s.col => p.cols[e] = o.cols[e]
    /\ \A e \in Columns : o.cols[e].name = s.col => ColumnChange(f, c, s, o, p, e)

\* What a statement about a column does to it, if the server accepts it.
LEMMA ColumnEffect ==
    ASSUME NEW k \in Kinds, NEW f \in FormOf(k), NEW o \in ObjectOf(k), NEW c \in Columns, NEW s \in StatementsOf(f, c),
           Accepts(o, s), NEW p, p = Apply(o, s)
    PROVE  p \in ObjectOf(k) /\ ColumnStep(f, c, s, o, p)
<1> USE ObjectFrom
<1> DEFINE r == f.row[c]
           C == [name : ColumnNames, part : Part]
<1>1. r.name # Blank BY DEF StatementsOf
<1>2. k = "table" BY <1>1, FormLimits
<1>3. r \in ColumnRow BY FormShape
<1>4. \A e \in Columns : o.cols[e] \in C OBVIOUS
<1>5. ASSUME NEW cs, cs \in [Columns -> C], p = [o EXCEPT !.cols = cs],
             \A a, b \in Columns : cs[a].name = cs[b].name /\ cs[a].name # Blank => a = b
      PROVE  p \in ObjectOf(k) /\ SameBut(p, o, "cols") /\ p.cols = cs
  BY <1>2, <1>5, WithCols
<1>6. CASE r.drop
  <2>1. s = Drop(f, c) BY <1>1, <1>6 DEF StatementsOf
  <2>2. s.op = "drop column" /\ s.col = r.name /\ s.at = f.at BY <2>1 DEF Drop
  <2> DEFINE cs == [e \in Columns |-> IF o.cols[e].name = s.col THEN NoColumn ELSE o.cols[e]]
  <2>3. p = [o EXCEPT !.cols = cs] BY <2>2, ZenonT(60) DEF Apply, OnColumn
  <2>4. \A e \in Columns : cs[e] = IF o.cols[e].name = s.col THEN NoColumn ELSE o.cols[e] OBVIOUS
  <2>5. cs \in [Columns -> C] BY <1>4, NoColumnFits
  <2> HIDE DEF cs
  <2>6. \A a, b \in Columns : cs[a].name = cs[b].name /\ cs[a].name # Blank => a = b BY <2>4, NoColumnFits
  <2>7. p \in ObjectOf(k) /\ SameBut(p, o, "cols") /\ p.cols = cs BY <1>5, <2>3, <2>5, <2>6
  <2> QED BY <1>1, <1>6, <2>1, <2>2, <2>4, <2>7 DEF ColumnStep, ColumnChange
<1>7. CASE ~r.drop /\ s \in Changes(f, c, Changed(f, c))
  <2>1. PICK q \in Parts : Differs(r, q) /\ s = ChangeOf(f, c, q) BY <1>7 DEF Changes, Changed, ChangeOf
  <2>2. s.op = "column" /\ s.col = r.name /\ s.at = f.at /\ s.part = q /\ s.to = r.part[q] BY <2>1 DEF ChangeOf
  <2> DEFINE N(e) == [o.cols[e] EXCEPT !.part[s.part] = s.to]
             cs == [e \in Columns |-> IF o.cols[e].name = s.col THEN N(e) ELSE o.cols[e]]
  <2>3. p = [o EXCEPT !.cols = cs] BY <2>2 DEF Apply, OnColumn
  <2>4. \A e \in Columns : cs[e] = IF o.cols[e].name = s.col THEN N(e) ELSE o.cols[e] OBVIOUS
  <2>5. \A e \in Columns : /\ N(e) \in C /\ N(e).name = o.cols[e].name
                           /\ \A x \in Parts : N(e).part[x] = IF x = q THEN r.part[q] ELSE o.cols[e].part[x]
    <3> TAKE e \in Columns
    <3>1. o.cols[e].name \in ColumnNames /\ o.cols[e].part \in Part BY <1>4
    <3>2. o.cols[e] = [name |-> o.cols[e].name, part |-> o.cols[e].part] BY <1>4
    <3>3. r.part[q] \in Values BY <1>3 DEF ColumnRow, Part
    <3>4. [o.cols[e].part EXCEPT ![q] = r.part[q]] \in Part BY <3>1, <3>3 DEF Part
    <3>5. N(e) = [name |-> o.cols[e].name, part |-> [o.cols[e].part EXCEPT ![q] = r.part[q]]] BY <2>2, <3>2
    <3>6. DOMAIN o.cols[e].part = Parts BY <3>1 DEF Part
    <3> QED BY <3>1, <3>4, <3>5, <3>6
  <2>6. cs \in [Columns -> C]
    <3> HIDE DEF N, C
    <3> QED BY <1>4, <2>5
  <2> HIDE DEF cs, N
  <2>7. \A e \in Columns : cs[e].name = o.cols[e].name BY <2>4, <2>5
  <2>a. \A a, b \in Columns : cs[a].name = cs[b].name /\ cs[a].name # Blank => a = b BY <2>7
  <2>8. p \in ObjectOf(k) /\ SameBut(p, o, "cols") /\ p.cols = cs BY <1>5, <2>3, <2>6, <2>a
  <2>9. \A e \in Columns : o.cols[e].name = s.col =>
          /\ \E y \in Parts : s = ChangeOf(f, c, y) /\ Differs(f.row[c], y) /\ ~f.row[c].drop
                /\ \A x \in Parts : p.cols[e].part[x] = IF x = y THEN f.row[c].part[y] ELSE o.cols[e].part[x]
          /\ p.cols[e].name = o.cols[e].name
    <3> TAKE e \in Columns
    <3> HAVE o.cols[e].name = s.col
    <3>1. p.cols[e] = N(e) BY <2>4, <2>8
    <3>2. \A x \in Parts : p.cols[e].part[x] = IF x = q THEN r.part[q] ELSE o.cols[e].part[x] BY <2>5, <3>1
    <3>3. p.cols[e].name = o.cols[e].name BY <2>5, <3>1
    <3>4. s = ChangeOf(f, c, q) /\ Differs(r, q) /\ ~r.drop BY <1>7, <2>1
    <3> QED BY <3>2, <3>3, <3>4
  <2>10. \A e \in Columns : o.cols[e].name # s.col => p.cols[e] = o.cols[e] BY <2>4, <2>8
  <2> QED BY <1>1, <2>2, <2>8, <2>9, <2>10 DEF ColumnStep, ColumnChange
<1>8. CASE ~r.drop /\ r.rename \notin {Blank, r.name} /\ s = Rename(f, c)
  <2>1. s.op = "rename column" /\ s.col = r.name /\ s.at = f.at /\ s.to = r.rename BY <1>8 DEF Rename
  <2> DEFINE N(e) == [o.cols[e] EXCEPT !.name = s.to]
             cs == [e \in Columns |-> IF o.cols[e].name = s.col THEN N(e) ELSE o.cols[e]]
  <2>2. p = [o EXCEPT !.cols = cs] BY <2>1 DEF Apply, OnColumn
  <2>3. \A e \in Columns : cs[e] = IF o.cols[e].name = s.col THEN N(e) ELSE o.cols[e] OBVIOUS
  <2>4. \A e \in Columns : N(e) \in C /\ N(e).name = s.to /\ N(e).part = o.cols[e].part
    <3> TAKE e \in Columns
    <3>1. o.cols[e] \in C BY <1>4
    <3>2. s.to \in ColumnNames BY <1>3, <2>1 DEF ColumnRow
    <3> QED BY <3>1, <3>2
  <2>5. cs \in [Columns -> C]
    <3> HIDE DEF N, C
    <3> QED BY <1>4, <2>4
  <2> HIDE DEF cs, N
  <2>6. \A e \in Columns : o.cols[e].name # s.to BY <2>1 DEF Accepts, Taken
  <2>7. \A e \in Columns : cs[e].name = IF o.cols[e].name = s.col THEN s.to ELSE o.cols[e].name BY <2>3, <2>4
  <2>8. \A a, b \in Columns : cs[a].name = cs[b].name /\ cs[a].name # Blank => a = b
    <3>1. \A a, b \in Columns : o.cols[a].name = o.cols[b].name /\ o.cols[a].name # Blank => a = b BY ObjectFrom
    <3>2. s.col # Blank BY <1>1, <2>1
    <3> TAKE a, b \in Columns
    <3>3. cs[a].name = (IF o.cols[a].name = s.col THEN s.to ELSE o.cols[a].name)
          /\ cs[b].name = (IF o.cols[b].name = s.col THEN s.to ELSE o.cols[b].name) BY <2>7
    <3>4. o.cols[a].name # s.to /\ o.cols[b].name # s.to BY <2>6
    <3> QED BY <3>1, <3>2, <3>3, <3>4
  <2>9. p \in ObjectOf(k) /\ SameBut(p, o, "cols") /\ p.cols = cs BY <1>5, <2>2, <2>5, <2>8
  <2>10. \A e \in Columns : o.cols[e].name = s.col =>
           p.cols[e].name = f.row[c].rename /\ p.cols[e].part = o.cols[e].part
    <3> TAKE e \in Columns
    <3> HAVE o.cols[e].name = s.col
    <3>1. p.cols[e] = N(e) BY <2>3, <2>9
    <3> QED BY <2>1, <2>4, <3>1, ZenonT(60)
  <2>11. \A e \in Columns : o.cols[e].name # s.col => p.cols[e] = o.cols[e] BY <2>3, <2>9
  <2> QED BY <1>1, <1>8, <2>1, <2>9, <2>10, <2>11 DEF ColumnStep, ColumnChange
<1> QED BY <1>1, <1>6, <1>7, <1>8 DEF StatementsOf

\* The kinds of statements a form is made into.
LEMMA StatementKinds ==
    ASSUME NEW f, NEW s \in FormStatements(f)
    PROVE  \/ s \in SetStatements(f) \/ s \in PlaceStatements(f) \/ s \in AddStatements(f)
           \/ \E d \in Sides : s \in MemberStatements(f, d)
           \/ \E c \in Columns : s \in StatementsOf(f, c)
BY DEF FormStatements, Early, Late, RoleStatements, ColumnsStatements

ColumnOps == {"column", "drop column", "rename column"}

\* The statements of a column name it; no other statement alters a column.
LEMMA OwnOps ==
    ASSUME NEW f, NEW c \in Columns, NEW t \in StatementsOf(f, c)
    PROVE  t.op \in ColumnOps /\ t.at = f.at /\ t.col = f.row[c].name /\ f.row[c].name # Blank
<1> DEFINE r == f.row[c]
<1>1. r.name # Blank BY DEF StatementsOf
<1>2. CASE r.drop /\ t = Drop(f, c)
  <2>1. t.op = "drop column" /\ t.at = f.at /\ t.col = r.name BY <1>2 DEF Drop
  <2> QED BY <1>1, <2>1 DEF ColumnOps
<1>3. CASE t \in Changes(f, c, Changed(f, c))
  <2>1. PICK p \in Changed(f, c) :
          t = [op |-> "column", at |-> f.at, col |-> r.name, part |-> p, to |-> r.part[p]]
    BY <1>3, Zenon DEF Changes
  <2>2. t.op = "column" /\ t.at = f.at /\ t.col = r.name BY <2>1
  <2> QED BY <1>1, <2>2 DEF ColumnOps
<1>4. CASE r.rename \notin {Blank, r.name} /\ t = Rename(f, c)
  <2>1. t.op = "rename column" /\ t.at = f.at /\ t.col = r.name /\ t.to = r.rename BY <1>4 DEF Rename
  <2> QED BY <1>1, <1>4, <2>1 DEF ColumnOps
<1>5. \/ r.drop /\ t = Drop(f, c)
      \/ t \in Changes(f, c, Changed(f, c))
      \/ r.rename \notin {Blank, r.name} /\ t = Rename(f, c)
  BY <1>1 DEF StatementsOf
<1> QED BY <1>2, <1>3, <1>4, <1>5

\* A column is renamed to what its row says.
LEMMA RenameOps ==
    ASSUME NEW f, NEW c \in Columns, NEW t \in StatementsOf(f, c), t.op = "rename column"
    PROVE  t.to = f.row[c].rename /\ f.row[c].rename # Blank /\ f.row[c].rename # f.row[c].name
<1> DEFINE r == f.row[c]
<1>1. CASE t = Drop(f, c) BY <1>1 DEF Drop
<1>2. CASE t \in Changes(f, c, Changed(f, c))
  <2> PICK p \in Changed(f, c) :
          t = [op |-> "column", at |-> f.at, col |-> r.name, part |-> p, to |-> r.part[p]]
    BY <1>2, Zenon DEF Changes
  <2>1. t.op = "column" OBVIOUS
  <2> QED BY <2>1
<1>3. CASE r.rename \notin {Blank, r.name} /\ t = Rename(f, c) BY <1>3 DEF Rename
<1> QED BY <1>1, <1>2, <1>3 DEF StatementsOf

\* The statements that end a column's name.
LEMMA LastOps ==
    ASSUME NEW f, NEW c
    PROVE  /\ Drop(f, c).op = "drop column" /\ Drop(f, c).col = f.row[c].name
           /\ Rename(f, c).op = "rename column" /\ Rename(f, c).col = f.row[c].name
BY DEF Drop, Rename

\* The statements that change a part of a column.
LEMMA ChangeOps ==
    ASSUME NEW f, NEW c, NEW p
    PROVE  ChangeOf(f, c, p).op = "column" /\ ChangeOf(f, c, p).col = f.row[c].name /\ ChangeOf(f, c, p).part = p
BY DEF ChangeOf

\* The statements that set attributes are of one kind.
LEMMA SetOps ==
    ASSUME NEW f, NEW t \in SetStatements(f) PROVE t.op = "set" /\ t.at = f.at
<1> PICK S \in SUBSET {a \in DOMAIN f.attr : f.attr[a] # Blank} :
        t = [op |-> "set", at |-> f.at, attrs |-> [a \in S |-> f.attr[a]]]
  BY Zenon DEF SetStatements
<1> QED OBVIOUS

\* Those that move and rename are of two.
LEMMA PlaceOps ==
    ASSUME NEW f, NEW t \in PlaceStatements(f) PROVE t.op \in {"schema", "rename"}
<1>1. CASE t = [op |-> "schema", at |-> f.at, to |-> f.newschema] BY <1>1
<1>2. CASE t = [op |-> "rename", at |-> <<Final(f), f.at[2]>>, to |-> f.newname] BY <1>2
<1> QED BY <1>1, <1>2 DEF PlaceStatements

\* Those that add parts are of one.
LEMMA AddOps ==
    ASSUME NEW f, NEW t \in AddStatements(f) PROVE t.op = "add" /\ t.at = f.at
<1> PICK x : t = [op |-> "add", at |-> f.at, to |-> x] BY Zenon DEF AddStatements
<1> QED OBVIOUS

\* Those about memberships are of two.
LEMMA MemberOps ==
    ASSUME NEW f, NEW d, NEW t \in MemberStatements(f, d) PROVE t.op \in {"grant", "revoke"} /\ t.side = d
BY DEF MemberStatements

\* Only those that move and rename the object move and rename it.
LEMMA EarlyLateOps ==
    ASSUME NEW f, NEW t \in Early(f) \cup Late(f) PROVE t.op \notin {"schema", "rename"}
<1>1. CASE t \in SetStatements(f) BY <1>1, SetOps
<1>2. ASSUME NEW d \in Sides, t \in MemberStatements(f, d) PROVE t.op \notin {"schema", "rename"}
  BY <1>2, MemberOps
<1>3. ASSUME NEW c \in Columns, t \in StatementsOf(f, c) PROVE t.op \notin {"schema", "rename"}
  <2>1. t.op \in ColumnOps BY <1>3, OwnOps
  <2> QED BY <2>1 DEF ColumnOps
<1>4. CASE t \in AddStatements(f) BY <1>4, AddOps
<1> QED BY <1>1, <1>2, <1>3, <1>4 DEF Early, Late, RoleStatements, ColumnsStatements

\* Statement s of column c0, or none if s alters no column, leaves the others
\* what they are, and what it does not do itself is still to come.
LEMMA OtherColumnKept ==
    ASSUME NEW f, NEW c \in Columns, NEW s, NEW U, NEW o, NEW p,
           ColumnDone(f, {s} \cup U, c, o), p.cols[c] = o.cols[c],
           s.op \in ColumnOps => s.col # f.row[c].name
    PROVE  ColumnDone(f, U, c, p)
<1> DEFINE r == f.row[c]
           T == {s} \cup U
<1>1. /\ T \cap StatementsOf(f, c) # {} => o.cols[c].name = r.name
      /\ r.drop => o.cols[c] = NoColumn \/ Drop(f, c) \in T
      /\ ~r.drop =>
           /\ o.cols[c].name = GivenOr(r.rename, r.name) \/ Rename(f, c) \in T
           /\ \A x \in Parts : o.cols[c].part[x] = WantedPart(r, x) \/ ChangeOf(f, c, x) \in T
  BY DEF ColumnDone
<1>2. s # Drop(f, c) /\ s # Rename(f, c) /\ \A x \in Parts : s # ChangeOf(f, c, x)
  <2>1. \A t : t.op \in ColumnOps /\ t.col = r.name => s # t OBVIOUS
  <2>2. s # Drop(f, c) /\ s # Rename(f, c) BY <2>1, LastOps DEF ColumnOps
  <2>3. ASSUME NEW x PROVE s # ChangeOf(f, c, x)
    <3>1. ChangeOf(f, c, x).op = "column" /\ ChangeOf(f, c, x).col = r.name BY ChangeOps
    <3> QED BY <2>1, <3>1 DEF ColumnOps
  <2> QED BY <2>2, <2>3
<1> HIDE DEF r
<1>3. U \cap StatementsOf(f, c) # {} => T \cap StatementsOf(f, c) # {} OBVIOUS
<1>4. \A t : t \in T /\ t # s => t \in U OBVIOUS
<1> HIDE DEF T
<1>5. U \cap StatementsOf(f, c) # {} => p.cols[c].name = r.name BY <1>1, <1>3
<1>6. r.drop => p.cols[c] = NoColumn \/ Drop(f, c) \in U BY <1>1, <1>2, <1>4
<1>7. ~r.drop =>
           /\ p.cols[c].name = GivenOr(r.rename, r.name) \/ Rename(f, c) \in U
           /\ \A x \in Parts : p.cols[c].part[x] = WantedPart(r, x) \/ ChangeOf(f, c, x) \in U
  BY <1>1, <1>2, <1>4
<1> QED BY <1>5, <1>6, <1>7 DEF r, ColumnDone

\* A statement of column c does its share of what is asked for the column.
LEMMA OwnColumnDone ==
    ASSUME NEW k \in Kinds, NEW f \in FormOf(k), NEW c \in Columns, NEW s \in StatementsOf(f, c), NEW U,
           \A t \in U : InOrder(s, t), NEW o, NEW p, ColumnDone(f, {s} \cup U, c, o),
           ColumnChange(f, c, s, o, p, c)
    PROVE  o.cols[c].name = f.row[c].name /\ ColumnDone(f, U, c, p)
<1> DEFINE r == f.row[c]
           T == {s} \cup U
<1>1. /\ T \cap StatementsOf(f, c) # {} => o.cols[c].name = r.name
      /\ r.drop => o.cols[c] = NoColumn \/ Drop(f, c) \in T
      /\ ~r.drop =>
           /\ o.cols[c].name = GivenOr(r.rename, r.name) \/ Rename(f, c) \in T
           /\ \A x \in Parts : o.cols[c].part[x] = WantedPart(r, x) \/ ChangeOf(f, c, x) \in T
  BY DEF ColumnDone
<1>2. o.cols[c].name = r.name BY <1>1
<1>3. \A t : t \in T /\ t # s => t \in U OBVIOUS
<1>4. ASSUME s.op \in {"drop column", "rename column"} PROVE U \cap StatementsOf(f, c) = {}
  <2>1. ASSUME NEW t \in U, t \in StatementsOf(f, c) PROVE FALSE
    <3>1. t.op \in ColumnOps /\ t.col = r.name /\ s.col = r.name BY <2>1, OwnOps
    <3> QED BY <1>4, <2>1, <3>1 DEF InOrder, ColumnOps
  <2> QED BY <2>1
<1>5. CASE s = Drop(f, c) /\ r.drop /\ p.cols[c] = NoColumn
  <2>1. U \cap StatementsOf(f, c) = {} BY <1>4, <1>5, LastOps
  <2> QED BY <1>2, <1>5, <2>1 DEF ColumnDone
<1>6. CASE /\ s = Rename(f, c) /\ ~r.drop /\ r.rename \notin {Blank, r.name}
           /\ p.cols[c].name = r.rename /\ p.cols[c].part = o.cols[c].part
  <2>1. U \cap StatementsOf(f, c) = {} BY <1>4, <1>6, LastOps
  <2>2. p.cols[c].name = GivenOr(r.rename, r.name) BY <1>6 DEF GivenOr
  <2>3. ASSUME NEW x \in Parts PROVE ChangeOf(f, c, x) # s
    <3>1. s.op = "rename column" BY <1>6, LastOps
    <3>2. ChangeOf(f, c, x).op = "column" BY ChangeOps
    <3> QED BY <3>1, <3>2
  <2>4. \A x \in Parts : p.cols[c].part[x] = WantedPart(r, x) \/ ChangeOf(f, c, x) \in U
    <3> HIDE DEF r, T
    <3> QED BY <1>1, <1>3, <1>6, <2>3
  <2> QED BY <1>2, <1>6, <2>1, <2>2, <2>4 DEF ColumnDone
<1>7. ASSUME NEW q \in Parts, s = ChangeOf(f, c, q), Differs(r, q), ~r.drop,
             \A x \in Parts : p.cols[c].part[x] = IF x = q THEN r.part[q] ELSE o.cols[c].part[x],
             p.cols[c].name = o.cols[c].name
      PROVE  ColumnDone(f, U, c, p)
  <2>1. s.op = "column" /\ s.part = q BY <1>7, ChangeOps
  <2>2. s # Rename(f, c) /\ \A x \in Parts : x # q => s # ChangeOf(f, c, x)
    <3>1. Rename(f, c).op = "rename column" BY LastOps
    <3>2. ASSUME NEW x \in Parts, x # q PROVE s # ChangeOf(f, c, x)
      <4>1. ChangeOf(f, c, x).part = x BY ChangeOps
      <4> QED BY <2>1, <3>2, <4>1
    <3> QED BY <2>1, <3>1, <3>2
  <2>3. r.part[q] = WantedPart(r, q) BY <1>7 DEF Differs, WantedPart, GivenOr
  <2>4. p.cols[c].name = GivenOr(r.rename, r.name) \/ Rename(f, c) \in U
    <3> HIDE DEF r, T
    <3> QED BY <1>1, <1>3, <1>7, <2>2
  <2>5. \A x \in Parts : p.cols[c].part[x] = WantedPart(r, x) \/ ChangeOf(f, c, x) \in U
    <3> HIDE DEF r, T
    <3> QED BY <1>1, <1>3, <1>7, <2>2, <2>3
  <2> QED BY <1>2, <1>7, <2>4, <2>5 DEF ColumnDone
<1> HIDE DEF T
<1> QED BY <1>2, <1>5, <1>6, <1>7 DEF ColumnChange

\* A statement does what it is for, and undoes nothing.
LEMMA StepDone ==
    ASSUME NEW k \in Kinds, NEW f \in FormOf(k), NEW o \in ObjectOf(k), NEW s \in FormStatements(f), Accepts(o, s),
           NEW U, \A t \in U : InOrder(s, t), NEW p, p = Apply(o, s),
           AllDone(f, {s} \cup U, o)
    PROVE  AllDone(f, U, p)
<1> DEFINE T == {s} \cup U
<1>0. AttributesDone(f, T, o) /\ MembersDone(f, T, o) /\ ExtrasDone(f, T, o) /\ ColumnsDone(f, T, o)
  BY DEF AllDone
<1>1. \A t : t \in T /\ t # s => t \in U OBVIOUS
<1>f. DOMAIN f.attr = Attributes[k] BY FormShape
<1> HIDE DEF T
<1>2. ASSUME p.attr = o.attr, s.op # "set" PROVE AttributesDone(f, U, p)
  BY <1>0, <1>1, <1>2 DEF AttributesDone
<1>3. ASSUME p.role = o.role, \A d \in Sides : s \notin MemberStatements(f, d) PROVE MembersDone(f, U, p)
  BY <1>0, <1>1, <1>3 DEF MembersDone
<1>4. ASSUME p.added = o.added, s.op # "add" PROVE ExtrasDone(f, U, p)
  BY <1>0, <1>1, <1>4, AddOps DEF ExtrasDone
<1>5. ASSUME p.cols = o.cols, s.op \notin ColumnOps PROVE ColumnsDone(f, U, p)
  <2> SUFFICES ASSUME NEW c \in Columns
               PROVE  IF f.row[c].name # Blank THEN ColumnDone(f, U, c, p)
                      ELSE p.cols[c].name = Blank \/ \A d \in Columns : f.row[d].name = Blank
    BY DEF ColumnsDone
  <2>1. CASE f.row[c].name # Blank
    <3>1. ColumnDone(f, T, c, o) BY <1>0, <2>1 DEF ColumnsDone
    <3>2. ColumnDone(f, U, c, p) BY <1>5, <3>1, OtherColumnKept DEF T
    <3> QED BY <2>1, <3>2
  <2>2. CASE f.row[c].name = Blank BY <1>0, <1>5, <2>2 DEF ColumnsDone
  <2> QED BY <2>1, <2>2
<1>6. CASE s \in SetStatements(f)
  <2>1. /\ SameBut(p, o, "attr") /\ s.op = "set"
        /\ \A a \in Attributes[k] : p.attr[a] = IF a \in DOMAIN s.attrs THEN f.attr[a] ELSE o.attr[a]
    BY <1>6, SetEffect
  <2>2. AttributesDone(f, U, p) BY <1>0, <1>1, <1>f, <2>1 DEF AttributesDone
  <2>3. \A d \in Sides : s \notin MemberStatements(f, d) BY <2>1, MemberOps
  <2> QED BY <1>3, <1>4, <1>5, <2>1, <2>2, <2>3 DEF SameBut, AllDone, ColumnOps
<1>7. CASE s \in PlaceStatements(f)
  <2>1. SameBut(p, o, "place") /\ s.op \in {"schema", "rename"} BY <1>7, PlaceEffect
  <2>2. \A d \in Sides : s \notin MemberStatements(f, d) BY <2>1, MemberOps
  <2> QED BY <1>2, <1>3, <1>4, <1>5, <2>1, <2>2 DEF SameBut, AllDone, ColumnOps
<1>8. CASE s \in AddStatements(f)
  <2>1. SameBut(p, o, "added") /\ s.op = "add" /\ p.added = o.added \cup {s.to} BY <1>8, AddEffect
  <2>2. \A d \in Sides : s \notin MemberStatements(f, d) BY <2>1, MemberOps
  <2>3. ExtrasDone(f, U, p) BY <1>0, <1>1, <2>1 DEF ExtrasDone
  <2> QED BY <1>2, <1>3, <1>5, <2>1, <2>2, <2>3 DEF SameBut, AllDone, ColumnOps
<1>9. ASSUME NEW d \in Sides, s \in MemberStatements(f, d) PROVE AllDone(f, U, p)
  <2>1. /\ SameBut(p, o, "role") /\ s.op \in {"grant", "revoke"} /\ s.side = d
        /\ s.op = "grant" => s.to \in f.role[d] \ f.roleOrig[d]
        /\ s.op = "revoke" => s.to \in f.roleOrig[d] \ f.role[d]
        /\ \A e \in Sides : p.role[e] = IF e # d THEN o.role[e]
                                        ELSE IF s.op = "grant" THEN o.role[d] \cup {s.to} ELSE o.role[d] \ {s.to}
    <3>1. MemberStep(f, d, s, o, p) BY <1>9, MemberEffect
    <3> QED BY <3>1 DEF MemberStep
  <2>2. MembersDone(f, U, p)
    <3> SUFFICES ASSUME NEW e \in Sides, NEW t \in MemberStatements(f, e), t \notin U
                 PROVE  (t.to \in p.role[e]) = (t.op = "grant")
      BY DEF MembersDone
    <3>1. CASE t = s
      <4>1. e = d BY <1>9, <3>1, MemberOps
      <4>2. p.role[d] = IF s.op = "grant" THEN o.role[d] \cup {s.to} ELSE o.role[d] \ {s.to} BY <2>1
      <4> QED BY <2>1, <3>1, <4>1, <4>2
    <3>2. CASE t # s
      <4>1. (t.to \in o.role[e]) = (t.op = "grant") BY <1>0, <3>2 DEF MembersDone, T
      <4>2. CASE e # d BY <2>1, <4>1, <4>2
      <4>3. CASE e = d /\ t.to # s.to BY <2>1, <4>1, <4>3
      <4>4. CASE e = d /\ t.to = s.to
        <5>1. t.op = s.op
          <6>1. t.op = "grant" => t.to \in f.role[d] \ f.roleOrig[d] BY <4>4 DEF MemberStatements
          <6>2. t.op = "revoke" => t.to \in f.roleOrig[d] \ f.role[d] BY <4>4 DEF MemberStatements
          <6>3. t.op \in {"grant", "revoke"} BY MemberOps
          <6> QED BY <2>1, <4>4, <6>1, <6>2, <6>3
        <5>2. p.role[d] = IF s.op = "grant" THEN o.role[d] \cup {s.to} ELSE o.role[d] \ {s.to} BY <2>1
        <5> QED BY <2>1, <4>4, <5>1, <5>2
      <4> QED BY <4>2, <4>3, <4>4
    <3> QED BY <3>1, <3>2
  <2> QED BY <1>2, <1>4, <1>5, <2>1, <2>2 DEF SameBut, AllDone, ColumnOps
<1>10. ASSUME NEW c0 \in Columns, s \in StatementsOf(f, c0) PROVE AllDone(f, U, p)
  <2>1. /\ SameBut(p, o, "cols") /\ s.op \in ColumnOps /\ s.col = f.row[c0].name /\ f.row[c0].name # Blank
        /\ \A e \in Columns : o.cols[e].name # s.col => p.cols[e] = o.cols[e]
        /\ o.cols[c0].name = s.col => ColumnChange(f, c0, s, o, p, c0)
    <3>1. ColumnStep(f, c0, s, o, p) BY <1>10, ColumnEffect
    <3> QED BY <3>1 DEF ColumnStep, ColumnOps
  <2>2. ColumnDone(f, T, c0, o) BY <1>0, <2>1 DEF ColumnsDone
  <2>3. o.cols[c0].name = s.col
    <3>1. s \in T \cap StatementsOf(f, c0) BY <1>10 DEF T
    <3> QED BY <2>1, <2>2, <3>1 DEF ColumnDone
  <2>4. ColumnDone(f, U, c0, p)
    <3>1. ColumnDone(f, {s} \cup U, c0, o) BY <2>2 DEF T
    <3>2. ColumnChange(f, c0, s, o, p, c0) BY <2>1, <2>3
    <3> QED BY <1>10, <3>1, <3>2, OwnColumnDone
  <2>5. \A e \in Columns : e # c0 => p.cols[e] = o.cols[e] BY <2>1, <2>3, NamesApart
  <2>6. ColumnsDone(f, U, p)
    <3> SUFFICES ASSUME NEW c \in Columns
                 PROVE  IF f.row[c].name # Blank THEN ColumnDone(f, U, c, p)
                        ELSE p.cols[c].name = Blank \/ \A d \in Columns : f.row[d].name = Blank
      BY DEF ColumnsDone
    <3>1. CASE c = c0 BY <2>1, <2>4, <3>1
    <3>2. CASE c # c0 /\ f.row[c].name # Blank
      <4>1. ColumnDone(f, {s} \cup U, c, o) BY <1>0, <3>2 DEF ColumnsDone, T
      <4>2. s.col # f.row[c].name BY <2>1, <3>2, FormLimits
      <4>3. p.cols[c] = o.cols[c] BY <2>5, <3>2
      <4>4. ColumnDone(f, U, c, p) BY <4>1, <4>2, <4>3, OtherColumnKept
      <4> QED BY <3>2, <4>4
    <3>3. CASE c # c0 /\ f.row[c].name = Blank
      <4>1. p.cols[c] = o.cols[c] BY <2>5, <3>3
      <4>2. o.cols[c].name = Blank BY <1>0, <2>1, <3>3 DEF ColumnsDone
      <4> QED BY <3>3, <4>1, <4>2
    <3> QED BY <3>1, <3>2, <3>3
  <2>7. \A d \in Sides : s \notin MemberStatements(f, d) BY <2>1, MemberOps DEF ColumnOps
  <2> QED BY <1>2, <1>3, <1>4, <2>1, <2>6, <2>7 DEF SameBut, AllDone, ColumnOps
<1> QED BY <1>6, <1>7, <1>8, <1>9, <1>10, StatementKinds

\* What any statement may change.
LEMMA StatementEffect ==
    ASSUME NEW k \in Kinds, NEW f \in FormOf(k), NEW o \in ObjectOf(k), NEW s \in FormStatements(f), Accepts(o, s),
           NEW p, p = Apply(o, s)
    PROVE  /\ p \in ObjectOf(k)
           /\ \A a \in Attributes[k] : p.attr[a] = o.attr[a] \/ (f.attr[a] # Blank /\ p.attr[a] = f.attr[a])
           /\ p.role = o.role \/ \E d \in Sides : MemberStep(f, d, s, o, p)
           /\ p.cols = o.cols \/ \E c \in Columns : ColumnStep(f, c, s, o, p)
           /\ s \in Early(f) \cup Late(f) => p.schema = o.schema /\ p.name = o.name
<1>1. CASE s \in SetStatements(f)
  <2>1. /\ p \in ObjectOf(k) /\ SameBut(p, o, "attr")
        /\ \A a \in DOMAIN s.attrs : f.attr[a] # Blank
        /\ \A a \in Attributes[k] : p.attr[a] = IF a \in DOMAIN s.attrs THEN f.attr[a] ELSE o.attr[a]
    BY <1>1, SetEffect
  <2> QED BY <2>1 DEF SameBut
<1>2. CASE s \in PlaceStatements(f)
  <2>1. p \in ObjectOf(k) /\ SameBut(p, o, "place") /\ s.op \in {"schema", "rename"} BY <1>2, PlaceEffect
  <2>2. s \notin Early(f) \cup Late(f) BY <2>1, EarlyLateOps
  <2> QED BY <2>1, <2>2 DEF SameBut
<1>3. CASE s \in AddStatements(f)
  <2>1. p \in ObjectOf(k) /\ SameBut(p, o, "added") BY <1>3, AddEffect
  <2> QED BY <2>1 DEF SameBut
<1>4. ASSUME NEW d \in Sides, s \in MemberStatements(f, d)
      PROVE  p \in ObjectOf(k) /\ MemberStep(f, d, s, o, p) /\ SameBut(p, o, "role")
  <2>1. p \in ObjectOf(k) /\ MemberStep(f, d, s, o, p) BY <1>4, MemberEffect
  <2> QED BY <2>1 DEF MemberStep
<1>5. ASSUME NEW c \in Columns, s \in StatementsOf(f, c)
      PROVE  p \in ObjectOf(k) /\ ColumnStep(f, c, s, o, p) /\ SameBut(p, o, "cols")
  <2>1. p \in ObjectOf(k) /\ ColumnStep(f, c, s, o, p) BY <1>5, ColumnEffect
  <2> QED BY <2>1 DEF ColumnStep
<1>6. CASE \E d \in Sides : s \in MemberStatements(f, d) BY <1>4, <1>6 DEF SameBut
<1>7. CASE \E c \in Columns : s \in StatementsOf(f, c) BY <1>5, <1>7 DEF SameBut
<1> QED BY <1>1, <1>2, <1>3, <1>6, <1>7, StatementKinds

\* The script under way, and the statement it comes to.
LEMMA RunningScript ==
    ASSUME AInv, run.left # <<>>, NEW s, s = Head(run.left)
    PROVE  /\ run # Idle /\ Snapshot(run, kind, loads, exist) /\ run.form \in FormOf(kind)
           /\ run.left \in Seq(FormStatements(run.form)) /\ s \in FormStatements(run.form)
           /\ Range(run.left) = {s} \cup Range(Tail(run.left)) /\ Tail(run.left) \in Seq(FormStatements(run.form))
<1>1. run # Idle BY InvTypes
<1>2. Snapshot(run, kind, loads, exist) /\ run.left \in Seq(FormStatements(run.form)) BY <1>1 DEF AInv, Shape
<1>3. run.form \in FormOf(kind) BY <1>2 DEF Snapshot
<1>4. s \in FormStatements(run.form) /\ Tail(run.left) \in Seq(FormStatements(run.form))
      /\ Range(run.left) = {s} \cup Range(Tail(run.left))
  BY <1>2, TailRange
<1> QED BY <1>1, <1>2, <1>3, <1>4

\* The server runs the next statement of the script, or refuses it.
LEMMA RunStatementKeeps ==
    ASSUME AInv, RunStatement PROVE AInv'
<1> DEFINE f == run.form
           L == run.left
           s == Head(L)
<1>1. /\ L # <<>> /\ Accepts(obj, s) /\ obj' = Apply(obj, s)
      /\ run' = [run EXCEPT !.left = Tail(@)]
      /\ quiet' = IF f.load = quiet THEN quiet ELSE 0
      /\ UNCHANGED <<kind, exist, panel, listed, form, touched, due, asked, editor, fetching, behind, loads, Idle, Here>>
  BY DEF RunStatement, Here
<1>2. /\ run # Idle /\ Snapshot(run, kind, loads, exist) /\ f \in FormOf(kind)
      /\ L \in Seq(FormStatements(f)) /\ s \in FormStatements(f)
      /\ Range(L) = {s} \cup Range(Tail(L)) /\ Tail(L) \in Seq(FormStatements(f))
  BY <1>1, RunningScript
<1>3. run'.left = Tail(L) /\ run'.form = f /\ run'.touched = run.touched /\ PanelWork(run')
  <2>1. run = [left |-> run.left, form |-> run.form, touched |-> run.touched] BY <1>2 DEF Snapshot, PanelWork
  <2> QED BY <1>1, <2>1 DEF PanelWork
<1>t. kind \in Kinds /\ obj \in ObjectOf(kind) /\ loads \in Nat BY InvTypes
<1> HIDE DEF s, L
<1>4. /\ obj' \in ObjectOf(kind)
      /\ \A a \in Attributes[kind] : obj'.attr[a] = obj.attr[a] \/ (f.attr[a] # Blank /\ obj'.attr[a] = f.attr[a])
      /\ obj'.role = obj.role \/ \E d \in Sides : MemberStep(f, d, s, obj, obj')
      /\ s \in Early(f) \cup Late(f) => obj'.schema = obj.schema /\ obj'.name = obj.name
  BY <1>1, <1>2, <1>t, StatementEffect
<1>5. Snapshot(run', kind, loads, exist) BY <1>2, <1>3 DEF Snapshot, Told
<1>6. run' # Idle BY <1>5, <1>t, FormsAre DEF Snapshot
<1>7. \A d \in Sides : obj'.role[d] \subseteq exist
  <2>1. \A d \in Sides : obj.role[d] \subseteq exist /\ f.role[d] \subseteq exist
    BY <1>2 DEF AInv, Shape, AlterTypeOK, Snapshot
  <2>2. ASSUME NEW d \in Sides, MemberStep(f, d, s, obj, obj'), NEW e \in Sides PROVE obj'.role[e] \subseteq exist
    <3>1. /\ s.op = "grant" => s.to \in f.role[d]
          /\ obj'.role[e] = IF e # d THEN obj.role[e]
                            ELSE IF s.op = "grant" THEN obj.role[d] \cup {s.to} ELSE obj.role[d] \ {s.to}
      BY <2>2 DEF MemberStep
    <3> QED BY <2>1, <3>1
  <2> QED BY <1>4, <2>1, <2>2
<1>8. Shape'
  <2>1. AlterTypeOK'
    <3>1. DOMAIN obj'.attr = Attributes[kind] /\ obj'.added \subseteq Extras BY <1>4, <1>t, ObjectParts
    <3>2. quiet' \in 0 .. loads + 1 BY <1>1, InvTypes
    <3> QED BY <1>1, <1>3, <1>7, <3>1, <3>2 DEF AInv, Shape, AlterTypeOK
  <2> QED BY <1>1, <1>2, <1>3, <1>4, <1>5, <2>1 DEF AInv, Shape
<1>9. InStep' BY <1>1 DEF AInv, InStep
<1>10. CASE f.load # quiet BY <1>1, <1>8, <1>9, <1>10, Disturbed DEF AInv
<1>11. CASE f.load = quiet
  <2>1. quiet' = quiet /\ run'.form.load = quiet BY <1>1, <1>3, <1>11
  <2>2. AsShown(run', quiet, obj')
    <3>1. AsShown(run, quiet, obj) BY <1>2 DEF AInv, Unaltered
    <3>2. DOMAIN f.attr = Attributes[kind] BY <1>2, <1>t, FormShape
    <3> QED BY <1>3, <1>4, <1>11, <3>1, <3>2 DEF AsShown
  <2>3. Unaltered' BY <1>1, <1>6, <2>1, <2>2 DEF Unaltered
  <2>4. Staged(f, L, obj) /\ AllDone(f, Range(L), obj) BY <1>2, <1>11 DEF AInv, Progress, L
  <2>5. /\ \A t \in Range(Tail(L)) : InOrder(s, t)
        /\ \/ /\ s \in Early(f)
              /\ \A p : p.schema = obj.schema /\ p.name = obj.name => Staged(f, Tail(L), p)
           \/ /\ f.newschema # Blank /\ s = [op |-> "schema", at |-> f.at, to |-> f.newschema]
              /\ \A p : p.schema = f.newschema /\ p.name = obj.name => Staged(f, Tail(L), p)
           \/ /\ f.newname # Blank /\ s = [op |-> "rename", at |-> <<Final(f), f.at[2]>>, to |-> f.newname]
              /\ \A p : p.schema = obj.schema /\ p.name = f.newname => Staged(f, Tail(L), p)
           \/ /\ s \in Late(f)
              /\ \A p : p.schema = obj.schema /\ p.name = obj.name => Staged(f, Tail(L), p)
    <3> HIDE DEF f
    <3>1. L # <<>> /\ s = Head(L) BY <1>1 DEF s
    <3> QED BY <1>2, <1>t, <2>4, <3>1, StagedHead
  <2>6. Staged(f, Tail(L), obj')
    <3>1. CASE f.newschema # Blank /\ s = [op |-> "schema", at |-> f.at, to |-> f.newschema]
      <4>1. s \in PlaceStatements(f) /\ s.op = "schema" BY <3>1 DEF PlaceStatements
      <4>2. obj'.schema = f.newschema /\ obj'.name = obj.name BY <1>1, <1>2, <1>t, <4>1, PlaceEffect
      <4>3. s.op # "rename" /\ s \notin Early(f) \cup Late(f) BY <4>1, EarlyLateOps
      <4>4. s # [op |-> "rename", at |-> <<Final(f), f.at[2]>>, to |-> f.newname] BY <4>3
      <4> QED BY <2>5, <4>2, <4>3, <4>4
    <3>2. CASE f.newname # Blank /\ s = [op |-> "rename", at |-> <<Final(f), f.at[2]>>, to |-> f.newname]
      <4>1. s \in PlaceStatements(f) /\ s.op = "rename" BY <3>2 DEF PlaceStatements
      <4>2. obj'.schema = obj.schema /\ obj'.name = f.newname BY <1>1, <1>2, <1>t, <4>1, PlaceEffect
      <4>3. s.op # "schema" /\ s \notin Early(f) \cup Late(f) BY <4>1, EarlyLateOps
      <4>4. s # [op |-> "schema", at |-> f.at, to |-> f.newschema] BY <4>3
      <4> QED BY <2>5, <4>2, <4>3, <4>4
    <3>3. CASE s \in Early(f) \cup Late(f) BY <1>4, <2>5, <3>1, <3>2, <3>3
    <3> QED BY <2>5, <3>1, <3>2, <3>3
  <2>7. AllDone(f, Range(Tail(L)), obj')
    <3> DEFINE U == Range(Tail(L))
    <3>1. Range(L) = {s} \cup U /\ \A t \in U : InOrder(s, t) BY <1>2, <2>5
    <3> HIDE DEF U, f
    <3>2. AllDone(f, {s} \cup U, obj) BY <2>4, <3>1
    <3>3. AllDone(f, U, obj') BY <1>1, <1>2, <1>t, <3>1, <3>2, StepDone
    <3> QED BY <3>3 DEF U
  <2>8. Progress' BY <1>3, <2>6, <2>7 DEF Progress
  <2> QED BY <1>8, <1>9, <2>3, <2>8 DEF AInv
<1> QED BY <1>10, <1>11

-----------------------------------------------------------------------------
(* The theorems.                                                           *)

\* Initially nothing is open and nothing runs.
LEMMA AlterInitInv == AlterInit => AInv
<1> SUFFICES ASSUME AlterInit PROVE AInv OBVIOUS
<1>1. PICK fine \in SUBSET (Coarse \cap Attributes[kind]) :
        obj = Object(kind, [a \in Attributes[kind] |-> IF a \in fine THEN "fine" ELSE "old"])
  BY DEF AlterInit
<1>2. /\ kind \in Kinds /\ exist = {CHOOSE r \in Roles : TRUE} /\ exist \subseteq Roles
      /\ panel = "closed" /\ listed = {} /\ form = Nothing /\ touched = {} /\ due = FALSE
      /\ asked = Idle /\ editor = Idle /\ fetching = "nothing" /\ behind = FALSE /\ run = Idle
      /\ loads = 0 /\ quiet = 0
  BY AlterAssumption DEF AlterInit
<1> DEFINE att == [a \in Attributes[kind] |-> IF a \in fine THEN "fine" ELSE "old"]
           ro == [d \in Sides |-> IF kind = "role" THEN exist ELSE {}]
           Old == [p \in Parts |-> "old"]
           cs == [c \in Columns |-> IF kind = "table" THEN [name |-> c, part |-> Old] ELSE NoColumn]
<1>3. obj = [schema |-> "s1", name |-> "n1", attr |-> att, role |-> ro, cols |-> cs, added |-> {}]
  BY <1>1 DEF Object
<1>4. att \in [Attributes[kind] -> Values] BY DEF Values
<1>5. ro \in [Sides -> SUBSET Roles] /\ (kind # "role" => \A d \in Sides : ro[d] = {}) /\ \A d \in Sides : ro[d] \subseteq exist
  BY <1>2
<1>6. /\ cs \in [Columns -> [name : ColumnNames, part : Part]]
      /\ kind # "table" => \A c \in Columns : cs[c].name = Blank
      /\ \A c, d \in Columns : cs[c].name = cs[d].name /\ cs[c].name # Blank => c = d
  <2>1. Old \in Part BY DEF Part, Values
  <2> HIDE DEF Old
  <2>2. CASE kind = "table"
    <3>1. \A c \in Columns : cs[c] = [name |-> c, part |-> Old] BY <2>2
    <3>2. ASSUME NEW c \in Columns PROVE cs[c].name = c
      <4> HIDE DEF cs
      <4>1. cs[c] = [name |-> c, part |-> Old] BY <3>1
      <4>2. [name |-> c, part |-> Old].name = c OBVIOUS
      <4> QED BY <4>1, <4>2
    <3> QED BY <2>1, <2>2, <3>1, <3>2 DEF ColumnNames
  <2>3. CASE kind # "table"
    <3>1. \A c \in Columns : cs[c] = NoColumn BY <2>3
    <3> QED BY <2>3, <3>1, NoColumnFits
  <2> QED BY <2>2, <2>3
<1> HIDE DEF att, ro, cs
<1>7. obj \in ObjectOf(kind)
  <2>1. obj \in [schema : {"s1", "s2"}, name : {"n1", "n2", "n9"}, attr : [Attributes[kind] -> Values],
            role : [Sides -> SUBSET Roles], cols : [Columns -> [name : ColumnNames, part : Part]],
            added : SUBSET Extras]
    BY <1>3, <1>4, <1>5, <1>6
  <2> QED BY <1>3, <1>5, <1>6, <2>1 DEF ObjectOf
<1>8. Idle.form = Nothing /\ Nothing.load = 0 BY DEF Idle, Nothing
<1>9. AlterTypeOK
  <2>1. DOMAIN obj.attr = Attributes[kind] /\ obj.added \subseteq Extras /\ obj.role = ro BY <1>3, <1>4
  <2> QED BY <1>2, <1>5, <1>8, <2>1 DEF AlterTypeOK
<1>10. Shape BY <1>2, <1>7, <1>9 DEF Shape
<1>11. Unaltered
  <2>1. Here.form = Nothing BY <1>2 DEF Here
  <2> QED BY <1>2, <1>8, <2>1 DEF Unaltered
<1>12. InStep /\ Progress BY <1>2 DEF InStep, Progress
<1> QED BY <1>10, <1>11, <1>12 DEF AInv

\* Every step keeps the invariant.
LEMMA AlterNextInv == AInv /\ [AlterNext]_alterVars => AInv'
<1> SUFFICES ASSUME AInv, [AlterNext]_alterVars PROVE AInv' OBVIOUS
<1>1. CASE DdlDropdowns BY <1>1, DropdownsKeep
<1>2. CASE HandleDDLPanel BY <1>2, PanelKeeps
<1>3. CASE EditAttribute BY <1>3, EditAttributeKeeps
<1>4. CASE EditPlace BY <1>4, EditPlaceKeeps
<1>5. CASE EditColumn BY <1>5, EditColumnKeeps
<1>6. CASE EditMembership BY <1>6, EditMembershipKeeps
<1>7. CASE EditExtra BY <1>7, EditExtraKeeps
<1>8. CASE PickRefTable BY <1>8, PickRefTableKeeps
<1>9. CASE HandleDDLFKRefColumns BY <1>9, RefColumnsKeeps
<1>10. CASE SendPreview BY <1>10, SendPreviewKeeps
<1>11. CASE HandleDDLPreview BY <1>11, PreviewKeeps
<1>12. CASE StartRun BY <1>12, StartRunKeeps
<1>13. CASE RunStatement BY <1>13, RunStatementKeeps
<1>14. CASE StopRun BY <1>14, StopKeeps
<1>15. CASE FinishRun BY <1>15, StopKeeps
<1>16. CASE OtherSession BY <1>16, OtherSessionKeeps
<1>18. CASE PressRow BY <1>18, PressRowKeeps
<1>19. CASE HandleDDLColumnRow BY <1>19, ColumnRowKeeps
<1>17. CASE UNCHANGED alterVars
  BY <1>17 DEF alterVars, AInv, Shape, AlterTypeOK, Here, Unaltered, InStep, Progress
<1> QED BY <1>1, <1>2, <1>3, <1>4, <1>5, <1>6, <1>7, <1>8, <1>9, <1>10, <1>11, <1>12, <1>13, <1>14, <1>15,
           <1>16, <1>17, <1>18, <1>19 DEF AlterNext

\* The invariant holds in every reachable state.
LEMMA InvAlways == AlterSpec => []AInv
BY AlterInitInv, AlterNextInv, PTL DEF AlterSpec

\* The panel, its script and the object keep their types; an object's
\* memberships are of roles that exist, and no form is of a later load.
THEOREM AlterTypeCorrect == AlterSpec => []AlterTypeOK
<1>1. AInv => AlterTypeOK BY DEF AInv, Shape
<1> QED BY <1>1, InvAlways, PTL

\* When no SQL is due or asked for, the script tab shows that of the form, or
\* an older one if the form has an error or a request for a row aborted the
\* last one asked for.
THEOREM EditorInStepAlways == AlterSpec => []EditorInStep
<1>1. AInv => EditorInStep BY DEF AInv, InStep, EditorInStep
<1> QED BY <1>1, InvAlways, PTL

\* A statement leaves the columns, the memberships and the attributes alone
\* that the user did not touch.
THEOREM UntouchedKeptAlways == AlterSpec => UntouchedKept
<1> DEFINE f == run.form
           s == Head(run.left)
           ColumnsKept ==
              NamesHold(f) => \A c \in Columns, p \in Parts :
                obj'.cols[c].part[p] # obj.cols[c].part[p] => {<<c, p>>, <<c, "name">>} \cap run.touched # {}
           RolesKept ==
              \A d \in Sides : f.roleOrig[d] \subseteq f.listed =>
                \A r \in Roles : (r \in obj'.role[d]) # (r \in obj.role[d]) => <<d, r>> \in run.touched
           AttributesKept ==
              f.load = quiet => \A a \in Attributes[kind] :
                obj'.attr[a] # obj.attr[a] => <<a>> \in run.touched \/ obj.attr[a] = "fine"
<1>1. ASSUME AInv, RunStatement PROVE ColumnsKept /\ RolesKept /\ AttributesKept
  <2>1. run.left # <<>> /\ Accepts(obj, s) /\ obj' = Apply(obj, s) BY <1>1 DEF RunStatement
  <2>2. run # Idle /\ Snapshot(run, kind, loads, exist) /\ f \in FormOf(kind) /\ s \in FormStatements(f)
    BY <1>1, <2>1, RunningScript
  <2>3. kind \in Kinds /\ obj \in ObjectOf(kind) BY <1>1, InvTypes
  <2>4. DOMAIN f.attr = Attributes[kind] BY <2>2, <2>3, FormShape
  <2> HIDE DEF s
  <2>5. /\ \A a \in Attributes[kind] : obj'.attr[a] = obj.attr[a] \/ (f.attr[a] # Blank /\ obj'.attr[a] = f.attr[a])
        /\ obj'.role = obj.role \/ \E d \in Sides : MemberStep(f, d, s, obj, obj')
        /\ obj'.cols = obj.cols \/ \E c \in Columns : ColumnStep(f, c, s, obj, obj')
    BY <2>1, <2>2, <2>3, StatementEffect
  <2>6. Told(run) BY <2>2 DEF Snapshot
  <2>7. ColumnsKept
    <3> SUFFICES ASSUME NamesHold(f), NEW c \in Columns, NEW p \in Parts,
                        obj'.cols[c].part[p] # obj.cols[c].part[p]
                 PROVE  {<<c, p>>, <<c, "name">>} \cap run.touched # {}
      OBVIOUS
    <3>1. PICK c0 \in Columns : ColumnStep(f, c0, s, obj, obj') BY <2>5
    <3>2. obj.cols[c].name = s.col /\ s.col = f.row[c0].name /\ f.row[c0].name # Blank /\ ColumnChange(f, c0, s, obj, obj', c)
      BY <3>1 DEF ColumnStep
    <3>3. c = c0 BY <3>2 DEF NamesHold
    <3>4. CASE f.row[c].drop BY <2>6, <3>4 DEF Told
    <3>5. ASSUME NEW q \in Parts, Differs(f.row[c], q),
                 \A x \in Parts : obj'.cols[c].part[x] = IF x = q THEN f.row[c].part[q] ELSE obj.cols[c].part[x]
          PROVE  <<c, p>> \in run.touched
      <4>1. p = q BY <3>5
      <4>2. f.row[c].part[p] # f.row[c].orig[p] BY <3>5, <4>1 DEF Differs
      <4> QED BY <2>6, <4>2 DEF Told
    <3> QED BY <3>2, <3>3, <3>4, <3>5 DEF ColumnChange
  <2>8. RolesKept
    <3> SUFFICES ASSUME NEW d \in Sides, f.roleOrig[d] \subseteq f.listed, NEW r \in Roles,
                        (r \in obj'.role[d]) # (r \in obj.role[d])
                 PROVE  <<d, r>> \in run.touched
      OBVIOUS
    <3>1. PICK e \in Sides : MemberStep(f, e, s, obj, obj') BY <2>5
    <3>2. obj'.role[d] = IF d # e THEN obj.role[d]
                         ELSE IF s.op = "grant" THEN obj.role[e] \cup {s.to} ELSE obj.role[e] \ {s.to}
      BY <3>1 DEF MemberStep
    <3>3. d = e /\ r = s.to BY <3>2
    <3>4. (r \in f.role[d]) # (r \in f.roleOrig[d])
      <4>1. /\ s.op \in {"grant", "revoke"}
            /\ s.op = "grant" => s.to \in f.role[e] \ f.roleOrig[e]
            /\ s.op = "revoke" => s.to \in f.roleOrig[e] \ f.role[e]
        BY <3>1 DEF MemberStep
      <4> QED BY <3>3, <4>1
    <3>5. (r \in f.role[d]) # (r \in f.roleOrig[d] \cap f.listed) BY <3>4
    <3> QED BY <2>6, <3>5 DEF Told
  <2>9. AttributesKept
    <3>1. AsShown(run, quiet, obj) BY <1>1, <2>2 DEF AInv, Unaltered
    <3> QED BY <2>4, <2>5, <3>1 DEF AsShown
  <2> QED BY <2>7, <2>8, <2>9
<1>2. AInv /\ [AlterNext]_alterVars => [RunStatement => ColumnsKept /\ RolesKept /\ AttributesKept]_alterVars
  BY <1>1
<1>3. [][RunStatement => ColumnsKept /\ RolesKept /\ AttributesKept]_alterVars => UntouchedKept
  BY PTL DEF UntouchedKept
<1> HIDE DEF ColumnsKept, RolesKept, AttributesKept
<1> QED BY <1>2, <1>3, InvAlways, PTL DEF AlterSpec

\* When nothing is left of a script nothing interfered with, the object is
\* what its form says.
LEMMA Ends ==
    ASSUME NEW k \in Kinds, NEW f \in FormOf(k), NEW o \in ObjectOf(k), Staged(f, <<>>, o), AllDone(f, {}, o)
    PROVE  /\ o.name = GivenOr(f.newname, f.at[2]) /\ o.schema = GivenOr(f.newschema, f.at[1])
           /\ \A a \in Attributes[k] : f.attr[a] # Blank => o.attr[a] = f.attr[a]
           /\ \A c \in Columns : f.row[c].name # Blank =>
                o.cols[c] = IF f.row[c].drop THEN NoColumn
                            ELSE [name |-> GivenOr(f.row[c].rename, f.row[c].name),
                                  part |-> [p \in Parts |-> WantedPart(f.row[c], p)]]
           /\ \A d \in Sides, r \in Roles :
                (r \in f.role[d]) # (r \in f.roleOrig[d]) => (r \in o.role[d]) = (r \in f.role[d])
           /\ {x \in Extras : f.extra[x] = "whole"} \subseteq o.added
<1>1. o.name = GivenOr(f.newname, f.at[2]) /\ o.schema = GivenOr(f.newschema, f.at[1])
  BY StagedEnd DEF Final, GivenOr
<1>2. \A a \in Attributes[k] : f.attr[a] # Blank => o.attr[a] = f.attr[a]
  <2>1. DOMAIN f.attr = Attributes[k] BY FormShape
  <2> QED BY <2>1 DEF AllDone, AttributesDone
<1>3. ASSUME NEW c \in Columns, f.row[c].name # Blank
      PROVE  o.cols[c] = IF f.row[c].drop THEN NoColumn
                         ELSE [name |-> GivenOr(f.row[c].rename, f.row[c].name),
                               part |-> [p \in Parts |-> WantedPart(f.row[c], p)]]
  <2>1. ColumnDone(f, {}, c, o) BY <1>3 DEF AllDone, ColumnsDone
  <2>2. o.cols[c] \in [name : ColumnNames, part : Part] BY ObjectParts
  <2>3. CASE ~f.row[c].drop
    <3>1. o.cols[c].name = GivenOr(f.row[c].rename, f.row[c].name)
          /\ \A p \in Parts : o.cols[c].part[p] = WantedPart(f.row[c], p)
      BY <2>1, <2>3 DEF ColumnDone
    <3>2. o.cols[c].part = [p \in Parts |-> WantedPart(f.row[c], p)] BY <2>2, <3>1 DEF Part
    <3>3. o.cols[c] = [name |-> o.cols[c].name, part |-> o.cols[c].part] BY <2>2
    <3> QED BY <2>3, <3>1, <3>2, <3>3
  <2>4. CASE f.row[c].drop BY <2>1, <2>4 DEF ColumnDone
  <2> QED BY <2>3, <2>4
<1>4. ASSUME NEW d \in Sides, NEW r \in Roles, (r \in f.role[d]) # (r \in f.roleOrig[d])
      PROVE  (r \in o.role[d]) = (r \in f.role[d])
  <2> DEFINE s == [op |-> IF r \in f.role[d] THEN "grant" ELSE "revoke", at |-> f.at, side |-> d, to |-> r]
  <2>1. s \in MemberStatements(f, d) BY <1>4 DEF MemberStatements
  <2>2. s.to = r /\ (s.op = "grant") = (r \in f.role[d]) OBVIOUS
  <2> HIDE DEF s
  <2> QED BY <2>1, <2>2 DEF AllDone, MembersDone
<1>5. ASSUME NEW x \in Extras, f.extra[x] = "whole" PROVE x \in o.added
  <2> DEFINE s == [op |-> "add", at |-> f.at, to |-> x]
  <2>1. s \in AddStatements(f) /\ s.to = x BY <1>5 DEF AddStatements
  <2> HIDE DEF s
  <2> QED BY <2>1 DEF AllDone, ExtrasDone
<1> QED BY <1>1, <1>2, <1>3, <1>4, <1>5

\* A column that holds the name a rename wants is one the form names so, or
\* renamed so.
LEMMA NameInUse ==
    ASSUME NEW k \in Kinds, NEW f \in FormOf(k), NEW o \in ObjectOf(k), NEW T \in SUBSET FormStatements(f),
           ColumnsDone(f, T, o), NEW c \in Columns, f.row[c].name # Blank, NEW e \in Columns, o.cols[e].name # Blank
    PROVE  o.cols[e].name \in {f.row[e].name, f.row[e].rename}
<1> DEFINE r == f.row[e]
<1>1. r.name # Blank BY DEF ColumnsDone
<1>2. ColumnDone(f, T, e, o) BY <1>1 DEF ColumnsDone
<1>3. CASE T \cap StatementsOf(f, e) # {} BY <1>2, <1>3 DEF ColumnDone
<1>4. CASE T \cap StatementsOf(f, e) = {}
  <2>1. CASE r.drop
    <3>1. Drop(f, e) \in StatementsOf(f, e) BY <1>1, <2>1 DEF StatementsOf
    <3>2. o.cols[e] = NoColumn BY <1>2, <1>4, <2>1, <3>1 DEF ColumnDone
    <3> QED BY <3>2, NoColumnFits
  <2>2. CASE ~r.drop
    <3>1. Rename(f, e) \notin T
      <4>1. SUFFICES ASSUME Rename(f, e) \in T PROVE FALSE OBVIOUS
      <4> DEFINE t == Rename(f, e)
      <4>2. t \in FormStatements(f) /\ t.op = "rename column" /\ t.col = r.name BY <4>1, LastOps
      <4> HIDE DEF t
      <4>3. t \notin SetStatements(f) BY <4>2, SetOps
      <4>4. t \notin PlaceStatements(f) BY <4>2, PlaceOps
      <4>5. t \notin AddStatements(f) BY <4>2, AddOps
      <4>6. \A d \in Sides : t \notin MemberStatements(f, d) BY <4>2, MemberOps
      <4>7. PICK d \in Columns : t \in StatementsOf(f, d) BY <4>2, <4>3, <4>4, <4>5, <4>6, StatementKinds
      <4>8. f.row[d].name = r.name BY <4>2, <4>7, OwnOps
      <4>9. d = e BY <1>1, <4>8, FormLimits
      <4> QED BY <1>4, <4>1, <4>7, <4>9 DEF t
    <3>2. o.cols[e].name = GivenOr(r.rename, r.name) BY <1>2, <2>2, <3>1 DEF ColumnDone
    <3> QED BY <3>2 DEF GivenOr
  <2> QED BY <2>1, <2>2
<1> QED BY <1>3, <1>4

\* The server accepts every statement of a script nothing interfered with,
\* unless the table moved first or a column takes a name in use.
LEMMA Accepted ==
    ASSUME NEW k \in Kinds, NEW f \in FormOf(k), NEW o \in ObjectOf(k), NEW L \in Seq(FormStatements(f)), L # <<>>,
           Staged(f, L, o), AllDone(f, Range(L), o), NEW s, s = Head(L)
    PROVE  \/ Accepts(o, s)
           \/ k = "table" /\ {f.newname, f.newschema} # {Blank}
           \/ \E c, d \in Columns : c # d /\ f.row[c].rename \in {f.row[d].name, f.row[d].rename} \ {Blank}
<1>1. f.at = <<"s1", "n1">> /\ f.at[1] = "s1" /\ f.at[2] = "n1" BY FormShape
<1>2. Range(L) \subseteq FormStatements(f) /\ s \in Range(L)
  <2>1. Range(L) = {s} \cup Range(Tail(L)) BY TailRange
  <2> QED BY <2>1, RangeType
<1>3. \/ s \in Early(f) /\ o.schema = f.at[1] /\ o.name = f.at[2]
      \/ s = [op |-> "schema", at |-> f.at, to |-> f.newschema] /\ o.schema = f.at[1] /\ o.name = f.at[2]
      \/ s = [op |-> "rename", at |-> <<Final(f), f.at[2]>>, to |-> f.newname] /\ o.schema = Final(f) /\ o.name = f.at[2]
      \/ s \in Late(f) /\ k = "table" /\ o.schema = Final(f) /\ o.name = GivenOr(f.newname, f.at[2])
  BY StagedHead
<1>4. CASE s \in Early(f) /\ o.schema = f.at[1] /\ o.name = f.at[2]
  <2>1. s.at = f.at /\ s.op \in {"set", "grant", "revoke"}
    BY <1>4 DEF Early, SetStatements, RoleStatements, MemberStatements
  <2> QED BY <1>1, <1>4, <2>1 DEF Accepts
<1>5. CASE s = [op |-> "schema", at |-> f.at, to |-> f.newschema] /\ o.schema = f.at[1] /\ o.name = f.at[2]
  <2>1. s.op = "schema" /\ s.at = f.at BY <1>5
  <2> QED BY <1>1, <1>5, <2>1 DEF Accepts
<1>6. CASE /\ s = [op |-> "rename", at |-> <<Final(f), f.at[2]>>, to |-> f.newname]
           /\ o.schema = Final(f) /\ o.name = f.at[2]
  <2>1. s.op = "rename" /\ s.at = <<Final(f), f.at[2]>> BY <1>6
  <2> QED BY <1>6, <2>1 DEF Accepts
<1>7. CASE s \in Late(f) /\ k = "table" /\ o.schema = Final(f) /\ o.name = GivenOr(f.newname, f.at[2])
  <2> SUFFICES ASSUME {f.newname, f.newschema} = {Blank},
                      ~ \E c, d \in Columns : c # d /\ f.row[c].rename \in {f.row[d].name, f.row[d].rename} \ {Blank}
               PROVE  Accepts(o, s)
    BY <1>7
  <2>1. f.newname = Blank /\ f.newschema = Blank OBVIOUS
  <2>2. <<o.schema, o.name>> = f.at BY <1>1, <1>7, <2>1 DEF Final, GivenOr
  <2>3. CASE s \in AddStatements(f)
    <3>1. s.at = f.at /\ s.op = "add" BY <2>3, AddOps
    <3> QED BY <2>2, <3>1 DEF Accepts
  <2>4. ASSUME NEW c \in Columns, s \in StatementsOf(f, c) PROVE Accepts(o, s)
    <3>1. s.op \in ColumnOps /\ s.col = f.row[c].name /\ f.row[c].name # Blank BY <2>4, OwnOps
    <3>2. ColumnDone(f, Range(L), c, o) BY <3>1 DEF AllDone, ColumnsDone
    <3>3. o.cols[c].name = f.row[c].name BY <1>2, <2>4, <3>2 DEF ColumnDone
    <3>4. s.at = f.at BY <2>4, OwnOps
    <3>5. ASSUME s.op = "rename column" PROVE ~Taken(o, s.to)
      <4>1. s.to = f.row[c].rename /\ f.row[c].rename # Blank /\ f.row[c].rename # f.row[c].name
        <5>1. \A t \in StatementsOf(f, c) : t.op = "rename column" =>
                t.to = f.row[c].rename /\ f.row[c].rename # Blank /\ f.row[c].rename # f.row[c].name
          BY RenameOps
        <5> QED BY <2>4, <3>5, <5>1
      <4>2. SUFFICES ASSUME NEW e \in Columns, o.cols[e].name = s.to PROVE FALSE BY DEF Taken
      <4>3. e # c BY <3>3, <4>1, <4>2
      <4>4. o.cols[e].name \in {f.row[e].name, f.row[e].rename}
        <5> DEFINE T == Range(L)
        <5>1. T \in SUBSET FormStatements(f) /\ ColumnsDone(f, T, o) BY <1>2 DEF AllDone
        <5>2. o.cols[e].name # Blank BY <4>1, <4>2
        <5> HIDE DEF T
        <5> QED BY <3>1, <5>1, <5>2, NameInUse
      <4> QED BY <4>1, <4>2, <4>3, <4>4
    <3> QED BY <2>2, <3>1, <3>3, <3>4, <3>5 DEF Accepts, Taken
  <2> QED BY <1>7, <2>3, <2>4 DEF Late, ColumnsStatements
<1> QED BY <1>3, <1>4, <1>5, <1>6, <1>7

\* A script nothing interfered with brings about what its form says, and goes
\* to its end but where the table moves first or a column takes a name in use.
THEOREM AsAskedAlways == AlterSpec => []AsAsked
<1>1. ASSUME AInv PROVE AsAsked
  <2> DEFINE f == run.form
             L == run.left
  <2> SUFFICES ASSUME run # Idle, f.load = quiet PROVE AsAsked BY DEF AsAsked
  <2>1. kind \in Kinds /\ obj \in ObjectOf(kind) BY <1>1, InvTypes
  <2>2. Staged(f, L, obj) /\ AllDone(f, Range(L), obj) BY <1>1 DEF AInv, Progress
  <2>3. f \in FormOf(kind) /\ L \in Seq(FormStatements(f)) BY <1>1 DEF AInv, Shape, Snapshot
  <2>4. CASE L = <<>>
    <3> HIDE DEF f, L
    <3>1. Staged(f, <<>>, obj) /\ AllDone(f, {}, obj) BY <2>2, <2>4, EmptyRange
    <3>2. /\ obj.name = GivenOr(f.newname, f.at[2]) /\ obj.schema = GivenOr(f.newschema, f.at[1])
          /\ \A a \in Attributes[kind] : f.attr[a] # Blank => obj.attr[a] = f.attr[a]
          /\ \A c \in Columns : f.row[c].name # Blank =>
               obj.cols[c] = IF f.row[c].drop THEN NoColumn
                             ELSE [name |-> GivenOr(f.row[c].rename, f.row[c].name),
                                   part |-> [p \in Parts |-> WantedPart(f.row[c], p)]]
          /\ \A d \in Sides, r \in Roles :
               (r \in f.role[d]) # (r \in f.roleOrig[d]) => (r \in obj.role[d]) = (r \in f.role[d])
          /\ {x \in Extras : f.extra[x] = "whole"} \subseteq obj.added
      BY <2>1, <2>3, <3>1, Ends
    <3> QED BY <2>4, <3>2 DEF AsAsked, GivenOr, WantedPart, f, L
  <2>5. CASE L # <<>>
    <3> HIDE DEF f, L
    <3>1. \/ Accepts(obj, Head(L))
          \/ kind = "table" /\ {f.newname, f.newschema} # {Blank}
          \/ \E c, d \in Columns : c # d /\ f.row[c].rename \in {f.row[d].name, f.row[d].rename} \ {Blank}
      BY <2>1, <2>2, <2>3, <2>5, Accepted
    <3> QED BY <2>5, <3>1 DEF AsAsked, f, L
  <2> QED BY <2>4, <2>5
<1> QED BY <1>1, InvAlways, PTL
=============================================================================
