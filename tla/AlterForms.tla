----------------------------- MODULE AlterForms -----------------------------
(***************************************************************************)
(* The Alter panels of ddl.go.  A panel is filled from the catalog in two  *)
(* reads, every edit posts the form to the builder of its kind, the SQL    *)
(* that comes back replaces the text of the script tab, and the script     *)
(* runs one statement at a time, each committed on its own, while other    *)
(* sessions alter the same object.  Only columns and memberships travel    *)
(* with the value they were loaded with; every other field is set again    *)
(* unless it is blank.                                                     *)
(*                                                                         *)
(* Values are those of the load ("old"), of the user ("new") and of the    *)
(* other sessions ("theirs"); "fine" is one the panel can only show        *)
(* rounded: an expiry with seconds, a trigger enabled for replicas.        *)
(***************************************************************************)
EXTENDS Naturals, SequencesExt

CONSTANTS Columns,   \* of the table, when the kind is a table
          Roles,     \* roles the altered role may be a member of, or have as members
          MaxChanges \* bound: the edits, the mishaps and the runs together, not all of them edits

Blank == ""
ASSUME AlterAssumption ==
    /\ IsFiniteSet(Columns) /\ Blank \notin Columns
    /\ IsFiniteSet(Roles) /\ Roles # {}
Error == <<[op |-> "error"]>>

Attributes ==
    [schema |-> {"owner"}, tablespace |-> {"owner"}, publication |-> {"owner"},
     table |-> {"owner"}, view |-> {"owner"}, matview |-> {"owner"},
     function |-> {"owner"}, procedure |-> {"owner"},
     database |-> {"owner", "connlimit", "allowconn"},
     role |-> {"login", "password", "superuser", "createdb", "createrole", "inherit",
               "replication", "connlimit", "validuntil"},
     sequence |-> {"owner", "increment", "minvalue", "maxvalue", "restart", "cache", "cycle"},
     extension |-> {"version"}, index |-> {}, rule |-> {}, trigger |-> {"enabled"},
     policy |-> {"roles", "using_expr", "with_check_expr"}]
Kinds == DOMAIN Attributes
Movable == {"table", "view", "matview", "function", "procedure", "sequence", "extension"}
Coarse == {"validuntil", "enabled"}
Sides == {"memberof", "members"}
Parts == {"type", "nullable", "default"}
Extras == {"column", "foreign key", "exclusion", "attach", "detach"}

NoColumn == [name |-> Blank, part |-> [p \in Parts |-> Blank]]

VARIABLES
    kind,     \* of the panel
    obj,      \* the object in the catalog
    exist,    \* the roles that exist
    panel,    \* "closed", "listed" after the first read, "open"
    listed,   \* the roles of the dropdowns
    form,     \* the form, with the hidden originals
    touched,  \* what the user changed in it since it was loaded
    due,      \* the form changed and its SQL was not asked for yet
    asked,    \* the form whose SQL is under way, with its touched
    editor,   \* the form whose SQL the script tab shows, with its touched
    fetching, \* what the panel's other request fetches: "columns" of a referenced
              \* table, a row to "add" or to "remove", or "nothing"
    behind,   \* such a request aborted the SQL under way and none was asked for since
    run,      \* the script under way: the statements left and what it was made from
    loads,    \* how often the panel was loaded
    quiet,    \* the load that found the object and since which only its script altered it
    edits,    \* changes made in the form
    mishaps,  \* failed reads, denied statements, changes of other sessions, at most one
    runs      \* of the script
alterVars == <<kind, obj, exist, panel, listed, form, touched, due, asked, editor,
               fetching, behind, run, loads, quiet, edits, mishaps, runs>>

MoreChanges == edits + mishaps + runs < MaxChanges
Mishap == MoreChanges /\ mishaps = 0 /\ mishaps' = 1
Nothing == [load |-> 0]
Idle == [left |-> <<>>, form |-> Nothing, touched |-> {}]
-----------------------------------------------------------------------------
(* The catalog.                                                            *)

Object(k, attr) ==
    [schema |-> "s1", name |-> "n1", attr |-> attr,
     role   |-> [d \in Sides |-> IF k = "role" THEN exist ELSE {}],
     cols   |-> [c \in Columns |-> IF k = "table"
                                   THEN [name |-> c, part |-> [p \in Parts |-> "old"]]
                                   ELSE NoColumn],
     added  |-> {}]

Taken(o, n) == \E c \in Columns : o.cols[c].name = n

\* Whether the server accepts statement s on object o.
Accepts(o, s) ==
    /\ s.at = <<o.schema, o.name>>
    /\ s.op \in {"column", "drop column", "rename column"} => Taken(o, s.col)
    /\ s.op = "rename column" => ~Taken(o, s.to)

OnColumn(o, n, new) == [o EXCEPT !.cols = [c \in Columns |->
    IF @[c].name = n THEN new[c] ELSE @[c]]]

Apply(o, s) ==
    CASE s.op = "set"    -> [o EXCEPT !.attr = [a \in DOMAIN @ |->
                               IF a \in DOMAIN s.attrs THEN s.attrs[a] ELSE @[a]]]
      [] s.op = "schema" -> [o EXCEPT !.schema = s.to]
      [] s.op = "rename" -> [o EXCEPT !.name = s.to]
      [] s.op = "grant"  -> [o EXCEPT !.role[s.side] = @ \cup {s.to}]
      [] s.op = "revoke" -> [o EXCEPT !.role[s.side] = @ \ {s.to}]
      [] s.op = "add"    -> [o EXCEPT !.added = @ \cup {s.to}]
      [] s.op = "column" ->
           OnColumn(o, s.col, [c \in Columns |-> [o.cols[c] EXCEPT !.part[s.part] = s.to]])
      [] s.op = "rename column" ->
           OnColumn(o, s.col, [c \in Columns |-> [o.cols[c] EXCEPT !.name = s.to]])
      [] s.op = "drop column" -> OnColumn(o, s.col, [c \in Columns |-> NoColumn])
-----------------------------------------------------------------------------
(* The builders: from a form f to its statements, or Error.  f.at is the   *)
(* schema and the name the panel was opened for.                           *)

\* One statement that sets the fields S that are not blank.
Together(f, S) ==
    LET given == {a \in S : f.attr[a] # Blank}
    IN  IF given = {} THEN <<>>
        ELSE <<[op |-> "set", at |-> f.at, attrs |-> [a \in given |-> f.attr[a]]]>>

RenameTo(f, at) ==
    IF f.newname = Blank THEN <<>> ELSE <<[op |-> "rename", at |-> at, to |-> f.newname]>>

AlterOwnerSchemaRename_Early(f, hasOwner, hasSchema) ==
    RenameTo(f, f.at) \o Together(f, IF hasOwner THEN {"owner"} ELSE {})

AlterOwnerSchemaRename(f, hasOwner, hasSchema) ==
    LET moves == hasSchema /\ f.newschema # Blank
        final == IF moves THEN f.newschema ELSE f.at[1]
    IN  (IF hasOwner THEN Together(f, {"owner"}) ELSE <<>>)
        \o (IF moves THEN <<[op |-> "schema", at |-> f.at, to |-> f.newschema]>> ELSE <<>>)
        \o RenameTo(f, <<final, f.at[2]>>)

BuildAlterSchema(f) == Together(f, {"owner"}) \o RenameTo(f, f.at)

BuildAlterDatabase(f) ==
    IF f.attr["connlimit"] = "bad" THEN Error
    ELSE Together(f, {"owner"}) \o Together(f, {"connlimit"}) \o Together(f, {"allowconn"})
         \o RenameTo(f, f.at)

ListDiff(cur, orig) == [added |-> cur \ orig, removed |-> orig \ cur]

Membership(f, side, op, rs) ==
    SetToSeq({[op |-> op, at |-> f.at, side |-> side, to |-> r] : r \in rs})

RoleMembershipStatements_All(f) ==
    Membership(f, "memberof", "grant", f.role["memberof"])
    \o Membership(f, "memberof", "revoke", f.listed \ f.role["memberof"])

RoleMembershipStatements(f) ==
    LET Diff(d) == ListDiff(f.role[d], f.roleOrig[d])
        Of(d)   == Membership(f, d, "grant", Diff(d).added)
                   \o Membership(f, d, "revoke", Diff(d).removed)
    IN  Of("memberof") \o Of("members")

BuildAlterRole(f) ==
    IF f.attr["connlimit"] = "bad" THEN Error
    ELSE Together(f, Attributes["role"]) \o RoleMembershipStatements(f) \o RenameTo(f, f.at)

BuildAlterTablespace(f)  == AlterOwnerSchemaRename(f, TRUE, FALSE)
BuildAlterPublication(f) == AlterOwnerSchemaRename(f, TRUE, FALSE)
BuildAlterView(f)        == AlterOwnerSchemaRename(f, TRUE, TRUE)
BuildAlterMatView(f)     == AlterOwnerSchemaRename(f, TRUE, TRUE)
BuildAlterFunction(f)    == AlterOwnerSchemaRename(f, TRUE, TRUE)
BuildAlterProcedure(f)   == AlterOwnerSchemaRename(f, TRUE, TRUE)

\* The rows of the existing columns.
Differs(r, p) == r.part[p] # r.orig[p] /\ (p = "default" \/ r.part[p] # Blank)

ColumnStatements(f, c) ==
    LET r == f.row[c]
        Change(p) == IF Differs(r, p)
                     THEN <<[op |-> "column", at |-> f.at, col |-> r.name, part |-> p, to |-> r.part[p]]>>
                     ELSE <<>>
    IN  IF r.name = Blank THEN <<>>
        ELSE IF r.drop THEN <<[op |-> "drop column", at |-> f.at, col |-> r.name]>>
        ELSE Change("type") \o Change("nullable") \o Change("default")
             \o IF r.rename \in {Blank, r.name} THEN <<>>
                ELSE <<[op |-> "rename column", at |-> f.at, col |-> r.name, to |-> r.rename]>>

\* A clause of the panel's lower half, "half" filled in or "whole".  An
\* exclusion constraint and a detached partition need one field only.
Clause(f, x) ==
    IF f.extra[x] = "whole" THEN <<[op |-> "add", at |-> f.at, to |-> x]>> ELSE <<>>
NewColumn(f)           == IF f.extra["column"] = "half" THEN Error ELSE Clause(f, "column")
BuildForeignKeyClause(f) ==
    IF f.extra["foreign key"] = "half" THEN Error ELSE Clause(f, "foreign key")
BuildExclusionClause(f)  == Clause(f, "exclusion")
BuildAttachPartitionStmt(f) == IF f.extra["attach"] = "half" THEN Error ELSE Clause(f, "attach")
BuildDetachPartitionStmt(f) == Clause(f, "detach")

\* The object is moved and renamed first; the columns and the rest are
\* still altered under the schema and the name it had.
BuildAlterTableForm(f) ==
    LET clauses == <<NewColumn(f), BuildForeignKeyClause(f), BuildExclusionClause(f),
                     BuildAttachPartitionStmt(f), BuildDetachPartitionStmt(f)>>
    IN  IF \E i \in DOMAIN clauses : clauses[i] = Error THEN Error
        ELSE AlterOwnerSchemaRename(f, TRUE, TRUE)
             \o FlattenSeq([i \in 1 .. Cardinality(Columns) |->
                              ColumnStatements(f, SetToSeq(Columns)[i])])
             \o FlattenSeq(clauses)

BuildAlterSequence(f) ==
    Together(f, Attributes["sequence"] \ {"owner"}) \o AlterOwnerSchemaRename(f, TRUE, TRUE)
BuildAlterExtension(f) ==
    Together(f, {"version"}) \o AlterOwnerSchemaRename([f EXCEPT !.newname = Blank], FALSE, TRUE)
BuildAlterIndex(f)   == IF f.newname = Blank THEN Error ELSE RenameTo(f, f.at)
BuildAlterTrigger(f) == Together(f, {"enabled"}) \o RenameTo(f, f.at)
BuildAlterRule(f)    == RenameTo(f, f.at)
BuildAlterPolicyForm(f) ==
    Together(f, {"roles", "using_expr", "with_check_expr"}) \o RenameTo(f, f.at)

RunAlter(f) ==
    CASE f.kind = "schema" -> BuildAlterSchema(f)         [] f.kind = "database" -> BuildAlterDatabase(f)
      [] f.kind = "role" -> BuildAlterRole(f)             [] f.kind = "tablespace" -> BuildAlterTablespace(f)
      [] f.kind = "publication" -> BuildAlterPublication(f) [] f.kind = "table" -> BuildAlterTableForm(f)
      [] f.kind = "view" -> BuildAlterView(f)             [] f.kind = "matview" -> BuildAlterMatView(f)
      [] f.kind = "function" -> BuildAlterFunction(f)     [] f.kind = "procedure" -> BuildAlterProcedure(f)
      [] f.kind = "sequence" -> BuildAlterSequence(f)     [] f.kind = "extension" -> BuildAlterExtension(f)
      [] f.kind = "index" -> BuildAlterIndex(f)           [] f.kind = "trigger" -> BuildAlterTrigger(f)
      [] f.kind = "rule" -> BuildAlterRule(f)             [] f.kind = "policy" -> BuildAlterPolicyForm(f)
-----------------------------------------------------------------------------
(* The panel.                                                              *)

Found == <<obj.schema, obj.name>> = <<"s1", "n1">>

\* What the panel shows of attribute a: no password and no restart value, an
\* owner or roles only if the dropdown has them, and the rest rounded.
Shown(a) ==
    IF a \in {"password", "restart"} \/ (a \in {"owner", "roles"} /\ listed = {}) THEN Blank
    ELSE IF obj.attr[a] = "fine" THEN "rounded" ELSE obj.attr[a]

\* The form: attributes and memberships that were read, columns that were
\* read.  It always asks for the name the panel was opened with.
Prefill(attrs, members, cols) ==
    LET roles == [d \in Sides |-> IF Found /\ members THEN obj.role[d] ELSE {}]
        Row(c) == [name |-> obj.cols[c].name, part |-> obj.cols[c].part,
                   orig |-> obj.cols[c].part, drop |-> FALSE, rename |-> Blank]
        NoRow  == [name |-> Blank, part |-> NoColumn.part, orig |-> NoColumn.part,
                   drop |-> FALSE, rename |-> Blank]
    IN  [load |-> loads + 1, kind |-> kind, at |-> <<"s1", "n1">>, newschema |-> Blank, newname |-> Blank,
         attr |-> [a \in Attributes[kind] |-> IF Found /\ attrs THEN Shown(a) ELSE Blank],
         role |-> [d \in Sides |-> roles[d] \cap listed], roleOrig |-> roles, listed |-> listed,
         row  |-> [c \in Columns |-> IF Found /\ cols THEN Row(c) ELSE NoRow],
         extra |-> [x \in Extras |-> Blank]]

\* The dropdowns are read before the object, best effort.  Reset reads them
\* again: the number of runs bounds that of the loads.
DdlDropdowns ==
    /\ panel # "listed" /\ loads <= runs
    /\ panel' = "listed" /\ quiet' = loads + 1
    /\ \/ listed' = exist /\ UNCHANGED mishaps
       \/ Mishap /\ listed' = {}
    /\ UNCHANGED <<kind, obj, exist, form, touched, due, asked, editor, fetching, behind, run, loads, edits, runs>>

\* The panel is swapped in and asks for its SQL; answers for the one it
\* replaces find no place to go.
HandleDDLPanel ==
    /\ panel = "listed"
    /\ \/ form' = Prefill(TRUE, TRUE, TRUE) /\ UNCHANGED mishaps
       \/ /\ Mishap
          /\ \E attrs, members, cols \in BOOLEAN : (members => attrs) /\ form' = Prefill(attrs, members, cols)
    /\ panel' = "open" /\ loads' = loads + 1 /\ touched' = {} /\ due' = TRUE
    /\ asked' = Idle /\ fetching' = "nothing" /\ behind' = FALSE
    /\ quiet' = IF Found THEN quiet ELSE 0
    /\ UNCHANGED <<kind, obj, exist, listed, editor, run, edits, runs>>

Editable == panel = "open" /\ MoreChanges /\ edits + 1 < MaxChanges

Edit(f, what) ==
    /\ f # form
    /\ edits' = edits + 1 /\ form' = f /\ touched' = touched \cup {what} /\ due' = TRUE
    /\ UNCHANGED <<kind, obj, exist, panel, listed, asked, editor, fetching, behind, run, loads, quiet,
                   mishaps, runs>>

EditAttribute ==
    /\ Editable
    /\ \E a \in Attributes[kind] :
         \E v \in {Blank, "new"} \cup (IF a = "connlimit" THEN {"bad"} ELSE {}) :
           Edit([form EXCEPT !.attr[a] = v], <<a>>)

EditPlace ==
    /\ Editable
    /\ \/ kind \in Movable /\ Edit([form EXCEPT !.newschema = "s2"], <<"newschema">>)
       \/ kind # "extension" /\ Edit([form EXCEPT !.newname = "n2"], <<"newname">>)

EditColumn ==
    /\ Editable /\ kind = "table"
    /\ \E c \in Columns :
      /\ form.row[c].name # Blank
      /\ \/ \E p \in Parts : \E v \in {"new"} \cup (IF p = "nullable" THEN {} ELSE {Blank}) :
              Edit([form EXCEPT !.row[c].part[p] = v], <<c, p>>)
         \/ \E n \in Columns \cup {"c9"} : Edit([form EXCEPT !.row[c].rename = n], <<c, "name">>)
         \/ Edit([form EXCEPT !.row[c].drop = TRUE], <<c, "name">>)

EditMembership ==
    /\ Editable /\ kind = "role"
    /\ \E d \in Sides, r \in listed :
         Edit([form EXCEPT !.role[d] = IF r \in @ THEN @ \ {r} ELSE @ \cup {r}], <<d, r>>)

EditExtra ==
    /\ Editable /\ kind = "table"
    /\ \E x \in Extras, v \in {"half", "whole"} :
         Edit([form EXCEPT !.extra[x] = v], <<x>>)

\* The requests of the form's fields share its hx-sync slot: each aborts the
\* one under way, the SQL asked for too.
Fetch(what) ==
    /\ asked' = Idle /\ fetching' = what /\ behind' = (behind \/ asked # Idle)
    /\ edits' = edits + 1
    /\ UNCHANGED <<kind, obj, exist, panel, listed, form, touched, editor, run, loads, quiet,
                   mishaps, runs>>

\* Another referenced table: its columns are fetched, and the form changed.
PickRefTable ==
    /\ Editable /\ kind = "table" /\ form.extra["foreign key"] # Blank
    /\ due' = TRUE /\ Fetch("columns")

\* None of them is selected when they come.
HandleDDLFKRefColumns ==
    /\ fetching = "columns" /\ fetching' = "nothing"
    /\ form' = [form EXCEPT !.extra["foreign key"] = "half"]
    /\ UNCHANGED <<kind, obj, exist, panel, listed, touched, due, asked, editor, behind, run, loads,
                   quiet, edits, mishaps, runs>>

\* The buttons of the rows of new columns change nothing until they are answered.
PressRow ==
    /\ Editable /\ kind = "table"
    /\ \E button \in {"add", "remove"} : Fetch(button)
    /\ UNCHANGED due

\* A row that is removed asks for the SQL again, one that is added does not.
HandleDDLColumnRow ==
    /\ fetching \in {"add", "remove"} /\ fetching' = "nothing"
    /\ \/ fetching = "add" /\ UNCHANGED <<form, due, mishaps>>
       \/ /\ fetching = "remove" /\ due' = TRUE
          /\ form' \in {form, [form EXCEPT !.extra["column"] = Blank]} /\ UNCHANGED mishaps
       \/ Mishap /\ UNCHANGED <<form, due>>
    /\ UNCHANGED <<kind, obj, exist, panel, listed, touched, asked, editor, behind, run, loads, quiet,
                   edits, runs>>

\* The SQL is asked for, in the place of whatever is under way.
SendPreview ==
    /\ panel = "open" /\ due /\ due' = FALSE
    /\ asked' = [left |-> <<>>, form |-> form, touched |-> touched]
    /\ fetching' = "nothing" /\ behind' = FALSE
    /\ UNCHANGED <<kind, obj, exist, panel, listed, form, touched, editor, run, loads, quiet,
                   edits, mishaps, runs>>

RenderPreview_KeepOnEmpty(shown) ==
    IF RunAlter(asked.form) \in {Error, <<>>} THEN shown ELSE asked

\* The SQL goes into the script tab, an empty one too; a complaint leaves
\* what is there.
RenderPreview(shown) == IF RunAlter(asked.form) = Error THEN shown ELSE asked

HandleDDLPreview ==
    /\ asked # Idle /\ asked' = Idle
    /\ editor' = RenderPreview(editor)
    /\ UNCHANGED <<kind, obj, exist, panel, listed, form, touched, due, fetching, behind, run, loads, quiet,
                   edits, mishaps, runs>>
-----------------------------------------------------------------------------
(* The script, and the other sessions.                                     *)

StartRun ==
    /\ run = Idle /\ editor # Idle /\ MoreChanges
    /\ RunAlter(editor.form) # <<>>
    /\ run' = [editor EXCEPT !.left = RunAlter(editor.form)] /\ runs' = runs + 1
    /\ UNCHANGED <<kind, obj, exist, panel, listed, form, touched, due, asked, editor, fetching, behind, loads,
                   quiet, edits, mishaps>>

\* Each statement is committed on its own.
RunStatement ==
    /\ run.left # <<>> /\ Accepts(obj, Head(run.left))
    /\ obj' = Apply(obj, Head(run.left))
    /\ run' = [run EXCEPT !.left = Tail(@)]
    /\ quiet' = IF run.form.load = quiet THEN quiet ELSE 0
    /\ UNCHANGED <<kind, exist, panel, listed, form, touched, due, asked, editor, fetching, behind, loads,
                   edits, mishaps, runs>>

\* The first statement that fails ends the script; the panel stays as it is.
StopRun ==
    /\ run.left # <<>>
    /\ \/ ~Accepts(obj, Head(run.left)) /\ UNCHANGED mishaps
       \/ Mishap
    /\ run' = Idle /\ quiet' = 0
    /\ UNCHANGED <<kind, obj, exist, panel, listed, form, touched, due, asked, editor, fetching, behind, loads,
                   edits, runs>>

\* After a script that succeeded the panel is loaded again.
FinishRun ==
    /\ run # Idle /\ run.left = <<>>
    /\ run' = Idle /\ panel' = "closed" /\ quiet' = 0
    /\ UNCHANGED <<kind, obj, exist, listed, form, touched, due, asked, editor, fetching, behind, loads,
                   edits, mishaps, runs>>

Theirs ==
    \/ UNCHANGED exist /\ \E a \in Attributes[kind] : obj' = [obj EXCEPT !.attr[a] = "theirs"]
    \/ UNCHANGED exist /\ \E c \in Columns, p \in Parts :
         obj.cols[c].name # Blank /\ obj' = [obj EXCEPT !.cols[c].part[p] = "theirs"]
    \/ UNCHANGED exist /\ \E c \in Columns :
         obj.cols[c].name # Blank /\ obj' = [obj EXCEPT !.cols[c] = NoColumn]
    \/ UNCHANGED exist /\ obj' = [obj EXCEPT !.name = "n9"]
    \/ kind = "role" /\ \E d \in Sides, r \in Roles :
         \/ exist' = exist \cup {r} /\ obj' = [obj EXCEPT !.role[d] = @ \cup {r}]
         \/ UNCHANGED exist /\ obj' = [obj EXCEPT !.role[d] = @ \ {r}]

OtherSession ==
    /\ Mishap
    /\ Theirs /\ obj' # obj /\ quiet' = 0
    /\ UNCHANGED <<kind, panel, listed, form, touched, due, asked, editor, fetching, behind, run, loads,
                   edits, runs>>

AlterInit ==
    /\ kind \in Kinds /\ exist = {CHOOSE r \in Roles : TRUE}
    /\ \E fine \in SUBSET (Coarse \cap Attributes[kind]) :
         obj = Object(kind, [a \in Attributes[kind] |-> IF a \in fine THEN "fine" ELSE "old"])
    /\ panel = "closed" /\ listed = {} /\ form = Nothing /\ touched = {} /\ due = FALSE
    /\ asked = Idle /\ editor = Idle /\ fetching = "nothing" /\ behind = FALSE /\ run = Idle
    /\ loads = 0 /\ quiet = 0 /\ edits = 0 /\ mishaps = 0 /\ runs = 0

AlterNext ==
    \/ DdlDropdowns \/ HandleDDLPanel
    \/ EditAttribute \/ EditPlace \/ EditColumn \/ EditMembership \/ EditExtra
    \/ PickRefTable \/ HandleDDLFKRefColumns \/ PressRow \/ HandleDDLColumnRow \/ SendPreview \/ HandleDDLPreview
    \/ StartRun \/ RunStatement \/ StopRun \/ FinishRun \/ OtherSession

AlterSpec == AlterInit /\ [][AlterNext]_alterVars
-----------------------------------------------------------------------------
(* When no SQL is due or asked for, the script tab shows that of the form, *)
(* or an older one if the form has an error or a request for a row aborted *)
(* the last one asked for.                                                 *)
EditorInStep ==
    panel = "open" /\ ~due /\ asked = Idle /\ ~behind /\ RunAlter(form) # Error =>
        editor # Idle /\ RunAlter(editor.form) = RunAlter(form)

\* The loaded column names still name the columns they were loaded for.
NamesHold(f) == \A c, d \in Columns : f.row[d].name # Blank /\ obj.cols[c].name = f.row[d].name => c = d

(* A script leaves alone what the user left alone, whatever others did     *)
(* since the form was loaded: the parts of the columns; the memberships,   *)
(* if the dropdown has all of them; and the fields the panel cannot show   *)
(* exactly, or that others changed, excepted, the attributes.              *)
UntouchedKept ==
    [][RunStatement =>
         /\ NamesHold(run.form) => \A c \in Columns, p \in Parts :
              obj'.cols[c].part[p] # obj.cols[c].part[p] => {<<c, p>>, <<c, "name">>} \cap run.touched # {}
         /\ \A d \in Sides : run.form.roleOrig[d] \subseteq run.form.listed =>
              \A r \in Roles : (r \in obj'.role[d]) # (r \in obj.role[d]) => <<d, r>> \in run.touched
         /\ run.form.load = quiet => \A a \in Attributes[kind] :
              obj'.attr[a] # obj.attr[a] => <<a>> \in run.touched \/ obj.attr[a] = "fine"]_alterVars

(* When a script nothing interfered with ends, the object is what the form *)
(* says.  It ends, but where the table is moved or renamed before its      *)
(* columns, or a column takes a name in use: only there the server refuses *)
(* a statement.                                                            *)
AsAsked ==
    LET f == run.form
        Meant(given, at) == IF given = Blank THEN at ELSE given
        Column(c) ==
            LET r == f.row[c]
            IN  IF r.drop \/ r.name = Blank THEN NoColumn
                ELSE [name |-> Meant(r.rename, r.name),
                      part |-> [p \in Parts |-> IF p = "default" THEN r.part[p]
                                                ELSE Meant(r.part[p], r.orig[p])]]
        Ended ==
            /\ obj.name = Meant(f.newname, f.at[2]) /\ obj.schema = Meant(f.newschema, f.at[1])
            /\ \A a \in Attributes[kind] : f.attr[a] # Blank => obj.attr[a] = f.attr[a]
            /\ \A c \in Columns : f.row[c].name # Blank => obj.cols[c] = Column(c)
            /\ \A d \in Sides, r \in Roles :
                 (r \in f.role[d]) # (r \in f.roleOrig[d]) => (r \in obj.role[d]) = (r \in f.role[d])
            /\ {x \in Extras : f.extra[x] = "whole"} \subseteq obj.added
        Clash ==
            \/ kind = "table" /\ {f.newname, f.newschema} # {Blank}
            \/ \E c, d \in Columns :
                 c # d /\ f.row[c].rename \in {f.row[d].name, f.row[d].rename} \ {Blank}
    IN  run # Idle /\ f.load = quiet =>
            IF run.left = <<>> THEN Ended ELSE Accepts(obj, Head(run.left)) \/ Clash

AlterTypeOK ==
    /\ kind \in Kinds /\ DOMAIN obj.attr = Attributes[kind] /\ obj.added \subseteq Extras
    /\ \A d \in Sides : obj.role[d] \subseteq exist
    /\ listed \subseteq exist /\ panel \in {"closed", "listed", "open"}
    /\ quiet \in 0 .. loads + 1 /\ run.form.load <= loads /\ editor.form.load <= loads
=============================================================================
