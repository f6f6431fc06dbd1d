---------------------------- MODULE Definitions ----------------------------
(***************************************************************************)
(* An object from its Create panel to the SQL tab of its properties panel: *)
(* the create builders of ddl.go, the statements they make run one by one, *)
(* the properties panel that reads the object in one or more queries, and  *)
(* the script builders of properties.go and script.go, whose script is     *)
(* meant to create the object again.  Other sessions alter or drop it      *)
(* between any two steps, and any read but the first may fail alone.       *)
(*                                                                         *)
(* The fields of an object are those a form sets or a panel names, and     *)
(* "options" is the rest that no panel names: storage parameters, settings,*)
(* security barriers, BYPASSRLS.  A field is Default, or Given in a form   *)
(* and then something else, or what others put there ("theirs"); the one   *)
(* of the columns is what matters of them to the script.                   *)
(***************************************************************************)
EXTENDS Naturals, SequencesExt

CONSTANTS MaxMeddling, \* bound: changes of other sessions and failures
          MaxSaid      \* bound: fields a form says, or leaves out

Unsaid  == ""
Default == "default"
Given   == "given"

\* No object, a form nobody filled; a read that is still to come, or failed.
NoThing == [is |-> "none"]
Unread  == [is |-> "unread"]
Failing == [is |-> "failed"]

Routine == {"owner", "args", "language", "security", "body", "comment"}
OfTypes == {"owner", "parts", "options", "comment"}
Types   == {"enum", "range", "composite"}
Creatable == {"database", "role", "tablespace", "schema", "table", "sequence", "view", "matview", "function",
              "procedure", "extension", "publication", "index", "trigger", "rule", "policy"}
Stored ==
    [database |-> {"owner", "encoding", "collate", "ctype", "tablespace", "connlimit", "allowconn", "options",
                   "comment"},
     role |-> {"login", "superuser", "createdb", "createrole", "inherit", "replication", "connlimit",
               "validuntil", "password", "memberships", "options", "comment"},
     tablespace |-> {"owner", "location", "options", "comment"}, schema |-> {"owner", "comment"},
     table |-> {"owner", "tablespace", "columns", "key", "unique", "check", "foreignkey", "exclusion",
                "partition", "options", "comment"},
     sequence |-> {"owner", "type", "start", "increment", "minvalue", "maxvalue", "cache", "cycle", "options",
                   "comment"},
     view |-> {"owner", "definition", "options", "comment"},
     matview |-> {"owner", "definition", "options", "comment"},
     function |-> Routine \cup {"returns", "volatility", "strict"}, procedure |-> Routine,
     extension |-> {"schema", "version", "comment"}, publication |-> {"owner", "tables", "publish", "comment"},
     index |-> {"columns", "method", "unique", "include", "storage", "where", "tablespace", "comment"},
     trigger |-> {"timing", "events", "function", "constraint", "deferrable", "level", "condition",
                  "enabled", "comment"},
     rule |-> {"event", "action", "do", "where", "enabled"}, policy |-> {"permissive", "for", "roles", "using", "check"},
     enum |-> OfTypes, range |-> OfTypes, composite |-> OfTypes, constraint |-> {"definition", "comment"},
     domain |-> {"owner", "base", "collation", "default", "notnull", "checks", "comment"},
     cast |-> {"context", "method", "function", "comment"},
     language |-> {"owner", "trusted", "handler", "inline", "validator", "comment"},
     wrapper |-> {"owner", "handler", "validator", "options", "comment"},
     eventtrigger |-> {"owner", "event", "tags", "function", "enabled", "comment"}]

\* Columns of a table: of a plain type; with a length, a collation of the
\* system or a serial default; of type numeric(10,2) or a domain; of an array
\* or enumerated type; with a collation of a schema; generated or an identity;
\* named by a reserved word.
Shapes == {"plain", "sized", "precise", "array", "collated", "generated", "reserved"}
Locale == {"encoding", "collate", "ctype"}
VARIABLES sort,    \* of the object
          entry,   \* the Create form, or NoThing: the object was there
          pending, \* the statements of its script that are left
          thing,   \* the object in the catalog, or NoThing
          stopped, \* the script was refused or failed
          seen,    \* section -> what the panel read, Failing or Unread
          had,     \* field -> values it had since the panel was opened
          meddled
definitionVars == <<sort, entry, pending, thing, stopped, seen, had, meddled>>

Meddle == meddled < MaxMeddling /\ meddled' = meddled + 1
-----------------------------------------------------------------------------
(* The builders of the Create panel.  A statement sets the fields of its   *)
(* domain; the server refuses options that are joined with commas.         *)

Invalid == <<[op |-> "error"]>>
Said(e, S) == [a \in {b \in S : e[b] # Unsaid} |-> e[a]]
Stmt(op, set) == [op |-> op, set |-> set, refused |-> FALSE, named |-> "form"]
Creates(e, S) == <<Stmt("create", Said(e, S))>>
Commas(e, S)  == [Stmt("create", Said(e, S)) EXCEPT !.refused = Cardinality(DOMAIN Said(e, S)) > 1]
OwnerAfter(e) == IF e["owner"] = Unsaid THEN <<>> ELSE <<Stmt("alter", [owner |-> e["owner"]])>>
Needs(e, S, stmts) == IF \E a \in S : e[a] = Unsaid THEN Invalid ELSE stmts

\* A locale of its own needs another template than template1, and the two a
\* comma.
BuildCreateDatabase(e) ==
    LET s == Commas(e, {"owner", "encoding", "template", "collate", "ctype"})
    IN  <<[s EXCEPT !.refused = @ \/ DOMAIN s.set \cap Locale # {}]>>
\* A box that is not ticked is an option, too.
BuildCreateRole(e)       == <<[Stmt("create", e) EXCEPT !.refused = TRUE]>>
BuildCreateTablespace(e) == Needs(e, {"location"}, Creates(e, {"owner", "location"}))
BuildCreateSchema(e)     == Creates(e, {"owner"})
\* The owner the panel offers is not used.
BuildCreateSequence(e) == Creates(e, {"increment", "start", "minvalue", "maxvalue", "cache", "cycle"})
\* A whole statement in the definition runs as it is, under its own name.
FromDefinition(e) ==
    Needs(e, {"definition"},
          IF e["definition"] = "whole"
          THEN <<[Stmt("create", [definition |-> Given]) EXCEPT !.named = "definition"]>>
          ELSE Creates(e, {"definition"}))
BuildCreateView(e)      == FromDefinition(e)
BuildCreateMatView(e)   == FromDefinition(e)
BuildCreateFunction(e)  ==
    Needs(e, {"body"}, Creates(e, {"args", "returns", "language", "volatility", "strict", "security", "body"}))
BuildCreateProcedure(e) == Needs(e, {"body"}, Creates(e, {"args", "language", "security", "body"}))
BuildCreateExtension(e) == Creates([e EXCEPT !["schema"] = IF @ = Unsaid THEN "public" ELSE @], {"schema"})
BuildCreatePublication(e) == Creates(e, {"tables"}) \o OwnerAfter(e)
BuildCreateIndex(e)     ==
    Needs(e, {"columns"}, Creates(e, {"columns", "method", "unique", "include", "storage", "where"}))
BuildCreateTrigger(e)   ==
    LET all == {"timing", "events", "function", "constraint", "level", "condition"}
    IN  IF e["constraint"] # Unsaid /\ Unsaid \in {e["timing"], e["level"]} THEN Invalid
        ELSE Needs(e, {"events", "function"},
                   Creates(e, IF e["constraint"] = Unsaid THEN all ELSE all \cup {"deferrable"}))
BuildCreateRule(e)      == Needs(e, {"event", "action"}, Creates(e, {"event", "action", "do", "where"}))
BuildCreatePolicy(e)    == Creates(e, {"permissive", "for", "roles", "using", "check"})

BuildCreateTable_OwnerInline(e) ==
    IF e["columns"] = "half" \/ "half" \in {e["foreignkey"], e["partition"]} THEN Invalid
    ELSE Needs(e, {"columns"}, Creates(e, {"columns", "key", "unique", "check", "foreignkey", "exclusion", "partition"}))

\* A column without a name or a type, a generated one with a default, half
\* a foreign key, a partitioning without its columns.
BuildCreateTable(e) ==
    IF e["columns"] = "half" \/ "half" \in {e["foreignkey"], e["partition"]} THEN Invalid
    ELSE Needs(e, {"columns"},
               Creates(e, {"columns", "key", "unique", "check", "foreignkey", "exclusion", "partition"}) \o OwnerAfter(e))

RenderCreateDDL(k, e) ==
    CASE k = "database" -> BuildCreateDatabase(e)     [] k = "role" -> BuildCreateRole(e)
      [] k = "tablespace" -> BuildCreateTablespace(e) [] k = "schema" -> BuildCreateSchema(e)
      [] k = "table" -> BuildCreateTable(e)           [] k = "sequence" -> BuildCreateSequence(e)
      [] k = "view" -> BuildCreateView(e)             [] k = "matview" -> BuildCreateMatView(e)
      [] k = "function" -> BuildCreateFunction(e)     [] k = "procedure" -> BuildCreateProcedure(e)
      [] k = "extension" -> BuildCreateExtension(e)   [] k = "publication" -> BuildCreatePublication(e)
      [] k = "index" -> BuildCreateIndex(e)           [] k = "trigger" -> BuildCreateTrigger(e)
      [] k = "rule" -> BuildCreateRule(e)             [] k = "policy" -> BuildCreatePolicy(e)

\* The server runs the create statement s of a k where there is none.
Made(k, s) == [a \in Stored[k] |-> IF a \in DOMAIN s.set THEN s.set[a] ELSE Default]
Altered(o, s) == [a \in DOMAIN o |-> IF a \in DOMAIN s.set THEN s.set[a] ELSE o[a]]
-----------------------------------------------------------------------------
(* The queries of the properties panels: what of Stored each reads.        *)

GetTableGeneral         == {"owner", "tablespace", "comment"}
GetTableColumnsDetailed == {"columns"}
GetTableConstraints     == {"key", "unique", "check", "foreignkey", "exclusion"}
GetPrimaryKeyColumns    == {"key"}
GetTableInfo            == {"owner", "tablespace"}
GetViewGeneral          == {"owner", "comment"}
GetViewDefinition       == {"definition"}
GetMatViewGeneral       == {"owner", "comment"}
GetMatViewDefinition    == {"definition"}
GetSequenceGeneral      == Stored["sequence"] \ {"options"}
GetFunctionGeneral      == {"owner", "args", "language", "security", "comment"}
GetFunctionDefinition   == (Stored["function"] \cup Stored["procedure"]) \ {"owner", "comment"}
GetIndexGeneral         == Stored["index"]
GetTriggerGeneral       == Stored["trigger"]
GetSchemaGeneral        == {"owner", "comment"}
GetConstraintDetail     == {"definition"}
GetPolicyGeneral        == Stored["policy"]
GetRuleDefinition       == Stored["rule"] \ {"enabled"}
GetTypeGeneral          == {"owner", "comment"}
ListEnumLabels          == {"parts"}
GetRangeSubtype         == {"parts"}
ListCompositeAttributes == {"parts"}
GetDomainGeneral        == {"base", "default", "notnull", "owner", "comment"}
ListDomainConstraints   == {"checks"}
GetCastGeneral          == Stored["cast"]
GetEventTriggerGeneral  == Stored["eventtrigger"]
GetForeignDataWrapperGeneral == Stored["wrapper"]
GetLanguageGeneral      == Stored["language"]

(* The panels: their queries in order, those that bear on the script.      *)
HandleTableProperties == <<<<"general", GetTableGeneral>>, <<"columns", GetTableColumnsDetailed>>,
                           <<"constraints", GetTableConstraints>>, <<"key", GetPrimaryKeyColumns>>,
                           <<"info", GetTableInfo>>>>
HandleViewProperties == <<<<"general", GetViewGeneral>>, <<"definition", GetViewDefinition>>>>
HandleMatViewProperties == <<<<"general", GetMatViewGeneral>>, <<"definition", GetMatViewDefinition>>>>
HandleSequenceProperties == <<<<"general", GetSequenceGeneral>>>>
HandleFunctionProperties == <<<<"general", GetFunctionGeneral>>, <<"definition", GetFunctionDefinition>>>>
HandleProcedureProperties == <<<<"general", GetFunctionGeneral>>, <<"definition", GetFunctionDefinition>>>>
HandleIndexProperties == <<<<"general", GetIndexGeneral>>>>
HandleTriggerProperties == <<<<"general", GetTriggerGeneral>>>>
HandleSchemaProperties == <<<<"general", GetSchemaGeneral>>>>
HandleDatabaseProperties == <<<<"general", Stored["database"] \ {"options"}>>>>
HandleRoleProperties == <<<<"general", Stored["role"] \ {"password", "memberships", "options"}>>>>
HandleTablespaceProperties == <<<<"general", Stored["tablespace"] \ {"options"}>>>>
HandleExtensionProperties == <<<<"general", Stored["extension"]>>>>
HandlePublicationProperties == <<<<"general", Stored["publication"]>>>>
HandleConstraintProperties == <<<<"general", GetConstraintDetail>>>>
HandlePolicyProperties == <<<<"general", GetPolicyGeneral>>>>
HandleRuleProperties == <<<<"general", GetRuleDefinition>>>>
HandleTypeProperties(k) ==
    <<<<"general", GetTypeGeneral>>,
      <<"parts", CASE k = "enum" -> ListEnumLabels [] k = "range" -> GetRangeSubtype
                   [] k = "composite" -> ListCompositeAttributes>>>>
HandleDomainProperties == <<<<"general", GetDomainGeneral>>, <<"checks", ListDomainConstraints>>>>
HandleCastProperties == <<<<"general", GetCastGeneral>>>>
HandleEventTriggerProperties == <<<<"general", GetEventTriggerGeneral>>>>
HandleForeignDataWrapperProperties == <<<<"general", GetForeignDataWrapperGeneral>>>>
HandleLanguageProperties == <<<<"general", GetLanguageGeneral>>>>

Queries(k) ==
    CASE k = "table" -> HandleTableProperties           [] k = "view" -> HandleViewProperties
      [] k = "matview" -> HandleMatViewProperties       [] k = "sequence" -> HandleSequenceProperties
      [] k = "function" -> HandleFunctionProperties     [] k = "procedure" -> HandleProcedureProperties
      [] k = "index" -> HandleIndexProperties           [] k = "trigger" -> HandleTriggerProperties
      [] k = "schema" -> HandleSchemaProperties         [] k = "database" -> HandleDatabaseProperties
      [] k = "role" -> HandleRoleProperties             [] k = "tablespace" -> HandleTablespaceProperties
      [] k = "extension" -> HandleExtensionProperties   [] k = "publication" -> HandlePublicationProperties
      [] k = "constraint" -> HandleConstraintProperties [] k = "policy" -> HandlePolicyProperties
      [] k = "rule" -> HandleRuleProperties             [] k = "domain" -> HandleDomainProperties
      [] k = "cast" -> HandleCastProperties             [] k = "eventtrigger" -> HandleEventTriggerProperties
      [] k = "wrapper" -> HandleForeignDataWrapperProperties [] k = "language" -> HandleLanguageProperties
      [] k \in Types -> HandleTypeProperties(k)

Reads(k, s) == Stored[k] \cap UNION {q[2] : q \in {r \in Range(Queries(k)) : r[1] = s}}

\* An expiry is read to the minute.
AsRead(v) == IF v = "seconds" THEN "minutes" ELSE v

\* Of an object that is gone a list is empty, and a row fails.
Lists == {"columns", "constraints", "key", "checks", "parts"}
Row(k, s) ==
    IF thing # NoThing THEN [a \in Reads(k, s) |-> AsRead(thing[a])]
    ELSE IF s \in Lists /\ k # "range"
         THEN [a \in Reads(k, s) |-> IF a \in {"columns", "parts"} THEN "none" ELSE Default]
         ELSE Failing
-----------------------------------------------------------------------------
(* The script of the SQL tab, made from the rows g that were read.         *)

Only(g, S) == [a \in S |-> g[a]]
CommentOn(g) == IF g["comment"] = Default THEN <<>> ELSE <<Stmt("alter", [comment |-> g["comment"]])>>
Script(g, S) == <<Stmt("create", Only(g, S))>>

BuildCreateSequenceScript_NoCycle(g) ==
    Script(g, {"type", "start", "increment", "minvalue", "maxvalue", "cache"}) \o CommentOn(g)

BuildCreateSequenceScript(g) ==
    Script(g, {"type", "start", "increment", "minvalue", "maxvalue", "cache", "cycle"}) \o CommentOn(g)

BuildCreateSchemaScript(g)     == Script(g, {"owner"}) \o CommentOn(g)
\* A locale without a template must be that of template1.
BuildCreateDatabaseScript(g)   ==
    Script([a \in DOMAIN g |-> IF a \in Locale /\ g[a] # Default THEN "refused" ELSE g[a]],
           {"owner", "encoding", "collate", "ctype", "tablespace", "connlimit"}) \o CommentOn(g)
BuildCreateRoleScript(g)       ==
    Script(g, {"login", "superuser", "createdb", "createrole", "inherit", "replication", "connlimit",
               "validuntil"}) \o CommentOn(g)
BuildCreateTablespaceScript(g) == Script(g, {"owner", "location"}) \o CommentOn(g)
BuildCreateExtensionScript(g)  == Script(g, {"schema", "version"}) \o CommentOn(g)
BuildCreatePublicationScript(g) ==
    Script([g EXCEPT !["tables"] = IF @ = "all" THEN @ ELSE Default], {"tables", "publish"})
    \o <<Stmt("alter", [owner |-> g["owner"]])>> \o CommentOn(g)
BuildCreatePolicyScript(g)     == Script(g, Stored["policy"])
AddConstraint(g)               == Script(g, {"definition"})
BuildCreateEventTriggerScript(g) == Script(g, {"event", "tags", "function"})
BuildCreateLanguageScript(g)   == Script(g, {"trusted", "handler", "inline", "validator"})
\* The function is named without its arguments, an option without quotes.
BuildCreateCastScript(g) ==
    Script([g EXCEPT !["function"] = IF @ = "overloaded" THEN "refused" ELSE @], {"context", "method", "function"})
BuildCreateForeignDataWrapperScript(g) ==
    Script([g EXCEPT !["options"] = IF @ = Default THEN @ ELSE "refused"], {"handler", "validator", "options"})
\* Labels, attributes and checks that could not be read are written as
\* none; a range needs its subtype.
CreateType(k, parts) ==
    Script(IF parts # Failing THEN parts ELSE [parts |-> IF k = "range" THEN "refused" ELSE "none"], {"parts"})
CreateDomain(g, checks) ==
    LET known == IF checks = Failing THEN Default ELSE checks["checks"]
    IN  Script([a \in DOMAIN g \cup {"checks"} |-> IF a = "checks" THEN known ELSE g[a]],
               {"base", "default", "notnull", "checks"})
\* The server writes these itself.
ServerDefinition(g) == Script(g, DOMAIN g \ {"owner", "comment", "enabled", "tablespace"})

\* The type is the one of information_schema: without precision, and no
\* type at all for arrays and enumerated types.  Only capitals and odd
\* characters make a name quoted, and every collation is said to be the
\* system's.
ColumnLine(c) ==
    CASE c \in {"array", "collated", "reserved"} -> "refused"
      [] c = "precise"                           -> "imprecise"
      [] c = "generated"                         -> "plain"
      [] OTHER                                   -> c

BuildCreateTableScript(cols, key, info) ==
    LET known == info # Failing
        none  == IF key["key"] = Default THEN "none" ELSE "refused" \* a key of no columns
    IN  <<Stmt("create", [columns |-> IF cols = Failing THEN none ELSE ColumnLine(cols["columns"]),
                          key |-> key["key"],
                          tablespace |-> IF known THEN info["tablespace"] ELSE Default])>>
        \o IF known THEN <<Stmt("alter", [owner |-> info["owner"]])>> ELSE <<>>

\* View and materialized view: the definition, no columns and no owner.
BuildCreateViewScript(d)    == Script(d, {"definition"})
BuildCreateMatViewScript(d) == Script(d, {"definition"})

SqlTab(k) ==
    LET g == seen["general"]
        d == seen["definition"]
    IN  CASE k = "table" -> IF seen["key"] = Failing THEN <<>>
                            ELSE BuildCreateTableScript(seen["columns"], seen["key"], seen["info"])
          [] k \in {"view", "matview", "function", "procedure"} ->
               IF d = Failing THEN <<>>
               ELSE CASE k = "view"    -> BuildCreateViewScript(d)
                      [] k = "matview" -> BuildCreateMatViewScript(d)
                      [] OTHER         -> ServerDefinition(d)
          [] k \in {"index", "trigger", "rule"} -> ServerDefinition(g)
          [] k = "sequence" -> BuildCreateSequenceScript(g) [] k = "schema" -> BuildCreateSchemaScript(g)
          [] k = "database" -> BuildCreateDatabaseScript(g) [] k = "role" -> BuildCreateRoleScript(g)
          [] k = "tablespace" -> BuildCreateTablespaceScript(g)
          [] k = "extension" -> BuildCreateExtensionScript(g)
          [] k = "publication" -> BuildCreatePublicationScript(g) [] k = "policy" -> BuildCreatePolicyScript(g)
          [] k = "constraint" -> AddConstraint(g)           [] k = "cast" -> BuildCreateCastScript(g)
          [] k = "language" -> BuildCreateLanguageScript(g)
          [] k = "eventtrigger" -> BuildCreateEventTriggerScript(g)
          [] k = "wrapper" -> BuildCreateForeignDataWrapperScript(g)
          [] k \in Types -> CreateType(k, seen["parts"])
          [] k = "domain" -> CreateDomain(g, seen["checks"])

\* The object script s makes where there is none: a field is what the last
\* statement says that says it.
Makes(k, s) ==
    [a \in Stored[k] |->
       LET says == {i \in DOMAIN s : a \in DOMAIN s[i].set}
       IN  IF says = {} THEN Default ELSE s[Max(says)].set[a]]

\* The object the SQL tab's script makes, or NoThing.
Rebuilt(k) ==
    LET s == SqlTab(k)
    IN  IF s = <<>> \/ "refused" \in {s[1].set[a] : a \in DOMAIN s[1].set} THEN NoThing ELSE Makes(k, s)
-----------------------------------------------------------------------------
NothingRead == [s \in Lists \cup {"general", "info", "definition"} |-> Unread]
PanelOpen == seen["general"] # Unread
NextSection == LET left == {i \in DOMAIN Queries(sort) : seen[Queries(sort)[i][1]] = Unread}
               IN  IF left = {} THEN "none" ELSE Queries(sort)[Min(left)][1]

\* The statements of the Create script; the second changes what the first
\* made, or nothing of the kind.
RunCreateStatement ==
    /\ pending # <<>> /\ ~Head(pending).refused
    /\ IF Head(pending).op = "create"
       THEN /\ thing = NoThing
            /\ thing' = IF Head(pending).named = "form" THEN Made(sort, Head(pending)) ELSE NoThing
       ELSE thing # NoThing /\ thing' = Altered(thing, Head(pending))
    /\ pending' = Tail(pending)
    /\ UNCHANGED <<sort, entry, stopped, seen, had, meddled>>

StopCreate ==
    /\ pending # <<>>
    /\ \/ Head(pending).refused /\ UNCHANGED meddled
       \/ Head(pending).op = "alter" /\ thing = NoThing /\ UNCHANGED meddled
       \/ Meddle
    /\ pending' = <<>> /\ stopped' = TRUE
    /\ UNCHANGED <<sort, entry, thing, seen, had>>

OpenProperties_Anyway ==
    /\ pending = <<>> /\ ~PanelOpen
    /\ seen' = [seen EXCEPT !["general"] = Row(sort, "general")]
    /\ had' = [a \in Stored[sort] |-> IF thing = NoThing THEN {} ELSE {thing[a]}]
    /\ UNCHANGED <<sort, entry, pending, thing, stopped, meddled>>

\* The first read decides whether there is a panel at all.
OpenProperties ==
    /\ pending = <<>> /\ ~PanelOpen /\ thing # NoThing
    /\ seen' = [seen EXCEPT !["general"] = Row(sort, "general")]
    /\ had' = [a \in Stored[sort] |-> {thing[a]}]
    /\ UNCHANGED <<sort, entry, pending, thing, stopped, meddled>>

ReadSection ==
    /\ PanelOpen /\ NextSection # "none"
    /\ \/ seen' = [seen EXCEPT ![NextSection] = Row(sort, NextSection)] /\ UNCHANGED meddled
       \/ seen' = [seen EXCEPT ![NextSection] = Failing] /\ Meddle
    /\ UNCHANGED <<sort, entry, pending, thing, stopped, had>>

Meddlers ==
    /\ Meddle /\ thing # NoThing /\ (PanelOpen => NextSection # "none")
    /\ \/ thing' = NoThing /\ UNCHANGED had
       \/ \E a \in Stored[sort] :
            LET v == IF a = "columns" /\ sort = "table" THEN "plain" ELSE "theirs"
            IN  /\ thing' = [thing EXCEPT ![a] = v] /\ thing' # thing
                /\ had' = IF PanelOpen THEN [had EXCEPT ![a] = @ \cup {v}] ELSE had
    /\ UNCHANGED <<sort, entry, pending, stopped, seen>>

\* Given at the fields of one of the sets, otherwise empty, and one of the
\* special values at a single field.
Filled(fields, empty, sets, at, special) ==
    {[a \in fields |-> IF a = at THEN v ELSE IF a \in said THEN Given ELSE empty] :
        said \in sets, v \in special}

\* The forms: few fields said or few left out, some by half.
Forms(k) ==
    LET fields == Stored[k] \ {"comment", "options", "tablespace", "version", "publish", "enabled", "type", "allowconn",
                                IF k \in {"function", "procedure"} THEN "owner" ELSE "comment",
                                IF k = "database" THEN "connlimit" ELSE "comment"}
        sets   == {S \in SUBSET fields : MaxSaid >= Min({Cardinality(S), Cardinality(fields \ S)})}
        Of(at, special) == Filled(fields, Unsaid, sets, at, {Unsaid} \cup special)
    IN  CASE k = "table" -> UNION {Of("columns", Shapes \cup {"half"}),
                                   {[f EXCEPT !["columns"] = "plain"] : f \in Of("foreignkey", {"half"})}}
          [] k \in {"view", "matview"} -> Of("definition", {Given, "whole"})
          [] k = "publication" -> Of("tables", {Given, "all"})
          [] k = "database" -> Filled(fields \cup {"template"}, Unsaid, sets, "template", {Unsaid, Given})
          [] OTHER -> LET any == CHOOSE a \in fields : TRUE IN Of(any, {Given})

\* Objects that were there: all by default but for one field, or none.
Catalog(k) ==
    LET sets == {{}} \cup {{a} : a \in Stored[k]} \cup {Stored[k]}
        Of(at, special) == Filled(Stored[k], Default, sets, at, {Default, Given} \cup special)
    IN  CASE k = "table"       -> Of("columns", Shapes)
          [] k = "role"        -> Of("validuntil", {"seconds"})
          [] k = "publication" -> Of("tables", {"all"})
          [] k = "cast"        -> Of("function", {"overloaded"})
          [] OTHER             -> LET any == CHOOSE a \in Stored[k] : TRUE IN Of(any, {})

DefinitionInit(sorts) ==
    /\ sort \in sorts
    /\ \/ /\ sort \in Creatable /\ entry \in Forms(sort) /\ RenderCreateDDL(sort, entry) # Invalid
          /\ pending = RenderCreateDDL(sort, entry) /\ thing = NoThing
       \/ /\ entry = NoThing /\ pending = <<>>
          /\ thing \in Catalog(sort)
    /\ stopped = FALSE /\ seen = NothingRead /\ had = [a \in Stored[sort] |-> {}] /\ meddled = 0

DefinitionNext == RunCreateStatement \/ StopCreate \/ OpenProperties \/ ReadSection \/ Meddlers

DefinitionSpec == DefinitionInit(DOMAIN Stored) /\ [][DefinitionNext]_definitionVars
-----------------------------------------------------------------------------
\* What the form says and the builder does not use.
Unheeded(a) == \/ a = "owner" /\ sort \in {"sequence", "view", "matview"}
               \/ a = "deferrable" /\ entry["constraint"] = Unsaid

Meant(a) ==
    IF a \in DOMAIN entry /\ entry[a] # Unsaid /\ ~Unheeded(a) THEN entry[a]
    ELSE IF sort = "extension" /\ a = "schema" THEN "public" ELSE Default

(* The object a Create panel makes has what the form says and the defaults *)
(* for the rest; after a script that stopped half way it lacks its owner   *)
(* and nothing else.                                                       *)
CreatedAsSaid ==
    (entry # NoThing /\ thing # NoThing /\ pending = <<>> /\ meddled = (IF stopped THEN 1 ELSE 0)) =>
      \A a \in Stored[sort] : \/ thing[a] = (IF a = "definition" THEN Given ELSE Meant(a))
                              \/ stopped /\ a = "owner" /\ thing[a] = Default

\* What no script of the SQL tab says.
Omitted ==
    CASE sort = "table" -> {"unique", "check", "foreignkey", "exclusion", "partition", "options", "comment"}
      [] sort \in {"view", "matview"} -> {"owner", "options", "comment"}
      [] sort \in {"function", "procedure"} -> {"owner", "comment"}
      [] sort = "index" -> {"tablespace", "comment"} [] sort = "trigger" -> {"enabled", "comment"}
      [] sort = "sequence" -> {"owner", "options"}   [] sort = "database" -> {"allowconn", "options"}
      [] sort = "role" -> {"password", "memberships", "options"} [] sort = "tablespace" -> {"options"}
      [] sort \in Types -> {"owner", "options", "comment"}       [] sort = "rule" -> {"enabled"}
      [] sort = "domain" -> {"owner", "collation", "comment"} [] sort = "eventtrigger" -> {"owner", "enabled", "comment"}
      [] sort \in {"language", "wrapper"} -> {"owner", "comment"} [] sort \in {"cast", "constraint"} -> {"comment"}
      [] sort = "publication" -> IF "all" \in had["tables"] THEN {} ELSE {"tables"}
      [] OTHER -> {}

(* Where the server runs the script of the SQL tab, it makes an object     *)
(* every field of which is one the object had while the panel was read,    *)
(* whatever others changed then; but for what the script omits, columns    *)
(* that lose their precision or are no longer generated, and what could    *)
(* not be read: that is the default, never something the object was not.   *)
(* A script of what is modelled is missing, or refused, only for a read    *)
(* that failed, the type, the collation or the name of a column, a locale  *)
(* that is not template1's, an overloaded cast function and the options of *)
(* a wrapper.                                                              *)
SqlRebuilds ==
    LET o == Rebuilt(sort)
        Unknown(a) == /\ \E s \in DOMAIN seen : seen[s] = Failing /\ a \in Reads(sort, s)
                      /\ o[a] \in {Default, "none"}
        Lossy(a)   == /\ a = "columns" /\ sort = "table"
                      /\ \/ o[a] = "imprecise" /\ "precise" \in had[a]
                         \/ o[a] = "plain" /\ "generated" \in had[a]
    IN  (PanelOpen /\ NextSection = "none" /\ thing # NoThing) =>
          IF o = NoThing
          THEN \/ \E s \in {"key", "definition"} : seen[s] = Failing
               \/ sort = "range" /\ seen["parts"] = Failing
               \/ sort = "table" /\ seen["columns"] = Failing
               \/ sort = "table" /\ had["columns"] \cap {"array", "collated", "reserved"} # {}
               \/ sort = "database" /\ \E a \in Locale : had[a] # {Default}
               \/ sort = "cast" /\ "overloaded" \in had["function"]
               \/ sort = "wrapper" /\ had["options"] # {Default}
          ELSE \A a \in Stored[sort] \ Omitted :
                 o[a] \in {AsRead(v) : v \in had[a]} \/ Unknown(a) \/ Lossy(a)

DefinitionTypeOK ==
    /\ sort \in DOMAIN Stored
    /\ thing # NoThing => DOMAIN thing = Stored[sort]
    /\ stopped => pending = <<>>
    /\ PanelOpen => (seen["general"] # Failing /\ \A a \in Stored[sort] : had[a] # {})
=============================================================================
