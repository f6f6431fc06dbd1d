------------------------------- MODULE Forms -------------------------------
(***************************************************************************)
(* The panels that write SQL for the user to run, and the reading of that  *)
(* SQL, in one specification: the alter panel, the grants panel and its    *)
(* wizard, the create panels with the properties panel, and the splitter   *)
(* every script goes through.  A behaviour is one of any of the four,      *)
(* chosen at the start: they share no state, so that the states to check   *)
(* are the sum and not the product of theirs.                              *)
(***************************************************************************)
EXTENDS AlterForms, PrivForms, SplitScript, Definitions

VARIABLE scene

vars == <<scene, alterVars, privVars, splitVars, definitionVars>>

NothingGranted ==
    there = Objects /\ \A o \in Objects, g \in Grantees, p \in Looked : acl[o][g][p] = 0
PlainRule ==
    thing # NoThing /\ \A a \in Stored["rule"] : thing[a] = Default

\* A scene that is not played stays in one of its initial states.
Init ==
    /\ scene \in {"alter", "privileges", "script", "definition"}
    /\ AlterInit /\ (scene # "alter" => kind = "rule")
    /\ PrivInit /\ (scene # "privileges" => NothingGranted)
    /\ SplitInit(IF scene = "script" THEN Texts ELSE {<<>>})
    /\ DefinitionInit(IF scene = "definition" THEN DOMAIN Stored ELSE {"rule"})
    /\ scene # "definition" => PlainRule

Next ==
    \/ scene = "alter" /\ AlterNext /\ UNCHANGED <<scene, privVars, splitVars, definitionVars>>
    \/ scene = "privileges" /\ PrivNext /\ UNCHANGED <<scene, alterVars, splitVars, definitionVars>>
    \/ scene = "script" /\ SplitNext /\ UNCHANGED <<scene, alterVars, privVars, definitionVars>>
    \/ scene = "definition" /\ DefinitionNext /\ UNCHANGED <<scene, alterVars, privVars, splitVars>>

Spec == Init /\ [][Next]_vars

TypeOK == AlterTypeOK /\ PrivTypeOK /\ SplitTypeOK /\ DefinitionTypeOK
=============================================================================
