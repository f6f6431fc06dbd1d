------------------------------- MODULE Store -------------------------------
(***************************************************************************)
(* What the program keeps in SQLite, in one specification: the workspace,  *)
(* the query history and the accounts.  They share the file, and nothing   *)
(* else: a behaviour is one of any of the three, chosen at the start, so   *)
(* that the states to check are the sum and not the product of theirs.     *)
(***************************************************************************)
EXTENDS Workspace, History, Accounts

VARIABLE scene

vars == <<scene, workspaceVars, historyVars, accountsVars>>

Init ==
    /\ scene \in {"workspace", "history", "accounts"}
    /\ WorkspaceInit /\ HistoryInit
    /\ IF scene = "accounts" THEN AccountsInit
       ELSE AccountsInit /\ file.no = 0 /\ env = NoUser.creds

Next ==
    \/ scene = "workspace" /\ WorkspaceNext /\ UNCHANGED <<scene, historyVars, accountsVars>>
    \/ scene = "history" /\ HistoryNext /\ UNCHANGED <<scene, workspaceVars, accountsVars>>
    \/ scene = "accounts" /\ AccountsNext /\ UNCHANGED <<scene, workspaceVars, historyVars>>

Spec == Init /\ [][Next]_vars
=============================================================================
