------------------------------ MODULE Accounts ------------------------------
(***************************************************************************)
(* What main opens before it serves, and the rows it serves from: the      *)
(* SQLite file, its migration and seed (internal/db/db.go), the session    *)
(* token and the cookies (auth.go), and the registration of servers        *)
(* (handleAddServer in server_manager.go).                                 *)
(*                                                                         *)
(* The process may end between any two statements and is started again;    *)
(* while it is down the file may be deleted and the configured credentials *)
(* may change.  Tokens are random: a new one was never used.               *)
(*                                                                         *)
(* An operator Name_Slip is Name with the slip a change of the code could  *)
(* bring; each property is checked to be violated by one of them.          *)
(***************************************************************************)
EXTENDS Naturals, FiniteSets, Sequences

CONSTANTS
    Creds,      \* configured e-mail and password
    Logins,     \* POST /login requests that may be under way
    Servers,    \* servers a user registers (name, host, port)
    MaxTokens,  \* bound: tokens ever made
    MaxFiles    \* bound: SQLite files ever made

ASSUME AccountsAssumption == Creds # {} /\ MaxTokens \in Nat /\ MaxFiles \in Nat \ {0}

\* The changes of migrate in their order; all but one add a column.
Migrations == <<"tab_id", "rows_affected", "masterpass", "session_token",
                "file_path", "scratch_text", "disconnected">>
Dropped == "masterpass"
Columns == {Migrations[i] : i \in 1..Len(Migrations)}
Current == Columns \ {Dropped}

\* The steps of Open after the migrations.
User  == Len(Migrations) + 1
Token == User + 1
Group == User + 2
Serving == User + 3
Down  == 0

VARIABLES
    up,         \* Down, the next step of Open, or Serving
    file,       \* the SQLite file: its number (0: none) and its columns
    user,       \* the row of the default user
    group,      \* the default server group exists
    env,        \* the configured credentials
    made,       \* tokens made so far
    cookies,    \* the cookies handed out: token and file number
    login,      \* logins under way
    known,      \* server -> its row: "none" | "nopass" | "pass"
    memory,     \* servers whose configuration is in serverConfigs
    adding,     \* server -> where its registration is
    forgotten   \* servers whose password was lost with the process (history)

serverVars   == <<known, memory, adding, forgotten>>
accountsVars == <<up, file, user, group, env, made, cookies, login, known, memory, adding, forgotten>>
-----------------------------------------------------------------------------
NoUser == [creds |-> CHOOSE c \in Creds : TRUE, here |-> FALSE, token |-> 0]

AccountsTypeOK ==
    /\ up \in Down..Serving
    /\ file \in [no: 0..MaxFiles, columns: SUBSET Columns]
    /\ user \in [creds: Creds, here: BOOLEAN, token: 0..MaxTokens]
    /\ group \in BOOLEAN /\ env \in Creds
    /\ made \in 0..MaxTokens
    /\ cookies \in SUBSET [token: 1..MaxTokens, file: 1..MaxFiles]
    /\ login \in [Logins -> BOOLEAN]
    /\ known \in [Servers -> {"none", "nopass", "pass"}]
    /\ memory \in SUBSET Servers /\ forgotten \in SUBSET Servers
    /\ adding \in [Servers -> {"idle", "row", "password"}]

\* No file, or one an earlier version left.
AccountsInit ==
    /\ \/ file = [no |-> 0, columns |-> {}] /\ user = NoUser
       \/ \E cs \in SUBSET Columns :
            /\ file = [no |-> 1, columns |-> cs]
            /\ user = [creds |-> NoUser.creds, here |-> TRUE, token |-> 0]
    /\ group = user.here
    /\ up = Down /\ env \in Creds /\ made = 0
    /\ cookies = {} /\ login = [l \in Logins |-> FALSE]
    /\ known = [s \in Servers |-> "none"] /\ memory = {}
    /\ adding = [s \in Servers |-> "idle"] /\ forgotten = {}
-----------------------------------------------------------------------------
(* Open: the schema, migrate, seedDefaults *)

\* CREATE TABLE IF NOT EXISTS leaves the tables of an old file as they are.
Schema ==
    /\ up = Down
    /\ up' = 1
    /\ \/ file.no > 0 /\ UNCHANGED file
       \/ /\ file.no = 0
          /\ \E n \in 1..MaxFiles : /\ \A c \in cookies : n > c.file
                                    /\ file' = [no |-> n, columns |-> Current]
    /\ UNCHANGED <<user, group, env, made, cookies, login, serverVars>>

Applied_Adds(i) == [file EXCEPT !.columns = @ \cup {Migrations[i]}]

Applied(i) == IF Migrations[i] = Dropped THEN [file EXCEPT !.columns = @ \ {Dropped}]
              ELSE [file EXCEPT !.columns = @ \cup {Migrations[i]}]

\* Each change is made if it is not found made already.
Migrate ==
    /\ up \in 1..Len(Migrations)
    /\ file' = Applied(up)
    /\ up' = up + 1
    /\ UNCHANGED <<user, group, env, made, cookies, login, serverVars>>

SeedUser ==
    /\ up = User
    /\ user' = [creds |-> env, here |-> TRUE, token |-> user.token]
    /\ up' = Token
    /\ UNCHANGED <<file, group, env, made, cookies, login, serverVars>>

SeedToken_Always ==
    /\ up = Token /\ made < MaxTokens
    /\ made' = made + 1
    /\ user' = [user EXCEPT !.token = made']
    /\ up' = Group
    /\ UNCHANGED <<file, group, env, cookies, login, serverVars>>

SeedToken_Fixed ==
    /\ up = Token
    /\ user' = [user EXCEPT !.token = 1]
    /\ up' = Group
    /\ UNCHANGED <<file, group, env, made, cookies, login, serverVars>>

\* UPDATE ... WHERE session_token = '': an ordinary restart keeps the token.
SeedToken ==
    /\ up = Token /\ made < MaxTokens
    /\ made' = made + 1
    /\ user' = [user EXCEPT !.token = IF @ = 0 THEN made' ELSE @]
    /\ up' = Group
    /\ UNCHANGED <<file, group, env, cookies, login, serverVars>>

SeedGroup ==
    /\ up = Group
    /\ group' = TRUE /\ up' = Serving
    /\ UNCHANGED <<file, user, env, made, cookies, login, serverVars>>
-----------------------------------------------------------------------------
(* handleLoginPost: the row is read and verified, later the token is set *)

GetUserByEmail == user.here

Verify(l) ==
    /\ up = Serving /\ ~login[l]
    /\ GetUserByEmail
    /\ login' = [login EXCEPT ![l] = TRUE]
    /\ UNCHANGED <<up, file, user, group, env, made, cookies, serverVars>>

\* The answer with the cookie may not arrive.
SetUserSessionToken(t) == [user EXCEPT !.token = t]
SetToken(l) ==
    /\ login[l] /\ made < MaxTokens
    /\ made' = made + 1
    /\ user' = SetUserSessionToken(made')
    /\ \/ cookies' = cookies \cup {[token |-> made', file |-> file.no]}
       \/ UNCHANGED cookies
    /\ login' = [login EXCEPT ![l] = FALSE]
    /\ UNCHANGED <<up, file, group, env, serverVars>>

\* handleLogout clears the cookie of one browser and nothing else.
Logout ==
    /\ up = Serving
    /\ \E c \in cookies : cookies' = cookies \ {c}
    /\ UNCHANGED <<up, file, user, group, env, made, login, serverVars>>

\* sessionUser: the signature is taken as checked.
GetUserByToken(t) == user.here /\ user.token = t
Accepted(c) == up = Serving /\ GetUserByToken(c.token)
-----------------------------------------------------------------------------
(* handleAddServer, once the connection was tested *)

AddFrame == UNCHANGED <<up, file, user, group, env, made, cookies, login, forgotten>>

Remember(s) ==
    /\ up = Serving /\ adding[s] = "idle" /\ known[s] = "none"
    /\ memory' = memory \cup {s}
    /\ adding' = [adding EXCEPT ![s] = "row"]
    /\ AddFrame /\ UNCHANGED known

CreateServer(s) == [known EXCEPT ![s] = "nopass"]

StoreServer_Forgets(s) ==
    /\ adding[s] = "row"
    /\ \/ known' = CreateServer(s) /\ adding' = [adding EXCEPT ![s] = "password"]
       \/ UNCHANGED known /\ adding' = [adding EXCEPT ![s] = "idle"]
    /\ memory' = memory \ {s}
    /\ AddFrame

StoreServer(s) ==
    /\ adding[s] = "row"
    /\ \/ /\ known' = CreateServer(s) /\ UNCHANGED memory
          /\ adding' = [adding EXCEPT ![s] = "password"]
       \/ /\ UNCHANGED known /\ memory' = memory \ {s}
          /\ adding' = [adding EXCEPT ![s] = "idle"]
    /\ AddFrame

\* A failed UPDATE is logged.
SavePassword(s) ==
    /\ adding[s] = "password"
    /\ adding' = [adding EXCEPT ![s] = "idle"]
    /\ known' = [known EXCEPT ![s] = "pass"] \/ UNCHANGED known
    /\ AddFrame /\ UNCHANGED memory
-----------------------------------------------------------------------------
(* The process ends; the file is deleted; the configuration changes *)

Crash ==
    /\ up # Down /\ up' = Down
    /\ login' = [l \in Logins |-> FALSE]
    /\ memory' = {} /\ adding' = [s \in Servers |-> "idle"]
    /\ forgotten' = {s \in Servers : known[s] = "nopass"}
    /\ UNCHANGED <<file, user, group, env, made, cookies, known>>

DeleteFile ==
    /\ up = Down /\ file.no \in 1..(MaxFiles - 1)
    /\ file' = [no |-> 0, columns |-> {}]
    /\ user' = NoUser /\ group' = FALSE
    /\ known' = [s \in Servers |-> "none"] /\ forgotten' = {}
    /\ UNCHANGED <<up, env, made, cookies, login, memory, adding>>

Configure ==
    /\ up = Down
    /\ env' \in Creds \ {env}
    /\ UNCHANGED <<up, file, user, group, made, cookies, login, serverVars>>
-----------------------------------------------------------------------------
AccountsNext ==
    \/ Schema \/ Migrate \/ SeedUser \/ SeedToken \/ SeedGroup \/ Logout
    \/ \E l \in Logins : Verify(l) \/ SetToken(l)
    \/ \E s \in Servers : Remember(s) \/ StoreServer(s) \/ SavePassword(s)
    \/ Crash \/ DeleteFile \/ Configure

AccountsSpec == AccountsInit /\ [][AccountsNext]_accountsVars
-----------------------------------------------------------------------------
(* Properties *)

\* Whatever version left the file and wherever earlier starts were cut short,
\* the process serves from tables with every column the queries name, the
\* configured credentials, a group and a token (Open).
ServesWhole == up = Serving => /\ file.no > 0 /\ file.columns = Current
                               /\ user.here /\ user.creds = env
                               /\ user.token # 0 /\ group

\* A cookie of a database that was deleted opens nothing (NewSessionToken:
\* "deleting/recreating the database invalidates every existing session").
CookiesOfThisFile == \A c \in cookies : Accepted(c) => c.file = file.no

\* Only a login ends a session (seedDefaults: "On an ordinary restart the
\* token is kept so sessions survive").
TokenKept == [][user.token # 0 /\ user'.token # user.token /\ file'.no = file.no
                => \E l \in Logins : login[l] /\ ~login'[l]]_accountsVars

\* As long as the process that registered it runs, a stored server can be
\* dialed: its password is in its row or in memory, also between the two
\* statements that store it and after the second failed (cachedPassword).
DialHasPassword == \A s \in Servers :
    up = Serving /\ known[s] = "nopass" /\ s \notin forgotten => s \in memory
=============================================================================
