CONSTANTS
    Tabs = {t1, t2}
    Texts = {x, blank}
    Blank = blank
    Layouts = {narrow, wide}
    Saves = {s1, s2}
    MaxEdits = 3
    Absent = Absent
    Runs = {q1, q2}
    DBs = {d1, d2}
    Panels = {p1}
    Streams = {e1, e2}
    Fetches = {f1, f2}
    NoPanel = NoPanel
    NoDB = NoDB
    Creds = {c1, c2}
    Logins = {l1, l2}
    Servers = {v1}
    MaxTokens = 5
    MaxFiles = 2
SPECIFICATION Spec
CONSTRAINT Promised
SYMMETRY Interchangeable
INVARIANTS WorkspaceKept RestoredWhole NothingMissed ServesWhole CookiesOfThisFile DialHasPassword
PROPERTIES TokenKept
CHECK_DEADLOCK FALSE
