CONSTANTS
    Tabs = {t1}
    Channels = {ch1}
    Listeners = {l1}
    MaxListeners = 2
    Cmds = {c1}
    Streams = {s1}
    Janitors = {janitor}
    TabClosers = {}
    Droppers = {d1}
    None = None
SPECIFICATION LiveSpec
PROPERTIES EndedCloses CommandsRun AbandonedEnds StreamsTold
CHECK_DEADLOCK FALSE
