CONSTANTS
    Tabs = {t1}
    Channels = {ch1}
    Listeners = {l1, l2}
    MaxListeners = 2
    Cmds = {c1, c2}
    Streams = {}
    Janitors = {}
    TabClosers = {x1}
    Droppers = {}
    None = None
SPECIFICATION Spec
SYMMETRY Interchangeable
INVARIANTS OneEnder NoLeak
