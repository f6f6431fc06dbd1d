CONSTANTS
    p1 = p1
    Tabs = {t1, t2}
    Runs = {r1, r2}
    Conns = {c1, c2}
    Pools = {p1}
    PoolOf <- OnePool
    Janitor = janitor
    Closers = {}
    Droppers = {}
    None = None
    Stale = Stale
SPECIFICATION Spec
SYMMETRY AndSlots
INVARIANTS PinnedWithinLimit ConnExclusive BusyHasRun SessionInTx FetchFindsCursor CommitsOnlyOwnTx
