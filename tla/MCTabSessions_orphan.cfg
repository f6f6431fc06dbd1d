CONSTANTS
    p1 = p1
    Tabs = {t1}
    Runs = {r1, r2}
    Conns = {c1, c2, c3}
    Pools = {p1}
    PoolOf <- OnePool
    Janitor = janitor
    Closers = {}
    Droppers = {}
    None = None
    Stale = Stale
SPECIFICATION Spec
INVARIANTS NoOrphanTx
