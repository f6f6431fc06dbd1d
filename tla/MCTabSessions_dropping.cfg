CONSTANTS
    p1 = p1
    Tabs = {t1}
    Runs = {r1}
    Conns = {c1}
    Pools = {p1}
    PoolOf <- OnePool
    Janitor = janitor
    Closers = {closer}
    Droppers = {d1}
    None = None
    Stale = Stale
SPECIFICATION LiveSpec
PROPERTIES LeaseKept DropReturns AbandonedTabReleased
