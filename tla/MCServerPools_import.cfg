CONSTANTS
    Reqs = {r1, r2}
    Srv = Srv
    Dbs = {d1}
    Tabs = {t1}
    Slots = {s1}
    None = None
SPECIFICATION Spec
SYMMETRY Interchangeable
INVARIANTS NoCircularWait
