CONSTANTS
    Jobs = {j1, j2}
    Uploads = {u1}
    Names = {n1, n2}
    MaxJobs = 1
    None = None
SPECIFICATION LiveSpec
INVARIANTS RunningListed StatusTellsExit NoPartialLeft
PROPERTIES KeepsPromise JobEnds
