CONSTANTS
    Jobs = {j1, j2}
    Uploads = {}
    Names = {n1}
    MaxJobs = 1
    None = None
SPECIFICATION Spec
SYMMETRY Interchangeable
INVARIANTS RemovesOwnOutput
