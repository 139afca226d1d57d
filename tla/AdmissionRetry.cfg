\* The documented promise about retries, against one connection at a time.
SPECIFICATION Spec
CONSTANTS
    Jobs = {j1, j2, j3}
    Clients = {c1}
    Owners = {o1}
    Keys = {k1, k2}
    Prompts = {p1}
    Targets = {}
    None = None
    ActiveLimit = 2
SYMMETRY Symmetric
INVARIANTS
    RetryGetsOriginal
CHECK_DEADLOCK FALSE
