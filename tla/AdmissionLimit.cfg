\* The documented limit of two generations per user, against two connections.
SPECIFICATION Spec
CONSTANTS
    Jobs = {j1, j2, j3}
    Clients = {c1, c2}
    Owners = {o1}
    Keys = {k1, k2, k3}
    Prompts = {p1}
    Targets = {}
    None = None
    ActiveLimit = 2
SYMMETRY Symmetric
INVARIANTS
    ActiveLimitKept
CHECK_DEADLOCK FALSE
