\* The documented answer to a stale base, against two connections.
SPECIFICATION Spec
CONSTANTS
    Clients = {c1, c2}
    Projects = {g1}
    Keys = {k1, k2}
    Edits = {e1, e2}
    None = None
    MaxRevisions = 2
SYMMETRY Symmetric
INVARIANTS
    NotFoundMeansGone
CHECK_DEADLOCK FALSE
