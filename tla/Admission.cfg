\* Two connections of one user, two keys for two kinds, two prompts, a limit of one.
SPECIFICATION Spec
CONSTANTS
    Jobs = {j1, j2, j3}
    Clients = {c1, c2}
    Owners = {o1}
    Keys = {k1, k2}
    Prompts = {p1, p2}
    Targets = {g1}
    None = None
    ActiveLimit = 1
SYMMETRY Symmetric
INVARIANTS
    TypeOK
    RetriesAgree
    OvershootBounded
\* Clients may stop asking, and ids run out.
CHECK_DEADLOCK FALSE
