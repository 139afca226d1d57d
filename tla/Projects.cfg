\* Two connections, one project, one key per endpoint, one operation, five revisions.
SPECIFICATION Spec
CONSTANTS
    Clients = {c1, c2}
    Projects = {g1}
    Keys = {k1}
    Edits = {e1}
    None = None
    MaxRevisions = 5
SYMMETRY Symmetric
INVARIANTS
    TypeOK
    LinearHistory
    EditsBuildOnBase
    OneRevisionPerKey
    EditedOnce
PROPERTIES
    ImplementsLedger
\* Clients may stop asking.
CHECK_DEADLOCK FALSE
