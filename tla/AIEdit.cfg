\* Two handlers, two generations, one revision by others, at most four
\* entities in a scene, two plain attempts.
SPECIFICATION Spec
CONSTANTS
    s1 = s1  s2 = s2
    e1 = e1  e2 = e2  e3 = e3  e4 = e4  e5 = e5  e6 = e6
    o1 = o1
    SceneIds = {s1, s2}
    EntityIds = {e1, e2, e3, e4, e5, e6}
    None = None
    Bad = Bad
    MaxScenes = 2
    MaxEntities = 4
    Callers = {h1, h2}
    Proposals <- ModelProposals
    Attempts = 2
    Initial <- Game
    Changes <- EditorChanges
    Built <- Rebuilt
    MaxGenerations = 2
    MaxRevisions = 1
INVARIANTS
    TypeOK
    StoredIsSound
    TriedApplies
    RowsTellWhatHappened
    FallbackBeforeFailure
PROPERTIES
    AIKeepsToScenery
    BusyEnds
\* Clients may stop asking.
CHECK_DEADLOCK FALSE
