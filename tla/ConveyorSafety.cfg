\* One job, two workers that may overlap on it, one repair round, two faults.
SPECIFICATION Spec
CONSTANTS
    Jobs = {j1}
    Workers = {w1, w2}
    None = None
    MaxRepairs = 1
    MaxInterruptions = 2
SYMMETRY Symmetric
INVARIANTS
    TypeOK
    PublishedOnce
    SuccessIsPublished
    StageShowsOwner
PROPERTIES
    OutcomeFinal
    EarlyCancelStops
    ImplementsLifecycle
\* The queue is quiet once every job has ended.
CHECK_DEADLOCK FALSE
