\* The documented promise about cancellation, against one uninterrupted worker.
SPECIFICATION Spec
CONSTANTS
    Jobs = {j1}
    Workers = {w1}
    None = None
    MaxRepairs = 0
    MaxInterruptions = 0
INVARIANTS
    CancelObserved
CHECK_DEADLOCK FALSE
