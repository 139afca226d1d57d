\* The documented promise about restarts, against one worker restarted once.
SPECIFICATION Spec
CONSTANTS
    Jobs = {j1}
    Workers = {w1}
    None = None
    MaxRepairs = 0
    MaxInterruptions = 1
INVARIANTS
    RestartSurvives
CHECK_DEADLOCK FALSE
