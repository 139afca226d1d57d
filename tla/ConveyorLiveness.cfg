\* Two jobs queue for one worker, which may be interrupted once.
SPECIFICATION FairSpec
CONSTANTS
    Jobs = {j1, j2}
    Workers = {w1}
    None = None
    MaxRepairs = 1
    MaxInterruptions = 1
PROPERTIES
    EveryJobEnds
\* The queue is quiet once every job has ended.
CHECK_DEADLOCK FALSE
