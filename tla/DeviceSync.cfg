\* Two edits, a third that is unfit or one too many, one edit of another device or the
\* model, up to two mishaps.
SPECIFICATION Spec
CONSTANTS
    Edits = {e1, e2, bad, more}
    Others = {o1}
    Unfit = {bad}
    MaxBatch = 2
    Spare = {more}
    Scenarios <- TwoAtATime
    Once <- EachOnce
INVARIANTS
    TypeOK
    UnsentIsQueued
    UndoneIsRevoked
    RejectedOnlyAfterMishap
    ConflictOnlyAfterMishap
    SyncedShowsServer
PROPERTIES
    OutboxDrains
\* The user may have nothing left to do.
CHECK_DEADLOCK FALSE
