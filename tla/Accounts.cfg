\* Two connections, one password, two wrong guesses; up to three codes or sessions.
SPECIFICATION Spec
CONSTANTS
    Clients = {c1, c2}
    Passwords = {p1}
    CodeAttempts = 2
    None = None
    Settings <- ManyCodesOrManySessions
SYMMETRY Symmetric
INVARIANTS
    TypeOK
    NoOrphanedAccess
    ExchangedOnce
    OneGrantPerCode
    ExhaustedIsBurned
    ConfirmedBeforeSession
    LiveCodesBounded
PROPERTIES
    NoRepeatNoReplay
    BlockedStays
\* Nothing happens to a blocked account.
CHECK_DEADLOCK FALSE
