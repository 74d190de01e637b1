SPECIFICATION Spec
CONSTANTS
    Updates = {u1, u2}
    Seed = seed
    Buffer = 2
    MaxConns = 3
INVARIANTS SettledIsLedger RunsWhatWasStored
PROPERTIES CatchesUp
CHECK_DEADLOCK FALSE
