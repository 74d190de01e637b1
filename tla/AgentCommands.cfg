SPECIFICATION CommandsSpec
CONSTANTS
    Browser = {b1, b2}
    Command = {k1, k2}
    None = None
    MaxTerm = 2
    MaxEntry = 3
SYMMETRY Symmetry
CHECK_DEADLOCK FALSE
INVARIANTS RunningIsAddressable GoneIsTold OkIsFinished
PROPERTIES WorkIsSpared
