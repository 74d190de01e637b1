SPECIFICATION Spec
CONSTANTS
    Msg = {m1}
    MaxAttempt = 2
    MaxStreams = 2
    MaxFrames = 3
    NamesMessage = {TRUE, FALSE}
SYMMETRY Symmetry
CHECK_DEADLOCK FALSE
INVARIANTS StatusIsOfThisAttempt
PROPERTIES EndedStaysEnded
