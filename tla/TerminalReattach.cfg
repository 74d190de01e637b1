SPECIFICATION Spec
CONSTANTS
    Browser = {b1, b2}
    None = None
    OutCap = 2
    ReplayCap = 2
    Buffer = 2
    MaxConn = 2
    MaxTerm = 2
    MaxOut = 2
SYMMETRY Symmetry
CHECK_DEADLOCK FALSE
INVARIANTS LiveIsRegistered ReplayIsContiguous ReattachFindsAll ClosedPumpWakes
