SPECIFICATION FairSpec
CONSTANTS
    Run = {1, 2}
    Version = {v1, v2}
    Installed = v1
    None = None
    MaxInFlight = 2
    Buffer = 1
INVARIANTS FinishedByOwnRun NodeStepAfterRuntime
PROPERTIES SwapIsConfirmed
