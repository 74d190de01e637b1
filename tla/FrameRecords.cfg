SPECIFICATION SFSpec
CONSTANTS
    Frame = {l1, l2}
    Success = {l1}
    MaxResume = 1
    Stages = 1
    Items = 2
    PoolSize = 2
INVARIANTS NotifiedPerEnding OnlySkippedGrantsLeft ReferenceHasContent CursorOrdersRows
PROPERTIES HandlersEnd
CHECK_DEADLOCK FALSE
