SPECIFICATION LabelsSpec
CONSTANTS
    Req = {r1, r2}
    Editor = {e1}
    Tool = {t1}
    MaxVersion = 2
    MaxJoin = 2
SYMMETRY Symmetry
INVARIANTS LostOnlyByRace
CHECK_DEADLOCK FALSE
