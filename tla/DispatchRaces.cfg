SPECIFICATION FairSpec
CONSTANTS
    Node = {n1, n2}
    Session = {s1}
    Req = {r1, r2}
    None = None
    Op = {"create", "delete", "config", "input"}
    Capable = {n1, n2}
    Deletable = {n1}
    Buffer = 1
    MaxSessions = 1
INVARIANTS WaitersAreCallers AnswerIsOwn PlacementWasAcked SecondWriterHarmless
PROPERTIES CallsEnd
