CONSTANTS
    r1 = r1
    r2 = r2
    Readers = {r1, r2}
    Mixes <- OrderedPairs
    Buffer = 1
    Chunks = 3
    MaxConns = 2
SPECIFICATION StreamsSpec
INVARIANTS RegisteredIsReading WholeUnlessOverrun ClosedWakes
PROPERTIES ExchangesEnd
CHECK_DEADLOCK FALSE
