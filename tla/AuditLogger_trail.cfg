SPECIFICATION FairSpec
CONSTANTS
    p = p  q = q  c = c  d = d
    Producers = {p, q}
    Closers = {c, d}
    Calls = 3
    QueueCap = 2
    BufferCap = 2
    Unencodable <- BadFirst
    MayBreak = TRUE
INVARIANTS
    NoSendOnClosed
    NothingVanishes
    DrainedOnClose
    OrderKept
PROPERTIES
    CallsReturn
    Recorded
