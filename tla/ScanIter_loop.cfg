SPECIFICATION IterSpec
CONSTANTS
    r = r  a = a  b = b  c = c  d = d
    w1 = w1  w2 = w2
    Workers = {w1, w2}
    Dirs = {r, a, b, c, d}
    Root = r
    Kids <- ForkKids
    Pruned = {}
    Included = {r, a, c, d}
    Flaky = {r, b}
    Throttled = TRUE
    Deadline = TRUE
    Late = {a}
    MayCancel = TRUE
    TaskCap = 1
    DiscoveryCap = 1
    OutCap = 2
    NoTask = NoTask
INVARIANTS
    SilentEndIsComplete
    BreakStopsThePool
PROPERTY LoopEnds
