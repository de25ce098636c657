SPECIFICATION FairSpec
CONSTANTS
    r = r  a = a  b = b  c = c  d = d  e = e  f = f
    w1 = w1  w2 = w2
    Workers = {w1, w2}
    Dirs = {r, a, b, c, d, e, f}
    Root = r
    Kids <- TreeKids
    Pruned = {f}
    Included = {r, a, c, d, e, f}
    Flaky = {r, b}
    Throttled = TRUE
    Deadline = TRUE
    Late = {a}
    MayCancel = TRUE
    TaskCap = 1
    DiscoveryCap = 1
    OutCap = 1
    NoTask = NoTask
INVARIANTS
    WaitGroupSound
    ParentFirst
    QuietAfterClose
PROPERTIES
    WalksTheTree
    WalkEnds
