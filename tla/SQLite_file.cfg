SPECIFICATION Spec
CONSTANTS
    r = r  a = a  b = b  c = c  w1 = w1  w2 = w2  w3 = w3
    Writers = {w1, w2, w3}
    Tree <- Trees
    Root = r
    Batch = 2
    MayFail = TRUE
    MayDie = TRUE
    Free = Free
INVARIANTS
    LockHeldByWriter
    RowsOfOneRun
    SuccessIsStored
    LoneHeaderIsHonest
