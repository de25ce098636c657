SPECIFICATION Spec
CONSTANTS
    r = r  a = a  b = b  c = c  d = d  e = e  x = x  y = y
    Dirs = {r, a, b, c, d, e, x, y}
    Root = r
    Parent <- TreeParent
    Jobs <- Filtered
    Threads = 2
    Kept = Kept
INVARIANT TrackedStay
