SPECIFICATION Spec
CONSTANTS
    r1 = r1  r2 = r2  r3 = r3  f = f  g = g  h = h
    Runs = {r1, r2, r3}
    Names = {f, g, h}
    Settings <- Cases
    Size <- Sizes
    Zipped = {r1}
    Keep = 1
    Lossy = {r2}
    DiskMayFill = TRUE
    MayDie = TRUE
    MayExpire = TRUE
INVARIANTS
    VerifiedIsWhole
    SuccessIsStored
    AlwaysASnapshot
