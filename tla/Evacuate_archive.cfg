SPECIFICATION FairSpec
CONSTANTS
    j = j  k = k  i1 = i1  i2 = i2  i3 = i3  f1 = f1  f2 = f2  g = g  l = l
    Jobs = {j, k}
    Batch <- TwoBatches
    Items = {i1, i2, i3}
    Content <- ItemFiles
    Late = {l}
    Volatile = {i2}
    Unreadable = {g}
    Stubborn = {f2}
    LastSecond = 1
    DiskMayFill = TRUE
    MayCancel = TRUE
    MayDie = TRUE
    NoItem = NoItem
INVARIANTS
    PackedBeforePurged
    NilMeansArchived
    OnlyDisasterLoses
PROPERTY EvacuationEnds
