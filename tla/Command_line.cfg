SPECIFICATION Spec
CONSTANTS
    p1 = p1  p2 = p2  p3 = p3  temp = temp  mine = mine  bucket = bucket
    main = main  trunk = trunk  master = master  v1 = v1
    Procs = {p1, p2, p3}
    Cases <- MCCases
    Files = {temp, mine, bucket}
    Temp = temp
    Cloud = {bucket}
    Branches = {main, trunk, master}
    Target = main
    Fallback = master
    Tags = {v1}
    None = None
    Seed = Seed
    Flaky = TRUE
    DiskMayFail = TRUE
    Signalled = {p1}
    MaxSignals = 2
INVARIANTS
    QuietMeansPushed
    TagReadsBack
PROPERTIES
    RemoteOnlyGrows

