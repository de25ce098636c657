SPECIFICATION CycleSpec
CONSTANTS
    Scenes <- OtherFilters
    Modes = {5, 7}
    Uids = {1, 2, 3}
    Acls = {1, 2}
    Descriptors <- NewDescriptors
    Fresh <- NewPaths
    Home <- HomeAccounts
    Away <- AwayAccounts
    MaxChanges = 2
INVARIANT ScopedDriftIsReal
