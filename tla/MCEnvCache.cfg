CONSTANTS
    c1 = c1
    c2 = c2
    Client = {c1, c2}
    Env = {1, 2}
    Compiler = {1}
    EnvSize <- MCEnvSize
    TarSize = 1
    cache_size_limit = 3
    Keep = 0
    KeepFew = 1
    KeepCreating = 2
    Epoch = 3
    MaxNow = 5
    MaxCache = 4
    Upgrades = 1
SYMMETRY Alike
SPECIFICATION Spec
INVARIANT CacheSizeCovers
PROPERTY EvictsEnough
PROPERTY InUseKept
PROPERTY GivenIsKnown
CHECK_DEADLOCK FALSE
