CONSTANTS
    c1 = c1
    c2 = c2
    h1 = h1
    h2 = h2
    e32 = e32
    e64 = e64
    k1 = k1
    k2 = k2
    l1 = l1
    f1 = f1
    Null = Null
    Conn = {c1, c2}
    Host = {h1, h2}
    Env = {e32, e64}
    Platform <- TwoPlatforms
    HostPlatform <- HostPlatforms
    EnvPlatform <- EnvPlatforms
    PlatformMap <- OldRunsOnNew
    MaxKids <- OneEach
    NoRemote = {}
    Chroot = {h1, h2}
    Proto <- AllNew
    Feature = {f1}
    Features <- OnlyH2
    ClientId = {k1}
    LocalId = {}
    Request <- MixedRequests
    Blacklisted = {}
    MaxJobId = 3
    Stray = {1, 2}
    MaxBlock = 0
SPECIFICATION Spec
SYMMETRY ConnSymmetry
INVARIANTS
    TypeOK
    JobListsMatch
    NoDanglingServer
    QueuedJobsWait
    QueueIsOrdered
    
PROPERTY JobLifecycle
