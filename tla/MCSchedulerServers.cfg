CONSTANTS
    c1 = c1
    c2 = c2
    h1 = h1
    h2 = h2
    e32 = e32
    e64 = e64
    k1 = k1
    k2 = k2
    l1 = l1
    f1 = f1
    Null = Null
    Conn = {c1, c2}
    Host = {h1, h2}
    Env = {e64}
    Platform <- TwoPlatforms
    HostPlatform <- OnePlatform
    EnvPlatform <- OneEnvPlatform
    PlatformMap <- OldRunsOnNew
    MaxKids <- OneEach
    NoRemote = {h1}
    Chroot = {h1, h2}
    Proto <- OldAndNew
    Feature = {f1}
    Features <- OnlyH2
    ClientId = {k1}
    LocalId = {l1}
    Request <- ThreeRepeats
    Blacklisted <- BlacklistH2
    MaxJobId = 3
    Stray = {2}
    MaxBlock = 1
SPECIFICATION Spec
SYMMETRY ConnSymmetry
INVARIANTS
    NoOvercommit
    OneServerPerHost
    NoStaleBlacklist
