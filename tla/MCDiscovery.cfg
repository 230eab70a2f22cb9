CONSTANTS
    Daemon = {d1}
    Sched = {s1, s2}
    Nowhere = Nowhere
    SchedVersions = {44, 45}
    DaemonVersions = {32, 35, 36, 38}
    SchedNames <- MCSchedNames
    DaemonName <- MCDaemonName
    Persistent = {}
    MaxStarts = 3
    MaxLost = 1
SPECIFICATION Spec
INVARIANT AnswersUnderstood
INVARIANT BestHeard
PROPERTY Converges
CHECK_DEADLOCK FALSE
