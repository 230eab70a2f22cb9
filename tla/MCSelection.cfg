CONSTANTS
    s1 = s1
    s2 = s2
    s3 = s3
    css <- MCcss
    maxJobs <- MCmaxJobs
    Algorithms = {"ROUND_ROBIN", "LEAST_BUSY"}
    STATS_UPDATE_WEIGHT = 120
    Overtaken = 1
    Far = 6
    submission_weight = 2
    MaxOwn = 1
    Speeds = {1, 2}
SPECIFICATION Spec
PROPERTY NotOverlooked
