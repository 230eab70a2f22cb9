CONSTANTS
    s1 = s1
    s2 = s2
    s3 = s3
    Submitter <- Submitters
    Nice = {0, 5}
    Counts <- OneOrThree
    MaxJobs = 5
SPECIFICATION Spec
INVARIANT WellFormed
PROPERTY NoOvertaking
PROPERTY ImplementsFairQueue
CHECK_DEADLOCK FALSE
