CONSTANTS
    max_kids = 1
    Requests <- LiveRequests
    Nice = {0, 5}
    Counts = {1}
    MaxClient = 2
    MaxJobId = 2
SPECIFICATION FairSpec
PROPERTY EveryWaiterGetsASlot
