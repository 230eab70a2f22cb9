CONSTANTS
    max_kids = 2
    Requests <- AllRequests
    Nice = {0}
    Counts = {1}
    MaxClient = 3
    MaxJobId = 2
SPECIFICATION Spec
INVARIANT SlotsAddUp
INVARIANT SlotLimit
INVARIANT NoJobIdOutside
INVARIANT LocalJobsReported
INVARIANT NoJobForgottenHere
PROPERTY FullJobReservesAll
