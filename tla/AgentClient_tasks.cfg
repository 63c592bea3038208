SPECIFICATION FairSpec
CONSTANTS
    j1 = j1  j2 = j2  j3 = j3
    Jobs = {j1, j2, j3}
    MaxConcurrent = 2
    MinDelay = 1
    MaxDelay = 3
INVARIANTS TypeOK PermitsBalanced
PROPERTIES Answered Returns
