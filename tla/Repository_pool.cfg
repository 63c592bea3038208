SPECIFICATION FairSpec
CONSTANTS
    Threads = {t1, t2, t3}
    Max = 2
    Min = 1
    Functions <- MCFunctions
    None = None
INVARIANTS PermitsBalanced PoolSuffices WritesTogether
PROPERTIES Served
