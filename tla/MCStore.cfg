CONSTANTS
    t1 = t1
    t2 = t2
    Tubes <- MCTubes
    MaxJobs <- MCMaxJobs

SPECIFICATION StoreSpec
SYMMETRY MCSymmetry

\* The store is passive: once no operation is left to call it stays idle.
CHECK_DEADLOCK FALSE

INVARIANT StoreTypeOK
INVARIANT IndexAgrees
INVARIANT StatsMatchIndex
