------------------------------ MODULE MCStore ------------------------------
EXTENDS Store, TLC

CONSTANTS t1, t2

MCTubes == {t1, t2}
MCMaxJobs == 3
MCSymmetry == Permutations(MCTubes)
=============================================================================
