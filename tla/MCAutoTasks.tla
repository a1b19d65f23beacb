----------------------------- MODULE MCAutoTasks -----------------------------
EXTENDS AutoTasks, TLC

CONSTANTS inbox, home, t1, t2, m1, c1, c2, k1, k2, none

Symmetry == Permutations(AutoIds) \cup Permutations(Candidates) \cup Permutations(Keys)
===============================================================================
