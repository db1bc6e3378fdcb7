------------------------------ MODULE MCTPool ------------------------------
EXTENDS TPool, TLC

CONSTANTS t1, t2, t3, t4, w1, w2, w3, w4

MCThreads == {t1, t2, t3, t4}
MCWork == {w1, w2, w3, w4}
Sym == Permutations(MCThreads) \cup Permutations(MCWork)
=============================================================================
