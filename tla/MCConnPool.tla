----------------------------- MODULE MCConnPool -----------------------------
EXTENDS ConnPool, TLC

CONSTANTS a1, a2, c1, c2, c3

MCAgents == {a1, a2}
MCConns == {c1, c2, c3}
Sym == Permutations(MCAgents) \cup Permutations(MCConns)
=============================================================================
