---------------------------- MODULE MCPipeline ----------------------------
EXTENDS Pipeline

CONSTANTS j1, j2, h1, h2, k1, k2, k3

MCJobs == {j1, j2}
MCHosts == {h1, h2}
MCConns == {k1, k2, k3}
\* Both jobs belong to one repository with the backends h1, h2.
MCBackends == [j \in MCJobs |-> <<h1, h2>>]
=============================================================================
