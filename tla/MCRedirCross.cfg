CONSTANTS
    j1 = j1  j2 = j2  h1 = h1  h2 = h2  k1 = k1  k2 = k2  k3 = k3
    NoCon = NoCon  NoHost = NoHost
    Jobs <- MCJobs
    Hosts <- MCHosts
    Conns <- MCConns
    Backends <- MCBackends
    PipelineLen = 1
    MaxRetry = 2
    RedirMax = 2
    TempDisable = 1
    MaxLoss = 1
    Kinds = {"ok", "redir"}
    Closes = {FALSE, TRUE}
SPECIFICATION Spec
INVARIANT OwnResponse
