SPECIFICATION Spec
CONSTANTS
    Peers = {"alpha", "beta"}
    Resolve <- MCResolve
    NTun = 3
    Fds = {1, 2}
    TaskCap = 2
    RingCap = 2
    Tables = {1, 2, 3}
    Confs <- MCConfs
    Scenarios <- MCScenarios
INVARIANTS
    NoFreedTunnel
    FdSettled
    SlotsMatch
    PskSafe
    NeverStranded
    ListenersMatchConf
