CONSTANTS
    Tunnel = {t1, t2}
    Server = {s1, s2}
    Worker = {w1, w2}
    NoTunnel = NoTunnel
    NoServer = NoServer
    MaxPoolSize = 2
    TunnelPoolSizes = {0, 3}
    LimitIntensive = 1
    MaxSignals = 1
SPECIFICATION Spec
SYMMETRY ControllerSymmetry
INVARIANTS
    TypeOK
    NextTunnelInBounds
    PoolServersDistinct
    PoolTunnelsOpen
    ActivatingTunnelOpen
    OneStatusReporter
    ExitClosesTunnels
    EstablishmentContained
    NoPanic
CHECK_DEADLOCK FALSE
