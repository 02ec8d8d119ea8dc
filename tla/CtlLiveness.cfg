CONSTANTS
    Tunnel = {t1, t2}
    Server = {s1}
    Worker = {w1}
    NoTunnel = NoTunnel
    NoServer = NoServer
    MaxPoolSize = 3
    TunnelPoolSizes = {1}
    LimitIntensive = 0
    MaxSignals = 1
SPECIFICATION FairSpec
PROPERTIES
    ShutdownCompletes
    PoolRefilled
CHECK_DEADLOCK FALSE
