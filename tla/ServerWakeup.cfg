CONSTANTS
    Client = {c1}
    Forward = {f1, f2}
    MaxDialing = 2
    MaxForwards = 1
    None = None
SPECIFICATION FairSpec
PROPERTIES
    ClosedTunnelExits
CHECK_DEADLOCK FALSE
