CONSTANTS
    Tunnel = {1, 2}
    Conn = {1, 2}
    Worker = {1, 2}
SPECIFICATION FairSpec
INVARIANTS
    CurrentChannelLive
    OpenChannelReachable
PROPERTIES
    CloseReturns
    FailedCallRedials
CHECK_DEADLOCK FALSE
