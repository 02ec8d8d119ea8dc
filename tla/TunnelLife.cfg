CONSTANTS
    IsStatusReporter = TRUE
    AppResumes = TRUE
SPECIFICATION FairSpec
INVARIANTS
    ClosedNotOperated
    OneStatusRequest
    ConnectedRequestAwaited
PROPERTIES
    CloseReturns
    DeadTunnelSignalled
CHECK_DEADLOCK FALSE
