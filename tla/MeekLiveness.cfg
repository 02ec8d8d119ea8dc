CONSTANTS
    Handler = {h1, h2}
    PayloadPadding = {TRUE, FALSE}
    MaxUp = 1
    MaxDown = 1
    MaxBreaks = 1
    MaxTransit = 1
    MaxPayload = 1
    PoolSize = 1
    BufferSize = 1
    ExtendedLimit = 1
    None = None
SPECIFICATION FairSpec
PROPERTIES
    UpDelivered
    DeleteCompletes
CHECK_DEADLOCK FALSE
