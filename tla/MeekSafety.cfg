CONSTANTS
    Handler = {h1, h2}
    PayloadPadding = {TRUE, FALSE}
    MaxUp = 1
    MaxDown = 2
    MaxBreaks = 2
    MaxTransit = 1
    MaxPayload = 2
    PoolSize = 1
    BufferSize = 1
    ExtendedLimit = 1
    None = None
SPECIFICATION Spec
INVARIANTS
    BuffersReleased
PROPERTIES
    UpStream
    DownStream
CHECK_DEADLOCK FALSE
