CONSTANTS
    Handler = {h1, h2}
    PayloadPadding = {TRUE}
    MaxUp = 2
    MaxDown = 3
    MaxBreaks = 2
    MaxTransit = 1
    MaxPayload = 2
    PoolSize = 1
    BufferSize = 1
    ExtendedLimit = 1
    None = None
SPECIFICATION Spec
SYMMETRY MeekSymmetry
INVARIANTS
    DownComplete
CHECK_DEADLOCK FALSE
