CONSTANTS
    Client = {c1, c2, c3}
    Forward = {f1, f2, f3}
    MaxDialing = 2
    MaxForwards = 1
    None = None
SPECIFICATION Spec
SYMMETRY ServerSymmetry
INVARIANTS
    SlotsExact
    OneTunnelPerSession
CHECK_DEADLOCK FALSE
