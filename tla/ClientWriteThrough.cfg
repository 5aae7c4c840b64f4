CONSTANTS
    DcrIds = {}
    KiteKeys = {k1}
    URIs = {u1, u2, u3}
    Callers = {p1, p2}
    NoEntry = NoEntry
    NoSave = NoSave
    MaxClients = 1
    MaxRedirectURIs = 2
    MaxClock = 1
    MaxStall = 1
    SaveOutcomes = {"ok"}
SPECIFICATION Spec
SYMMETRY Symmetry
INVARIANTS WriteThrough
