CONSTANTS
    DcrIds = {d1}
    KiteKeys = {k1, k2}
    URIs = {u1, u2, u3}
    Callers = {p1, p2}
    NoEntry = NoEntry
    NoSave = NoSave
    MaxClients = 1
    MaxRedirectURIs = 2
    MaxClock = 1
    MaxStall = 1
    SaveOutcomes = {"ok", "error"}
SPECIFICATION Spec
SYMMETRY Symmetry
CONSTRAINT FewIdsOrUris
INVARIANTS TypeOK UriCap WriteThroughUnlessRaced
PROPERTIES RegistrationIsStable EvictsForRoom
