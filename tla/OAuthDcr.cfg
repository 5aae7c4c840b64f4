CONSTANTS
    DcrIds = {d1}
    KiteKeys = {k1}
    URIs = {u1}
    Workers = {w1, w2}
    NoEntry = NoEntry
    NoSave = NoSave
    MaxClients = 1
    MaxRedirectURIs = 1
    MaxClock = 0
    MaxStall = 0
    SaveOutcomes = {"ok"}
    Codes = {c1, c2}
    MaxAuthCodes = 1
    TTL = 0
    CleanupPeriod = 1
    Challenges = {ch1}
    Users = {alice}
    Elsewhere = {}
    RegistryKeys = {rk}
    GlobalKey = gk
    Logins = {t1}
    Cookie = Cookie
    None = None
SPECIFICATION Spec
SYMMETRY Symmetry
CONSTRAINT FewOffers
INVARIANTS KeyLoginsStay OneJwtPerLogin ConsentUnlessDeferred
