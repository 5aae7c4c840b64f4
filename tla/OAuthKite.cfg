CONSTANTS
    DcrIds = {}
    KiteKeys = {k1, k2}
    URIs = {u1}
    Workers = {w1}
    NoEntry = NoEntry
    NoSave = NoSave
    MaxClients = 2
    MaxRedirectURIs = 1
    MaxClock = 0
    MaxStall = 0
    SaveOutcomes = {"ok"}
    Codes = {c1, c2}
    MaxAuthCodes = 1
    TTL = 0
    CleanupPeriod = 1
    Challenges = {ch1, ch2}
    Users = {alice, bob}
    Elsewhere = {bob}
    RegistryKeys = {}
    GlobalKey = gk
    Logins = {t1}
    Cookie = Cookie
    None = None
SPECIFICATION Spec
SYMMETRY Symmetry
INVARIANTS TypeOK JwtIdentity KeyLoginsStay OneJwtPerLogin OwnAppOffered
PROPERTY ImplementsLoginGrants
