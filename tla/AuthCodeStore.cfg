CONSTANTS
    Codes = {c1, c2, c3}
    Entries = {login}
    NoEntry = NoEntry
    MaxAuthCodes = 2
    TTL = 2
    CleanupPeriod = 2
SPECIFICATION FairSpec
INVARIANTS TypeOK Capacity SpentStaysSpent
PROPERTIES ImplementsOneTimeCodes CapacityRecovers
