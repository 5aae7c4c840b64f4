CONSTANTS
    Users = {u1, u2}
    Keys = {k1, k2, k3, k4}
    NoKey = NoKey
    NoToken = NoToken
    BearerLife = 2
    CookieLife = 3
    MfaLife = 1
    CodeTTL = 1
    Wait = 3
    MaxTokens = 2
    MaxCodes = 1
SPECIFICATION Spec
SYMMETRY Symmetry
INVARIANTS TypeOK LiveSessionsSurvive RevocationEndsSessions SessionEndsInTime
