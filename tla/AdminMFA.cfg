CONSTANTS
    Admins = {a1, a2}
    Tabs = {t1, t2}
    Secrets = {s1, s2, s3}
    CsrfTokens = {c1, c2, c3}
    MfaLife = 1
    None = None
SPECIFICATION Spec
SYMMETRY Symmetry
INVARIANTS TypeOK EnrolledSecretIsHeld RedirectsEnd
PROPERTY GateNeedsRecentCode
