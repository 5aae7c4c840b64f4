CONSTANTS
    Admins = {a1, a2}
    Tabs = {t1}
    Secrets = {s1, s2}
    CsrfTokens = {c1, c2}
    MfaLife = 1
    None = None
SPECIFICATION Spec
SYMMETRY Symmetry
PROPERTY GateNeedsEnrolment
