CONSTANTS
    Users = {u1}
    Tabs = {t1, t2}
    Redirects = {r1, r2}
    States = {s1, s2, s3}
    None = None
SPECIFICATION Spec
SYMMETRY Symmetry
INVARIANTS TypeOK RedirectOfAttempt AnsweredStateIsGone GrantsAreEarned DenialsHaveCause
