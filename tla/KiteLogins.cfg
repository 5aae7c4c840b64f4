CONSTANTS
    Emails = {e1}
    Accounts = {a1}
    Keys = {k1, k2}
    GlobalKey = k1
    Tabs = {t1, t2}
    None = None
SPECIFICATION FairSpec
INVARIANTS TypeOK LookupsAgree
PROPERTY PersistentUserGetsIn
