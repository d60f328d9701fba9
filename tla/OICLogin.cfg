SPECIFICATION Spec
CONSTANTS
    Logins = {l1, l2, l3}
    Auths = {a1, a2}
    None = None
    RefreshSize = 1
    MaxKid = 2
SYMMETRY Symmetry
CHECK_DEADLOCK FALSE
INVARIANTS
    TypeOK
    FreshSurvives
    CacheMatches
PROPERTIES
    RefreshClears
