SPECIFICATION Spec
CONSTANTS
    t1 = t1
    t2 = t2
    Threads = {t1, t2}
    Browsers = {b}
    Users = {u}
    NoUser = NoUser
    Sessions = {1, 2}
    None = None
    Stale = Stale
SYMMETRY Symmetry
INVARIANTS
    TypeOK
    UserKept
PROPERTIES
    SessionEnds
