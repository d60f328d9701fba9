SPECIFICATION Spec
CONSTANTS
    p1 = p1
    p2 = p2
    u1 = u1
    u2 = u2
    Procs = {p1}
    Ids = {u1}
    Ops = {"register", "actual", "initReset", "reset", "change", "publish", "remove", "removeAll", "delete", "oic"}
    Serialized = TRUE
    Failures = TRUE
    MaxFresh = 5
INVARIANTS
    TypeOK
    PreRegisteredLocked
PROPERTIES
    AccountLife
    ReportIsTrue
