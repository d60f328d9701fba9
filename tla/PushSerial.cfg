SPECIFICATION FairSpec
CONSTANTS
    a = a
    b = b
    s1 = s1
    s2 = s2
    s3 = s3
    NoList = NoList
    Users = {a, b}
    Sessions = {s1, s2, s3}
    UserOf <- TwoUsers
    Serialized = TRUE
INVARIANTS
    TypeOK
    Registered
PROPERTIES
    NoticeReaches
    GoneAreClosed
