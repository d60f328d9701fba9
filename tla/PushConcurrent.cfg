SPECIFICATION Spec
CONSTANTS
    a = a
    b = b
    s1 = s1
    s2 = s2
    s3 = s3
    NoList = NoList
    Users = {a}
    Sessions = {s1, s2}
    UserOf <- OneUser
    Serialized = FALSE
INVARIANTS
    OpenIsIndexed
