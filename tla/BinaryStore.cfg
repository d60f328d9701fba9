SPECIFICATION Spec
CONSTANTS
    Uploads = {u1, u2}
    Old = old
    Absent = Absent
    Part = 2
    Limit = 4
    MaxIter = 3
    MaxSize = 7
CHECK_DEADLOCK FALSE
INVARIANTS
    TypeOK
    ObjectIsWhole
    LeftPending
PROPERTIES
    AcceptedIsStored
    UploadsEnd
