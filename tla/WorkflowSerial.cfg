SPECIFICATION Spec
CONSTANTS
    p1 = p1
    p2 = p2
    w1 = w1
    w2 = w2
    Procs = {p1, p2}
    WfIds = {w1, w2}
    Statuses <- JoinStatuses
    Codes <- JoinCodes
    Roles <- MCRoles
    Rote <- JoinRote
    RoleAction <- JoinRoleAction
    Rollback = Rollback
    NoStatus = NoStatus
    NoWf = NoWf
    Ops = {"init", "act"}
    Joined = TRUE
    Serialized = TRUE
    Failures = TRUE
    MaxLog = 3
SYMMETRY Symmetry
CHECK_DEADLOCK FALSE
INVARIANTS
    TypeOK
    RouteConnected
PROPERTIES
    KeepsPromise
    CheckAdmitsOffered
