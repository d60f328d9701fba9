SPECIFICATION Spec
CONSTANTS
    p1 = p1
    p2 = p2
    w1 = w1
    w2 = w2
    Procs = {p1, p2}
    WfIds = {w1}
    Statuses <- LineStatuses
    Codes <- LineCodes
    Roles <- MCRoles
    Rote <- LineRote
    RoleAction <- LineRoleAction
    Rollback = Rollback
    NoStatus = NoStatus
    NoWf = NoWf
    Ops = {"init", "act"}
    Joined = TRUE
    Serialized = FALSE
    Failures = FALSE
    MaxLog = 3
INVARIANTS
    StatusOnRoute
CHECK_DEADLOCK FALSE
