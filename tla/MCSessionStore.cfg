SPECIFICATION Spec
CONSTANTS
    Sessions = {x1, x2, x3, x4}
    Requests = {r1, r2, r3}
    Reaper = Reaper
    NoTask = NoTask
    NoSession = NoSession
    Capacity = 2
    MaxLogins = 2
SYMMETRY TaskSymmetry
INVARIANTS
    UsedIsOpen
    OneKeeper
    CapacityRespected
PROPERTIES
    NoLateUse
CHECK_DEADLOCK FALSE
