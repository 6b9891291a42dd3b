SPECIFICATION CalmSpec
CONSTANTS
    Sessions = {x1, x2, x3}
    Requests = {r1, r2}
    Reaper = Reaper
    NoTask = NoTask
    NoSession = NoSession
    Capacity = 2
    MaxLogins = 2
INVARIANTS
    ExpiredIsClosed
PROPERTIES
    EveryTaskEnds
    ExpiredGetsClosed
CHECK_DEADLOCK FALSE
