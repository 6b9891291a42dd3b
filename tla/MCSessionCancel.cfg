SPECIFICATION FairSpec
CONSTANTS
    Sessions = {x1, x2, x3}
    Requests = {r1, r2, r3}
    Reaper = Reaper
    NoTask = NoTask
    NoSession = NoSession
    Capacity = 2
    MaxLogins = 2
INVARIANTS
    ExpiredIsClosed
CHECK_DEADLOCK FALSE
