SPECIFICATION FairSpec
CONSTANTS
    Callers = {c1, c2}
    NoCaller = NoCaller
    Plans = {p1, p2}
    IssueTargets = {ref1}
    CorrectionTargets = {}
    CounterpartyTargets = {}
    Contents = {deal1}
    Payloads = {hash1}
    NoKey = NoKey
INVARIANTS
    TypeOK
    StartedOnce
    OpenedRight
PROPERTIES
    Journal
    EveryCallReturns
CHECK_DEADLOCK FALSE
