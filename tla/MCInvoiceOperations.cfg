SPECIFICATION Spec
CONSTANTS
    Sessions = {s1, s2}
    Plans = {p1, p2, p3}
    ref1 = ref1
    ref2 = ref2
    orig1 = orig1
    deal1 = deal1
    IssueTargets = {ref1, ref2}
    CorrectionTargets = {orig1}
    Contents = {deal1}
    NoKey = NoKey
    Requests <- MCRequests
    MaxPreviews = 1
    MaxEdits = 1
SYMMETRY Symmetric
INVARIANTS
    TypeOK
    OneDispatchPerTarget
    RejectedNeverSent
    IssuedAsConfirmed
    SameContentSettledFirst
    RepliesAreHonest
PROPERTIES
    ImplementsOneShot
CHECK_DEADLOCK FALSE
