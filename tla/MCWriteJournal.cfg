SPECIFICATION Spec
CONSTANTS
    Plans = {p1, p2, p3}
    IssueTargets = {ref1, ref2}
    CorrectionTargets = {orig1}
    CounterpartyTargets = {cp1}
    Contents = {deal1, deal2}
    Payloads = {hash1, hash2}
    NoKey = NoKey
SYMMETRY PlanSymmetry
INVARIANTS
    OneOpenPerTarget
    OneLivePerInvoice
    OneOpenPerContent
    LegacyBarsIssue
PROPERTIES
    RowsAreFinal
CHECK_DEADLOCK FALSE
