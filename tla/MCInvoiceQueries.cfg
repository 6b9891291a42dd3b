SPECIFICATION Spec
CONSTANTS
    mine = mine
    other = other
    r1 = r1
    r2 = r2
    r3 = r3
    r4 = r4
    s1 = s1
    Businesses = {mine, other}
    RowsOf <- MCRowsOf
    NoBusiness = NoBusiness
    PageSize = 1
    MaxSummary = 3
    MaxPages = 3
    MaxReferences = 2
    MaxChanges = 4
SYMMETRY Symmetry
INVARIANTS
    TypeOK
    SummaryIsRight
    DetailIsOfTheLister
CHECK_DEADLOCK FALSE
