SPECIFICATION Spec
CONSTANTS
    Sessions = {s1, s2}
    Plans = {p1, p2}
    Owners = {o1, o2}
    Values = {v1}
    Contacts = {c1, NoContacts}
    NoContacts = NoContacts
    Absent = Absent
    NoKey = NoKey
    MaxPreviews = 1
    MaxOutside = 2
SYMMETRY IdSymmetry
INVARIANTS
    TypeOK
    CompleteIsOurs
    RepliesAreHonest
PROPERTIES
    NoLostUpdate
    StrayOnlyAfterSwitch
CHECK_DEADLOCK FALSE
