SPECIFICATION Spec
CONSTANTS
    Procs = {c1, c2}
    old = old
    new = new
    other = other
    q1 = q1
    q2 = q2
    A = A
    B = B
    s1 = s1
    s2 = s2
    Certs = {old, new, other}
    fingerprint = fingerprint
    print = print
    Names = {fingerprint, print}
    Ends <- MCEnds
    Fingerprint = fingerprint
    PathOf <- MCPathOf
    OwnerOf <- MCOwnerOf
    SlotOf <- MCSlotOf
    Lapsed = {}
    Earlier <- MCEarlier
    NoCert = NoCert
    NoOwner = NoOwner
SYMMETRY ProcSymmetry
INVARIANTS
    TypeOK
    NoMixing
    ConfigWasWritten
CHECK_DEADLOCK FALSE
