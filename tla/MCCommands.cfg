SPECIFICATION ClientSpec
CONSTANTS
    o1 = o1
    f1 = f1
    f2 = f2
    Numbers = {o1, f1, f2}
    NoNumber = NoNumber
    NoDocument = NoDocument
    Registers <- MCRegisters
    Requests <- MCRequests
    Parties = {"old", "new"}
    MaxChanges = 1
    Ledgers <- MCLedgers
    Todays = {20240131, 20240229, 20241231}
    Reading <- MCReading
    PageSize = 2
    MaxPages = 3
    MaxNights = 1
INVARIANTS
    ClientTypeOK
    ReportIsRight
    EveryQueryAccepted
    SignedIsPreviewed
    CompleteIsSettled
CHECK_DEADLOCK FALSE
