SPECIFICATION FairSpec
CONSTANTS
    phone = phone
    laptop = laptop
    p1 = p1
    p2 = p2
    s1 = s1
    s2 = s2
    None = None
    Operator = Operator
    Services = {s1, s2}
    Endpoints <- Two
    Owner <- Users
    Packages <- Both
    Legacy <- OldPhone
    MaxEntries = 2
    MaxTries = 2
    MaxFaults = 1
INVARIANTS AcknowledgedIsDurable DirectoryFollowsLog
PROPERTIES ImplementsSignedLogs ServesAgain
