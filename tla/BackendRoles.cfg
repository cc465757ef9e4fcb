SPECIFICATION FairSpec
CONSTANTS
    Requests = {r1, r2}
    Mutating = {r1}
    b1 = b1
    b2 = b2
    b3 = b3
    Choices = {b1, b2, b3}
    Key <- Keys
    None = None
    Lease = 2
    SeqModulus = 3
    MaxFaults = 2
    MaxConns = 6
INVARIANTS RolesAreSound
PROPERTIES StaleNeverStarts ReadinessReturns
