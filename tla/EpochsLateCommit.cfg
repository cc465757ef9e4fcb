SPECIFICATION Spec
CONSTANTS
    d1 = d1
    d2 = d2
    d3 = d3
    NoOne = NoOne
    Devices <- Trio
    Roster <- PairRoster
    Revocable <- Solo
    MaxCommits = 2
    Writers <- Trio
    MaxMessages = 0
    MaxRevocations = 1
    MaxFaults = 0
    OfflineUse = FALSE
INVARIANTS
    LateCommitsRejected
