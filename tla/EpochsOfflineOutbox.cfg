SPECIFICATION Spec
CONSTANTS
    d1 = d1
    d2 = d2
    d3 = d3
    NoOne = NoOne
    Devices <- Trio
    Roster <- TrioRoster
    Revocable <- Trio
    MaxCommits = 1
    Writers <- Trio
    MaxMessages = 1
    MaxRevocations = 1
    MaxFaults = 1
    OfflineUse = TRUE
PROPERTIES
    NeverPublishToKnownRevoked
