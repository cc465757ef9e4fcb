SPECIFICATION Spec
CONSTANTS
    d1 = d1
    d2 = d2
    d3 = d3
    NoOne = NoOne
    Devices <- Trio
    Roster <- PairRoster
    Revocable <- Trio
    MaxCommits = 3
    Writers <- Trio
    MaxMessages = 0
    MaxRevocations = 1
    MaxFaults = 1
    OfflineUse = TRUE
INVARIANTS SurvivorLineage CoordinatorAgreement HistoryBeforeElection QuarantineNeedsRevocation WelcomeAfterCommit
