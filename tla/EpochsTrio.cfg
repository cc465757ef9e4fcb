SPECIFICATION FairSpec
CONSTANTS
    d1 = d1
    d2 = d2
    d3 = d3
    NoOne = NoOne
    Devices <- Trio
    Roster <- TrioRoster
    Revocable <- Solo
    MaxCommits = 1
    Writers = {d3}
    MaxMessages = 1
    MaxRevocations = 1
    MaxFaults = 1
    OfflineUse = TRUE
PROPERTIES WithheldForGood SurvivorsRekeyOrQuarantine
