SPECIFICATION Spec
CONSTANTS
    Devices = {d1}
    MaxEvents = 3
    ReserveEvents = 1
    MaxSequence = 5
    PendingLimit = 1
    PruneLimit = 2
    QueueLimit = 1
    DrainLimit = 1
    ExportLimit = 1
    MaxObservations = 2
    Cursors <- OneCursor
    Rooms = {"free"}
INVARIANT OperatorCanPrune
