SPECIFICATION FairSpec
CONSTANTS
    Devices = {a, s}
    Coordinator = a
    Services = {s}
    Composed = {"status", "edit", "react"}
    PendingLimit = 2
    Reserve = 2
    MaxEvents = 3
    MaxLost = 1
INVARIANTS TranscriptsAgree RemovalHasRoom
PROPERTIES EditsTakeEffect ChannelSettles
