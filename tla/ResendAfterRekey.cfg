SPECIFICATION Spec
CONSTANTS
    Devices = {a, s}
    Coordinator = a
    Services = {s}
    Composed = {"status"}
    PendingLimit = 2
    Reserve = 2
    MaxEvents = 3
    MaxLost = 0
INVARIANT ResendAfterRekey
