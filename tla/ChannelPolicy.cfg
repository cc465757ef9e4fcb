SPECIFICATION FairChannelSpec
CONSTANTS
    Devices = {a, b, c}
    Tokens = {}
    NoOne = NoOne
    Leaves <- MCLeaves
    User <- MCUser
    Name <- MCName
    Creator = a
    Partner = b
    Revocable = {a, b}
    Contested = {c}
    MaxChannelEpoch = 3
    MaxRevoked = 1
    MaxInterrupts = 1
INVARIANTS PolicyIsSound
PROPERTIES NoRevival Converges
