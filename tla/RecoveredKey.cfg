CONSTANTS
    g1 = g1  g2 = g2  g3 = g3  x = x  y = y
    Generated <- SomeKeys
    Archives <- TwoPackages
    NoKey = NoKey
    Latest = 2
    MaxFaults = 2
    MaxExports = 2
SPECIFICATION Spec
INVARIANT RecoveredKeyCannotChat
