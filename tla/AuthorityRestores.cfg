SPECIFICATION Spec
CONSTANTS
  d1 = d1  d2 = d2  t1 = t1  t2 = t2  u1 = u1
  NoOne = NoOne  Operator = Operator
  Leaves = {0}  Devices <- One  Tokens <- OneToken  User <- Alone  Name <- AloneName
  MaxEpoch = 1  MaxLeases = 1  MaxFaults = 2
  LateWrites = FALSE  PackagesExpire = FALSE
INVARIANTS LeasesNameRights
PROPERTIES RevocationsTakeHold ServiceRecovers
