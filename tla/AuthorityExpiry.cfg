SPECIFICATION Spec
CONSTANTS
  d1 = d1  d2 = d2  t1 = t1  t2 = t2  u1 = u1
  NoOne = NoOne  Operator = Operator
  Leaves = {0}  Devices <- One  Tokens <- OneToken  User <- Alone  Name <- AloneName
  MaxEpoch = 0  MaxLeases = 0  MaxFaults = 0
  LateWrites = FALSE  PackagesExpire = TRUE
PROPERTY AdmissionReturns
