SPECIFICATION Spec
CONSTANTS
  d1 = d1  d2 = d2  t1 = t1  t2 = t2  u1 = u1
  NoOne = NoOne  Operator = Operator
  Leaves = {0, 1}  Devices <- Two  Tokens <- TwoTokens  User <- OneUser  Name <- OwnNames
  MaxEpoch = 1  MaxLeases = 0  MaxFaults = 2
  LateWrites = TRUE  PackagesExpire = TRUE
SYMMETRY PairSymmetry
INVARIANTS RegistrySound AdmissionAgrees EnrollmentIsSound
