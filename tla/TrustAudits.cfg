SPECIFICATION FairSpec
CONSTANTS
    phone = phone
    p = p
    q = q
    k1 = k1
    k2 = k2
    c1 = c1
    None = None
    Operator = Operator
    Endpoints = {phone}
    Owner <- Users
    Packages = {p, q}
    Clients = {c1}
    Signers = {k1, k2}
    MaxRestores = 2
    MaxFaults = 2
    MaxRevocations = 1
INVARIANTS TrustIsSound
PROPERTIES EvidenceIsKept WarningsClear RewriteIsNoticed
