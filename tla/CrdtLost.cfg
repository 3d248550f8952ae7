SPECIFICATION CrdtSerialSpec
CONSTANTS
    Node = {1, 2, 3, 4}
    Key = {k}
    Frozen = {}
    Value <- Documents
    NoData = NoData
    Server = {3, 4}
    User = {1, 2}
    Link <- LineLink
    Fragile = {}
    Mortal = {}
    Custom = {}
    Excluded <- Nobody
    Skew <- NoSkew
    Tolerance = 1
    MaxClock = 1
    Id = {i1, i2}
    Change <- Changes
    Lower <- Addresses
    Kinds = {"MAP"}
INVARIANT PutsMerge
CHECK_DEADLOCK FALSE
