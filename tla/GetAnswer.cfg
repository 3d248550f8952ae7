SPECIFICATION FairRequestsSpec
CONSTANTS
    Node = {1, 2, 3}
    Key = {k}
    Frozen = {}
    Value = {v}
    NoData = NoData
    Server = {2, 3}
    User = {1}
    Asker = {3}
    Link <- PathLink
    Fragile <- FragileLink
    Mortal = {2}
    Custom = {}
    Excluded <- Nobody
    Skew <- NoSkew
    Tolerance = 1
    MaxClock = 0
    Id = {i1, i2}
    Kept <- OldRecord
INVARIANTS RequestsTypeOK ServersFind
PROPERTY EveryGetSettles
CHECK_DEADLOCK FALSE
