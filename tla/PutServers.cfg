SPECIFICATION ServersSpec
CONSTANTS
    Node = {1, 2, 3, 4, 5}
    Key = {k, name}
    Frozen = {name}
    Value = {v}
    NoData = NoData
    Server = {3, 4, 5}
    User = {1, 2}
    Link <- CycleLink
    Fragile = {}
    Mortal = {}
    Custom = {}
    Excluded <- Nobody
    Skew <- NoSkew
    Tolerance = 1
    MaxClock = 1
    Id = {1, 2}
INVARIANT ServersConverge
PROPERTY OverlappingAllHear
CHECK_DEADLOCK FALSE
