SPECIFICATION Spec
CONSTANTS
    Node = {1, 2, 3, 4}
    Key = {k}
    Frozen = {}
    Value = {v}
    NoData = NoData
    Server = {3, 4}
    User = {1, 2}
    Link <- LineLink
    Fragile = {}
    Mortal = {}
    Custom = {}
    Excluded <- Nobody
    Skew <- NoSkew
    Tolerance = 1
    MaxClock = 1
    Id = {i1, i2}
PROPERTY NewerWins
CHECK_DEADLOCK FALSE
