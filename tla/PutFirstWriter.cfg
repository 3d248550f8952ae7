SPECIFICATION SerialSpec
CONSTANTS
    Node = {1, 2, 3, 4}
    Key = {name}
    Frozen = {name}
    Value = {v}
    NoData = NoData
    Server = {3, 4}
    User = {1, 2}
    Link <- LineLink
    Fragile = {}
    Mortal = {}
    Custom = {}
    Excluded <- Nobody
    Skew <- NoSkew
    Tolerance = 1
    MaxClock = 2
    Id = {i1, i2, i3}
PROPERTY FirstWriterOwns
CHECK_DEADLOCK FALSE
