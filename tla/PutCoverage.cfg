SPECIFICATION Spec
CONSTANTS
    Node = {1, 2, 3, 4}
    Key = {k, name}
    Frozen = {name}
    Value = {v}
    NoData = NoData
    Server = {3, 4}
    User = {1, 2}
    Link <- LineLink
    Fragile <- FragileLink
    Mortal = {3}
    Custom <- CustomKeys
    Excluded <- MaybeServer
    Skew <- Ahead
    Tolerance = 0
    MaxClock = 1
    Id = {i1, i2}
INVARIANTS TypeOK LinkCoverage CoverageInv
SYMMETRY IdSymmetry
CHECK_DEADLOCK FALSE
