SPECIFICATION ServicesSpec
CONSTANTS
    Peer = {1, 2, 3}
    CallServer = {2, 3}
    Wire <- LineWire
    KeysOf <- LineKeys
    FunctionOf <- LineFunction
    CallId = {1, 2}
    Call <- LineCalls
    Holder = {3}
    Unmergeable = {2}
    Browser = {}
    Subscriber = {c1}
    MaxTime = 2
    MaxSubscriptions = 2
    Member = {1, 2, 3, 4}
    Hub = {1, 2}
    Addressed = {2}
    Outsider = {4}
    Contact <- Contacts
    Restarting = {2}
    MaxRestarts = 1
    HasTemporary = {1}
    Newcomer = {1, 2}
    TheServer = 3
    Nobody = Nobody
    MaxLookups = 1
    User = {ann}
    NoAccount = NoAccount
    MaxGenerated = 7
    MaxSignIns = 1
    MaxPosts = 1
INVARIANTS
    ServicesTypeOK QueriesKeepAll SubscribersServed ListenersCurrent NoPeerTwice
    OneOwner PeerComesBack PutsAreTheUsers
PROPERTY CallsSettle
CHECK_DEADLOCK FALSE
