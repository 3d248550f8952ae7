SPECIFICATION AdaptersSpec
CONSTANTS
    s1 = s1
    f1 = f1
    f2 = f2
    c1 = c1
    ServerPeer = {s1}
    NameOf <- Names
    ServerOffer = {f1, f2}
    OfferedBy <- TwoOffers
    Tracker = {t1}
    OwnName = "a"
    Visitor <- OneVisit
    MessageId = {m1, m2}
    MaxPushes = 2
    MaxRetries = 1
    Unset = Unset
    TrackerUrl = {"t1"}
    RelayUrls <- RelayList
    MaxAnnounces = 2
    MaxOffline = 2
    Node = {n1, n2, n3}
    Offer = {o1, o2}
    MaxPeers = 1
    Nostr = {n1, n2}
    Announcer = {n1}
    Unstable = {n1, n3}
    None = None
INVARIANTS AdaptersTypeOK FoundServerTried TrackersRetried NoDeadPeers ListsAgree
PROPERTY QueueExact
CHECK_DEADLOCK FALSE
