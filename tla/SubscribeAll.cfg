SPECIFICATION SubsSpec
CONSTANTS
    Subscriber = {c1}
    MaxTime = 2
    MaxSubscriptions = 1
INVARIANT SubscribersFollow
CHECK_DEADLOCK FALSE
