SPECIFICATION FairSpec
CONSTANTS
    Subscriptions <- MCSubscriptions
    BufferSize = 2
    CanStop = TRUE
    MaxEvents = 4
INVARIANTS TypeOK InOrderOnce
PROPERTIES ImplementsFeed EventuallyOffered
CHECK_DEADLOCK FALSE
