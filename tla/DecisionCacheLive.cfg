SPECIFICATION FairSpec
CONSTANTS
    V4Bits = 2
    V6Bits = 3
    MappedHigh = 1
    Decisions <- LiveDecisions
    NoDecision = NoDecision
    o1 = o1
    o2 = o2
    Origins = {o1, o2}
    NoOrigin = NoOrigin
    Readers = {}
    ClientIPs <- OneIP
    OneDecisionPerValue = TRUE
    Faults = {"outage", "nil", "stop"}
PROPERTIES EventuallyEnforced EventuallyLifted EventuallyServing
