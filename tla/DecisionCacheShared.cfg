SPECIFICATION Spec
CONSTANTS
    V4Bits = 2
    V6Bits = 3
    MappedHigh = 1
    Decisions <- SharedDecisions
    NoDecision = NoDecision
    o1 = o1
    o2 = o2
    Origins = {o1, o2}
    NoOrigin = NoOrigin
    Readers = {}
    ClientIPs <- OneIP
    OneDecisionPerValue = FALSE
    Faults = {}
INVARIANT EveryValueHeld
