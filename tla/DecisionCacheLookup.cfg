SPECIFICATION Spec
CONSTANTS
    V4Bits = 2
    V6Bits = 3
    MappedHigh = 1
    Decisions <- LookupDecisions
    NoDecision = NoDecision
    o1 = o1
    o2 = o2
    Origins = {o1, o2}
    NoOrigin = NoOrigin
    Readers = {r1}
    ClientIPs <- LookupIPs
    OneDecisionPerValue = TRUE
    Faults = {}
CONSTRAINT Scenarios
INVARIANTS TypeOK PromiseKept NothingForeign InSync
PROPERTIES LookupSound LookupComplete ImplementsService
