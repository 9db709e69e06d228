SPECIFICATION Spec
CONSTANTS
    V4Bits = 1
    V6Bits = 3
    MappedHigh = 1
    MaxCached = 2
    None = None
    NoDecision <- None
    Decisions <- MCDecisions
    Clients <- MCClients
INVARIANT MostSpecificWins
