SPECIFICATION FairSpec
CONSTANTS
    Addresses <- MCAddresses
    UnmappedOf <- MCUnmappedOf
    TrustedProxies = {"proxy"}
    ExemptIPs = {"office"}
    MaxForwarded = 2
    Configs <- AllConfigs
    RawRequests <- MCRawRequests
    AppSecStatuses = {0, 200}
INVARIANTS TypeOK BanEnforced FailsClosed InspectedAsClient CountedOnce
PROPERTIES ClientNotForged EveryRequestAnswered
