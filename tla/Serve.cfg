SPECIFICATION FairSpec
CONSTANTS
    Workers = {w1, w2}
    NoWorker = NoWorker
    IPs = {a1, a2}
    NoIP = NoIP
    Burst = 1
    MaxTicks = 1
    Calls = {c1, c2}
    NoServer = NoServer
    Options <- SomeOptions
    Faults = {"startup", "listen", "serving", "signal"}
CHECK_DEADLOCK FALSE
CONSTRAINT TwoScenarios
INVARIANTS TypeOK ChecksDrained ExitTellsWhy BurstUnlessRaced RefusedOnlyWhenSpent
PROPERTIES LimiterForGood StopsAltogether
