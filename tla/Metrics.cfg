SPECIFICATION FairSpec
CONSTANTS
    Keys = {bypass, ban}
    Workers = {w1, w2}
    Faults = {"refused", "lost", "stop"}
    bypass = bypass
    ban = ban
    MaxCount <- TwoKeys
INVARIANTS TypeOK ExactUnlessRaced LevelToldUnlessMissed
PROPERTY EventuallyReported
CHECK_DEADLOCK FALSE
