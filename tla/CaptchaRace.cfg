SPECIFICATION Spec
CONSTANTS
    Clients = {b1, b2}
    IPs = {ip1, ip2}
    Workers = {w1, w2}
    ChallengeDuration = 2
    RequestTimeout = 1
    SessionDuration = 2
    ReplayModes = {TRUE}
    CleanupRuns = FALSE
    Faults = {}
    MaxTime = 5
    MaxChallenges = 2
    MaxGrants = 2
INVARIANT SingleUse
CHECK_DEADLOCK FALSE
