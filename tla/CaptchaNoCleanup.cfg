SPECIFICATION FairSpec
CONSTANTS
    Clients = {b1, b2}
    IPs = {ip1, ip2}
    Workers = {w1}
    ChallengeDuration = 2
    RequestTimeout = 1
    SessionDuration = 2
    ReplayModes = {TRUE}
    CleanupRuns = FALSE
    Faults = {}
    MaxTime = 5
    MaxChallenges = 2
    MaxGrants = 2
PROPERTY ExpiredForgotten
CHECK_DEADLOCK FALSE
