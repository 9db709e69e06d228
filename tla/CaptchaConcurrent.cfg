SPECIFICATION Spec
CONSTANTS
    Clients = {b1, b2}
    IPs = {ip1, ip2}
    Workers = {w1, w2}
    ChallengeDuration = 1
    RequestTimeout = 1
    SessionDuration = 1
    ReplayModes = {TRUE, FALSE}
    CleanupRuns = TRUE
    Faults = {"restart", "lost", "roam"}
    MaxTime = 3
    MaxChallenges = 2
    MaxGrants = 2
CONSTRAINT OneUnprotected
INVARIANTS TypeOK SpentForLater GrantedToHolder GrantBounded 
PROPERTY ImplementsDesk
CHECK_DEADLOCK FALSE
