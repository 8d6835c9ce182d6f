SPECIFICATION SpecAll
CONSTANTS
    Players = {p1, p2, p3}
    Requests = {r1, r2}
    MaxMain = 2
    MaxSubs = 1
    MaxVersion = 3
    MaxSubmissions = 2
    Parts = {"squads"}
    Env = {"teamReturns"}
INVARIANT RosterWithinLimits
CHECK_DEADLOCK FALSE
