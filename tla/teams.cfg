SPECIFICATION SpecAll
CONSTANTS
    Players = {p1, p2, p3}
    Requests = {r1, r2}
    MaxMain = 2
    MaxSubs = 1
    MaxVersion = 3
    MaxSubmissions = 2
    Parts = {"rosters", "squads"}
    Env = {}
SYMMETRY Symmetry
INVARIANTS
    RosterFits OwnerHolds ApprovalsMatchRoster
    RosterWithinLimits OwnerLeads WaitlistAgrees
PROPERTIES
    NobodyPlaysUnasked OutcomesAreFinal
    AnswersAreFinal
CHECK_DEADLOCK FALSE
