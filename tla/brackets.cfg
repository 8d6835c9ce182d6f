SPECIFICATION SpecAll
CONSTANTS
    t1 = t1
    t2 = t2
    t3 = t3
    t4 = t4
    t5 = t5
    r1 = r1
    r2 = r2
    Teams <- MCTeams
    Requests <- MCRequests
    Entrants <- MCEntrants
    Plan <- MCPlan
    G1 = 2
    G2 = 1
    G3 = 2
    L1 = 2
    K1 = 1
    A2 = 1
    B2 = 1
    K3 = 1
    W = 2
    Finalists = 3
    MaxScore = 1
    MaxTies = 2
    Parts = {"bracket", "generic"}
    Env = {}
SYMMETRY Symmetry
INVARIANTS
    QualifiedOnce AdvancesOnMerit PauseEnds OneGroup
    NextStageFits
PROPERTIES
    StaysCompleted
CHECK_DEADLOCK FALSE
