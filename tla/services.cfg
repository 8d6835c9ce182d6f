SPECIFICATION SpecAll
CONSTANTS
    Gamers = {gamer}
    Users = {u1, u2}
    Things = {k1, k2}
    Calls = {r1, r2}
    Rewards = {500, 1000}
    MaxXp = 1500
    Keys = {k1, k2}
    Clients = {k1, k2}
    Attempts = {a1}
    Requests = {r1, r2}
    Parts = {"recordings", "challenges", "notices", "access"}
    Env = {}
SYMMETRY Symmetry
INVARIANTS
    NoFileIsLost
    RankNeverAhead RewardsAreEarned
    TokensFollowPhones StatusIsTrue
    EndpointsAgree OpenRoomIsReached
PROPERTIES
    UploadedIsFinal KeptFileStays
    NoticeFindsTheRoom
CHECK_DEADLOCK FALSE
