SPECIFICATION FairSpec
CONSTANTS
  t1 = t1
  t2 = t2
  t3 = t3
  r1 = r1
  r2 = r2
  NoTeam = NoTeam
  Scheduler = Scheduler
  Teams <- ThreeTeams
  Requests <- OneRequest
  MaxCapacity = 1
  MaxSubmissions = 1
  MaxVersion = 1
  MinCount <- MinusOne
  RequireApproval = FALSE
  Env = {"rejoin"}
PROPERTIES WaitlistDrains
CHECK_DEADLOCK FALSE
