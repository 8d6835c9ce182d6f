SPECIFICATION FairSpec
CONSTANTS
  t1 = t1
  t2 = t2
  t3 = t3
  r1 = r1
  r2 = r2
  NoTeam = NoTeam
  Scheduler = Scheduler
  Teams <- TwoTeams
  Requests <- OneRequest
  MaxCapacity = 2
  MaxSubmissions = 1
  MaxVersion = 2
  MinCount <- MinusOne
  RequireApproval = TRUE
  Env = {"toggle"}
INVARIANTS RegistrationAgrees NoOpenSubmission
PROPERTIES WaitlistDrains RegisterIsIdempotent
CHECK_DEADLOCK FALSE
