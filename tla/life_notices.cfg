SPECIFICATION Spec
CONSTANTS
  m1 = m1
  m2 = m2
  s1 = s1
  s2 = s2
  a1 = a1
  a2 = a2
  Runs <- TwoRuns
  Admins <- OneAdmin
  Matches <- OneMatch
  MaxTime = 1
  RoomLead = 1
  MaxFailures = 0
  Env = {"overlap", "rooms"}
SYMMETRY RunSymmetry
INVARIANTS SentOnce
