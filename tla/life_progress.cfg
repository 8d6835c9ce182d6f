SPECIFICATION FairSpec
CONSTANTS
  m1 = m1
  m2 = m2
  s1 = s1
  s2 = s2
  a1 = a1
  a2 = a2
  Runs <- OneRun
  Admins <- OneAdmin
  Matches <- OneMatch
  MaxTime = 1
  RoomLead = 0
  MaxFailures = 1
  Env = {"overlap", "rooms"}
PROPERTIES GoesLive Completes RoomsAreReleased
