\* Two uploads at a time, or one after the other, a mission and the next one.
SPECIFICATION FairSpec
CONSTANTS
  u1 = u1
  u2 = u2
  Uploads = {u1, u2}
  Missions = 2
  MaxProofAttempts = 2
INVARIANTS PaidOnceForAProof CallsWithinLimit
PROPERTIES LostAnswerCostsNoCall AcceptedPhotoPays
CHECK_DEADLOCK FALSE
