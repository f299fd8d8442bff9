SPECIFICATION Spec
CONSTANTS
    Catalogues <- FiveMissions
    CandidateCount = 10
    TopCount = 5
    Scorings <- OneScoring
    NoScore = NoScore
    Tx = {t1}
    MaxRows = 8
    MaxClock = 8
INVARIANTS
    NeverRepeatsImmediately
CHECK_DEADLOCK FALSE
