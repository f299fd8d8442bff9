SPECIFICATION Spec
CONSTANTS
    Catalogues <- SmallCatalogues
    CandidateCount = 2
    TopCount = 1
    Scorings <- SomeScorings
    NoScore = NoScore
    Tx = {t1, t2}
    MaxRows = 7
    MaxClock = 6
INVARIANTS
    AllSeenBeforeReturn
    RepeatNeedsOverlap
    OthersComeFirst
CHECK_DEADLOCK FALSE
