\* Chaos among three players who trust one another; chaos, a hunt, and an endless hunt
\* with photos between two who validate one another.
SPECIFICATION FairSpec
CONSTANTS
  ann = ann
  ben = ben
  cleo = cleo
  none = none
  Host = ann
  NoPlayer = none
  Players = {ann, ben, cleo}
  Settings <- FourGames
  Minute = 1
  Instants <- QuarterInstants
  MaxMissions = 3
  Points = 10
INVARIANTS
  TypeOK OneCurrentMission LedgerBalances LifecycleLoggedOnce
  PaidIffApproved RequestsAreLive ChaosCoherent
PROPERTIES
  FinalRankingFrozen MissionsSettleOnce BlockingEventsRunTheirCourse TimedGameEnds
CHECK_DEADLOCK FALSE
