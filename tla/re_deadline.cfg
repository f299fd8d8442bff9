\* Two challenges in a timed game whose deadline and end cross everything.
SPECIFICATION FairSpec
CONSTANTS
  ann = ann
  ben = ben
  none = none
  Players = {ann, ben}
  NoOne = none
  MaxChallenges = 2
  MaxEvents = 1
  MaxClock = 4
  Deadline = 3
  AssignmentTimeout = 1
  ResultTimeout = 1
  Delay = 1
  Intervals <- OneUnit
  LockWait = 0
  Times <- LateOnly
INVARIANTS ChallengesFollowOneAnother CommandFollowsChallenge
PROPERTIES ChallengesClose BoxComesBack
