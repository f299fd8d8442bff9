\* A request that waits for the lock of its game while a tick decides.
SPECIFICATION Spec
CONSTANTS
  ann = ann
  ben = ben
  none = none
  Players = {ann, ben}
  NoOne = none
  MaxChallenges = 1
  MaxEvents = 1
  MaxClock = 4
  Deadline = 0
  AssignmentTimeout = 1
  ResultTimeout = 1
  Delay = 1
  Intervals <- OneUnit
  LockWait = 1
  Times <- LateOnly
PROPERTY AssignedKeepsItsMargin
