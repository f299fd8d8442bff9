\* One challenge in a timed game, requests that wait for the lock, a box that
\* reboots and a network that loses and delays.
SPECIFICATION Spec
CONSTANTS
  ann = ann
  ben = ben
  none = none
  Players = {ann, ben}
  NoOne = none
  MaxChallenges = 1
  MaxEvents = 2
  MaxClock = 4
  Deadline = 3
  AssignmentTimeout = 1
  ResultTimeout = 1
  Delay = 1
  Intervals <- OneUnit
  LockWait = 1
  Times <- EveryPrize
SYMMETRY EitherPlayer
INVARIANTS PrizesBalance
PROPERTIES ConfirmedMeansCounted KeepsPromise
