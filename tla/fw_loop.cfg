\* A challenge and its report while millis wraps around.
SPECIFICATION Spec
CONSTANTS
  Commands <- SoloOrDuel
  Word = 16
  Debounce = 2
  Delay = 2
  Response = 3
  RetryBase = 1
  RetryCap = 3
  HeartbeatInterval = 3
  PollInterval = 2
  CallTimeout = 1
  Starts <- NearTheWrap
  Span = 10
  MaxMoves = 3
PROPERTIES FirstPressDecides RetriesOnTime
CHECK_DEADLOCK FALSE
