\* One live console, one ordinary request, SIGTERM at any moment.
CONSTANTS
  Frames   <- MCFrames
  Capacity = 2
  MaxLines = 3
  Configs  <- MCConfigs
  Requests = {q1}
  Deadline = 1
SPECIFICATION Spec
INVARIANT TypeOK
INVARIANT EveryLineSomewhere
INVARIANT ReturnsDrained
INVARIANT ZeroMeansAnswered
PROPERTY FeedsInOrder
PROPERTY CutsOnlyLate
PROPERTY SignalEnds
PROPERTY FeedDrains
PROPERTY NothingLeaks
CHECK_DEADLOCK FALSE
