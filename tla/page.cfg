\* One page, a poll and a button's request in flight, one container.
CONSTANTS
  Polls      = {"poll"}
  Containers = {c1}
  None       = None
  MaxChanges = 2
  MaxOutput  = 3
  TailLines  = 2
  MAX_LINES  = 2
SPECIFICATION Spec
INVARIANT TypeOK
INVARIANT ConsoleEndsWithTheTail
PROPERTY PageCatchesUp
PROPERTY ActShowsItsEffect
PROPERTY BusyEnds
PROPERTY ConsoleReattaches
