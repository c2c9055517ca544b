\* Two openings with a pending backdrop timer, two parses of which the quota
\* admits one, two create requests.
CONSTANTS
  MaxParses = 2
  MaxCreates = 2
  MaxOpenings = 2
  MaxTimers = 1
  Quota = 1
SPECIFICATION FairSpec
INVARIANTS
  SpinnerIsAlive
  OneLiveParse
  NothingStale
  OneExpensePerPreview
  EveryParseCounted
PROPERTY SpinnerStops
CHECK_DEADLOCK FALSE
