SPECIFICATION FairSpec
CONSTANTS
  N = 2
  K = 5
  Count <- MCCount
  ToCap = 1
  Modes <- MCModes
INVARIANT BoundedInFlight
PROPERTY InOrder
PROPERTY Terminates
CHECK_DEADLOCK FALSE
