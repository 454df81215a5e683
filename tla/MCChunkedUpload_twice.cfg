SPECIFICATION Spec
CONSTANTS
  NChunks = 2
  MaxRetries = 2
  MaxLimited = 1
  MaxFailures = 2
  MaxSlots = 2
  None = None
INVARIANT StoredIsVerified
CHECK_DEADLOCK FALSE
