SPECIFICATION Spec
CONSTANTS
  Waiters = {}
  Meetings = {{"then"}}
  Limit = 1
  Strays = 0
  MaxResults = 1
  MaxRequests = 0
INVARIANTS ContinuationRunsOnce
CHECK_DEADLOCK FALSE
