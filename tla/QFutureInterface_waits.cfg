SPECIFICATION Spec
CONSTANTS
  Waiters = {w1}
  Meetings = {{"waiters"}}
  Limit = 1
  Strays = 0
  MaxResults = 1
  MaxRequests = 1
INVARIANTS FinishEndsWaits
CHECK_DEADLOCK FALSE
