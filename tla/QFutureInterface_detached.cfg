SPECIFICATION Spec
CONSTANTS
  Waiters = {}
  Meetings = {{"watcher"}}
  Limit = 1
  Strays = 0
  MaxResults = 2
  MaxRequests = 0
INVARIANTS ThrottleEnds
CHECK_DEADLOCK FALSE
