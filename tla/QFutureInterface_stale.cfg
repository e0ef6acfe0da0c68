SPECIFICATION Spec
CONSTANTS
  Waiters = {}
  Meetings = {{"watcher"}}
  Limit = 1
  Strays = 1
  MaxResults = 1
  MaxRequests = 0
INVARIANTS WatcherKeepsUp
CHECK_DEADLOCK FALSE
