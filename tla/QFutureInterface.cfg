SPECIFICATION Spec
CONSTANTS
  Waiters = {w1, w2}
  Meetings = {{"waiters", "then"}, {"watcher"}}
  Limit = 2
  Strays = 1
  MaxResults = 2
  MaxRequests = 2
INVARIANTS TypeOK NobodySleepsInVain WatcherKeepsUp ContinuationNotLost
PROPERTIES FinishedIsFinal
CHECK_DEADLOCK FALSE
