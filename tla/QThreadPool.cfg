SPECIFICATION FairSpec
CONSTANTS
  Workers = {w1, w2, w3}
  Tasks = {r1, r2, r3}
  Clients = {c1}
  NoTask = NoTask
  PageSize = 2
  Priorities = {0, 1}
  MaxCounts = {0, 1, 2}
  Reserves = {0, 1}
INVARIANTS TypeOK EveryTaskInOnePlace Bookkeeping QueuedOnlyWhenBusy
PROPERTIES LimitRespected EverythingEnds
