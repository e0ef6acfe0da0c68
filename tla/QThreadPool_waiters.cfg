SPECIFICATION FairSpec
CONSTANTS
  Workers = {w1, w2, w3}
  Tasks = {r1, r2}
  Clients = {c1, c2}
  NoTask = NoTask
  PageSize = 2
  Priorities = {0}
  MaxCounts = {2}
  Reserves = {0}
PROPERTY ClientsReturn
