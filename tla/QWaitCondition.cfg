SPECIFICATION FairConditionSpec
CONSTANTS
  Threads = {t1, t2, t3}
  NoThread = NoThread
  MaxItems = 2
  Wakes = {"one", "all"}
INVARIANTS ConditionTypeOK CountsExact
PROPERTIES ItemsEndTheWait
