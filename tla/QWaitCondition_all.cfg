SPECIFICATION ConditionSpec
CONSTANTS
  Threads = {t1, t2, t3}
  NoThread = NoThread
  MaxItems = 1
  Wakes = {"all"}
INVARIANTS WakeAllWakesAll
