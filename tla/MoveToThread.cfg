SPECIFICATION FairSpec
CONSTANTS
  Threads = {1, 2}
  Objects = {o1, o2}
  NoThread = 0
  NoEvent = 0
  NoReceiver = NoReceiver
  Priorities = {0}
  MaxEvents = 2
  MaxMoves = 2
INVARIANTS TypeOK EventsFollow NoSleepOnMoved
PROPERTIES CallsReturn
CHECK_DEADLOCK FALSE
