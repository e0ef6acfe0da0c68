SPECIFICATION FairSpec
CONSTANTS
  Events = {e1, e2}
  Receivers = {r1, r2}
  Posters = {t1}
  Loops = {l1}
  Priorities = {1}
  MaxDepth = 5
  NoEvent = NoEvent
  NoReceiver = NoReceiver
  Calls = {"post", "deleteLater", "remove", "send", "sendDeletes", "process", "exec", "exit"}
INVARIANTS TypeOK ListIsSound WakeUpsArrive
PROPERTIES DeletedAfterReturn EventsAreDelivered
