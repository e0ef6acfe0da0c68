SPECIFICATION FairSpec
CONSTANTS
  Events = {e1, e2}
  Receivers = {r1}
  Posters = {t1}
  Loops = {l1}
  Priorities = {0}
  MaxDepth = 5
  NoEvent = NoEvent
  NoReceiver = NoReceiver
  Calls = {"post", "deleteLater", "process", "exec"}
PROPERTIES DeferredDeletesHappen
CHECK_DEADLOCK FALSE
