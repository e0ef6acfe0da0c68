SPECIFICATION FairSpec
CONSTANTS
  Threads = {t1, t2, t3}
  Locks = {l1, l2}
  Privates = {p1, p2}
  NoPrivate = NoPrivate
  NoLock = NoLock
  Patience = {"forever", "timed"}
INVARIANTS TypeOK LockAccounted SleepersHaveWaker
PROPERTIES ImplementsRWLockSpec FreeLockIsTaken
