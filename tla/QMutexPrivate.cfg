SPECIFICATION Spec
CONSTANTS
  Threads = {t1, t2, t3}
  Locks = {m1, m2}
  Privates = {p1, p2}
  NoThread = NoThread
  NoPrivate = NoPrivate
  NoLock = NoLock
  BigNumber = 9
INVARIANTS TypeOK PrivatesAccounted WaitersAreServed
PROPERTIES ImplementsMutexSpec
SYMMETRY Symmetry
