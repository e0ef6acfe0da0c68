SPECIFICATION Spec
CONSTANTS
  Threads = {t1, t2, t3}
  Amounts = {1, 2}
  InitialTokens = 0
  MaxTokens = 2
  MaxCount = 99
  Layouts = {TRUE, FALSE}
  Calls = {"acquire", "tryAcquire", "timed"}
SYMMETRY Symmetry
INVARIANTS TypeOK WordIsExact TokensReachSleepers
