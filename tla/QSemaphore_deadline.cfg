SPECIFICATION FairSpec
CONSTANTS
  Threads = {t1, t2}
  Amounts = {1}
  InitialTokens = 0
  MaxTokens = 1
  MaxCount = 99
  Layouts = {TRUE}
  Calls = {"timed"}
PROPERTIES TimedCallsReturn
