SPECIFICATION FairSpec
CONSTANTS
  Threads = {t1, t2}
  Amounts = {1, 2}
  InitialTokens = 0
  MaxTokens = 2
  MaxCount = 99
  Layouts = {TRUE}
  Calls = {"acquire"}
PROPERTIES EnoughTokensEndTheWait
