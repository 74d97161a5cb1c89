SPECIFICATION Spec
CONSTANTS
  None = None
  page = page
  w1 = w1
  w2 = w2
  Agents <- PageAndWorkers
  Blocking <- TwoWorkers
  Keys = {flag}
  Width = 2
  Words <- TwoWords
  Zero <- ZeroWord
  Uses <- FlagUses
  Counts = {1, 9}
  MaxTokens = 2
INVARIANTS TypeOK NoLostWakeup CountsMatchWakeups
PROPERTIES NotifiedWaiterReturns
