SPECIFICATION Spec
CONSTANTS
  None = None
  page = page
  w1 = w1
  w2 = w2
  Agents <- PageAndWorkers
  Blocking <- TwoWorkers
  Keys = {counter}
  Width = 2
  Words <- TwoWords
  Zero <- ZeroWord
  Uses <- StoreAndLoad
  Counts = {1, 9}
  MaxTokens = 0
INVARIANTS LoadsAreAtomic
