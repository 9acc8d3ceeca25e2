SPECIFICATION Spec
CONSTANTS
  Tags = {1, 2, 9}
  InvalidWords = {}
  Plain = Plain
  Jobs = {c1, c2}
  Calls = {c1, c2}
  Texts <- MCTextsTop
  MaxSize = 2
CHECK_DEADLOCK FALSE
INVARIANTS FetchesTheTop
