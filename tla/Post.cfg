SPECIFICATION FairSpec
CONSTANTS
  Tags = {1, 2, 9}
  InvalidWords = {9}
  Plain = Plain
  Jobs = {c1, c2}
  Calls = {c1, c2}
  Texts <- MCTexts
  MaxSize = 2
CHECK_DEADLOCK FALSE
INVARIANTS TypeOK OkMeansStoredAndTrending ScoreBounds RejectedLeavesNoTrace
PROPERTIES EveryCallAnswered
