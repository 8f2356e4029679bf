CONSTANTS
  Req = {r1, r2}
  Budget = 2
  MaxTokens = 5
  MaxBatch = 2
  EnableChunked = FALSE
  Mode = "recompute"
  Batched = FALSE
  Limit = 3
  MaxPrompt = 2
  MaxPreempt = 1
  MaxSwitch = 3
SPECIFICATION FairSpec
INVARIANTS
  TypeOK
  PrefillFinished
  BudgetKept
  AnswerComplete
PROPERTIES
  AnswersArrive
CHECK_DEADLOCK FALSE
