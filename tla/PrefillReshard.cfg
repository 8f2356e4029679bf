CONSTANTS
  Req = {r1, r2}
  Budget = 2
  MaxTokens = 5
  MaxBatch = 2
  EnableChunked = TRUE
  Mode = "reshard"
  Batched = FALSE
  Limit = 2
  MaxPrompt = 3
  MaxPreempt = 1
  MaxSwitch = 3
SPECIFICATION Spec
INVARIANTS
  PrefillFinished
CHECK_DEADLOCK FALSE
