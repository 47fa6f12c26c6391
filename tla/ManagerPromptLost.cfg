CONSTANTS
  c1 = c1
  c2 = c2
  Calls = {c1, c2}
  None = None
  MaxBash = 1
SPECIFICATION Spec
CHECK_DEADLOCK FALSE
INVARIANTS PromptNotLost
