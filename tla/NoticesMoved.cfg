SPECIFICATION Spec
CONSTANTS
  Job = {j, k}
  Null = Null
  Last = 5
  Starts = {3, 5}
  Day = 2
INVARIANTS
  MovedIsRemindedAgain
CHECK_DEADLOCK FALSE
