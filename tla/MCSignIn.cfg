SPECIFICATION Spec
CONSTANTS
  Email = {email}
  Password = {p, q}
  Subject = {g}
  Request = {r1, r2}
  Sliding = 2
  Absolute = 3
  MaxTime = 2
  MaxSessions = 2
  MaxChanges = 2
  Null = Null
INVARIANTS
  TypeOK
  SessionsFollowPassword
  AlwaysAWayIn
PROPERTIES
  DeadStaysDead
  NoBlindOverwrite
SYMMETRY Symmetry
CHECK_DEADLOCK FALSE
