SPECIFICATION Spec
CONSTANTS
  Email = {email}
  Purpose = {signup, login}
  Ip = {ip}
  Request = {r1, r2}
  Resend = 2
  CodeLife = 3
  MaxAttempts = 2
  EmailCap = 2
  IpCap = 3
  Hour = 3
  MaxTime = 3
  MaxCodes = 3
  Null = Null
INVARIANTS
  TypeOK
  CodeWorksOnce
  GuessesAreBounded
  LiveCodesOverlap
  SupersededAfterCooldown
SYMMETRY Symmetry
CHECK_DEADLOCK FALSE
