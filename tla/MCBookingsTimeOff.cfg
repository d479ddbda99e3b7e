SPECIFICATION Spec
CONSTANTS
  Booking = {b1, b2}
  Span <- MCSpan
  Off <- MCOff
  HoldTime = 1
  RequestHoldTime = 1
  OnlinePayments = TRUE
  MaxTime = 5
  Null = Null
INVARIANTS
  ServedOutsideTimeOff
CHECK_DEADLOCK FALSE
