SPECIFICATION Spec
CONSTANTS
  Booking = {b1, b2}
  Span <- MCSpan
  Off <- MCOff
  HoldTime = 1
  RequestHoldTime = 1
  OnlinePayments = TRUE
  MaxTime = 5
  Null = Null
SYMMETRY Customers
INVARIANTS
  TypeOK
  NoDoubleBooking
  OnlyUnlockedOverTimeOff
  ConfirmedIsPaid
  ExpiredIsUnpaid
  OnlyPartPaidIsOffered
PROPERTIES
  KeepsCalendar
CHECK_DEADLOCK FALSE
