SPECIFICATION Spec
CONSTANTS
  Booking = {b}
INVARIANTS
  NothingAhead
CHECK_DEADLOCK FALSE
