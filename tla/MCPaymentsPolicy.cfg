SPECIFICATION Spec
CONSTANTS
  Advance = 2
  Total = 3
  OfflineAmounts = {1, 2}
  Percents = {50, 100}
  Captures = {"payment.captured"}
  MaxRefunds = 3
  MaxIssued = 2
  MaxCrashes = 0
  Null = Null
PROPERTIES
  CustomerRefundFollowsPolicy
CHECK_DEADLOCK FALSE
