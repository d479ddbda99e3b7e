SPECIFICATION FairSpec
CONSTANTS
  Advance = 2
  Total = 3
  OfflineAmounts = {2}
  Percents = {100}
  Captures = {"payment.captured"}
  MaxRefunds = 2
  MaxIssued = 1
  MaxCrashes = 1
  Null = Null
PROPERTIES
  RefundsAreSent
CHECK_DEADLOCK FALSE
