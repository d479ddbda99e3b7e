SPECIFICATION FairParts
CONSTANTS
  Booked = {b1, b2}
  Email = {code}
  Urgent = {code}
  Codes = {code}
  Sender = {s1, s2}
  Limit = 2
  Backoff <- MCBackoff
  Lease = 1
  KeepCode = 1
  Answers = {"accepted", "refused", "unknown"}
  MaxCrashes = 1
  MaxRetries = 1
  Null = Null
PROPERTIES
  WaitsEnd
  CaptureIsRecorded
  QueuedEnds
CHECK_DEADLOCK FALSE
