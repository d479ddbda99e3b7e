SPECIFICATION OfficeSpec
CONSTANTS
  Email = {"reminder", "code"}
  Urgent = {"code"}
  Codes = {"code"}
  Sender = {one, two}
  Limit = 2
  Backoff <- OneWait
  Lease = 1
  KeepCode = 1
  Answers = {"accepted", "refused", "unknown"}
  MaxCrashes = 1
  MaxRetries = 1
  Handler = {one, two}
  Vendor = {"v", "w"}
  Slug = {"a", "b", "c"}
  Service = {"s", "t"}
  Patch <- Patches
  Count = {1, 2}
  DayMinutes = 2
  MaxBlocks = 2
  MaxDays = 2
  Percent = {1}
  Booking = {booking}
  Job = {one, two}
  Last = 5
  Moments = {3, 5}
  Before = 2
  Day = 6
  Hour = 2
  Zones <- ClockChanges
  Week = 2
  Windows <- Schedules
  Overrides <- Exceptions
  Periods <- Rests
  Sessions <- BySession
  WholeDays <- ByDay
  Notice = 0
  Horizon = 2
  Dates <- TwoDates
  MaxBookings = 1
  Call = {one, two}
  Finding <- Findings
  Shown = 1
  Listed = 1
  Deploy = {one, two}
  Files = 3
  Content = {"p", "q"}
  Null = Null
  Gone = Gone
  NoTime = NoTime
  Absent = Absent
  Unknown = Unknown
INVARIANTS
  TypesOK
  TwiceOnlyIfExcused
  OutboxIsHonest
  AddressesLead
  ServicesFit
  ClosedIsOver
  CalendarIsTrue
  RunsAreComplete
PROPERTIES
  CustomersAreTold
SYMMETRY Exchanges
CHECK_DEADLOCK FALSE
