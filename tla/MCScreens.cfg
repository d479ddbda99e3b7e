SPECIFICATION Spec
CONSTANTS
  Null = Null
  Date = {"d", "e"}
  MaxBlocks = 2
  MaxKey = 2
  MaxAsked = 1
  MaxOrders = 2
  MaxPaying = 2
  Item = {one, two}
  MaxVisit <- Calls
  Time = {"s", "t"}
  Name = {"n", "m"}
  Total = 2
  MaxDialogs = 2
  MaxSends = 3
  Admin = {one, two}
  List = {"outbox", "payments"}
  MaxQueries = 4
  MaxSteps = 6
  Session = {one, two}
  Limit = 1
  Window = 2
  Access = 2
  MaxTime = 3
  MaxSecrets = 2
  Attempt = {"a", "b"}
  Callback = {one, two}
  Account = {"g", "h"}
  Home <- Homes
  Life = 1
  MaxClock = 1
  MaxSessions = 2
INVARIANTS
  TypesOK
  CustomerSeesTheTruth
  DashboardsAreTrue
  EntriesAreProven
SYMMETRY Exchanges
CHECK_DEADLOCK FALSE
