SPECIFICATION FairSpec
CONSTANTS
  Users = {u1, u2}
  NoUser = NoUser
  MaxFile = 2
  MaxRestarts = 1
  MaxCrashes = 1
  MaxStops = 2
  MaxEvents = 3
CHECK_DEADLOCK FALSE
INVARIANTS
  OneAnswer
  ServedWereDelivered
  NotDeliveredTwice
  SemaphoreLives
PROPERTIES
  EveryRequestIsAnswered
