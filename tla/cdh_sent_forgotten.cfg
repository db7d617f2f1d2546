SPECIFICATION Spec
CONSTANTS
  Users = {u1, u2}
  NoUser = NoUser
  MaxFile = 1
  MaxRestarts = 0
  MaxCrashes = 1
  MaxStops = 0
  MaxEvents = 1
CHECK_DEADLOCK FALSE
INVARIANTS
  SentIsRemembered
