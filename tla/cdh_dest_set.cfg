SPECIFICATION FairSpec
CONSTANTS
  d1 = d1
  d2 = d2
  d3 = d3
  d4 = d4
  Dests = {d1, d2, d3, d4}
  NoDest = NoDest
  First <- FirstSet
  MaxCommands = 3
  Impatient = FALSE
CHECK_DEADLOCK FALSE
INVARIANTS
  ActiveBelongsToSet
  NoDestinationTwice
  AllTriedBeforeGivingUp
PROPERTIES
  TransferEnds
