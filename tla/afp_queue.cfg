SPECIFICATION FairSpec
CONSTANTS
  MaxFile = 3
  SendRetries = 1
  MaxEvents = 2
CHECK_DEADLOCK FALSE
INVARIANTS
  DeletedWereDelivered
  SendIsUnderWay
  DeliveredTwiceIfUnsure
PROPERTIES
  OldestFirst
  ReadyIsServed
