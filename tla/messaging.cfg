SPECIFICATION FairSpec
CONSTANTS
  e1 = e1
  p1 = p1
  p2 = p2
  None = None
  Events <- MCEvents
  Processes <- MCProcesses
  MaxPublishes = 2
  MaxAttempts = 3
  MaxFaults = 3
  MaxStops = 1
INVARIANTS
  TypeOK
  ConfirmedIsKept
  NothingUnearned
PROPERTIES
  DeliversAtLeastOnce
  PublishSettles
CHECK_DEADLOCK FALSE
