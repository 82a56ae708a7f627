CONSTANTS
  e1 = e1
  e2 = e2
  v1 = v1
  v2 = v2
  w1 = w1
  w2 = w2
  Endpoints = {e1}
  Events = {v1, v2}
  Workers = {w1, w2}
  NoEvent = NoEvent
  NoEndpoint = NoEndpoint
  MaxAttempts = 2
  ReclaimStale = TRUE
  MaxStages = 2
  MaxChanges = 2
  MaxFaults = 1
SPECIFICATION FairSpec
CHECK_DEADLOCK FALSE
INVARIANTS TypeOK StagedBeforeAck DuplicatesNeedFaults DeliveredWasReceived
PROPERTIES DeliveredRests EventsArrive
