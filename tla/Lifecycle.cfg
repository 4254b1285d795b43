SPECIFICATION FairSpec
CONSTANTS
  Clients = {c1, c2}
  NoClient = NoClient
INVARIANTS LifecycleTypeOK LeaveComesLast
PROPERTIES NoRevival DepartureIsReported CalmStopEnds
CHECK_DEADLOCK FALSE
