\* The pool stops once it is closed and every user is out of it.
CONSTANTS
  u1 = u1
  u2 = u2
  h1 = h1
  h2 = h2
  h3 = h3
  owner = owner
  Users <- MCUsers
  Handles <- MCTwoHandles
  Keeper = keeper
  Owners <- MCNoOwners
  Pass = pass
  NoThread = NoThread
  MaxConnections = 1
  Keepalive = FALSE
  CanShutDown = TRUE
SPECIFICATION FairSpec
INVARIANTS
  PutNeverBlocks
PROPERTIES
  ImplementsLending
  CloseEndsAcquire
  ShutdownTearsDown
CHECK_DEADLOCK FALSE
