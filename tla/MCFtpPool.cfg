\* The pool stops once it is closed and every user is out of it.
CONSTANTS
  u1 = u1
  u2 = u2
  h1 = h1
  h2 = h2
  h3 = h3
  owner = owner
  Users <- MCUsers
  Handles <- MCThreeHandles
  Keeper = keeper
  Owners <- MCOwners
  Pass = pass
  NoThread = NoThread
  MaxConnections = 3
  Keepalive = TRUE
  CanShutDown = TRUE
SPECIFICATION Spec
SYMMETRY MCSymmetry
INVARIANTS
  TypeOK
  SizeAccounting
  OneProbeOver
  OnePlace
  NothingIdleAfterTeardown
  SignalOwed
CHECK_DEADLOCK FALSE
