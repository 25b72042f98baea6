SPECIFICATION Spec
CONSTANTS
  u1 = u1
  u2 = u2
  u3 = u3
  k = k
  c = c
  t1 = t1
  t2 = t2
  pruner = pruner
  NoThread = NoThread
  NoTransport = NoTransport
  Users <- MCUsers
  Keepers <- MCKeepers
  Settings <- MCSettings
  Closers = {c}
  Pruner = pruner
  Transports = {t1, t2}
  MaxTransports = 2
  ChannelsPerTransport = 2
SYMMETRY MCSymmetry
INVARIANT SizeAccounting
INVARIANT ChannelAccounting
INVARIANT InFlightAccounting
INVARIANT DialsInTurn
INVARIANT NoTransportLost
INVARIANT ClosedUnderNobody
INVARIANT TornDownStaysClean
INVARIANT EmptiesAreWatched
INVARIANT SignalOwed
CHECK_DEADLOCK FALSE
