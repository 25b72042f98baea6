CONSTANTS
  w1 = w1
  w2 = w2
  Waiters <- MCWaiters
  Sweeper = sweeper
  Closer = closer
  NoThread = NoThread
  Capacity = 2
  Timed <- MCTimed
SPECIFICATION Spec
INVARIANTS
  NoWaiterStranded
