\* The process stops once it has exited.
CONSTANTS
  t1 = t1
  opt = opt
  req = req
  Main = main
  Crashing <- MCCrashing
  Daemons <- MCCrashing
  Teardowns <- MCTeardowns
  Required <- MCRequired
  MaxSignals = 1
  MaxNested = 2
SPECIFICATION Spec
INVARIANT ExitHeldForPass
CHECK_DEADLOCK FALSE
