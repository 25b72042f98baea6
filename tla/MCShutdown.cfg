\* The process stops once it has exited.
CONSTANTS
  t1 = t1
  opt = opt
  req = req
  Main = main
  Crashing <- MCCrashing
  Daemons <- MCNone
  Teardowns <- MCTeardowns
  Required <- MCRequired
  MaxSignals = 3
  MaxNested = 2
SPECIFICATION Spec
INVARIANTS
  TypeOK
  KindPublished
  AbandonedPastBudget
  NudgeSparesDriver
  ExitHeldForPass
PROPERTY DrivenShutdownEnds
CHECK_DEADLOCK FALSE
