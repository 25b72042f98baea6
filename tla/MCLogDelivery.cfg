CONSTANTS
  MaxRecords = 2
  MaxConns = 2
  MaxFaults = 1
  Kinds <- MCBoth
SPECIFICATION Spec
INVARIANTS
  ResumePointCovers
  LiveHierarchyKept
  OrderlyStopKeepsAll
CHECK_DEADLOCK FALSE
