\* A thread makes one search between two rewrites of the tree.
CONSTANTS
  t1 = t1
  t2 = t2
  Threads <- MCThreads
  Projects <- MCProjects
  Requests <- MCRequests
  MaxCalls = 1
  MaxResets = 1
SPECIFICATION Spec
SYMMETRY MCSymmetry
INVARIANTS
  SearchIsRight
  ComputedOnce
  NearestConstantWins
  SomeSearchMoves
CHECK_DEADLOCK FALSE
