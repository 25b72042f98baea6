\* One tree, written once: a class names its base through a package's __init__,
\* another one its neighbour in a class body.
CONSTANTS
  t1 = t1
  t2 = t2
  Threads <- MCThreads
  Projects <- MCReexporting
  Requests <- MCRequests
  MaxCalls = 1
  MaxResets = 0
SPECIFICATION Spec
SYMMETRY MCSymmetry
INVARIANT DescendantsFound
CHECK_DEADLOCK FALSE
