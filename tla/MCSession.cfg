\* The checkouts are bounded, so the sessions stop.
CONSTANTS
  f1 = f1
  f2 = f2
  p1 = p1
  p2 = p2
  c1 = c1
  c2 = c2
  k1 = k1
  k2 = k2
  FtpSessions <- MCFtpSessions
  SftpSessions <- MCSftpSessions
  FtpHandles <- MCFtpHandles
  SftpHandles <- MCSftpHandles
  NoHandle = NoHandle
  NoSession = NoSession
  MaxDepth = 2
  MaxCheckouts = 2
SPECIFICATION Spec
SYMMETRY MCSymmetry
INVARIANTS
  HealthyIsSound
  ReplyWillCome
PROPERTY ReadsOwnCheckout
CHECK_DEADLOCK FALSE
