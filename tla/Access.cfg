SPECIFICATION FairSpec
CONSTANTS
  IPs = {ip1}
  NoIP = NoIP
  MaxAttempts = 3
  Window = 1
  LockFor = 2
  Passwords = {p1, p2}
  NoPassword = NoPassword
  SessionIds = {s1}
  MaxLife = 1
  NoSession = NoSession
  MaxTokens = 2
  ResetTTL = 1
  Requests = {r1, r2}
INVARIANTS
  TypeOK
  FailuresBounded
  FullMeansLocked
  OldPasswordClosed
PROPERTIES
  LockKept
  ResetSpendsNewest
  LockEnds
