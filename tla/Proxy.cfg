SPECIFICATION ProxySpec
CONSTANTS
  s1 = s1
  s2 = s2
  s3 = s3
  t1 = t1
  t2 = t2
  t3 = t3
  tx = tx
  Real = {s1, s2, s3}
  Token = {t1, t2, t3, tx}
  TokenOf <- SomeTokens
  Cap = 2
  Request = {1, 2}
  Bodies <- SmallBodies
  Watched = TRUE
  Nothing = Nothing
CHECK_DEADLOCK FALSE
INVARIANTS
  HeldAreTheRecent
  RestoredIsItsOwn
  DroppedWhenDrained
PROPERTIES
  OwnPlaceholderRestored
  ServeReturns
