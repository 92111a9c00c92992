CONSTANTS
  i1 = i1
  i2 = i2
  s1 = s1
  s2 = s2
  m1 = m1
  m2 = m2
  Intents = {i1, i2}
  Ceremonies = {c1, c2}
  Registrations = {r1}
  Nonces = {n1, n2}
  Sessions = {s1, s2}
  Messages = {m1, m2}
  Kind <- SharedKind
  Session <- SharedSession
  Message <- SharedMessage
  Expiry <- SharedExpiry
  Jobbable = {i1, i2}
  TTL = 1
  MaxTime = 3
  MaxEpoch = 1
  MaxCrashes = 1
SPECIFICATION FairSpec
CHECK_DEADLOCK FALSE
INVARIANTS
  NonceUsedOnce
PROPERTIES
  JobSettles
