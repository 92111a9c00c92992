CONSTANTS
  i1 = i1
  i2 = i2
  s1 = s1
  s2 = s2
  m1 = m1
  m2 = m2
  Intents = {i1, i2}
  Ceremonies = {c1, c2}
  Registrations = {r1}
  Nonces = {n1}
  Sessions = {s1, s2}
  Messages = {m1, m2}
  Kind <- MixedKind
  Session <- MixedSession
  Message <- MixedMessage
  Expiry <- MixedExpiry
  Jobbable = {i2}
  TTL = 1
  MaxTime = 4
  MaxEpoch = 2
  MaxCrashes = 2
SPECIFICATION Spec
INVARIANTS
  NoOldEpochExecution
CHECK_DEADLOCK FALSE
