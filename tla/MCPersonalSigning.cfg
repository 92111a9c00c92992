SPECIFICATION MCSpec
CONSTANTS
  s1 = s1
  s2 = s2
  s3 = s3
  o1 = o1
  Signers = {s1, s2, s3}
  Operations = {o1}
  Expiry <- MCExpiry
  Lifetime = 2
  DurableReplay = {s1}
  Faulty = {s2}
  Ids <- MCIds
  MaxBatches = 4
  MaxNonces = 3
  MaxTime = 3
INVARIANTS
  NonceSignsOnce
  FinalizedByPair
  RecoveryNeverRefused
  MachineCoversReceipts
