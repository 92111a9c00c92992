SPECIFICATION FairSpec
CONSTANTS
  Auths = {a1, a2}
  ForeignEpochs = {2}
  MaxEpoch = 3
  MaxBundles = 2
  MaxCrashes = 2
INVARIANTS
  WalletNeverLost
PROPERTIES
  RestoreIsAtomic
  EventuallyOpens
