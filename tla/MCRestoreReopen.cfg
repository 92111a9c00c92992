SPECIFICATION Spec
CONSTANTS
  Auths = {a1}
  ForeignEpochs = {2}
  MaxEpoch = 3
  MaxBundles = 2
  MaxCrashes = 1
INVARIANT ReopensAfterCrash
