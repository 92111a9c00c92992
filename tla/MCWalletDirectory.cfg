SPECIFICATION DirectorySpec
CONSTANTS
  Processes = {p1, p2}
  Wallets = {w1, w2}
  Authority = w1
  OutDirs = {o1, o2}
  DeviceKeys = {d1, d2}
  Backups = {b1}
  Epochs = {0, 1}
  MaxGenerations = 2
  MaxFaults = 2
  MaxHandles = 3
  NoDir = NoDir
  NoKey = NoKey
  NoBackup = NoBackup
  Chains = {"bitcoin", "bch", "fractal", "chia", "ergo"}
  Provisioners = {p1, p2}
  MaxRuns = 2
  MaxEdits = 1
  MaxDamage = 1
  Configurable = {"bitcoin"}
  seller = seller
  payout = payout
  creator = creator
  item = item
  Undecodable = Undecodable
  OwnerKeys = {seller}
  MaxU32 = 3
  MaxNonce = 2
  LockTimeThreshold = 10
  CompilerVersions = {1, 2}
  MaxDocumentBytes = 5
  MaxNameLen = 3
  MaxMetadata = 3
  MaxArtifactSet = 10
  ActivationIds = {1}
  MaxEpoch = 2
  MaxClock = 1
  Sources <- MCSources
  Forgeries <- MCForgeries
SYMMETRY CustodySymmetry
INVARIANTS
  SharesOpen
  ArtifactsMatchCatalog
  ReadyIsBound
  InspectIsCompile
  PendingIsValidated
PROPERTIES
  SignerNeverReplaced
  ReportIsComplete
CHECK_DEADLOCK FALSE
