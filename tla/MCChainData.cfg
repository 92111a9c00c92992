SPECIFICATION ChainDataSpec
CONSTANTS
  o1 = o1
  o2 = o2
  group = group
  buyer = buyer
  payout = payout
  creator = creator
  other = other
  OwnerKeys = {o1, o2, group, buyer}
  MaxU32 = 5
  MaxNonce = 2
  Blocks <- MCBlocks
  Heights <- MCHeights
  ConfigTerms <- MCConfigTerms
  Labels = {"x"}
  DurableModes = {TRUE, FALSE}
  MaxCrashes = 1
  MaxUnsynced = 1
  NodeBlocks <- MCNodeBlocks
  GenesisHash = "g"
  NodeTxs <- MCTxs
  SpentBy <- MCSpentBy
  Endpoints <- MCEndpoints
  Nodes <- MCNodes
  NodeRequests <- MCNodeRequests
  MaxTime = 2
  MaxSnapshotAge = 1
  MaxRequests = 2
  Digests <- MCDigests
  GroupKey = group
  MaxU64 = 30
  LockTimeThreshold = 10
  BaseHeight = 0
  MaxHeight = 3
  MaxReorgs = 1
  MaxRestarts = 1
  MaxIntents = 3
  Requests <- MCRequests
  BaseOutputs <- MCBaseOutputs
INVARIANTS
  IndexIsReplay
  AnswerHoldsAtSnapshot
  VerifiersAgree
  OrderSpentByPolicy
PROPERTY AnswersAreCanonical
CHECK_DEADLOCK FALSE
