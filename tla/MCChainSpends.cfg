SPECIFICATION SpendsSpec
CONSTANTS
    MaxMaterial = 1
    MaxElements = 2
    MaxAmount = 9
    Accounts <- MCAccounts
    Materials <- MCMaterials
    Nodes <- MCNodes
    Desks = {"verify", "fractal"}
    MaxApproved = 2
    MaxSent = 1
    Order = 29
    Base = 4
    Digits = 3
    ChiaKeys <- MCChiaKeys
    ChiaHash <- MCChiaHash
    ChiaOrders <- MCOrders
    ChiaStrays <- MCStrays
    ChiaScopes <- MCScopes
    Endpoints <- MCEndpoints
    NodeAnswers <- MCAnswers
    MaxU64 = 15
    MaxChiaMaterial = 1
    MaxPartials = 3
    MaxPushed = 1
    ErgoRequests <- MCErgoRequests
    ErgoKeys <- MCErgoKeys
    ErgoNonces <- MCErgoNonces
    ErgoSessions <- MCErgoSessions
    MaxTurns = 2
    MaxReserved = 3
    MaxPackages = 2
    MaxErgoMaterial = 2
    MaxComponent = 1
    ToScalar <- MCToScalar
INVARIANTS
    AcceptedWasApproved
    BroadcastWasApproved
    ChiaQuorumSigns
    ChiaPushedWasAgreed
    ErgoQuorumSigns
    ErgoTransactionWasAgreed
CHECK_DEADLOCK FALSE
