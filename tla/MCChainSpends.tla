--------------------------- MODULE MCChainSpends ----------------------------
(* The reviewed signing of all chains, one family of chains at a time.     *)
EXTENDS MCReviewedSigning, MCChiaThreshold, MCErgoThreshold

VARIABLE family   \* the chains under study

spendVars == <<family, reviewVars, chiaVars, ergoVars>>

UtxoIdle ==
    /\ desk = "none" /\ approved = {} /\ accepted = <<>> /\ request = <<>>
    /\ finalized = <<>> /\ rpc = <<>> /\ preflight = <<>> /\ sent = {}
ChiaIdle ==
    /\ chiaKey = <<>> /\ delivered = <<>> /\ partials = {} /\ bundle = <<>>
    /\ chiaAccepted = <<>> /\ pushReview = <<>> /\ adapter = <<>> /\ push = <<>> /\ pushed = {}
ErgoIdle ==
    /\ ergoKey = <<>> /\ imported = <<>> /\ reserved = {} /\ pending = {} /\ consumed = {}
    /\ packages = {} /\ answers = {} /\ proofs = {} /\ assembled = <<>> /\ ergoAccepted = <<>>

SpendsInit ==
    \/ family = "utxo" /\ ReviewInit /\ ChiaIdle /\ ErgoIdle
    \/ family = "chia" /\ ChiaInit /\ UtxoIdle /\ ErgoIdle
    \/ family = "ergo" /\ ErgoInit /\ UtxoIdle /\ ChiaIdle

SpendsNext ==
    \/ family = "utxo" /\ ReviewNext /\ UNCHANGED <<family, chiaVars, ergoVars>>
    \/ family = "chia" /\ ChiaNext /\ UNCHANGED <<family, reviewVars, ergoVars>>
    \/ family = "ergo" /\ ErgoNext /\ UNCHANGED <<family, reviewVars, chiaVars>>

SpendsSpec == SpendsInit /\ [][SpendsNext]_spendVars
=============================================================================
