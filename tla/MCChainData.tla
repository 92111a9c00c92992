---------------------------- MODULE MCChainData -----------------------------
(***************************************************************************)
(* What the wallet reads from a chain and trades on it: the block index,    *)
(* the gateway to a node and the trading service.  They share no state; a   *)
(* behaviour is about one of them and the others stay as they started.      *)
(***************************************************************************)
EXTENDS MCBlockIndex, MCNodeGateway, MCTrading

VARIABLE part   \* the component under study

chainVars == <<part, indexVars, gatewayVars, tradingVars>>

ChainDataInit ==
    /\ part \in {"index", "gateway", "trading"}
    /\ IndexInit /\ GatewayInit /\ TradingInit
    /\ part # "index" => durable
    /\ part # "gateway" => node = [chain |-> "signet", cat |-> "active", txindex |-> "synced"]
                           /\ endpoint = Good

ChainDataNext ==
    \/ part = "index" /\ IndexNext /\ UNCHANGED <<part, gatewayVars, tradingVars>>
    \/ part = "gateway" /\ GatewayNext /\ UNCHANGED <<part, indexVars, tradingVars>>
    \/ part = "trading" /\ TradingNext /\ UNCHANGED <<part, indexVars, gatewayVars>>

ChainDataSpec == ChainDataInit /\ [][ChainDataNext]_chainVars
=============================================================================
