----------------------------- MODULE NodeGateway -----------------------------
(***************************************************************************)
(* The typed RPC gateway of crates/node-client.  Each operation is a        *)
(* sequence of JSON-RPC calls to a Bitcoin Core node whose tip, mempool and *)
(* transaction index move between any two calls; an operation brackets its  *)
(* calls with chain snapshots and compares their identifiers.               *)
(*                                                                         *)
(* The node is external.  Its active tip changes only to a block with more  *)
(* work, so it never returns to an earlier tip.                             *)
(***************************************************************************)
EXTENDS Integers, Sequences, FiniteSets

CONSTANTS NodeBlocks,   \* [hash, parent, height, work, txs]: a tree
          GenesisHash,
          NodeTxs,      \* transaction ids
          SpentBy,      \* transaction id -> the outpoint <<txid, vout>> it spends
          Endpoints,    \* [scheme, loopback, allow, cookie]: NodeRpcConfig and its file
          Nodes,        \* [chain, cat, txindex]: identity facts of a node
          NodeRequests,     \* operations with their arguments
          MaxTime, MaxSnapshotAge, MaxRequests

ASSUME GatewayBounds == MaxTime \in Nat /\ MaxSnapshotAge \in Nat /\ MaxRequests \in Nat

ASSUME RequestAssumption ==
    \A r \in NodeRequests : r.op \in {"snapshot", "resolve", "status", "accept", "broadcast"}

VARIABLES tip,       \* hash of the node's active tip
          txindex,   \* hash of the block its transaction index has reached
          mempool,
          everKnown, \* transactions the node has had in its mempool or its chain
          node, endpoint, connected,
          now,       \* the wallet's clock, which may be set back
          gw,        \* the running operation
          heldSnapshot,      \* the snapshot the caller kept for a broadcast
          result,    \* the last answer
          requests

nodeVars == <<tip, txindex, mempool, everKnown>>
gatewayVars == <<tip, txindex, mempool, everKnown, node, endpoint, connected, now, gw, heldSnapshot,
                 result, requests>>

Hashes == {b.hash : b \in NodeBlocks}

Block(hash) == CHOOSE b \in NodeBlocks : b.hash = hash

\* The blocks from genesis to the given one.
BranchOf[hash \in Hashes] ==
    {hash} \cup (IF hash = GenesisHash THEN {} ELSE BranchOf[Block(hash).parent])

\* Hashes name blocks, heights grow along a branch, and no branch holds a
\* transaction twice.
ASSUME TreeAssumption ==
    /\ GenesisHash \in Hashes
    /\ \A b \in NodeBlocks : b.height \in Nat /\ b.work \in Nat
    /\ \A b, c \in NodeBlocks : b.hash = c.hash => b = c
    /\ \A h \in Hashes : \A x, y \in BranchOf[h] :
          /\ x \in Hashes /\ Block(x).height <= Block(h).height
          /\ Block(x).txs \cap Block(y).txs # {} => x = y

ConfirmedAt(hash) == UNION {Block(h).txs : h \in BranchOf[hash]}
BlockOf(tx, hash) == CHOOSE h \in BranchOf[hash] : tx \in Block(h).txs
Confirmations(h, at) == IF h \in BranchOf[at] THEN Block(at).height - Block(h).height + 1 ELSE 0

\* Outputs are numbered from 1 and every transaction has one.
Unspent(outpoint, known) ==
    outpoint[1] \in known /\ outpoint[2] = 1 /\ \A t \in known : SpentBy[t] # outpoint

None == [kind |-> "none"]
Idle == [op |-> "idle"]

(***************************************************************************)
(* connect: loopback guard, scheme, cookie file.                            *)
(***************************************************************************)
CheckLoopback(e) == e.allow \/ (e.scheme # "other" /\ e.loopback)

Connect ==
    /\ ~connected
    /\ CheckLoopback(endpoint)
    /\ endpoint.scheme # "other"
    /\ endpoint.cookie = "present"
    /\ connected' = TRUE
    /\ UNCHANGED <<nodeVars, node, endpoint, now, gw, heldSnapshot, result, requests>>

(***************************************************************************)
(* The snapshot: getblockchaininfo first, then the identity, the deployment *)
(* and the index.  Only the index answer depends on when it is asked.       *)
(***************************************************************************)
\* The op_cat entry of getdeploymentinfo; an absent or misshapen one is an error.
DeploymentActive(n) == n.cat = "active"

ValidateNodeIdentity(n) == n.chain = "signet" /\ DeploymentActive(n)

RequireSyncedTxindex(height) ==
    node.txindex = "synced" /\ Block(txindex).height = height

\* Seeded fault: the identifier leaves out the block hash.
HeightOnly(hash) == <<Block(hash).height>>

SnapshotId(hash) == <<hash, Block(hash).height>>

Snapshot(hash) == [tip |-> hash, id |-> SnapshotId(hash), observed_at |-> now]

Fail(error) ==
    /\ gw' = Idle
    /\ result' = [kind |-> "error", error |-> error]

\* A call fails: no answer, an error code the caller does not handle, or bad data.
RpcFails ==
    /\ gw # Idle
    /\ Fail("rpc")
    /\ UNCHANGED <<nodeVars, node, endpoint, connected, now, heldSnapshot, requests>>

\* Bitcoin Core's error for a transaction it does not know is -5.
GetRawTransaction(tx) ==
    IF tx \in mempool THEN [found |-> "mempool"]
    ELSE IF tx \in ConfirmedAt(txindex)
    THEN [found |-> "block", block |-> BlockOf(tx, txindex),
          confirmations |-> Confirmations(BlockOf(tx, txindex), tip)]
    ELSE [found |-> "-5"]

Start(request) ==
    /\ connected /\ gw = Idle /\ requests < MaxRequests
    /\ requests' = requests + 1
    /\ request.op = "broadcast" => heldSnapshot # None
    /\ IF /\ request.op = "broadcast"
          /\ (now < heldSnapshot.observed_at \/ now - heldSnapshot.observed_at > MaxSnapshotAge)
       THEN Fail("expired")
       ELSE /\ gw' = [op |-> request.op, tx |-> request.tx, outs |-> request.outs,
                      phase |-> IF request.op = "snapshot" THEN "after" ELSE "before",
                      before |-> None, seen |-> None,
                      expected |-> heldSnapshot, answer |-> None, sent |-> None]
            /\ result' = None
    /\ UNCHANGED <<nodeVars, node, endpoint, connected, now, heldSnapshot>>

SnapshotTip ==
    /\ gw # Idle /\ gw.phase \in {"before", "pre", "after"} /\ gw.seen = None
    /\ gw' = [gw EXCEPT !.seen = [kind |-> "tip", hash |-> tip]]
    /\ UNCHANGED <<nodeVars, node, endpoint, connected, now, heldSnapshot, result, requests>>

EnsureSameTip(before, after) == before.id = after.id

SnapshotRest ==
    /\ gw # Idle /\ gw.seen # None
    /\ LET s == Snapshot(gw.seen.hash)
       IN  IF ~RequireSyncedTxindex(Block(s.tip).height) \/ ~ValidateNodeIdentity(node)
           THEN Fail("node") /\ UNCHANGED heldSnapshot
           ELSE CASE gw.phase = "before" ->
                       /\ UNCHANGED heldSnapshot
                       /\ IF gw.op = "broadcast" /\ s.id # gw.expected.id
                          THEN Fail("stale")
                          ELSE /\ gw' = [gw EXCEPT !.before = s, !.seen = None,
                                                   !.phase = "act"]
                               /\ UNCHANGED result
                  [] gw.phase = "pre" ->
                       /\ UNCHANGED heldSnapshot
                       /\ IF EnsureSameTip(gw.before, s)
                          THEN /\ gw' = [gw EXCEPT !.before = s, !.seen = None, !.phase = "send"]
                               /\ UNCHANGED result
                          ELSE Fail("tip_changed")
                  [] gw.phase = "after" ->
                       IF gw.op = "snapshot" \/ EnsureSameTip(gw.before, s)
                       THEN /\ gw' = Idle
                            /\ result' = [kind |-> gw.op, tx |-> gw.tx, snapshot |-> s,
                                          answer |-> gw.answer, sent |-> gw.sent]
                            /\ heldSnapshot' = IF gw.op = "snapshot" THEN s ELSE heldSnapshot
                       ELSE Fail("tip_changed") /\ UNCHANGED heldSnapshot
    /\ UNCHANGED <<nodeVars, node, endpoint, connected, now, requests>>

Answer(a) == gw' = [gw EXCEPT !.answer = a, !.phase = "after"]

(***************************************************************************)
(* resolve_prevouts: gettxout for each outpoint; an absent one is classified *)
(* with getrawtransaction.                                                  *)
(***************************************************************************)
GetTxOut ==
    /\ gw # Idle /\ gw.op = "resolve" /\ gw.phase = "act"
    /\ LET o == gw.outs[1]
           known == ConfirmedAt(tip) \cup mempool
           confirmed == o[1] \in ConfirmedAt(tip)
       IN  IF Unspent(o, known)
           THEN IF tip # gw.before.tip
                THEN Fail("evidence")
                ELSE /\ gw' = [gw EXCEPT
                          !.answer = [kind |-> "prevout", outpoint |-> o,
                                      confirmations |-> IF confirmed
                                                        THEN Confirmations(BlockOf(o[1], tip), tip)
                                                        ELSE 0],
                          !.outs = Tail(@),
                          !.phase = IF Len(gw.outs) = 1 THEN "after" ELSE "act"]
                     /\ UNCHANGED result
           ELSE /\ gw' = [gw EXCEPT !.phase = "classify"]
                /\ UNCHANGED result
    /\ UNCHANGED <<nodeVars, node, endpoint, connected, now, heldSnapshot, requests>>

ClassifyUnavailablePrevout ==
    /\ gw # Idle /\ gw.phase = "classify"
    /\ LET o == gw.outs[1]
       IN  Answer([kind |-> IF GetRawTransaction(o[1]).found = "-5" \/ o[2] # 1
                            THEN "missing" ELSE "spent",
                   outpoint |-> o, index |-> txindex])
    /\ UNCHANGED <<nodeVars, node, endpoint, connected, now, heldSnapshot, result, requests>>

TransactionStatus ==
    /\ gw # Idle /\ gw.op = "status" /\ gw.phase = "act"
    /\ LET r == GetRawTransaction(gw.tx)
       IN  CASE r.found = "-5" -> Answer([kind |-> "Missing", index |-> txindex]) /\ UNCHANGED result
             [] r.found = "mempool" -> Answer([kind |-> "Mempool"]) /\ UNCHANGED result
             [] r.found = "block" ->
                  IF r.confirmations > 0
                  THEN /\ Answer([kind |-> "Confirmed", block |-> r.block,
                                  confirmations |-> r.confirmations])
                       /\ UNCHANGED result
                  ELSE Fail("inconsistent")
    /\ UNCHANGED <<nodeVars, node, endpoint, connected, now, heldSnapshot, requests>>

(***************************************************************************)
(* testmempoolaccept, alone or before a broadcast.                          *)
(***************************************************************************)
KnownToNode(tx) == tx \in mempool \cup ConfirmedAt(tip)

Acceptable(tx) ==
    ~KnownToNode(tx) /\ Unspent(SpentBy[tx], ConfirmedAt(tip) \cup mempool)

\* The node's verdict with its reject reason.
TestMempoolAcceptAt(tx) ==
    IF Acceptable(tx) THEN "allowed" ELSE IF KnownToNode(tx) THEN "known" ELSE "rejected"

TestMempoolAccept ==
    /\ gw # Idle /\ gw.op = "accept" /\ gw.phase = "act"
    /\ Answer([kind |-> TestMempoolAcceptAt(gw.tx)])
    /\ UNCHANGED <<nodeVars, node, endpoint, connected, now, heldSnapshot, result, requests>>

Preflight ==
    /\ gw # Idle /\ gw.op = "broadcast" /\ gw.phase = "act"
    /\ CASE TestMempoolAcceptAt(gw.tx) = "allowed" ->
              gw' = [gw EXCEPT !.phase = "pre"] /\ UNCHANGED result
         [] TestMempoolAcceptAt(gw.tx) = "known" ->
              Answer([kind |-> "AlreadyKnown"]) /\ UNCHANGED result
         [] TestMempoolAcceptAt(gw.tx) = "rejected" -> Fail("mempool_rejected")
    /\ UNCHANGED <<nodeVars, node, endpoint, connected, now, heldSnapshot, requests>>

\* The node may take the transaction although its answer is lost.
SendRawTransaction ==
    /\ gw # Idle /\ gw.phase = "send"
    /\ LET accepted == Acceptable(gw.tx)
           sent == [gw EXCEPT !.sent = [kind |-> "sent", tip |-> tip], !.phase = "after"]
       IN  /\ mempool' = IF accepted THEN mempool \cup {gw.tx} ELSE mempool
           /\ everKnown' = everKnown \cup mempool'
           /\ \/ /\ accepted \/ gw.tx \in mempool
                 /\ gw' = [sent EXCEPT !.answer = [kind |-> "Submitted"]]
                 /\ UNCHANGED result
              \/ /\ gw.tx \in ConfirmedAt(tip)
                 /\ gw' = [sent EXCEPT !.answer = [kind |-> "AlreadyKnown"]]
                 /\ UNCHANGED result
              \/ Fail("rpc")
    /\ UNCHANGED <<tip, txindex, node, endpoint, connected, now, heldSnapshot, requests>>

(***************************************************************************)
(* The node and the clock.                                                  *)
(***************************************************************************)
NewTip(hash) ==
    /\ Block(hash).work > Block(tip).work
    /\ tip' = hash
    /\ mempool' = {t \in (mempool \cup ConfirmedAt(tip)) \ ConfirmedAt(hash) :
                      /\ \A u \in ConfirmedAt(hash) : SpentBy[u] # SpentBy[t]
                      /\ SpentBy[t][1] \in ConfirmedAt(hash)}
    /\ everKnown' = everKnown \cup ConfirmedAt(hash)
    /\ UNCHANGED <<txindex, node, endpoint, connected, now, gw, heldSnapshot, result, requests>>

IndexBlock ==
    /\ txindex # tip
    /\ txindex' = tip
    /\ UNCHANGED <<tip, mempool, everKnown, node, endpoint, connected, now, gw, heldSnapshot, result,
                   requests>>

\* Another wallet's transaction arrives, or the pool drops one.
MempoolChanges(tx) ==
    /\ \/ Acceptable(tx) /\ mempool' = mempool \cup {tx}
       \/ tx \in mempool /\ mempool' = mempool \ {tx}
    /\ everKnown' = everKnown \cup mempool'
    /\ UNCHANGED <<tip, txindex, node, endpoint, connected, now, gw, heldSnapshot, result, requests>>

Tick ==
    /\ now' \in 0..MaxTime
    /\ now' # now
    /\ UNCHANGED <<nodeVars, node, endpoint, connected, gw, heldSnapshot, result, requests>>

GatewayInit ==
    /\ tip = GenesisHash /\ txindex = GenesisHash
    /\ mempool = {} /\ everKnown = ConfirmedAt(GenesisHash)
    /\ node \in Nodes /\ endpoint \in Endpoints /\ connected = FALSE
    /\ now = 0 /\ gw = Idle /\ heldSnapshot = None /\ result = None /\ requests = 0

GatewayNext ==
    \/ Connect
    \/ \E r \in NodeRequests : Start(r)
    \/ SnapshotTip
    \/ SnapshotRest
    \/ GetTxOut
    \/ ClassifyUnavailablePrevout
    \/ TransactionStatus
    \/ TestMempoolAccept
    \/ Preflight
    \/ SendRawTransaction
    \/ RpcFails
    \/ \E b \in NodeBlocks : NewTip(b.hash)
    \/ IndexBlock
    \/ \E t \in NodeTxs : MempoolChanges(t)
    \/ Tick

GatewaySpec == GatewayInit /\ [][GatewayNext]_gatewayVars

-----------------------------------------------------------------------------
\* An absent transaction may be one that the index, when it was asked, had not
\* seen on a branch of the same height (require_synced_txindex compares heights).
AbsentAt(tx, index, at) ==
    \/ tx \notin ConfirmedAt(at)
    \/ index # at /\ Block(index).height = Block(at).height

\* What the answer of operation r says holds of the chain that ends at block at.
HoldsAt(r, at, known) ==
    LET a == r.answer
    IN  /\ a.kind = "Confirmed" =>
             /\ r.tx \in ConfirmedAt(at)
             /\ a.block = BlockOf(r.tx, at)
             /\ a.confirmations = Confirmations(a.block, at)
        /\ a.kind = "Mempool" => r.tx \notin ConfirmedAt(at)
        /\ a.kind = "Missing" => AbsentAt(r.tx, a.index, at)
        /\ a.kind = "prevout" =>
             IF a.confirmations = 0
             THEN a.outpoint[1] \notin ConfirmedAt(at)
             ELSE /\ a.outpoint[1] \in ConfirmedAt(at)
                  /\ a.confirmations = Confirmations(BlockOf(a.outpoint[1], at), at)
                  /\ \A t \in ConfirmedAt(at) : SpentBy[t] # a.outpoint
        /\ a.kind = "missing" /\ a.outpoint[2] = 1 => AbsentAt(a.outpoint[1], a.index, at)
        /\ a.kind \in {"Submitted", "AlreadyKnown"} =>
             /\ r.tx \in known
             /\ r.sent # None => r.sent.tip = at

(***************************************************************************)
(* What an operation returns holds of the chain its snapshot names, however *)
(* the tip and the index moved between its calls: the confirmations of a    *)
(* transaction or prevout, that an unconfirmed one is not in that chain,    *)
(* and that a transaction was submitted while that block was the tip        *)
(* (resolve_prevouts, transaction_status, broadcast_transaction).  A        *)
(* transaction reported missing may be missing from the index only.         *)
(***************************************************************************)
AnswerHoldsAtSnapshot ==
    result.kind \in {"resolve", "status", "broadcast"} =>
        HoldsAt(result, result.snapshot.tip, everKnown)
=============================================================================
