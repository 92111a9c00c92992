------------------------------ MODULE Trading ------------------------------
(***************************************************************************)
(* Protected fixed-price trading (crates/trading) and the wallet's review   *)
(* of ordinary Taproot spends (wallet-core transaction.rs), together with   *)
(* the path of such a request through the wallet node: verification,        *)
(* intent, approval, signature, and its race for the order output on chain. *)
(*                                                                         *)
(* Scripts, hashes and signatures are injective constructors.  A raw        *)
(* transaction is [canonical, tx]; a transaction names its id, which        *)
(* witness data does not change.  A refusal is the empty set.  The rounds   *)
(* of the threshold signature are the subject of WalletAuthority: here they *)
(* are one step.                                                            *)
(***************************************************************************)
EXTENDS Listing

CONSTANTS Requests,       \* requests the node may receive, in a sequence
          BaseOutputs,    \* outpoint -> output confirmed before the trade
          Digests,        \* bound: requests whose digest alone the node may receive
          GroupKey,       \* key of the wallet's signer group
          MaxU64,         \* largest amount (u64::MAX)
          BaseHeight, MaxHeight, MaxReorgs, MaxRestarts, MaxIntents

VARIABLES blocks,     \* requests confirmed above BaseHeight (0: an empty block)
          snapshot,   \* heights of the last usable node snapshot (at most one)
          phase,      \* created intent -> its state
          held,       \* intents created since the node started
          opaque,     \* intents created from a digest, without a request
          granted,    \* intents with an in-memory authorization
          signed,     \* intents whose digest the group has signed
          tracker,    \* txid -> [kind, status, winner]
          reorgs, restarts

tradingVars == <<blocks, snapshot, phase, held, opaque, granted, signed, tracker, reorgs,
                 restarts>>

Names == DOMAIN Requests

(***************************************************************************)
(* Parts shared by the two verifiers                                        *)
(***************************************************************************)
BuyerOwnershipMessage(r) ==
    [commitment |-> Commitment(r.listing), order |-> r.order_outpoint,
     txid |-> r.raw.tx.id, buyer |-> r.buyer_key,
     expiry |-> r.proposal_expiry_height, prevouts |-> r.prevouts]

VerifyBuyer(r) == r.buyer_ownership_signature = <<r.buyer_key, BuyerOwnershipMessage(r)>>

DecodeUnsigned(raw) ==
    {tx \in {raw.tx} : raw.canonical /\ \A i \in DOMAIN tx.inputs : ~tx.inputs[i].signed}

VerifyIssuanceReceipt(r) ==
    LET p == r.issuance_proof
    IN  \E v \in VerifyMint(p.mint_tx, p.issuer_outpoint, p.issuer_utxo, p.terms) :
           r.listing.receipt \in ReceiptFromVerifiedMint(p.mint_tx, v, p.terms)

CommonInputs(tx, prevouts) ==
    /\ Len(tx.inputs) >= 2
    /\ Len(tx.inputs) = Len(prevouts)
    /\ IsInjective([i \in DOMAIN tx.inputs |-> tx.inputs[i].prev])

Fee(tx, prevouts, max) ==
    {f \in {OutputSum(prevouts) - OutputSum(tx.outputs)} :
        /\ OutputSum(prevouts) <= MaxU64 /\ OutputSum(tx.outputs) <= MaxU64
        /\ f > 0 /\ f <= max}

ValidHeader(tx) == tx.version = 2 /\ tx.lock_time = 0

\* SIGHASH_DEFAULT of input 1: every input, every output, every spent output.
Sighash(tx, prevouts, leaf) ==
    [txid |-> tx.id, prevouts |-> prevouts, leaf |-> leaf, input |-> 1]

LeafOf(path, listing) ==
    CASE path = "List" -> {} [] path = "Buy" -> {BuyLeaf(listing)}
      [] path = "Cancel" -> {CancelLeaf(listing)}

\* The control block proves the leaf against the listing's own output.
Verified(path, listing, tx, prevouts, spent, fee) ==
    {[path |-> path, txid |-> tx.id, sighash |-> Sighash(tx, prevouts, LeafOf(path, listing)),
      spent_order_outpoint |-> spent, fee_sat |-> f, listing_commitment |-> Commitment(listing),
      transaction |-> tx, prevouts |-> prevouts, seller_key |-> listing.seller_key,
      witness_script |-> LeafOf(path, listing)] : f \in fee}

CanonicalOrder(listed) == <<listed.txid, 1>>

(***************************************************************************)
(* The agent's verifier                                                     *)
(***************************************************************************)
ListOutputs(tx, listing) ==
    /\ Len(tx.outputs) = 2
    /\ tx.outputs[1] = OrderTxOut(listing)
    /\ tx.outputs[2].script = listing.cancel_script

BuyOutputs(tx, listing, buyer) ==
    /\ Len(tx.outputs) \in {3, 4}
    /\ SubSeq(tx.outputs, 1, 3) =
         <<[value |-> listing.receipt.item_sat_amount, script |-> ItemOwnerScript(buyer)],
           [value |-> listing.price_sat, script |-> listing.seller_payout_script],
           [value |-> listing.creator_fee_sat, script |-> listing.creator_fee_script]>>
    /\ Len(tx.outputs) = 4 => tx.outputs[4].script = ItemOwnerScript(buyer)

\* Leaves the change of a cancellation unchecked.
CancelFirstOutput(tx, listing) ==
    /\ Len(tx.outputs) \in {1, 2}
    /\ tx.outputs[1] = [value |-> listing.receipt.item_sat_amount,
                        script |-> listing.cancel_script]

CancelOutputs(tx, listing) ==
    /\ Len(tx.outputs) \in {1, 2}
    /\ tx.outputs[1] = [value |-> listing.receipt.item_sat_amount,
                        script |-> listing.cancel_script]
    /\ Len(tx.outputs) = 2 => tx.outputs[2].script = listing.cancel_script

AgentVerifyList(r, height) ==
    UNION {Verified("List", r.listing, tx, r.prevouts, r.listing.receipt.outpoint,
                    Fee(tx, r.prevouts, r.listing.max_network_fee_sat)) :
             tx \in {t \in DecodeUnsigned(r.raw) :
                       /\ ValidListing(r.listing)
                       /\ VerifyIssuanceReceipt(r)
                       /\ height < r.listing.expiry_height
                       /\ CommonInputs(t, r.prevouts)
                       /\ ValidHeader(t)
                       /\ t.inputs[1].prev = r.listing.receipt.outpoint
                       /\ r.prevouts[1] = ReceiptTxOut(r.listing.receipt)
                       /\ ListOutputs(t, r.listing)}}

AgentVerifyBuy(r, height) ==
    UNION {Verified("Buy", r.listing, tx, r.prevouts, r.order_outpoint,
                    Fee(tx, r.prevouts, r.listing.max_network_fee_sat)) :
             tx \in {t \in DecodeUnsigned(r.raw) :
                       /\ ValidListing(r.listing)
                       /\ r.list_request.listing = r.listing
                       /\ \E l \in AgentVerifyList(r.list_request, height) :
                             r.order_outpoint = CanonicalOrder(l)
                       /\ height < r.listing.expiry_height
                       /\ height <= r.proposal_expiry_height
                       /\ r.proposal_expiry_height <= r.listing.expiry_height
                       /\ VerifyBuyer(r)
                       /\ CommonInputs(t, r.prevouts)
                       /\ ValidHeader(t)
                       /\ t.inputs[1].prev = r.order_outpoint
                       /\ r.prevouts[1] = OrderTxOut(r.listing)
                       /\ BuyOutputs(t, r.listing, r.buyer_key)}}

CancelHeader(tx, listing) ==
    /\ tx.version = 2
    /\ tx.lock_time >= listing.expiry_height
    /\ \A i \in DOMAIN tx.inputs : ~tx.inputs[i].final

AgentVerifyCancel(r, height) ==
    UNION {Verified("Cancel", r.listing, tx, r.prevouts, r.order_outpoint,
                    Fee(tx, r.prevouts, r.listing.max_network_fee_sat)) :
             tx \in {t \in DecodeUnsigned(r.raw) :
                       /\ ValidListing(r.listing)
                       /\ r.list_request.listing = r.listing
                       /\ \E l \in AgentVerifyList(r.list_request, r.listing.expiry_height - 1) :
                             r.order_outpoint = CanonicalOrder(l)
                       /\ height >= r.listing.expiry_height
                       /\ CommonInputs(t, r.prevouts)
                       /\ CancelHeader(t, r.listing)
                       /\ t.inputs[1].prev = r.order_outpoint
                       /\ r.prevouts[1] = OrderTxOut(r.listing)
                       /\ CancelOutputs(t, r.listing)}}

AgentVerify(r, height) ==
    CASE r.path = "List" -> AgentVerifyList(r, height)
      [] r.path = "Buy" -> AgentVerifyBuy(r, height)
      [] r.path = "Cancel" -> AgentVerifyCancel(r, height)
      [] OTHER -> {}

(***************************************************************************)
(* The wallet's verifier, written independently of the agent's              *)
(***************************************************************************)
SpendsFirst(tx, prevouts, outpoint, output) ==
    /\ Len(tx.inputs) >= 2
    /\ Len(tx.inputs) = Len(prevouts)
    /\ tx.inputs[1].prev = outpoint
    /\ prevouts[1] = output

\* Checks who is paid but not how much.
PaysScript(output, value, script) == output.script = script

Pays(output, value, script) == output.value = value /\ output.script = script

WalletVerifyList(r, height) ==
    LET l == r.listing
    IN  UNION {Verified("List", l, tx, r.prevouts, l.receipt.outpoint,
                        Fee(tx, r.prevouts, l.max_network_fee_sat)) :
                 tx \in {t \in DecodeUnsigned(r.raw) :
                           /\ ValidListing(l)
                           /\ VerifyIssuanceReceipt(r)
                           /\ height < l.expiry_height
                           /\ ValidHeader(t)
                           /\ SpendsFirst(t, r.prevouts, l.receipt.outpoint,
                                          ReceiptTxOut(l.receipt))
                           /\ CommonInputs(t, r.prevouts)
                           /\ Len(t.outputs) = 2
                           /\ t.outputs[1] = OrderTxOut(l)
                           /\ t.outputs[2].script = l.cancel_script}}

WalletVerifyBuy(r, height) ==
    LET l == r.listing
        buyerScript == ItemOwnerScript(r.buyer_key)
    IN  UNION {Verified("Buy", l, tx, r.prevouts, r.order_outpoint,
                        Fee(tx, r.prevouts, l.max_network_fee_sat)) :
                 tx \in {t \in DecodeUnsigned(r.raw) :
                           /\ ValidListing(l)
                           /\ r.list_request.listing = l
                           /\ \E v \in WalletVerifyList(r.list_request, height) :
                                 r.order_outpoint = CanonicalOrder(v)
                           /\ height < l.expiry_height
                           /\ height <= r.proposal_expiry_height
                           /\ r.proposal_expiry_height <= l.expiry_height
                           /\ VerifyBuyer(r)
                           /\ ValidHeader(t)
                           /\ SpendsFirst(t, r.prevouts, r.order_outpoint, OrderTxOut(l))
                           /\ CommonInputs(t, r.prevouts)
                           /\ Len(t.outputs) \in {3, 4}
                           /\ Pays(t.outputs[1], l.receipt.item_sat_amount, buyerScript)
                           /\ Pays(t.outputs[2], l.price_sat, l.seller_payout_script)
                           /\ Pays(t.outputs[3], l.creator_fee_sat, l.creator_fee_script)
                           /\ Len(t.outputs) = 4 => t.outputs[4].script = buyerScript}}

WalletVerifyCancel(r, height) ==
    LET l == r.listing
    IN  UNION {Verified("Cancel", l, tx, r.prevouts, r.order_outpoint,
                        Fee(tx, r.prevouts, l.max_network_fee_sat)) :
                 tx \in {t \in DecodeUnsigned(r.raw) :
                           /\ ValidListing(l)
                           /\ r.list_request.listing = l
                           /\ \E v \in WalletVerifyList(r.list_request, l.expiry_height - 1) :
                                 r.order_outpoint = CanonicalOrder(v)
                           /\ height >= l.expiry_height
                           /\ CancelHeader(t, l)
                           /\ SpendsFirst(t, r.prevouts, r.order_outpoint, OrderTxOut(l))
                           /\ CommonInputs(t, r.prevouts)
                           /\ Len(t.outputs) \in {1, 2}
                           /\ Pays(t.outputs[1], l.receipt.item_sat_amount, l.cancel_script)
                           /\ Len(t.outputs) = 2 => t.outputs[2].script = l.cancel_script}}

WalletVerify(r, height) ==
    CASE r.path = "List" -> WalletVerifyList(r, height)
      [] r.path = "Buy" -> WalletVerifyBuy(r, height)
      [] r.path = "Cancel" -> WalletVerifyCancel(r, height)
      [] OTHER -> {}

(***************************************************************************)
(* Review of an ordinary key-path spend                                     *)
(***************************************************************************)
IsP2tr(script) == script.p2tr

Warnings(tx) ==
    {w \in {"non_v2_transaction", "absolute_lock_time", "replaceable", "unknown_output_script"} :
        \/ w = "non_v2_transaction" /\ tx.version # 2
        \/ w = "absolute_lock_time" /\ tx.lock_time # 0
        \/ w = "replaceable" /\ \E i \in DOMAIN tx.inputs : ~tx.inputs[i].final
        \/ w = "unknown_output_script" /\ \E i \in DOMAIN tx.outputs : ~IsP2tr(tx.outputs[i].script)}

InspectTransaction(r) ==
    {[txid |-> tx.id,
      sighash |-> [txid |-> tx.id, prevouts |-> r.prevouts, leaf |-> {}, input |-> r.input_index],
      fee_sat |-> OutputSum(r.prevouts) - OutputSum(tx.outputs), warnings |-> Warnings(tx)] :
        tx \in {t \in DecodeUnsigned(r.raw) :
                  /\ t.inputs # <<>> /\ t.outputs # <<>>
                  /\ Len(r.prevouts) = Len(t.inputs)
                  /\ r.input_index \in DOMAIN t.inputs
                  /\ IsInjective([i \in DOMAIN t.inputs |-> t.inputs[i].prev])
                  /\ r.prevout_outpoints = [i \in DOMAIN t.inputs |-> t.inputs[i].prev]
                  /\ IsP2tr(r.prevouts[r.input_index].script)
                  /\ OutputSum(r.prevouts) <= MaxU64 /\ OutputSum(t.outputs) <= MaxU64
                  /\ OutputSum(t.outputs) <= OutputSum(r.prevouts)
                  /\ OutputSum(r.prevouts) - OutputSum(t.outputs) <= r.max_fee_sat}}

(***************************************************************************)
(* The wallet node                                                          *)
(***************************************************************************)
IsTrade(name) == Requests[name].path # "Spend"

\* What the wallet agrees to sign, and at which heights.
WalletReviews ==
    {p \in Names \X (BaseHeight..MaxHeight) :
       IF IsTrade(p[1]) THEN \E v \in WalletVerify(Requests[p[1]], p[2]) : v.seller_key = GroupKey
       ELSE InspectTransaction(Requests[p[1]]) # {}}

\* A trade is reviewed against the snapshot height, an ordinary spend without one.
WalletReview(name) ==
    \E h \in (IF IsTrade(name) THEN snapshot ELSE {BaseHeight}) : <<name, h>> \in WalletReviews

CreateTradeIntent(name) ==
    /\ IsTrade(name)
    /\ name \notin DOMAIN phase /\ Cardinality(DOMAIN phase) < MaxIntents
    /\ WalletReview(name)
    /\ phase' = [n \in DOMAIN phase \cup {name} |-> IF n = name THEN "pending" ELSE phase[n]]
    /\ held' = held \cup {name}
    /\ UNCHANGED <<blocks, snapshot, granted, signed, tracker, reorgs, restarts, opaque>>

CreateTransactionIntent(name) ==
    /\ ~IsTrade(name)
    /\ name \notin DOMAIN phase /\ Cardinality(DOMAIN phase) < MaxIntents
    /\ WalletReview(name)
    /\ phase' = [n \in DOMAIN phase \cup {name} |-> IF n = name THEN "pending" ELSE phase[n]]
    /\ held' = held \cup {name}
    /\ UNCHANGED <<blocks, snapshot, granted, signed, tracker, reorgs, restarts, opaque>>

\* The low-level route takes a digest the caller chose and nothing to review.
CreateIntent(name) ==
    /\ name \in Digests
    /\ name \notin DOMAIN phase /\ Cardinality(DOMAIN phase) < MaxIntents
    /\ phase' = [n \in DOMAIN phase \cup {name} |-> IF n = name THEN "pending" ELSE phase[n]]
    /\ held' = held \cup {name}
    /\ opaque' = opaque \cup {name}
    /\ UNCHANGED <<blocks, snapshot, granted, signed, tracker, reorgs, restarts>>

\* Repeats the wallet's own review at the latest snapshot, for an intent that
\* has a request to review; one recovered after a restart is refused.
ApprovalStart(name) ==
    /\ phase[name] = "pending"
    /\ name \in held
    /\ name \notin opaque => WalletReview(name)
    /\ phase' = [phase EXCEPT ![name] = "started"]
    /\ UNCHANGED <<blocks, snapshot, held, granted, signed, tracker, reorgs, restarts, opaque>>

ApprovalFinish(name) ==
    /\ phase[name] = "started"
    /\ phase' = [phase EXCEPT ![name] = "approved"]
    /\ granted' = granted \cup {name}
    /\ UNCHANGED <<blocks, snapshot, held, signed, tracker, reorgs, restarts, opaque>>

\* The digest was fixed when the intent was created.
IntentDigest(name) ==
    LET r == Requests[name]
    IN  IF IsTrade(name) THEN Sighash(r.raw.tx, r.prevouts, LeafOf(r.path, r.listing))
        ELSE [txid |-> r.raw.tx.id, prevouts |-> r.prevouts, leaf |-> {},
              input |-> r.input_index]

SignIntent(name) ==
    /\ phase[name] = "approved"
    /\ name \in granted
    /\ signed' = signed \cup {name}
    /\ phase' = [phase EXCEPT ![name] = "signed"]
    /\ granted' = granted \ {name}
    /\ UNCHANGED <<blocks, snapshot, held, tracker, reorgs, restarts, opaque>>

CancelTradeIntent(name) ==
    /\ phase[name] \in {"pending", "started"}
    /\ phase' = [phase EXCEPT ![name] = "cancelled"]
    /\ held' = held \ {name}
    /\ granted' = granted \ {name}
    /\ UNCHANGED <<blocks, snapshot, signed, tracker, reorgs, restarts, opaque>>

\* Requests and authorizations are memory only; a started ceremony is dropped.
RestartNode ==
    /\ restarts < MaxRestarts
    /\ restarts' = restarts + 1
    /\ held' = {}
    /\ granted' = {}
    /\ snapshot' = {}
    /\ phase' = [n \in DOMAIN phase |-> IF phase[n] = "started" THEN "pending" ELSE phase[n]]
    /\ UNCHANGED <<blocks, signed, tracker, reorgs, opaque>>

Height == BaseHeight + Len(blocks)

\* A node that is not on Signet with OP_CAT active gives no trading height.
SetNodeSnapshot ==
    \E s \in {{}, {Height}} :
        /\ s # snapshot
        /\ snapshot' = s
        /\ UNCHANGED <<blocks, phase, held, granted, signed, tracker, reorgs, restarts, opaque>>

(***************************************************************************)
(* The final transaction                                                    *)
(***************************************************************************)
\* The witness of the first input: a signature, and for a leaf its script
\* and control block.
ApplyTradeSignature(v, signature) ==
    [txid |-> v.txid, inputs |-> Len(v.transaction.inputs),
     witness |-> <<signature>> \o AsSeq(v.witness_script)]

VerifyFinalized(final, v) ==
    /\ final.txid = v.txid
    /\ final.inputs = Len(v.transaction.inputs)
    /\ Len(final.witness) = (IF v.path = "List" THEN 1 ELSE 2)
    /\ Tail(final.witness) = AsSeq(v.witness_script)
    /\ final.witness[1] = [key |-> v.seller_key, sighash |-> v.sighash]

(***************************************************************************)
(* Competing candidates for one order output                                *)
(***************************************************************************)
ConfirmedCandidates == {t \in DOMAIN tracker : tracker[t].status = "confirmed"}

Submit(txid, kind) ==
    /\ txid \notin DOMAIN tracker
    /\ tracker' = [t \in DOMAIN tracker \cup {txid} |->
                     IF t # txid THEN tracker[t]
                     ELSE [kind |-> kind, winner |-> ConfirmedCandidates,
                           status |-> IF ConfirmedCandidates = {} THEN "submitted"
                                      ELSE "conflicted"]]

\* A candidate is a verified trade whose signed form passed verify_finalized.
Candidates ==
    {p \in Names \X (BaseHeight..MaxHeight) :
       \E v \in AgentVerify(Requests[p[1]], p[2]) :
          /\ v.path \in {"Buy", "Cancel"}
          /\ VerifyFinalized(ApplyTradeSignature(v, [key |-> GroupKey,
                                                     sighash |-> IntentDigest(p[1])]), v)}

SubmitVerified(name) ==
    /\ phase[name] = "signed"
    /\ \E h \in snapshot : <<name, h>> \in Candidates
    /\ Submit(Requests[name].raw.tx.id, Requests[name].path)
    /\ UNCHANGED <<blocks, snapshot, phase, held, granted, signed, reorgs, restarts, opaque>>

MarkPending(txid) ==
    /\ txid \in DOMAIN tracker
    /\ tracker[txid].status = "submitted"
    /\ tracker' = [tracker EXCEPT ![txid].status = "pending"]
    /\ UNCHANGED <<blocks, snapshot, phase, held, granted, signed, reorgs, restarts, opaque>>

\* The observer reports a transaction it sees in a block.
ConfirmCandidate(txid) ==
    /\ txid \in DOMAIN tracker
    /\ tracker[txid].status \in {"submitted", "pending"}
    /\ \E i \in DOMAIN blocks : blocks[i] # 0 /\ Requests[blocks[i]].raw.tx.id = txid
    /\ tracker' = [t \in DOMAIN tracker |->
                     [tracker[t] EXCEPT !.status = IF t = txid THEN "confirmed" ELSE "conflicted",
                                        !.winner = {txid}]]
    /\ UNCHANGED <<blocks, snapshot, phase, held, granted, signed, reorgs, restarts, opaque>>

(***************************************************************************)
(* The chain: outputs, the consensus rules a spend must meet, blocks of at  *)
(* most one of these transactions, and reorganisations of the last block.   *)
(***************************************************************************)
Mined == Range(blocks) \ {0}

Tx(name) == Requests[name].raw.tx

Reviewed == {n \in Names : \E h \in BaseHeight..MaxHeight : <<n, h>> \in WalletReviews}

\* An output has a value and a script; a transaction id is a hash of the
\* transaction; no listing is paid to by the group's own key.
ASSUME TradingAssumption ==
    /\ 0 \notin Names /\ Digests \subseteq Names /\ {BaseHeight, MaxHeight} \subseteq Nat
    /\ \A n \in Names :
         /\ Tx(n).outputs \in Seq(Range(Tx(n).outputs))
         /\ \A out \in Range(Tx(n).outputs) : out = [value |-> out.value, script |-> out.script]
         /\ Tx(n).lock_time \in Nat
         /\ IsTrade(n) => /\ Requests[n].listing.expiry_height \in Nat
                          /\ P2trOutputScript(GroupKey) # ListingOutputScript(Requests[n].listing)
         /\ \A m \in Names : Tx(n).id = Tx(m).id => Tx(n) = Tx(m)
         /\ \A o \in DOMAIN BaseOutputs : o[1] # Tx(n).id

Spent == UNION {{Tx(n).inputs[i].prev : i \in DOMAIN Tx(n).inputs} : n \in Mined}

OutputAt(outpoint) ==
    {BaseOutputs[o] : o \in {outpoint} \cap DOMAIN BaseOutputs}
      \cup UNION {{Tx(n).outputs[i] : i \in {k \in DOMAIN Tx(n).outputs :
                                                outpoint = <<Tx(n).id, k>>}} : n \in Mined}

SpendRule(name, output) ==
    LET r == Requests[name]
        leaf == IF IsTrade(name) THEN LeafOf(r.path, r.listing) ELSE {}
    IN  IF leaf = {} THEN output.script = P2trOutputScript(GroupKey)
        ELSE \E l \in leaf : /\ l.key = GroupKey
                             /\ output.script = ListingOutputScript(l.commitment)
                             /\ l.leaf = "cancel" => /\ Tx(name).lock_time < LockTimeThreshold
                                                     /\ Tx(name).lock_time >= l.after
                                                     /\ ~Tx(name).inputs[1].final

\* The input the group signs.
OwnInput(name) == IF IsTrade(name) THEN 1 ELSE Requests[name].input_index

\* An output only a signature of the group can spend, through a leaf.
GroupOrder(output) ==
    \E n \in Names : /\ IsTrade(n) /\ Requests[n].listing.seller_key = GroupKey
                     /\ output.script = ListingOutputScript(Requests[n].listing)

\* Input i of the transaction has a signature of the group that is valid for
\* the output it spends.
SignedInput(name, i) ==
    \E m \in signed : /\ Tx(m).id = Tx(name).id /\ Requests[m].prevouts = Requests[name].prevouts
                      /\ OwnInput(m) = i /\ SpendRule(m, Requests[m].prevouts[i])

\* Inputs that are not the group's are signed by others.
ConsensusValid(name) ==
    LET r == Requests[name]
        inputs == Tx(name).inputs
    IN  /\ name \in signed
        /\ Len(inputs) = Len(r.prevouts) /\ OwnInput(name) \in DOMAIN inputs
        /\ \A i \in DOMAIN inputs :
              /\ inputs[i].prev \notin Spent
              /\ \A k \in DOMAIN inputs \ {i} : inputs[k].prev # inputs[i].prev
              /\ OutputAt(inputs[i].prev) = {r.prevouts[i]}
              /\ i = OwnInput(name) \/ GroupOrder(r.prevouts[i]) => SignedInput(name, i)
        /\ Tx(name).lock_time <= Height
        /\ OutputSum(Tx(name).outputs) <= OutputSum(r.prevouts)

MineBlock(name) ==
    /\ Height < MaxHeight
    /\ name # 0 => ConsensusValid(name)
    /\ blocks' = Append(blocks, name)
    /\ UNCHANGED <<snapshot, phase, held, granted, signed, tracker, reorgs, restarts, opaque>>

DisconnectBlock ==
    /\ blocks # <<>> /\ reorgs < MaxReorgs
    /\ blocks' = SubSeq(blocks, 1, Len(blocks) - 1)
    /\ reorgs' = reorgs + 1
    /\ UNCHANGED <<snapshot, phase, held, granted, signed, tracker, restarts, opaque>>

TradingInit ==
    /\ blocks = <<>> /\ snapshot = {} /\ phase = <<>>
    /\ held = {} /\ opaque = {} /\ granted = {} /\ signed = {} /\ tracker = <<>>
    /\ reorgs = 0 /\ restarts = 0

TradingNext ==
    \/ \E n \in Names : CreateTradeIntent(n) \/ CreateTransactionIntent(n) \/ CreateIntent(n)
    \/ \E n \in DOMAIN phase : \/ ApprovalStart(n) \/ ApprovalFinish(n) \/ SignIntent(n)
                               \/ CancelTradeIntent(n) \/ SubmitVerified(n)
    \/ \E t \in DOMAIN tracker : MarkPending(t) \/ ConfirmCandidate(t)
    \/ \E n \in signed \cup {0} : MineBlock(n)
    \/ SetNodeSnapshot \/ RestartNode \/ DisconnectBlock

TradingSpec == TradingInit /\ [][TradingNext]_tradingVars

(***************************************************************************)
(* Properties                                                               *)
(***************************************************************************)
\* Heights at which some request is judged differently.
Disagreements ==
    UNION {{h : n \in {m \in Names : AgentVerify(Requests[m], h) # WalletVerify(Requests[m], h)}} :
             h \in BaseHeight..MaxHeight}

\* The agent's and the wallet's independently written verifiers accept the
\* same requests at every height and derive the same trade (trading/lib.rs
\* AgentTradingApi::verify, WalletTradingApi::verify).
VerifiersAgree == Height \notin Disagreements

\* A digest of the transaction was approved and signed without a review.
SignedUnreviewed(name) == \E m \in signed \cap opaque : Tx(m).id = Tx(name).id

\* The mined listings whose first output is the group's order.
Orders ==
    {n \in Mined : /\ Requests[n].path = "List" /\ Requests[n].listing.seller_key = GroupKey
                   /\ Tx(n).outputs[1] = OrderTxOut(Requests[n].listing)}

\* Whatever mix of approvals, restarts, stale snapshots and reorganisations
\* happened, an order output is spent on chain only by a transaction that pays
\* the seller and the creator in full and hands the item to a buyer, or that
\* returns the item to the seller's cancel script no earlier than the expiry
\* height, unless the user approved a bare digest of the spending transaction
\* (README.md line 33; trading/lib.rs verify_buy, verify_cancel;
\* docs/wallet-node.md lines 71 to 77 on the low-level route).
OrderSpentByPolicy ==
    \A i \in DOMAIN blocks :
        blocks[i] # 0 /\ ~SignedUnreviewed(blocks[i]) =>
          \A j \in DOMAIN Tx(blocks[i]).inputs : \A n \in Orders :
              Tx(blocks[i]).inputs[j].prev = <<Tx(n).id, 1>> =>
                LET l == Requests[n].listing
                    out == Tx(blocks[i]).outputs
                IN  \/ /\ Len(out) >= 3
                       /\ out[2] = [value |-> l.price_sat, script |-> l.seller_payout_script]
                       /\ out[3] = [value |-> l.creator_fee_sat, script |-> l.creator_fee_script]
                       /\ out[1].value = l.receipt.item_sat_amount
                    \/ /\ \A k \in DOMAIN out : out[k].script = l.cancel_script
                       /\ BaseHeight + i - 1 >= l.expiry_height
=============================================================================
