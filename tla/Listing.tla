------------------------------ MODULE Listing ------------------------------
(***************************************************************************)
(* Fixed-price listings of crates/trading: the receipt of a minted item,    *)
(* the listing terms and the scripts and outputs derived from them.         *)
(* Scripts and hashes are injective constructors.                           *)
(***************************************************************************)
EXTENDS Issuance

CONSTANT LockTimeThreshold   \* first lock time that is not a height

(***************************************************************************)
(* Receipts and listings                                                    *)
(***************************************************************************)
ReceiptTxOut(receipt) ==
    [value |-> receipt.item_sat_amount, script |-> receipt.script_pubkey]

ReceiptFromVerifiedMint(tx, verified, terms) ==
    {r \in {[outpoint |-> <<tx.id, verified.item>>,
             script_pubkey |-> tx.outputs[verified.item].script,
             item_sat_amount |-> tx.outputs[verified.item].value,
             terms_hash |-> verified.state.terms_hash, item_id |-> terms.item,
             item_commitment |-> verified.witness.item_commitment,
             lane |-> verified.state.lane, sequence |-> verified.state.seq]} :
        r.terms_hash = TermsHash(terms)}

ValidListing(l) ==
    /\ l.protocol_version = 1
    /\ l.receipt.item_sat_amount # 0 /\ l.price_sat # 0 /\ l.creator_fee_sat # 0
    /\ l.expiry_height # 0 /\ l.expiry_height < LockTimeThreshold
    /\ l.max_network_fee_sat # 0
    /\ ~l.empty_script
    /\ l.seller_payout_script # l.creator_fee_script
    /\ l.receipt.script_pubkey = ItemOwnerScript(l.seller_key)

\* The canonical bytes hold every field.
Commitment(listing) == listing

BuyLeaf(listing) ==
    [leaf |-> "buy", after |-> 0, commitment |-> Commitment(listing),
     key |-> listing.seller_key]

CancelLeaf(listing) ==
    [leaf |-> "cancel", after |-> listing.expiry_height,
     commitment |-> Commitment(listing), key |-> listing.seller_key]

\* The internal key has no known secret: only a leaf can spend the output.
ListingOutputScript(listing) ==
    P2trOutputScript([internal |-> "nums", leaves |-> {BuyLeaf(listing), CancelLeaf(listing)}])

OrderTxOut(listing) ==
    [value |-> listing.receipt.item_sat_amount, script |-> ListingOutputScript(listing)]
=============================================================================
