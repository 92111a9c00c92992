----------------------------- MODULE MCTrading -----------------------------
(***************************************************************************)
(* One minted item, one listing, its buy and cancel transactions and an     *)
(* ordinary spend of the item, with the near misses of each.                *)
(***************************************************************************)
EXTENDS Trading, TLC

CONSTANTS group, buyer, payout, creator, other

MCTerms == [item |-> "item", target_prefix |-> 1, total_supply |-> 2,
            successor_rule |-> Recursive, lane_count |-> 1, salt |-> 7]
MCState == CHOOSE s \in InitialState(MCTerms, 0) : TRUE
MCNext == CHOOSE s \in Successor(MCState).next : TRUE
MCNonce == CHOOSE n \in FindNonce(MCState, ItemCommitment(TermsHash(MCTerms), 0, 0, group, "p")) : TRUE
Issuer(state, value) == [value |-> value, script |-> CanonicalIssuerSpk(state)]
MCMint == CHOOSE t \in BuildMintTx("mint", <<"issue", 1>>, Issuer(MCState, 9),
                                   MintWitness(MCState, group, "p", MCNonce), 2,
                                   <<Issuer(MCNext, 5)>>) : TRUE
MCProof == [mint_tx |-> MCMint, issuer_outpoint |-> <<"issue", 1>>,
            issuer_utxo |-> Issuer(MCState, 9), terms |-> MCTerms]
MCReceipt == [outpoint |-> <<"mint", 1>>, script_pubkey |-> ItemOwnerScript(group),
              item_sat_amount |-> 2, terms_hash |-> TermsHash(MCTerms), item_id |-> "item",
              item_commitment |-> ItemCommitment(TermsHash(MCTerms), 0, 0, group, "p"),
              lane |-> 0, sequence |-> 0]

Pay(value, key) == [value |-> value, script |-> P2trOutputScript(key)]
TradeOutputs ==
    <<"mint", 1>> :> Pay(2, group) @@ <<"fund", 1>> :> Pay(3, group)
      @@ <<"fund", 2>> :> Pay(9, buyer) @@ <<"fund", 3>> :> Pay(3, group)
MCBaseOutputs == LET all == TradeOutputs IN all

MCListing ==
    [protocol_version |-> 1, receipt |-> MCReceipt, seller_key |-> group,
     seller_payout_script |-> P2trOutputScript(payout), price_sat |-> 4,
     creator_fee_script |-> P2trOutputScript(creator), creator_fee_sat |-> 1,
     cancel_script |-> P2trOutputScript(group), empty_script |-> FALSE,
     expiry_height |-> 2, max_network_fee_sat |-> 2]

Raw(id, lock, final, prevs, outputs) ==
    [canonical |-> TRUE,
     tx |-> [id |-> id, version |-> 2, lock_time |-> lock,
             inputs |-> [i \in DOMAIN prevs |-> [prev |-> prevs[i], final |-> final, signed |-> FALSE]],
             outputs |-> outputs]]

ListReq(id, l) ==
    [path |-> "List", listing |-> l, issuance_proof |-> MCProof,
     raw |-> Raw(id, 0, TRUE, <<<<"mint", 1>>, <<"fund", 1>>>>, <<OrderTxOut(l), Pay(2, group)>>),
     prevouts |-> <<Pay(2, group), Pay(3, group)>>]
MCList == ListReq("list", MCListing)

Signed(r) == [r EXCEPT !.buyer_ownership_signature = <<r.buyer_key, BuyerOwnershipMessage(r)>>]
BuyReq(id, outputs) ==
    Signed([path |-> "Buy", listing |-> MCListing, list_request |-> MCList,
            order_outpoint |-> <<"list", 1>>, buyer_key |-> buyer, proposal_expiry_height |-> 1,
            raw |-> Raw(id, 0, TRUE, <<<<"list", 1>>, <<"fund", 2>>>>, outputs),
            prevouts |-> <<OrderTxOut(MCListing), Pay(9, buyer)>>,
            buyer_ownership_signature |-> 0])
MCBuy == BuyReq("buy", <<Pay(2, buyer), Pay(4, payout), Pay(1, creator), Pay(3, buyer)>>)

CancelReq(id, lock, outputs) ==
    [path |-> "Cancel", listing |-> MCListing, list_request |-> MCList,
     order_outpoint |-> <<"list", 1>>,
     raw |-> Raw(id, lock, FALSE, <<<<"list", 1>>, <<"fund", 3>>>>, outputs),
     prevouts |-> <<OrderTxOut(MCListing), Pay(3, group)>>]
MCCancel == CancelReq("cancel", 2, <<Pay(2, group), Pay(2, group)>>)

SpendReq(id, index) ==
    [path |-> "Spend", raw |-> Raw(id, 0, TRUE, <<<<"mint", 1>>, <<"fund", 3>>>>, <<Pay(4, other)>>),
     prevouts |-> <<Pay(2, group), Pay(3, group)>>,
     prevout_outpoints |-> <<<<"mint", 1>>, <<"fund", 3>>>>, input_index |-> index, max_fee_sat |-> 1]
MCSpend == SpendReq("spend", 1)
\* An ordinary review of a transaction that spends the order output.
MCSpendOrder ==
    [SpendReq("spendOrder", 1)
       EXCEPT !.raw.tx.inputs[1].prev = <<"list", 1>>, !.prevout_outpoints[1] = <<"list", 1>>,
              !.prevouts[1] = OrderTxOut(MCListing)]

OneLess(r, k) == [r EXCEPT !.raw.tx.outputs[k].value = @ - 1]
Elsewhere(r, k) == [r EXCEPT !.raw.tx.outputs[k].script = P2trOutputScript(other)]

NearMisses ==
    <<[MCList EXCEPT !.raw.canonical = FALSE], [MCList EXCEPT !.raw.tx.inputs[2].signed = TRUE],
      [MCList EXCEPT !.raw.tx.version = 1], [MCList EXCEPT !.raw.tx.lock_time = 1],
      [MCList EXCEPT !.raw.tx.inputs[2].prev = <<"mint", 1>>],
      [MCList EXCEPT !.prevouts = <<Pay(2, group)>>], [MCList EXCEPT !.prevouts[1] = Pay(3, group)],
      [MCList EXCEPT !.issuance_proof.issuer_utxo.value = 7],
      Elsewhere(MCList, 1), Elsewhere(MCList, 2), OneLess(MCList, 1),
      ListReq("x", [MCListing EXCEPT !.price_sat = 0]),
      ListReq("x", [MCListing EXCEPT !.expiry_height = LockTimeThreshold]),
      ListReq("x", [MCListing EXCEPT !.seller_payout_script = P2trOutputScript(creator)]),
      ListReq("x", [MCListing EXCEPT !.seller_key = other]),
      ListReq("x", [MCListing EXCEPT !.receipt.sequence = 1]),
      OneLess(MCBuy, 1), OneLess(MCBuy, 3), Elsewhere(MCBuy, 1),
      Elsewhere(MCBuy, 2), Elsewhere(MCBuy, 3), Elsewhere(MCBuy, 4),
      [MCBuy EXCEPT !.order_outpoint = <<"list", 2>>],
      Signed([MCBuy EXCEPT !.proposal_expiry_height = 3]),
      [MCBuy EXCEPT !.buyer_key = other], [MCBuy EXCEPT !.raw.tx.outputs[4].value = 20],
      [MCBuy EXCEPT !.list_request.raw.canonical = FALSE],
      BuyReq("b3", <<Pay(2, buyer), Pay(4, payout)>>),
      CancelReq("c1", 1, <<Pay(2, group), Pay(2, group)>>), Elsewhere(MCCancel, 1),
      Elsewhere(MCCancel, 2), OneLess(MCCancel, 1), CancelReq("c2", 2, <<Pay(4, group)>>),
      [MCCancel EXCEPT !.raw.tx.inputs[2].final = TRUE],
      [MCSpend EXCEPT !.max_fee_sat = 0], [MCSpend EXCEPT !.input_index = 3],
      [MCSpend EXCEPT !.prevout_outpoints[1] = <<"fund", 1>>],
      [MCSpend EXCEPT !.raw.tx.outputs[1].value = 6]>>

\* A near miss is another transaction, so its id is another one too.
Renamed(r, id) ==
    LET miss == [r EXCEPT !.raw.tx.id = id]
    IN IF r.path = "Buy" /\ VerifyBuyer(r) THEN Signed(miss) ELSE miss
Misses ==
    LET near == NearMisses
    IN [k \in DOMAIN near |-> Renamed(near[k], ToString(k))]

\* The buyer and the seller prefer another split of the same inputs.
MCUnderpaid == BuyReq("underpaid", <<Pay(2, buyer), Pay(3, payout), Pay(1, creator), Pay(4, buyer)>>)

TradeRequests ==
    <<MCList, MCBuy, MCUnderpaid, MCCancel, MCSpendOrder>> \o Misses
MCRequests == LET all == TradeRequests IN all
\* The underpaid sale may also be sent as a bare digest.
MCDigests == {3}
=============================================================================
