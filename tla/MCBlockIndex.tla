---------------------------- MODULE MCBlockIndex ----------------------------
(***************************************************************************)
(* A tree of blocks over two branches that confirm the same issuance and    *)
(* the same mint at different heights, with blocks the index refuses.       *)
(***************************************************************************)
EXTENDS BlockIndex

CONSTANTS o1, o2

IndexTerms == [item |-> "item", target_prefix |-> 1, total_supply |-> 3,
            successor_rule |-> Sharded, lane_count |-> 2, salt |-> 7]

OtherScript == [template |-> "other", state |-> 0]
KeySpend == [len |-> 1, script |-> OtherScript]
In(prev, witness) == [prev |-> prev, witness |-> witness]
Out(value, key) == [value |-> value, script |-> P2trOutputScript(key)]
Coinbase(id) == [id |-> id, inputs |-> <<In(NullOutPoint, KeySpend)>>,
                 outputs |-> <<Out(20, o1)>>]

State(lane) == CHOOSE s \in InitialState(IndexTerms, lane) : TRUE
Next1 == CHOOSE s \in Successor(State(0)).next : TRUE
Nonce(state, owner, payload) ==
    CHOOSE n \in FindNonce(state, ItemCommitment(state.terms_hash, state.lane, state.seq,
                                                 owner, payload)) : TRUE
Witnessed(state, owner) == MintWitness(state, owner, "p", Nonce(state, owner, "p"))
IssuerOut(state, value) == [value |-> value, script |-> CanonicalIssuerSpk(state)]

Issue(id, funding) == BuildIssuanceTx(id, In(funding, KeySpend), IndexTerms, 8)
Mint(id, prev, state, value, successor) ==
    CHOOSE t \in BuildMintTx(id, prev, IssuerOut(state, value), Witnessed(state, o1), 1,
                             successor) : TRUE

Issued == Issue("issue", <<"cb0", 1>>)
Mint0 == Mint("mint0", <<"issue", 1>>, State(0), 8, <<IssuerOut(Next1, 5)>>)
Mint1 == Mint("mint1", <<"mint0", 2>>, Next1, 5, <<>>)
MintLane1 == Mint("lane1", <<"issue", 2>>, State(1), 8, <<>>)
\* Reveals the issuer leaf without doing the work.
Unworked == [Mint("unworked", <<"issue", 2>>, State(1), 8, <<>>)
               EXCEPT !.inputs[1].witness.nonce = 0]
Moved == [id |-> "moved", inputs |-> <<In(<<"mint0", 1>>, KeySpend)>>, outputs |-> <<Out(1, o2)>>]
Twice == [id |-> "twice", inputs |-> <<In(<<"cb0", 1>>, KeySpend), In(<<"cb0", 1>>, KeySpend)>>,
          outputs |-> <<Out(30, o2)>>]
\* The same terms issued a second time.
Reissued == Issue("reissue", <<"cbb1", 1>>)
Remint == Mint("remint", <<"reissue", 1>>, State(0), 8, <<IssuerOut(Next1, 5)>>)

B(hash, prev, txs) == [hash |-> hash, prev |-> prev, txs |-> <<Coinbase("cb" \o hash)>> \o txs]
Genesis == [hash |-> "g", prev |-> ZeroHash, txs |-> <<Coinbase("cb0")>>]

IndexedBlocks ==
    {Genesis,
     B("a1", "g", <<Issued, Mint0>>),
     B("a2", "a1", <<Mint1, MintLane1>>),
     B("b1", "g", <<Issued>>),
     B("b2", "b1", <<Mint0, Moved, Unworked>>),
     B("c2", "b1", <<Mint0, Reissued, Remint>>),
     B("double", "a1", <<MintLane1, Unworked>>),
     B("again", "a1", <<Issued>>),
     B("twice", "g", <<Twice>>)}
MCBlocks == LET all == IndexedBlocks IN all
MCConfigTerms == {IndexTerms}
MCHeights == 0..2
=============================================================================
