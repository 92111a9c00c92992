-------------------------- MODULE MCReviewedSigning -------------------------
(* A small instance of ReviewedSigning: two keys, each used on several      *)
(* chains and networks, and spends that differ in one output or one input. *)
EXTENDS ReviewedSigning

Suite(chain, network, key, alg, epoch) ==
    [scope |-> <<chain, network>>, key |-> key, alg |-> alg, type |-> 65,
     signers |-> "set", epoch |-> epoch]

SuiteAccounts ==
    << Suite("bitcoin", "signet", "k1", "bip340", 1),
       Suite("fractal-bitcoin", "regtest", "k1", "bip340", 1),
       Suite("fractal-bitcoin", "regtest", "k1", "bip340", 2),
       Suite("fractal-bitcoin", "testnet3", "k1", "bip340", 1),
       Suite("bitcoin", "mainnet", "k1", "bip340", 1),
       Suite("bitcoin-cash", "chipnet", "k2", "ecdsa", 1),
       Suite("bitcoin-cash", "mainnet", "k2", "bch-schnorr", 1),
       Suite("bsv", "testnet", "k2", "ecdsa", 1),
       Suite("kaspa", "testnet10", "k2", "ecdsa-cb-mpc", 1),
       Suite("kaspa", "testnet10", "k1", "bip340", 1) >>
MCAccounts == LET all == SuiteAccounts IN all

In(p) == [prev |-> p, sequence |-> 1, signed |-> FALSE]
Out(p) == [pay |-> p, value |-> 2]
MCTx == << [inputs |-> <<In("a"), In("b")>>, outputs |-> <<Out("x"), Out("y")>>, lock |-> 0],
           [inputs |-> <<In("a"), In("b")>>, outputs |-> <<Out("x"), Out("z")>>, lock |-> 0],
           [inputs |-> <<In("a"), In("c")>>, outputs |-> <<Out("x"), Out("y")>>, lock |-> 0],
           [inputs |-> <<In("a"), In("b")>>, outputs |-> <<>>, lock |-> 0] >>

Coin(kind, key) == [kind |-> kind, key |-> key, value |-> 3]

Material(format, scope, schema, t, type, coins) ==
    [format |-> format, form |-> "exact", txForm |-> "exact", schema |-> schema, size |-> 1,
     scope |-> scope, tx |-> MCTx[t], index |-> 1, prevouts |-> coins, type |-> type]

Taproot(network, t, type) ==
    Material("taproot", network, 1, t, type, <<Coin("p2tr", "k1"), Coin("p2tr", "k1")>>)
Fork(format, scope, t, type) ==
    Material(format, scope, 1, t, type, <<Coin("p2pkh", "k2")>>)
Kaspa(t, type, kind, key) ==
    Material("kaspa", <<"kaspa", "testnet10">>, 2, t, type, <<Coin(kind, key), Coin(kind, key)>>)

Signet == <<"bitcoin", "signet">>
Regtest == <<"fractal-bitcoin", "regtest">>
Testnet3 == <<"fractal-bitcoin", "testnet3">>
Chipnet == <<"bitcoin-cash", "chipnet">>
Mainnet == <<"bitcoin-cash", "mainnet">>
BsvTest == <<"bsv", "testnet">>

SpendMaterials ==
    << Taproot(Signet, 1, 0), Taproot(Signet, 2, 1), Taproot(Signet, 1, 3), Taproot(Signet, 2, 3),
       Taproot(Signet, 1, 130), Taproot(Signet, 3, 129), Taproot(Signet, 4, 3),
       Taproot(Regtest, 1, 0), Taproot(Regtest, 2, 0), Taproot(Regtest, 1, 3),
       Taproot(Testnet3, 1, 0), Taproot(<<"bitcoin", "mainnet">>, 1, 0),
       [Taproot(Regtest, 1, 0) EXCEPT !.form = "loose"],
       [Taproot(Regtest, 1, 0) EXCEPT !.tx.inputs[2].signed = TRUE],
       Fork("bchr", Chipnet, 1, 65), Fork("bchr", Chipnet, 2, 65), Fork("bchr", Chipnet, 1, 67),
       Fork("bchr", Chipnet, 2, 65 + 256),
       Fork("bchr", Mainnet, 1, 65), Fork("bchr", Mainnet, 3, 65), Fork("bchr", Mainnet, 4, 67),
       Fork("bsv", BsvTest, 1, 65), Fork("bsv", BsvTest, 2, 65), Fork("bsv", BsvTest, 1, 67),
       Fork("bsv", BsvTest, 2, 67), [Fork("bsv", BsvTest, 1, 65) EXCEPT !.form = "loose"],
       [Fork("bsv", BsvTest, 1, 65) EXCEPT !.size = 2],
       Kaspa(1, 1, "p2pk-ecdsa", "k2"), Kaspa(2, 4, "p2pk-ecdsa", "k2"),
       Kaspa(1, 4, "p2pk-ecdsa", "k2"), Kaspa(4, 4, "p2pk-ecdsa", "k2"),
       Kaspa(1, 1, "p2pk", "k1"), Kaspa(3, 130, "p2pk", "k1"),
       [Kaspa(1, 1, "p2pk", "k1") EXCEPT !.tx.outputs[1].value = 9] >>
MCMaterials == LET all == SpendMaterials IN all

MCNodes == {[chain |-> "regtest", indexer |-> TRUE], [chain |-> "test", indexer |-> TRUE],
            [chain |-> "regtest", indexer |-> FALSE]}
=============================================================================
