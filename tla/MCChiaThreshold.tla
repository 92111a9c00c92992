-------------------------- MODULE MCChiaThreshold ---------------------------
(* A small instance of ChiaThreshold: orders at the edges of what a coin    *)
(* can pay, and spends the wallet would not build itself.                  *)
EXTENDS ChiaThreshold

MCChiaKeys == {<<5, 9, "final">>, <<28, 17, "final">>, <<5, 9, "hardened">>, <<5, 0, "final">>}
MCChiaHash(key) == 7 * key - 100

Coins(amount, parent, mine, outputs) ==
    [amount |-> amount, parent |-> parent, mine |-> mine, outputs |-> outputs]
CoinOut(to, amount, memos) == [puzzle |-> to, amount |-> amount, memos |-> memos]

Payments ==
    <<Coins(15, "c1", TRUE, <<CoinOut("alice", 5, <<"memo">>), CoinOut("bob", 2, <<>>)>>),
      Coins(15, "c1", TRUE, <<CoinOut("alice", 8, <<>>)>>),
      Coins(15, "c1", TRUE, <<CoinOut("alice", 15, <<>>), CoinOut("bob", 1, <<>>)>>),
      Coins(15, "c2", FALSE, <<CoinOut("alice", 5, <<>>)>>),
      Coins(15, "c2", TRUE, <<>>)>>
MCOrders == LET all == Payments IN all

Create(to, amount, proper) ==
    [op |-> "create_coin", puzzle |-> to, amount |-> amount,
     memos |-> [proper |-> proper, items |-> <<>>]]
StraySpends ==
    {[amount |-> 7, parent |-> "c3", mine |-> TRUE,
      conditions |-> <<Create("alice", 7, TRUE), [op |-> "agg_sig_unsafe", key |-> 3,
                                                   message |-> "m"]>>],
     [amount |-> 7, parent |-> "c3", mine |-> TRUE, conditions |-> <<Create("alice", 7, FALSE)>>],
     [amount |-> 7, parent |-> "c3", mine |-> TRUE,
      conditions |-> <<[op |-> "announce"], Create("alice", 3, TRUE)>>]}
MCStrays == LET all == StraySpends IN all

MCScopes == {<<"chia", "mainnet">>, <<"chia", "testnet11">>, <<"bitcoin", "mainnet">>}

Endpoint(mode, scheme, host) ==
    [mode |-> mode, scheme |-> scheme, host |-> host, timeout |-> 1, extra |-> FALSE,
     identity |-> TRUE, ca |-> TRUE]
MCEndpoints ==
    {Endpoint("loopback", "http", "loopback"), Endpoint("loopback", "http", "remote"),
     Endpoint("mtls", "https", "remote")}

Answer(fields) ==
    [http |-> TRUE, small |-> TRUE, json |-> TRUE, success |-> TRUE, fields |-> fields]
MCAnswers ==
    {Answer([name |-> "mainnet", prefix |-> "xch", data |-> "mainnet-data"]),
     Answer([name |-> "testnet11", prefix |-> "txch", data |-> "testnet11-data"]),
     [Answer([name |-> "mainnet"]) EXCEPT !.success = FALSE],
     Answer([name |-> "mainnet"])}
=============================================================================
