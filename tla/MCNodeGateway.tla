---------------------------- MODULE MCNodeGateway ----------------------------
(* A node with a fork of equal heights: the branch of b2 replaces the one of a2. *)
EXTENDS NodeGateway

ForkedBlocks ==
    {[hash |-> "g", parent |-> "", height |-> 0, work |-> 0, txs |-> {"f"}],
     [hash |-> "a1", parent |-> "g", height |-> 1, work |-> 2, txs |-> {"t"}],
     [hash |-> "b1", parent |-> "g", height |-> 1, work |-> 3, txs |-> {"v"}],
     [hash |-> "b2", parent |-> "b1", height |-> 2, work |-> 5, txs |-> {"u"}]}
MCNodeBlocks == LET all == ForkedBlocks IN all

MCTxs == {"f", "t", "u", "v"}
\* t and u spend the same output; f and v are coinbases.
MCSpentBy == [x \in MCTxs |-> IF x \in {"f", "v"} THEN <<"", 0>> ELSE <<"f", 1>>]

Good == [scheme |-> "http", loopback |-> TRUE, allow |-> FALSE, cookie |-> "present"]
MCEndpoints == {Good, [Good EXCEPT !.loopback = FALSE]}
MCNodes == {[chain |-> "signet", cat |-> "active", txindex |-> "synced"],
            [chain |-> "signet", cat |-> "inactive", txindex |-> "synced"]}

R(kind, tx, outs) == [op |-> kind, tx |-> tx, outs |-> outs]
GatewayRequests ==
    {R("snapshot", "t", <<>>), R("status", "t", <<>>), R("status", "v", <<>>), R("accept", "t", <<>>),
     R("broadcast", "t", <<>>), R("resolve", "t", <<<<"f", 1>>, <<"t", 1>>>>)}
MCNodeRequests == LET all == GatewayRequests IN all
=============================================================================
