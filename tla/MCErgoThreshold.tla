-------------------------- MODULE MCErgoThreshold ---------------------------
(* A small instance of ErgoThreshold: transactions that differ in a payee,  *)
(* a network, a second input of the same or of another key, and materials  *)
(* that are not to be signed.                                              *)
EXTENDS ErgoThreshold

Bytes(value) == [form |-> "exact", size |-> 1, value |-> value]
Box(id, key, value) ==
    [form |-> "exact", size |-> 1, id |-> id, key |-> key, value |-> value, script |-> "p2pk"]
ErgoTx(inputs, to, value) ==
    [inputs |-> inputs, data |-> <<>>, outputs |-> <<[to |-> to, value |-> value]>>]
ErgoMaterial(network, tx, boxes) ==
    [size |-> 2, magic |-> "ERGOREV1", version |-> 1, form |-> "exact", network |-> network,
     preHeader |-> Bytes("header"), unsigned |-> Bytes(tx), claimed |-> Bytes(BytesToSign(tx)),
     boxes |-> boxes, dataBoxes |-> <<>>, headers |-> 10]

Own == Box("b1", 3, 2)
OwnToo == Box("b2", 3, 4)
Alien == Box("b3", 5, 2)

Plain == ErgoMaterial("mainnet", ErgoTx(<<"b1">>, "alice", 2), <<Own>>)
MCErgoMaterials ==
    <<Plain,
      ErgoMaterial("mainnet", ErgoTx(<<"b1", "b2">>, "alice", 6), <<Own, OwnToo>>),
      ErgoMaterial("testnet", ErgoTx(<<"b1">>, "alice", 2), <<Own>>),
      ErgoMaterial("mainnet", ErgoTx(<<"b1">>, "alice", 1), <<Own>>),
      ErgoMaterial("mainnet", ErgoTx(<<"b1", "b3">>, "alice", 4), <<Own, Alien>>),
      [Plain EXCEPT !.claimed = Bytes(BytesToSign(ErgoTx(<<"b1">>, "bob", 2)))],
      [Plain EXCEPT !.form = "loose"], [Plain EXCEPT !.preHeader.form = "loose"],
      [Plain EXCEPT !.boxes[1].script = "p2s"], [Plain EXCEPT !.headers = 9],
      [Plain EXCEPT !.boxes = <<Alien>>], [Plain EXCEPT !.size = 3]>>

Artifact(i) ==
    LET m == MCErgoMaterials[i]
    IN [schema |-> 2, scope |-> <<"ergo", m.network>>, digest |-> m,
        message |-> BytesToSign(m.unsigned.value), material |-> m]
Asked(review, epoch) ==
    [review |-> review,
     binding |-> [suite |-> ThresholdSuite, scope |-> review.scope, reviewSchema |-> 2,
                  digest |-> review.digest, set |-> "set", epoch |-> epoch]]

\* Genuine requests, one under another epoch, and one whose material drifted.
Requested ==
    [i \in DOMAIN MCErgoMaterials |-> Asked(Artifact(i), IF i = 4 THEN 2 ELSE 1)]
    \o <<Asked([Artifact(1) EXCEPT !.material = MCErgoMaterials[4]], 1),
         [Asked(Artifact(1), 1) EXCEPT !.binding.suite = "ergo-sigma-p2pk-isolated-v1"]>>
MCErgoRequests == LET all == Requested IN all

MCErgoKeys == {3} \X {0, 5, 26}
MCErgoSessions == {"s1", "s2", "zero"}
Draw(p, s, t) == 1 + ((p + (IF s = "s1" THEN 1 ELSE 3) + 2 * t) % 6)
MCErgoNonces ==
    [n \in Participants \X {"s1", "s2"} \X (1 .. 2) |->
        <<Draw(n[1], n[2], n[3]), Draw(2 * n[1], n[2], n[3] + 1)>>]

MCToScalar(x) ==
    IF DOMAIN x = {"digest", "p"}
    THEN (x.p * x.digest.nonces[1][2] + 2 * x.digest.nonces[2][3] + 3 * x.digest.binding.epoch
          + Len(x.digest.message.inputs)) % Order
    ELSE (x.group + 4 * x.commitment + x.message.outputs[1].value
          + (IF x.message.outputs[1].to = "bob" THEN 1 ELSE 0)) % Order
=============================================================================
