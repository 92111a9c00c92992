--------------------------- MODULE ChainDataProofs ----------------------------
(***************************************************************************)
(* Proofs about what the wallet builds on chain data.  The node gateway, for *)
(* any tree of blocks and any moves of the node's tip, index and mempool    *)
(* between two calls: an answer holds of the chain its snapshot names.  The *)
(* registry of policies, for any sources, bundle files, compiler versions   *)
(* and sequence of backups and restores: a pending proposal is a validated  *)
(* one.  Protected trading, for any requests, heights, confirmed outputs,   *)
(* restarts and reorganisations: the two verifiers are one predicate, and an *)
(* order output is spent only as the listing says.                          *)
(***************************************************************************)
EXTENDS NodeGateway, PolicyRegistry, Trading, SequenceTheorems, TLAPS

----------------------------------------------------------------------------
(***************************************************************************)
(* The node gateway                                                         *)
(*                                                                         *)
(* The node's tip only moves to more work, so the tips an operation read    *)
(* are in the order it read them.  An operation that has its answer holds   *)
(* it of the tip of its first snapshot if that is still the tip it would    *)
(* read: it returns it only when the last tip it reads is that one, and     *)
(* then no other tip was there in between.                                  *)
(***************************************************************************)
Work(h) == Block(h).work

\* x was the node's tip no later than y.
NoLater(x, y) == x = y \/ Work(x) < Work(y)

\* The tip the operation has read last, or the one it would read now.
Current(g, t) == IF g.seen = None THEN t ELSE g.seen.hash

Operation(g) ==
  g = [op |-> g.op, tx |-> g.tx, outs |-> g.outs, phase |-> g.phase, before |-> g.before,
       seen |-> g.seen, expected |-> g.expected, answer |-> g.answer, sent |-> g.sent]

Bracketed(g) == g.op # "snapshot" /\ g.phase # "before"

\* Where a running operation stands when the tip is t and the index is at i.
Running(g, t, i, known) ==
  /\ Operation(g) /\ g.op # "idle"
  /\ g.phase \in {"before", "act", "classify", "pre", "send", "after"}
  /\ g.op = "snapshot" => g.phase = "after"
  /\ g.phase \in {"act", "classify", "send"} => g.seen = None
  /\ g.phase # "after" => g.sent = None
  /\ g.seen # None => g.seen.hash \in Hashes /\ NoLater(g.seen.hash, t)
  /\ Bracketed(g) => /\ g.before.tip \in Hashes
                     /\ g.before.id = SnapshotId(g.before.tip)
                     /\ NoLater(g.before.tip, Current(g, t))
  /\ g.phase \in {"act", "classify"} /\ g.before.tip = t => Block(i).height = Block(t).height
  /\ g.phase = "after" /\ g.op \in {"resolve", "status", "broadcast"} /\ g.before.tip = Current(g, t) =>
       HoldsAt(g, g.before.tip, known)

NodeInv(t, i, pool, known) ==
  /\ t \in Hashes /\ i \in Hashes
  /\ pool \cap ConfirmedAt(t) = {}
  /\ pool \cup ConfirmedAt(t) \subseteq known

GatewayInv ==
  /\ NodeInv(tip, txindex, mempool, everKnown)
  /\ gw # Idle => Running(gw, tip, txindex, everKnown)
  /\ AnswerHoldsAtSnapshot

\* A hash names a block of the tree.
LEMMA BlockFacts ==
  ASSUME NEW h \in Hashes
  PROVE  Block(h) \in NodeBlocks /\ Work(h) \in Nat /\ Block(h).height \in Nat
<1>1. \E b \in NodeBlocks : b.hash = h
  BY Zenon DEF Hashes
<1>2. Block(h) \in NodeBlocks
  BY Zenon, <1>1 DEF Block
<1> QED BY Zenon, <1>2, TreeAssumption DEF TreeAssumption, Work

\* A tip is no later than itself.
LEMMA NoLaterSelf == ASSUME NEW x PROVE NoLater(x, x)
BY Zenon DEF NoLater

\* The order of tips is transitive, and a tip that is back was never left.
LEMMA NoLaterTrans ==
  ASSUME NEW x \in Hashes, NEW y \in Hashes, NEW z \in Hashes, NoLater(x, y), NoLater(y, z)
  PROVE  NoLater(x, z) /\ (x = z => y = z)
<1>1. Work(x) \in Nat /\ Work(y) \in Nat /\ Work(z) \in Nat
  BY Zenon, BlockFacts
<1> QED BY <1>1 DEF NoLater

\* A transaction of a chain is in the one block of it that BlockOf names.
LEMMA BlockOfFacts ==
  ASSUME NEW at \in Hashes, NEW tx, tx \in ConfirmedAt(at)
  PROVE  /\ BlockOf(tx, at) \in BranchOf[at] /\ tx \in Block(BlockOf(tx, at)).txs
         /\ Confirmations(BlockOf(tx, at), at) # 0
<1>1. \E h \in BranchOf[at] : tx \in Block(h).txs
  BY Zenon DEF ConfirmedAt
<1>2. BlockOf(tx, at) \in BranchOf[at] /\ tx \in Block(BlockOf(tx, at)).txs
  BY Zenon, <1>1 DEF BlockOf
<1>3. BlockOf(tx, at) \in Hashes /\ Block(BlockOf(tx, at)).height <= Block(at).height
  BY Zenon, <1>2, TreeAssumption DEF TreeAssumption
<1>4. Block(at).height \in Nat /\ Block(BlockOf(tx, at)).height \in Nat
  BY Zenon, <1>3, BlockFacts
<1> DEFINE x == Block(BlockOf(tx, at)).height
           y == Block(at).height
<1>5. Confirmations(BlockOf(tx, at), at) = y - x + 1
  BY Zenon, <1>2 DEF Confirmations
<1>6. y - x + 1 # 0
  <2> HIDE DEF x, y
  <2> QED BY <1>3, <1>4 DEF x, y
<1> QED BY Zenon, <1>2, <1>5, <1>6

\* A transaction is in one block of a branch.
LEMMA OnlyBlockOf ==
  ASSUME NEW at \in Hashes, NEW tx, NEW h \in BranchOf[at], tx \in Block(h).txs
  PROVE  tx \in ConfirmedAt(at) /\ h = BlockOf(tx, at)
<1>1. tx \in ConfirmedAt(at)
  BY Zenon DEF ConfirmedAt
<1>2. BlockOf(tx, at) \in BranchOf[at] /\ tx \in Block(BlockOf(tx, at)).txs
  BY Zenon, <1>1, BlockOfFacts
<1>3. Block(h).txs \cap Block(BlockOf(tx, at)).txs # {}
  BY Zenon, <1>2
<1> QED BY Zenon, <1>1, <1>2, <1>3, TreeAssumption DEF TreeAssumption

\* What holds goes on to hold when the node comes to know more.
LEMMA HoldsOn ==
  ASSUME NEW r, NEW at, NEW k, NEW l, k \subseteq l, HoldsAt(r, at, k)
  PROVE  HoldsAt(r, at, l)
BY Zenon DEF HoldsAt

\* It is about the operation's transaction, answer and submission.
LEMMA SameAnswer ==
  ASSUME NEW r, NEW q, NEW at, NEW k, HoldsAt(r, at, k),
         q.tx = r.tx, q.answer = r.answer, q.sent = r.sent
  PROVE  HoldsAt(q, at, k)
BY Zenon DEF HoldsAt

\* Nothing was asked yet.
LEMMA GatewayInvInit == GatewayInit => GatewayInv
<1> SUFFICES ASSUME GatewayInit PROVE GatewayInv
  BY Zenon
<1>1. NodeInv(tip, txindex, mempool, everKnown)
  BY Zenon, TreeAssumption DEF GatewayInit, TreeAssumption, NodeInv
<1>2. result.kind = "none"
  BY Zenon DEF GatewayInit, None
<1>3. AnswerHoldsAtSnapshot
  BY Zenon, <1>2 DEF AnswerHoldsAtSnapshot
<1> QED BY Zenon, <1>1, <1>3 DEF GatewayInit, GatewayInv

\* A failed operation leaves the rest of the invariant.
LEMMA Failed ==
  ASSUME GatewayInv, NEW error, Fail(error), UNCHANGED nodeVars
  PROVE  GatewayInv'
<1>1. gw' = Idle /\ result'.kind = "error"
  BY Zenon DEF Fail
<1>2. AnswerHoldsAtSnapshot'
  BY Zenon, <1>1 DEF AnswerHoldsAtSnapshot
<1> QED BY Zenon, <1>1, <1>2 DEF GatewayInv, nodeVars

\* An operation that goes on.
LEMMA GoesOn ==
  ASSUME GatewayInv, UNCHANGED <<nodeVars, result>>, Running(gw', tip, txindex, everKnown)
  PROVE  GatewayInv'
BY Zenon DEF GatewayInv, nodeVars, AnswerHoldsAtSnapshot

\* An operation starts with nothing read.
LEMMA Started ==
  ASSUME GatewayInv, NEW request \in NodeRequests, Start(request)
  PROVE  GatewayInv'
<1>1. CASE Fail("expired")
  BY Zenon, <1>1, Failed DEF Start
<1>2. CASE ~Fail("expired")
  <2>1. /\ gw' = [op |-> request.op, tx |-> request.tx, outs |-> request.outs,
                   phase |-> IF request.op = "snapshot" THEN "after" ELSE "before",
                   before |-> None, seen |-> None,
                   expected |-> heldSnapshot, answer |-> None, sent |-> None]
        /\ result' = None /\ UNCHANGED nodeVars
    BY Zenon, <1>2 DEF Start
  <2>2. Running(gw', tip, txindex, everKnown)
    BY Zenon, <2>1, RequestAssumption DEF Running, Operation, Bracketed, RequestAssumption
  <2>3. AnswerHoldsAtSnapshot'
    BY Zenon, <2>1 DEF AnswerHoldsAtSnapshot, None
  <2> QED BY Zenon, <2>1, <2>2, <2>3 DEF GatewayInv, nodeVars
<1> QED BY Zenon, <1>1, <1>2

\* getblockchaininfo: the tip that is read is the current one.
LEMMA TipRead ==
  ASSUME GatewayInv, SnapshotTip
  PROVE  GatewayInv'
<1> DEFINE g == [gw EXCEPT !.seen = [kind |-> "tip", hash |-> tip]]
<1>1. Running(gw, tip, txindex, everKnown) /\ tip \in Hashes
  BY Zenon DEF GatewayInv, SnapshotTip, NodeInv
<1>2. /\ g.seen = [kind |-> "tip", hash |-> tip] /\ Operation(g) /\ g.phase = gw.phase
      /\ g.op = gw.op /\ g.before = gw.before /\ g.answer = gw.answer /\ g.tx = gw.tx
      /\ g.sent = gw.sent
  BY <1>1 DEF Running, Operation
<1>3. g.seen # None /\ g.seen.hash = tip
  BY <1>2 DEF None
<1>4. Current(gw, tip) = tip /\ Current(g, tip) = tip
  BY Zenon, <1>3 DEF Current, SnapshotTip
<1>5. HoldsAt(gw, gw.before.tip, everKnown) => HoldsAt(g, g.before.tip, everKnown)
  <2> HIDE DEF g
  <2> QED BY Zenon, <1>2, SameAnswer
<1>6. gw.phase \notin {"act", "classify", "send"}
  BY Zenon DEF SnapshotTip
<1>7. Running(g, tip, txindex, everKnown)
  <2> HIDE DEF g
  <2> QED BY Zenon, <1>1, <1>2, <1>3, <1>4, <1>5, <1>6, NoLaterSelf DEF Running, Bracketed
<1> QED BY Zenon, <1>7, GoesOn DEF SnapshotTip

\* The rest of a snapshot: it fails, it opens the operation, it renews the
\* bracket before a broadcast is sent, or it closes the operation.
LEMMA SnapshotTaken ==
  ASSUME GatewayInv, SnapshotRest
  PROVE  GatewayInv'
<1> DEFINE s == Snapshot(gw.seen.hash)
<1>0. UNCHANGED nodeVars
  BY Zenon DEF SnapshotRest
<1>1. Running(gw, tip, txindex, everKnown) /\ tip \in Hashes
  BY Zenon DEF GatewayInv, SnapshotRest, NodeInv
<1>2. /\ s.tip = gw.seen.hash /\ s.id = SnapshotId(gw.seen.hash) /\ gw.seen.hash \in Hashes
      /\ NoLater(gw.seen.hash, tip)
  BY Zenon, <1>1 DEF Snapshot, SnapshotRest, Running
<1>3. CASE \E error : Fail(error)
  BY Zenon, <1>0, <1>3, Failed
<1>4. ASSUME gw' = [gw EXCEPT !.before = s, !.seen = None, !.phase = "act"], UNCHANGED result,
             gw.phase = "before", RequireSyncedTxindex(Block(s.tip).height)
      PROVE  GatewayInv'
  <2>1. /\ gw'.before = s /\ gw'.seen = None /\ gw'.phase = "act" /\ Operation(gw')
        /\ gw'.op = gw.op /\ gw'.sent = None
    BY Zenon, <1>1, <1>4 DEF Running, Operation
  <2>2. Current(gw', tip) = tip
    BY Zenon, <2>1 DEF Current
  <2>3. Block(txindex).height = Block(s.tip).height
    BY Zenon, <1>4 DEF RequireSyncedTxindex
  <2>4. gw.op # "snapshot"
    BY Zenon, <1>1, <1>4 DEF Running
  <2>5. Running(gw', tip, txindex, everKnown)
    <3> HIDE DEF s
    <3> QED BY Zenon, <1>1, <1>2, <2>1, <2>2, <2>3, <2>4 DEF Running, Bracketed
  <2> QED BY Zenon, <2>5, <1>0, <1>4, GoesOn
<1>5. ASSUME gw' = [gw EXCEPT !.before = s, !.seen = None, !.phase = "send"], UNCHANGED result,
             gw.phase = "pre"
      PROVE  GatewayInv'
  <2>1. /\ gw'.before = s /\ gw'.seen = None /\ gw'.phase = "send" /\ Operation(gw')
        /\ gw'.op = gw.op /\ gw'.sent = None
    BY Zenon, <1>1, <1>5 DEF Running, Operation
  <2>2. Current(gw', tip) = tip
    BY Zenon, <2>1 DEF Current
  <2>4. gw.op # "snapshot"
    BY Zenon, <1>1, <1>5 DEF Running
  <2>5. Running(gw', tip, txindex, everKnown)
    <3> HIDE DEF s
    <3> QED BY Zenon, <1>1, <1>2, <2>1, <2>2, <2>4 DEF Running, Bracketed
  <2> QED BY Zenon, <2>5, <1>0, <1>5, GoesOn
<1>6. ASSUME gw' = Idle, gw.phase = "after", gw.op = "snapshot" \/ EnsureSameTip(gw.before, s),
             result' = [kind |-> gw.op, tx |-> gw.tx, snapshot |-> s,
                        answer |-> gw.answer, sent |-> gw.sent]
      PROVE  GatewayInv'
  <2>1. /\ result'.kind = gw.op /\ result'.tx = gw.tx /\ result'.snapshot = s
        /\ result'.answer = gw.answer /\ result'.sent = gw.sent
    BY Zenon, <1>6
  <2>2. ASSUME gw.op \in {"resolve", "status", "broadcast"}
        PROVE  HoldsAt(gw, s.tip, everKnown)
    <3>1. gw.op # "snapshot" /\ gw.phase # "before"
      BY Zenon, <1>6, <2>2
    <3>2. gw.before.id = SnapshotId(gw.before.tip)
      BY Zenon, <3>1, <1>1 DEF Running, Bracketed
    <3>3. gw.before.tip = s.tip
      BY <3>1, <3>2, <1>2, <1>6 DEF EnsureSameTip, SnapshotId
    <3>4. Current(gw, tip) = gw.seen.hash
      BY Zenon DEF Current, SnapshotRest
    <3> QED BY Zenon, <1>1, <1>2, <1>6, <2>2, <3>3, <3>4 DEF Running
  <2>3. AnswerHoldsAtSnapshot'
    <3>1. everKnown' = everKnown
      BY Zenon, <1>0 DEF nodeVars
    <3> QED BY Zenon, <2>1, <2>2, <3>1, SameAnswer DEF AnswerHoldsAtSnapshot
  <2> QED BY Zenon, <1>0, <1>6, <2>3 DEF GatewayInv, nodeVars
<1>7. \/ \E error : Fail(error)
      \/ /\ gw' = [gw EXCEPT !.before = s, !.seen = None, !.phase = "act"] /\ UNCHANGED result
         /\ gw.phase = "before" /\ RequireSyncedTxindex(Block(s.tip).height)
      \/ /\ gw' = [gw EXCEPT !.before = s, !.seen = None, !.phase = "send"] /\ UNCHANGED result
         /\ gw.phase = "pre"
      \/ /\ gw' = Idle /\ gw.phase = "after" /\ (gw.op = "snapshot" \/ EnsureSameTip(gw.before, s))
         /\ result' = [kind |-> gw.op, tx |-> gw.tx, snapshot |-> s,
                       answer |-> gw.answer, sent |-> gw.sent]
  <2> HIDE DEF s
  <2>1. gw.phase \in {"before", "pre", "after"}
    BY Zenon, <1>1 DEF Running, SnapshotRest
  <2> QED BY Zenon, <2>1 DEF SnapshotRest, s
<1> QED BY Zenon, <1>3, <1>4, <1>5, <1>6, <1>7

\* Facts about an operation between its two snapshots.
LEMMA Acting ==
  ASSUME GatewayInv, gw # Idle, gw.phase \in {"act", "classify", "send"}
  PROVE  /\ Running(gw, tip, txindex, everKnown) /\ NodeInv(tip, txindex, mempool, everKnown)
         /\ Operation(gw) /\ gw.seen = None /\ gw.op # "snapshot" /\ gw.op # "idle"
         /\ gw.sent = None /\ gw.before.tip \in Hashes /\ gw.before.id = SnapshotId(gw.before.tip)
         /\ NoLater(gw.before.tip, tip)
<1>1. Running(gw, tip, txindex, everKnown) /\ NodeInv(tip, txindex, mempool, everKnown)
  BY Zenon DEF GatewayInv
<1>2. /\ Operation(gw) /\ gw.seen = None /\ gw.op # "snapshot" /\ gw.op # "idle"
      /\ gw.sent = None /\ Bracketed(gw)
  BY Zenon, <1>1 DEF Running, Bracketed
<1> QED BY Zenon, <1>1, <1>2 DEF Running, Current

\* An operation that has its answer holds it if the tip has not changed.
LEMMA Answered ==
  ASSUME GatewayInv, gw # Idle, gw.phase \in {"act", "classify", "send"}, NEW g,
         NEW i, NEW known,
         Operation(g), g.op = gw.op, g.before = gw.before, g.seen = None, g.phase = "after",
         gw.before.tip = tip => HoldsAt(g, tip, known)
  PROVE  Running(g, tip, i, known)
<1>1. /\ gw.op # "snapshot" /\ gw.op # "idle"
      /\ gw.sent = None /\ gw.before.tip \in Hashes /\ gw.before.id = SnapshotId(gw.before.tip)
      /\ NoLater(gw.before.tip, tip)
  BY Zenon, Acting
<1>2. Current(g, tip) = tip
  BY Zenon DEF Current
<1> QED BY Zenon, <1>1, <1>2 DEF Running, Bracketed

\* A prevout and its depth are what the chain of the tip says.
PrevoutHolds(a, at) ==
    /\ a.kind = "prevout"
    /\ IF a.confirmations = 0 THEN a.outpoint[1] \notin ConfirmedAt(at)
       ELSE /\ a.outpoint[1] \in ConfirmedAt(at)
            /\ a.confirmations = Confirmations(BlockOf(a.outpoint[1], at), at)
            /\ \A t \in ConfirmedAt(at) : SpentBy[t] # a.outpoint

\* A prevout that was read belongs to the answer, and the next one follows.
LEMMA PrevoutFound ==
  ASSUME GatewayInv, gw # Idle, gw.phase = "act", UNCHANGED <<nodeVars, result>>,
         NEW a, NEW rest, NEW next \in {"after", "act"},
         gw' = [gw EXCEPT !.answer = a, !.outs = rest, !.phase = next],
         PrevoutHolds(a, tip)
  PROVE  GatewayInv'
<1>1. /\ Running(gw, tip, txindex, everKnown)
      /\ Operation(gw) /\ gw.seen = None /\ gw.op # "snapshot" /\ gw.op # "idle"
      /\ gw.sent = None /\ gw.before.tip \in Hashes /\ gw.before.id = SnapshotId(gw.before.tip)
      /\ NoLater(gw.before.tip, tip)
  BY Zenon, Acting
<1>2. /\ Operation(gw') /\ gw'.op = gw.op /\ gw'.before = gw.before /\ gw'.seen = None
      /\ gw'.phase = next /\ gw'.answer = a /\ gw'.tx = gw.tx /\ gw'.sent = gw.sent
  BY Zenon, <1>1 DEF Operation
<1>3. CASE next = "after"
  <2>1. HoldsAt(gw', tip, everKnown)
    BY Zenon, <1>2 DEF HoldsAt, PrevoutHolds
  <2>2. Running(gw', tip, txindex, everKnown)
    BY Zenon, <1>2, <1>3, <2>1, Answered
  <2> QED BY Zenon, <2>2, GoesOn
<1>4. CASE next = "act"
  <2>1. gw.before.tip = tip => Block(txindex).height = Block(tip).height
    BY Zenon, <1>1 DEF Running
  <2>2. Current(gw', tip) = tip
    BY Zenon, <1>2 DEF Current
  <2>3. Running(gw', tip, txindex, everKnown)
    BY Zenon, <1>1, <1>2, <1>4, <2>1, <2>2 DEF Running, Bracketed
  <2> QED BY Zenon, <2>3, GoesOn
<1> QED BY Zenon, <1>3, <1>4

\* gettxout for one outpoint.
LEMMA PrevoutRead ==
  ASSUME GatewayInv, GetTxOut
  PROVE  GatewayInv'
<1> DEFINE o == gw.outs[1]
           depth == IF o[1] \in ConfirmedAt(tip) THEN Confirmations(BlockOf(o[1], tip), tip) ELSE 0
           a == [kind |-> "prevout", outpoint |-> o, confirmations |-> depth]
           next == IF Len(gw.outs) = 1 THEN "after" ELSE "act"
           rest == Tail(gw.outs)
           g == [gw EXCEPT !.answer = a, !.outs = rest, !.phase = next]
           c == [gw EXCEPT !.phase = "classify"]
<1>0. UNCHANGED nodeVars /\ gw # Idle /\ gw.phase = "act"
  BY Zenon DEF GetTxOut
<1>1. /\ Running(gw, tip, txindex, everKnown) /\ NodeInv(tip, txindex, mempool, everKnown)
      /\ Operation(gw) /\ gw.seen = None /\ gw.op # "snapshot" /\ gw.op # "idle"
      /\ gw.sent = None /\ gw.before.tip \in Hashes /\ gw.before.id = SnapshotId(gw.before.tip)
      /\ NoLater(gw.before.tip, tip)
  BY Zenon, <1>0, Acting
<1>2. CASE \E error : Fail(error)
  BY Zenon, <1>0, <1>2, Failed
<1>3. CASE gw' = c /\ UNCHANGED result
  <2>1. /\ Operation(c) /\ c.phase = "classify" /\ c.op = gw.op /\ c.before = gw.before
        /\ c.seen = None /\ c.sent = None
    BY <1>1 DEF Operation
  <2>2. gw.before.tip = tip => Block(txindex).height = Block(tip).height
    BY Zenon, <1>0, <1>1 DEF Running
  <2>3. Current(c, tip) = tip
    BY Zenon, <2>1 DEF Current
  <2>4. Running(c, tip, txindex, everKnown)
    <3> HIDE DEF c
    <3> QED BY Zenon, <1>1, <2>1, <2>2, <2>3 DEF Running, Bracketed
  <2> QED BY Zenon, <1>0, <1>3, <2>4, GoesOn
<1>4. CASE gw' = g /\ UNCHANGED result /\ Unspent(o, ConfirmedAt(tip) \cup mempool)
  <2>1. next \in {"after", "act"} /\ a.kind = "prevout" /\ a.outpoint = o /\ a.confirmations = depth
    BY Zenon
  <2>2. /\ \A t \in ConfirmedAt(tip) : SpentBy[t] # o
        /\ IF depth = 0 THEN o[1] \notin ConfirmedAt(tip)
           ELSE o[1] \in ConfirmedAt(tip) /\ depth = Confirmations(BlockOf(o[1], tip), tip)
    <3>1. tip \in Hashes
      BY Zenon, <1>1 DEF NodeInv
    <3>2. \A t \in ConfirmedAt(tip) : SpentBy[t] # o
      BY Zenon, <1>4 DEF Unspent
    <3>3. o[1] \in ConfirmedAt(tip) => Confirmations(BlockOf(o[1], tip), tip) # 0
      BY Zenon, <3>1, BlockOfFacts
    <3> HIDE DEF o
    <3> QED BY Zenon, <3>2, <3>3
  <2>3. gw' = [gw EXCEPT !.answer = a, !.outs = rest, !.phase = next]
    BY Zenon, <1>4
  <2>4. UNCHANGED <<nodeVars, result>>
    BY Zenon, <1>0, <1>4
  <2>5. PrevoutHolds(a, tip)
    <3> HIDE DEF a, o, depth
    <3> QED BY Zenon, <2>1, <2>2 DEF PrevoutHolds
  <2> HIDE DEF a, rest, next, o, depth, g
  <2> QED BY ONLY Zenon, GatewayInv, <1>0, <2>1, <2>3, <2>4, <2>5, PrevoutFound
<1>5. \/ \E error : Fail(error)
      \/ gw' = c /\ UNCHANGED result
      \/ gw' = g /\ UNCHANGED result /\ Unspent(o, ConfirmedAt(tip) \cup mempool)
  BY Zenon DEF GetTxOut
<1> QED BY Zenon, <1>2, <1>3, <1>4, <1>5

\* The answers that an operation gets in one call.
LEMMA AnswerGiven ==
  ASSUME GatewayInv, gw # Idle, gw.phase \in {"act", "classify"}, NEW a, Answer(a),
         UNCHANGED <<nodeVars, result>>,
         NEW g, g = [gw EXCEPT !.answer = a, !.phase = "after"],
         gw.before.tip = tip /\ g.answer = a /\ g.tx = gw.tx /\ g.sent = gw.sent =>
           HoldsAt(g, tip, everKnown)
  PROVE  GatewayInv'
<1>1. gw.seen = None /\ Operation(gw)
  BY Zenon, Acting
<1>2. /\ Operation(g) /\ g.op = gw.op /\ g.before = gw.before /\ g.seen = None
      /\ g.phase = "after" /\ g.answer = a /\ g.tx = gw.tx /\ g.sent = gw.sent
  BY Zenon, <1>1 DEF Operation
<1>3. Running(g, tip, txindex, everKnown)
  BY Zenon, <1>2, Answered
<1> QED BY Zenon, <1>3, GoesOn DEF Answer

\* What getrawtransaction says of a transaction while the tip is the one the
\* operation began with.
LEMMA RawTransaction ==
  ASSUME GatewayInv, gw # Idle, gw.phase \in {"act", "classify"}, gw.before.tip = tip, NEW tx
  PROVE  LET r == GetRawTransaction(tx)
         IN  /\ r.found \in {"mempool", "block", "-5"}
             /\ r.found = "mempool" => tx \notin ConfirmedAt(tip)
             /\ r.found = "-5" => AbsentAt(tx, txindex, tip)
             /\ r.found = "block" /\ r.confirmations > 0 =>
                  /\ tx \in ConfirmedAt(tip) /\ r.block = BlockOf(tx, tip)
                  /\ r.confirmations = Confirmations(r.block, tip)
<1>1. /\ tip \in Hashes /\ txindex \in Hashes /\ mempool \cap ConfirmedAt(tip) = {}
      /\ Block(txindex).height = Block(tip).height
  BY Zenon, Acting DEF NodeInv, Running
<1>2. CASE tx \in mempool
  <2>1. GetRawTransaction(tx) = [found |-> "mempool"]
    BY Zenon, <1>2 DEF GetRawTransaction
  <2> QED BY <1>1, <1>2, <2>1
<1>3. CASE tx \notin mempool /\ tx \in ConfirmedAt(txindex)
  <2> DEFINE h == BlockOf(tx, txindex)
  <2>1. GetRawTransaction(tx) = [found |-> "block", block |-> h, confirmations |-> Confirmations(h, tip)]
    BY Zenon, <1>3 DEF GetRawTransaction
  <2>2. tx \in Block(h).txs
    BY Zenon, <1>1, <1>3, BlockOfFacts
  <2>3. Confirmations(h, tip) > 0 => h \in BranchOf[tip]
    <3> HIDE DEF h
    <3> QED BY DEF Confirmations
  <2>4. h \in BranchOf[tip] => tx \in ConfirmedAt(tip) /\ h = BlockOf(tx, tip)
    BY Zenon, <1>1, <2>2, OnlyBlockOf
  <2> HIDE DEF h
  <2> QED BY <2>1, <2>3, <2>4
<1>4. CASE tx \notin mempool /\ tx \notin ConfirmedAt(txindex)
  <2>1. GetRawTransaction(tx) = [found |-> "-5"]
    BY Zenon, <1>4 DEF GetRawTransaction
  <2>2. AbsentAt(tx, txindex, tip)
    BY Zenon, <1>1, <1>4 DEF AbsentAt
  <2> QED BY <2>1, <2>2
<1> QED BY Zenon, <1>2, <1>3, <1>4

\* classify_unavailable_prevout.
LEMMA PrevoutClassified ==
  ASSUME GatewayInv, ClassifyUnavailablePrevout
  PROVE  GatewayInv'
<1> DEFINE o == gw.outs[1]
           k == IF GetRawTransaction(o[1]).found = "-5" \/ o[2] # 1 THEN "missing" ELSE "spent"
           a == [kind |-> k, outpoint |-> o, index |-> txindex]
           g == [gw EXCEPT !.answer = a, !.phase = "after"]
<1>1. gw # Idle /\ gw.phase = "classify" /\ Answer(a) /\ UNCHANGED <<nodeVars, result>>
  BY Zenon DEF ClassifyUnavailablePrevout
<1>2. ASSUME gw.before.tip = tip, g.answer = a
      PROVE  HoldsAt(g, tip, everKnown)
  <2>1. a.kind = k /\ a.outpoint = o /\ a.index = txindex /\ k \in {"missing", "spent"}
    BY Zenon
  <2>2. k = "missing" /\ o[2] = 1 => AbsentAt(o[1], txindex, tip)
    <3>1. GetRawTransaction(o[1]).found = "-5" => AbsentAt(o[1], txindex, tip)
      BY Zenon, <1>1, <1>2, RawTransaction
    <3> HIDE DEF o
    <3> QED BY Zenon, <3>1
  <2> HIDE DEF a, g, k, o
  <2> QED BY Zenon, <1>2, <2>1, <2>2 DEF HoldsAt
<1> HIDE DEF a
<1> QED BY Zenon, <1>1, <1>2, AnswerGiven

\* transaction_status.
LEMMA StatusRead ==
  ASSUME GatewayInv, TransactionStatus
  PROVE  GatewayInv'
<1> DEFINE r == GetRawTransaction(gw.tx)
<1>0. gw # Idle /\ gw.phase = "act" /\ UNCHANGED nodeVars
  BY Zenon DEF TransactionStatus
<1>1. CASE \E error : Fail(error)
  BY Zenon, <1>0, <1>1, Failed
<1>2. ASSUME NEW a, Answer(a), UNCHANGED result,
             \/ r.found = "-5" /\ a = [kind |-> "Missing", index |-> txindex]
             \/ r.found = "mempool" /\ a = [kind |-> "Mempool"]
             \/ /\ r.found = "block" /\ r.confirmations > 0
                /\ a = [kind |-> "Confirmed", block |-> r.block, confirmations |-> r.confirmations]
      PROVE  GatewayInv'
  <2> DEFINE g == [gw EXCEPT !.answer = a, !.phase = "after"]
  <2>1. ASSUME gw.before.tip = tip, g.answer = a, g.tx = gw.tx
        PROVE  HoldsAt(g, tip, everKnown)
    <3>1. /\ r.found = "mempool" => gw.tx \notin ConfirmedAt(tip)
          /\ r.found = "-5" => AbsentAt(gw.tx, txindex, tip)
          /\ r.found = "block" /\ r.confirmations > 0 =>
                  /\ gw.tx \in ConfirmedAt(tip) /\ r.block = BlockOf(gw.tx, tip)
                  /\ r.confirmations = Confirmations(r.block, tip)
      BY Zenon, <1>0, <2>1, RawTransaction
    <3> HIDE DEF g, r
    <3>2. CASE r.found = "-5" /\ a = [kind |-> "Missing", index |-> txindex]
      <4>1. a.kind = "Missing" /\ a.index = txindex
        BY Zenon, <3>2
      <4> QED BY ONLY <2>1, <3>1, <3>2, <4>1 DEF HoldsAt
    <3>3. CASE r.found = "mempool" /\ a = [kind |-> "Mempool"]
      <4>1. a.kind = "Mempool"
        BY Zenon, <3>3
      <4> QED BY ONLY <2>1, <3>1, <3>3, <4>1 DEF HoldsAt
    <3>4. CASE /\ r.found = "block" /\ r.confirmations > 0
               /\ a = [kind |-> "Confirmed", block |-> r.block, confirmations |-> r.confirmations]
      <4>1. a.kind = "Confirmed" /\ a.block = r.block /\ a.confirmations = r.confirmations
        BY Zenon, <3>4
      <4> QED BY ONLY <2>1, <3>1, <3>4, <4>1 DEF HoldsAt
    <3> QED BY Zenon, <1>2, <3>2, <3>3, <3>4
  <2>2. UNCHANGED <<nodeVars, result>>
    BY Zenon, <1>0, <1>2
  <2>3. g = [gw EXCEPT !.answer = a, !.phase = "after"]
    BY Zenon
  <2> HIDE DEF g, r
  <2> QED BY ONLY Zenon, GatewayInv, <1>0, Answer(a), <2>1, <2>2, <2>3, AnswerGiven
<1>3. r.found \in {"mempool", "block", "-5"}
  BY Zenon DEF GetRawTransaction
<1>4. \/ \E error : Fail(error)
      \/ \E a : /\ Answer(a) /\ UNCHANGED result
                 /\ \/ r.found = "-5" /\ a = [kind |-> "Missing", index |-> txindex]
                    \/ r.found = "mempool" /\ a = [kind |-> "Mempool"]
                    \/ /\ r.found = "block" /\ r.confirmations > 0
                       /\ a = [kind |-> "Confirmed", block |-> r.block,
                                confirmations |-> r.confirmations]
  <2> HIDE DEF r
  <2>1. CASE r.found = "-5"
    <3>1. Answer([kind |-> "Missing", index |-> txindex]) /\ UNCHANGED result
      BY Zenon, <2>1 DEF TransactionStatus, r
    <3> QED BY Zenon, <2>1, <3>1
  <2>2. CASE r.found = "mempool"
    <3>1. Answer([kind |-> "Mempool"]) /\ UNCHANGED result
      BY Zenon, <2>2 DEF TransactionStatus, r
    <3> QED BY Zenon, <2>2, <3>1
  <2>3. CASE r.found = "block"
    <3>1. \/ /\ r.confirmations > 0 /\ UNCHANGED result
             /\ Answer([kind |-> "Confirmed", block |-> r.block, confirmations |-> r.confirmations])
          \/ Fail("inconsistent")
      BY Zenon, <2>3 DEF TransactionStatus, r
    <3> QED BY Zenon, <2>3, <3>1
  <2> QED BY Zenon, <1>3, <2>1, <2>2, <2>3
<1> QED BY Zenon, <1>1, <1>2, <1>4

\* test_mempool_accept: its answer is about the pool.
LEMMA AcceptTested ==
  ASSUME GatewayInv, TestMempoolAccept
  PROVE  GatewayInv'
<1> DEFINE k == TestMempoolAcceptAt(gw.tx)
           a == [kind |-> k]
           g == [gw EXCEPT !.answer = a, !.phase = "after"]
<1>1. gw # Idle /\ gw.phase = "act" /\ Answer(a) /\ UNCHANGED <<nodeVars, result>>
  BY Zenon DEF TestMempoolAccept
<1>2. a.kind \in {"allowed", "known", "rejected"}
  BY Zenon DEF TestMempoolAcceptAt
<1>3. g.answer = a => HoldsAt(g, tip, everKnown)
  <2> HIDE DEF a, g
  <2> QED BY Zenon, <1>2 DEF HoldsAt
<1> HIDE DEF a
<1> QED BY Zenon, <1>1, <1>3, AnswerGiven

\* The preflight of a broadcast.
LEMMA Preflighted ==
  ASSUME GatewayInv, Preflight
  PROVE  GatewayInv'
<1> DEFINE k == TestMempoolAcceptAt(gw.tx)
           p == [gw EXCEPT !.phase = "pre"]
<1>0. gw # Idle /\ gw.phase = "act" /\ UNCHANGED nodeVars
  BY Zenon DEF Preflight
<1>1. /\ Operation(gw) /\ gw.seen = None /\ gw.op # "snapshot" /\ gw.op # "idle"
      /\ gw.sent = None /\ gw.before.tip \in Hashes /\ gw.before.id = SnapshotId(gw.before.tip)
      /\ NoLater(gw.before.tip, tip) /\ NodeInv(tip, txindex, mempool, everKnown)
  BY Zenon, <1>0, Acting
<1>2. CASE k = "allowed"
  <2>1. gw' = p /\ UNCHANGED result
    BY Zenon, <1>2 DEF Preflight
  <2>2. /\ Operation(p) /\ p.op = gw.op /\ p.before = gw.before /\ p.seen = None /\ p.phase = "pre"
        /\ p.sent = None
    BY <1>1 DEF Operation
  <2>3. Current(p, tip) = tip
    BY Zenon, <2>2 DEF Current
  <2>4. Running(p, tip, txindex, everKnown)
    <3> HIDE DEF p
    <3> QED BY Zenon, <1>1, <2>2, <2>3 DEF Running, Bracketed
  <2> QED BY Zenon, <1>0, <2>1, <2>4, GoesOn
<1>3. CASE k = "known"
  <2> DEFINE a == [kind |-> "AlreadyKnown"]
             g == [gw EXCEPT !.answer = a, !.phase = "after"]
  <2>1. Answer(a) /\ UNCHANGED result
    BY Zenon, <1>3 DEF Preflight
  <2>2. gw.tx \in everKnown
    BY Zenon, <1>1, <1>3 DEF TestMempoolAcceptAt, KnownToNode, NodeInv
  <2>3. gw.sent = None
    BY Zenon, <1>0, Acting
  <2>4. g.answer = a /\ g.tx = gw.tx /\ g.sent = gw.sent => HoldsAt(g, tip, everKnown)
    <3>1. a.kind = "AlreadyKnown"
      BY Zenon
    <3> HIDE DEF a, g
    <3> QED BY Zenon, <2>2, <2>3, <3>1 DEF HoldsAt
  <2> HIDE DEF a
  <2> QED BY Zenon, <1>0, <2>1, <2>4, AnswerGiven
<1>4. CASE k = "rejected"
  <2>1. Fail("mempool_rejected")
    BY Zenon, <1>4 DEF Preflight
  <2> QED BY Zenon, <1>0, <2>1, Failed
<1>5. k \in {"allowed", "known", "rejected"}
  BY Zenon DEF TestMempoolAcceptAt
<1> QED BY Zenon, <1>2, <1>3, <1>4, <1>5

\* sendrawtransaction: the submission is recorded with the tip of that time.
LEMMA RawSent ==
  ASSUME GatewayInv, SendRawTransaction
  PROVE  GatewayInv'
<1>1. /\ Operation(gw) /\ gw.seen = None /\ NodeInv(tip, txindex, mempool, everKnown)
      /\ gw # Idle /\ gw.phase = "send" /\ tip' = tip /\ txindex' = txindex
      /\ mempool' = IF Acceptable(gw.tx) THEN mempool \cup {gw.tx} ELSE mempool
      /\ everKnown' = everKnown \cup mempool'
  BY Zenon, Acting DEF SendRawTransaction
<1>2. NodeInv(tip', txindex', mempool', everKnown')
  BY Zenon, <1>1 DEF NodeInv, Acceptable, KnownToNode
<1>3. CASE Fail("rpc")
  <2>1. gw' = Idle /\ result'.kind = "error"
    BY Zenon, <1>3 DEF Fail
  <2>2. AnswerHoldsAtSnapshot'
    BY Zenon, <2>1 DEF AnswerHoldsAtSnapshot
  <2> QED BY Zenon, <1>2, <2>1, <2>2 DEF GatewayInv
<1>4. ASSUME NEW k \in {"Submitted", "AlreadyKnown"}, UNCHANGED result, gw.tx \in everKnown',
             gw' = [[gw EXCEPT !.sent = [kind |-> "sent", tip |-> tip], !.phase = "after"]
                      EXCEPT !.answer = [kind |-> k]]
      PROVE  GatewayInv'
  <2>1. /\ Operation(gw') /\ gw'.op = gw.op /\ gw'.before = gw.before /\ gw'.seen = None
        /\ gw'.phase = "after" /\ gw'.answer = [kind |-> k] /\ gw'.tx = gw.tx
        /\ gw'.sent = [kind |-> "sent", tip |-> tip]
    BY Zenon, <1>1, <1>4 DEF Operation
  <2>2. HoldsAt(gw', tip, everKnown')
    BY <1>4, <2>1 DEF HoldsAt
  <2>3. Running(gw', tip, txindex, everKnown')
    BY Zenon, <1>1, <2>1, <2>2, Answered
  <2>4. AnswerHoldsAtSnapshot'
    <3>1. everKnown \subseteq everKnown'
      BY Zenon, <1>1
    <3> QED BY Zenon, <1>4, <3>1, HoldsOn DEF GatewayInv, AnswerHoldsAtSnapshot
  <2> QED BY Zenon, <1>1, <1>2, <2>3, <2>4 DEF GatewayInv
<1>5. \/ Fail("rpc")
      \/ \E k \in {"Submitted", "AlreadyKnown"} :
            /\ UNCHANGED result /\ gw.tx \in everKnown'
            /\ gw' = [[gw EXCEPT !.sent = [kind |-> "sent", tip |-> tip], !.phase = "after"]
                      EXCEPT !.answer = [kind |-> k]]
  <2>1. Acceptable(gw.tx) \/ gw.tx \in mempool => gw.tx \in everKnown'
    BY Zenon, <1>1
  <2>2. gw.tx \in ConfirmedAt(tip) => gw.tx \in everKnown'
    BY Zenon, <1>1 DEF NodeInv
  <2> QED BY Zenon, <2>1, <2>2 DEF SendRawTransaction
<1> QED BY Zenon, <1>3, <1>4, <1>5

\* A step of the node: the chain's tip, the index and the pool move, and the
\* operation does not.
LEMMA NodeMoved ==
  ASSUME GatewayInv, UNCHANGED <<gw, result>>, NodeInv(tip', txindex', mempool', everKnown'),
         everKnown \subseteq everKnown',
         \/ Work(tip) < Work(tip') /\ txindex' = txindex
         \/ tip' = tip /\ txindex' \in {tip, txindex}
  PROVE  GatewayInv'
<1>1. AnswerHoldsAtSnapshot'
  BY Zenon, HoldsOn DEF GatewayInv, AnswerHoldsAtSnapshot
<1>2. ASSUME gw # Idle
      PROVE  Running(gw, tip', txindex', everKnown')
  <2>0. Running(gw, tip, txindex, everKnown) /\ tip \in Hashes /\ tip' \in Hashes
    BY Zenon, <1>2 DEF GatewayInv, NodeInv
  <2>1. NoLater(tip, tip')
    BY Zenon DEF NoLater
  <2>2. gw.seen # None => gw.seen.hash \in Hashes /\ NoLater(gw.seen.hash, tip')
    BY Zenon, <2>0, <2>1, NoLaterTrans DEF Running
  <2>3. Bracketed(gw) => /\ gw.before.tip \in Hashes /\ NoLater(gw.before.tip, Current(gw, tip'))
                         /\ gw.before.tip = Current(gw, tip') => gw.before.tip = Current(gw, tip)
    <3>1. CASE gw.seen = None
      <4>1. Current(gw, tip) = tip /\ Current(gw, tip') = tip'
        BY Zenon, <3>1 DEF Current
      <4>2. ASSUME Bracketed(gw) PROVE gw.before.tip \in Hashes /\ NoLater(gw.before.tip, tip)
        BY Zenon, <2>0, <4>1, <4>2 DEF Running
      <4>3. ASSUME Bracketed(gw)
            PROVE  NoLater(gw.before.tip, tip') /\ (gw.before.tip = tip' => tip = tip')
        BY Zenon, <2>0, <2>1, <4>2, <4>3, NoLaterTrans
      <4> QED BY Zenon, <4>1, <4>2, <4>3
    <3>2. CASE gw.seen # None
      <4>1. Current(gw, tip') = Current(gw, tip)
        BY Zenon, <3>2 DEF Current
      <4> QED BY Zenon, <2>0, <4>1 DEF Running
    <3> QED BY Zenon, <3>1, <3>2
  <2>4. ASSUME gw.phase \in {"act", "classify"}, gw.before.tip = tip'
        PROVE  Block(txindex').height = Block(tip').height
    <3>1. gw.before.tip = tip
      <4>1. Bracketed(gw) /\ gw.seen = None
        BY Zenon, <2>0, <2>4 DEF Running, Bracketed
      <4> QED BY Zenon, <2>3, <2>4, <4>1 DEF Current
    <3>2. Block(txindex).height = Block(tip).height
      BY Zenon, <2>0, <2>4, <3>1 DEF Running
    <3> QED BY Zenon, <2>4, <3>1, <3>2, <2>0, BlockFacts
  <2>5. ASSUME gw.phase = "after", gw.op \in {"resolve", "status", "broadcast"},
               gw.before.tip = Current(gw, tip')
        PROVE  HoldsAt(gw, gw.before.tip, everKnown')
    <3>1. Bracketed(gw)
      BY Zenon, <2>5 DEF Bracketed
    <3> QED BY Zenon, <2>0, <2>3, <2>5, <3>1, HoldsOn DEF Running
  <2> QED BY Zenon, <2>0, <2>2, <2>3, <2>4, <2>5 DEF Running
<1> QED BY Zenon, <1>1, <1>2 DEF GatewayInv

\* Every step of the node or of an operation keeps the invariant.
LEMMA GatewayInvStep == GatewayInv /\ [GatewayNext]_gatewayVars => GatewayInv'
<1> SUFFICES ASSUME GatewayInv, [GatewayNext]_gatewayVars PROVE GatewayInv'
  BY Zenon
<1>0. NodeInv(tip, txindex, mempool, everKnown)
  BY Zenon DEF GatewayInv
<1>1. CASE UNCHANGED <<nodeVars, gw, result>>
  BY Zenon, <1>1 DEF GatewayInv, nodeVars, AnswerHoldsAtSnapshot
<1>2. CASE \E r \in NodeRequests : Start(r)
  BY Zenon, <1>2, Started
<1>3. CASE SnapshotTip
  BY Zenon, <1>3, TipRead
<1>4. CASE SnapshotRest
  BY Zenon, <1>4, SnapshotTaken
<1>5. CASE GetTxOut
  BY Zenon, <1>5, PrevoutRead
<1>6. CASE ClassifyUnavailablePrevout
  BY Zenon, <1>6, PrevoutClassified
<1>7. CASE TransactionStatus
  BY Zenon, <1>7, StatusRead
<1>8. CASE TestMempoolAccept
  BY Zenon, <1>8, AcceptTested
<1>9. CASE Preflight
  BY Zenon, <1>9, Preflighted
<1>10. CASE SendRawTransaction
  BY Zenon, <1>10, RawSent
<1>11. CASE RpcFails
  BY Zenon, <1>11, Failed DEF RpcFails
<1>12. CASE \E b \in NodeBlocks : NewTip(b.hash)
  <2> PICK b \in NodeBlocks : NewTip(b.hash)
    BY Zenon, <1>12
  <2>1. tip' \in Hashes /\ Work(tip) < Work(tip')
    <3>1. Work(b.hash) > Work(tip) /\ tip' = b.hash /\ b.hash \in Hashes
      BY Zenon DEF NewTip, Work, Hashes
    <3>2. Work(b.hash) \in Nat /\ Work(tip) \in Nat
      BY Zenon, <3>1, <1>0, BlockFacts DEF NodeInv
    <3> QED BY Zenon, <3>1, <3>2
  <2>2. /\ mempool' \subseteq (mempool \cup ConfirmedAt(tip)) \ ConfirmedAt(tip')
        /\ everKnown' = everKnown \cup ConfirmedAt(tip') /\ UNCHANGED <<txindex, gw, result>>
    BY Zenon DEF NewTip
  <2>3. NodeInv(tip', txindex', mempool', everKnown')
    BY Zenon, <1>0, <2>1, <2>2 DEF NodeInv
  <2> QED BY Zenon, <2>1, <2>2, <2>3, NodeMoved
<1>13. CASE IndexBlock
  <2>1. UNCHANGED <<tip, mempool, everKnown, gw, result>> /\ txindex' = tip
    BY Zenon, <1>13 DEF IndexBlock
  <2>2. NodeInv(tip', txindex', mempool', everKnown')
    BY Zenon, <1>0, <2>1 DEF NodeInv
  <2> QED BY Zenon, <2>1, <2>2, NodeMoved
<1>14. CASE \E t \in NodeTxs : MempoolChanges(t)
  <2> PICK t \in NodeTxs : MempoolChanges(t)
    BY Zenon, <1>14
  <2>1. UNCHANGED <<tip, txindex, gw, result>> /\ everKnown' = everKnown \cup mempool'
    BY Zenon DEF MempoolChanges
  <2>2. mempool' \cap ConfirmedAt(tip) = {}
    BY Zenon, <1>0 DEF MempoolChanges, Acceptable, KnownToNode, NodeInv
  <2>3. NodeInv(tip', txindex', mempool', everKnown')
    BY Zenon, <1>0, <2>1, <2>2 DEF NodeInv
  <2> QED BY Zenon, <2>1, <2>3, NodeMoved
<1>15. CASE Connect \/ Tick
  BY Zenon, <1>1, <1>15 DEF Connect, Tick
<1>16. CASE UNCHANGED gatewayVars
  BY Zenon, <1>1, <1>16 DEF gatewayVars, nodeVars
<1> QED
  BY Zenon, <1>2, <1>3, <1>4, <1>5, <1>6, <1>7, <1>8, <1>9, <1>10, <1>11, <1>12, <1>13, <1>14,
     <1>15, <1>16 DEF GatewayNext

\* For any tree of blocks, requests and moves of the node between the calls of
\* an operation, what the operation returns holds of the chain its snapshot
\* names (chain_snapshot before and after, ensure_same_tip).
THEOREM AnswersHold == GatewaySpec => []AnswerHoldsAtSnapshot
<1>1. GatewayInv => AnswerHoldsAtSnapshot
  BY Zenon DEF GatewayInv
<1> QED BY GatewayInvInit, GatewayInvStep, <1>1, PTL DEF GatewaySpec

----------------------------------------------------------------------------
(***************************************************************************)
(* The policy registry                                                      *)
(*                                                                         *)
(* What a set of tables can hold when the wallet is at recovery epoch e: at *)
(* most one row per policy, from no later epoch and for a bundle of that    *)
(* policy; and proposals of no later epoch, where one of epoch e names the  *)
(* row its policy has.  The live tables are such tables at the wallet's     *)
(* epoch, a backup at its own, and what restores ended is older than the    *)
(* wallet: so no step has to look at the history of a proposal.             *)
(***************************************************************************)
RowsAt(docs, e) ==
    /\ docs = [p \in Policies |-> docs[p]]
    /\ \A p \in Policies : \A row \in docs[p] :
          /\ docs[p] = {[bundle |-> row.bundle, epoch |-> row.epoch]}
          /\ row.epoch \in Nat /\ row.epoch <= e
          /\ PolicyOf[row.bundle] = {p}

ProposalsAt(acts, docs, e) ==
    \A a \in acts :
       /\ a.wallet_epoch \in Nat /\ a.wallet_epoch <= e
       /\ a.policy \in Policies
       /\ a.wallet_epoch = e => docs[a.policy] = {[bundle |-> a.bundle, epoch |-> e]}

TablesAt(docs, acts, e) == e \in Nat /\ RowsAt(docs, e) /\ ProposalsAt(acts, docs, e)

PolicyInv ==
    /\ TablesAt(documents, activations, epoch)
    /\ \A b \in backups : TablesAt(b.documents, b.activations, b.epoch)
    /\ \A a \in voided : a.wallet_epoch \in Nat /\ a.wallet_epoch < epoch

\* Storing a bundle for a policy that has none, as store_policy_bundle_bytes
\* does, leaves tables of the same epoch: nothing of this epoch was proposed
\* for that policy.
LEMMA BundleStored ==
    ASSUME NEW docs, NEW acts, NEW e, TablesAt(docs, acts, e),
           NEW policy, NEW file, docs[policy] = {}, PolicyOf[file] = {policy}
    PROVE  TablesAt([docs EXCEPT ![policy] = {[bundle |-> file, epoch |-> e]}], acts, e)
<1> DEFINE new == [docs EXCEPT ![policy] = {[bundle |-> file, epoch |-> e]}]
<1>1. docs = [p \in Policies |-> docs[p]] /\ e \in Nat
  BY Zenon DEF TablesAt, RowsAt
<1>2. new = [p \in Policies |-> IF p = policy THEN {[bundle |-> file, epoch |-> e]} ELSE docs[p]]
  BY Zenon, <1>1
<1> HIDE DEF new
<1>3. RowsAt(new, e)
  <2>1. new = [p \in Policies |-> new[p]]
    BY Zenon, <1>2
  <2>2. ASSUME NEW p \in Policies, NEW row \in new[p]
        PROVE  /\ new[p] = {[bundle |-> row.bundle, epoch |-> row.epoch]}
               /\ row.epoch \in Nat /\ row.epoch <= e
               /\ PolicyOf[row.bundle] = {p}
    <3>1. CASE p = policy
      <4>1. row = [bundle |-> file, epoch |-> e]
        BY Zenon, <1>2, <2>2, <3>1
      <4> QED BY <1>1, <1>2, <2>2, <3>1, <4>1
    <3>2. CASE p # policy
      BY Zenon, <1>2, <2>2, <3>2 DEF TablesAt, RowsAt
    <3> QED BY Zenon, <3>1, <3>2
  <2> QED BY Zenon, <2>1, <2>2 DEF RowsAt
<1>4. ProposalsAt(acts, new, e)
  BY Zenon, <1>2 DEF TablesAt, ProposalsAt
<1> QED BY Zenon, <1>1, <1>3, <1>4 DEF TablesAt, new

\* A proposal accepted by propose_policy_activation joins tables of the same
\* epoch: the join it was checked against found the one row of its policy.
LEMMA ProposalAccepted ==
    ASSUME NEW docs, NEW acts, NEW e, TablesAt(docs, acts, e),
           NEW a, a.policy \in Policies, a.wallet_epoch = e,
           \E row \in docs[a.policy] : row.epoch = a.wallet_epoch /\ row.bundle = a.bundle
    PROVE  TablesAt(docs, acts \cup {a}, e)
<1>1. docs[a.policy] = {[bundle |-> a.bundle, epoch |-> e]} /\ e \in Nat
  BY DEF TablesAt, RowsAt
<1>2. ProposalsAt(acts \cup {a}, docs, e)
  BY <1>1 DEF TablesAt, ProposalsAt
<1> QED BY Zenon, <1>2 DEF TablesAt

\* Tables of one epoch are tables of the next, in which nothing is proposed
\* yet: what a restore makes of a backup.
LEMMA EpochRaised ==
    ASSUME NEW docs, NEW acts, NEW e, TablesAt(docs, acts, e)
    PROVE  TablesAt(docs, acts, e + 1)
<1>1. e \in Nat /\ e + 1 \in Nat
  BY DEF TablesAt
<1>2. RowsAt(docs, e + 1)
  BY <1>1 DEF TablesAt, RowsAt
<1>3. ProposalsAt(acts, docs, e + 1)
  BY <1>1 DEF TablesAt, ProposalsAt
<1> QED BY Zenon, <1>1, <1>2, <1>3 DEF TablesAt

\* The empty registry.
LEMMA PolicyInvInit == PolicyInit => PolicyInv
BY DEF PolicyInit, PolicyInv, TablesAt, RowsAt, ProposalsAt

\* Every command of the registry keeps the invariant.
LEMMA PolicyInvNext == PolicyInv /\ [PolicyNext]_policyVars => PolicyInv'
<1> SUFFICES ASSUME PolicyInv, [PolicyNext]_policyVars PROVE PolicyInv'
  BY Zenon
<1>0. /\ TablesAt(documents, activations, epoch)
      /\ \A b \in backups : TablesAt(b.documents, b.activations, b.epoch)
      /\ \A a \in voided : a.wallet_epoch \in Nat /\ a.wallet_epoch < epoch
  BY Zenon DEF PolicyInv
<1>1. ASSUME NEW policy, NEW f, StorePolicyBundle(policy, f)
      PROVE  PolicyInv'
  <2>1. TablesAt(documents', activations, epoch)
    BY Zenon, <1>0, <1>1, BundleStored DEF StorePolicyBundle
  <2>2. activations' = activations /\ epoch' = epoch /\ backups' = backups /\ voided' = voided
    BY Zenon, <1>1 DEF StorePolicyBundle
  <2> QED BY Zenon, <1>0, <2>1, <2>2 DEF PolicyInv
<1>2. ASSUME NEW a, a.policy \in Policies, ProposePolicyActivation(a)
      PROVE  PolicyInv'
  <2>1. TablesAt(documents, activations', epoch)
    BY Zenon, <1>0, <1>2, ProposalAccepted DEF ProposePolicyActivation, Validated
  <2>2. documents' = documents /\ epoch' = epoch /\ backups' = backups /\ voided' = voided
    BY Zenon, <1>2 DEF ProposePolicyActivation
  <2> QED BY Zenon, <1>0, <2>1, <2>2 DEF PolicyInv
<1>3. CASE ExportBackup
  <2>1. backups' = {[epoch |-> epoch, documents |-> documents, activations |-> activations]}
    BY Zenon, <1>3 DEF ExportBackup
  <2>2. \A b \in backups' : TablesAt(b.documents, b.activations, b.epoch)
    BY <1>0, <2>1
  <2>3. documents' = documents /\ activations' = activations /\ epoch' = epoch /\ voided' = voided
    BY Zenon, <1>3 DEF ExportBackup
  <2> QED BY Zenon, <1>0, <2>2, <2>3 DEF PolicyInv
<1>4. CASE RestoreBackup
  <2>1. PICK b \in backups :
          /\ b.epoch >= epoch
          /\ epoch' = b.epoch + 1
          /\ documents' = b.documents /\ activations' = b.activations
          /\ voided' = voided \cup activations
          /\ backups' = backups
    BY Zenon, <1>4 DEF RestoreBackup
  <2>2. TablesAt(documents', activations', epoch')
    BY Zenon, <1>0, <2>1, EpochRaised
  <2>3. b.epoch \in Nat /\ epoch \in Nat /\ \A a \in activations : a.wallet_epoch \in Nat /\ a.wallet_epoch <= epoch
    BY Zenon, <1>0 DEF TablesAt, ProposalsAt
  <2>4. \A a \in voided' : a.wallet_epoch \in Nat /\ a.wallet_epoch < epoch'
    BY <1>0, <2>1, <2>3
  <2> QED BY Zenon, <1>0, <2>1, <2>2, <2>4 DEF PolicyInv
<1>5. ASSUME UNCHANGED <<documents, activations, epoch, backups, voided>>
      PROVE  PolicyInv'
  BY Zenon, <1>0, <1>5 DEF PolicyInv
<1>6. CASE \E n \in DOMAIN Sources : CompileCommand(n)
  BY Zenon, <1>1, <1>6 DEF CompileCommand
<1>7. CASE \E p \in Policies, f \in DOMAIN Files : StorePolicyBundle(p, f)
  BY Zenon, <1>1, <1>7
<1>8. CASE \E p \in Policies, i \in ActivationIds, s \in 0..1, e \in 0..MaxClock : Activate(p, i, s, e)
  BY Zenon, <1>2, <1>8 DEF Activate
<1>9. CASE \E p \in Policies, i \in ActivationIds, w \in 1..MaxEpoch, f \in DOMAIN Files :
             ProposeElsewhere(p, i, w, f)
  BY Zenon, <1>2, <1>9 DEF ProposeElsewhere
<1>10. CASE FinishRecovery
  BY Zenon, <1>5, <1>10 DEF FinishRecovery
<1>11. CASE UpgradeCompiler
  BY Zenon, <1>5, <1>11 DEF UpgradeCompiler
<1>12. CASE TickPolicy
  BY Zenon, <1>5, <1>12 DEF TickPolicy
<1>13. CASE UNCHANGED policyVars
  BY Zenon, <1>5, <1>13 DEF policyVars
<1> QED BY Zenon, <1>3, <1>4, <1>6, <1>7, <1>8, <1>9, <1>10, <1>11, <1>12, <1>13 DEF PolicyNext

\* A proposal that the registry reports pending was made in the current
\* recovery epoch, for the bundle its policy was stored with in that epoch,
\* and no restore ended it (propose_policy_activation, the join over
\* validation runs, and the epoch that every restore raises).
THEOREM PendingStaysValidated == PolicySpec => []PendingIsValidated
<1>1. PolicyInv => PendingIsValidated
  <2> SUFFICES ASSUME PolicyInv, NEW a \in activations, ActivationStatusAt(a, clock) = "pending"
               PROVE  /\ a \notin voided
                      /\ documents[a.policy] = {[bundle |-> a.bundle, epoch |-> epoch]}
                      /\ PolicyOf[a.bundle] = {a.policy}
    BY Zenon DEF PendingIsValidated
  <2>1. a.wallet_epoch = epoch
    BY Zenon DEF ActivationStatusAt
  <2>2. /\ epoch \in Nat
        /\ a.policy \in Policies
        /\ documents[a.policy] = {[bundle |-> a.bundle, epoch |-> epoch]}
    BY Zenon, <2>1 DEF PolicyInv, TablesAt, ProposalsAt
  <2>3. a \notin voided
    BY <2>1, <2>2 DEF PolicyInv
  <2>4. PolicyOf[a.bundle] = {a.policy}
    <3>1. [bundle |-> a.bundle, epoch |-> epoch] \in documents[a.policy]
      BY Zenon, <2>2
    <3> QED BY <2>2, <3>1 DEF PolicyInv, TablesAt, RowsAt
  <2> QED BY Zenon, <2>2, <2>3, <2>4
<1> QED BY <1>1, PolicyInvInit, PolicyInvNext, PTL DEF PolicySpec

-----------------------------------------------------------------------------
(* The two verifiers.                                                      *)

\* A transaction's outputs are a sequence of values with scripts.
LEMMA OutputShape ==
  ASSUME NEW n \in Names
  PROVE  /\ Len(Tx(n).outputs) \in Nat /\ DOMAIN Tx(n).outputs = 1..Len(Tx(n).outputs)
         /\ \A k \in 1..Len(Tx(n).outputs) : \A value, script :
              Tx(n).outputs[k] = [value |-> value, script |-> script]
                <=> Pays(Tx(n).outputs[k], value, script)
<1> DEFINE outs == Tx(n).outputs
<1>1. outs \in Seq(Range(outs)) /\ \A out \in Range(outs) : out = [value |-> out.value, script |-> out.script]
  BY Zenon, TradingAssumption
<1>2. Len(outs) \in Nat /\ DOMAIN outs = 1..Len(outs)
  <2> HIDE DEF outs
  <2> QED BY <1>1
<1>3. \A k \in 1..Len(outs) : outs[k] = [value |-> outs[k].value, script |-> outs[k].script]
  <2> HIDE DEF outs
  <2> QED BY Zenon, <1>1, <1>2 DEF Range
<1>4. ASSUME NEW k \in 1..Len(outs), NEW value, NEW script
      PROVE  outs[k] = [value |-> value, script |-> script] <=> Pays(outs[k], value, script)
  <2>1. outs[k] = [value |-> outs[k].value, script |-> outs[k].script]
    BY Zenon, <1>3
  <2> HIDE DEF outs
  <2> QED BY <2>1 DEF Pays
<1> QED BY Zenon, <1>2, <1>4

\* Of a listing transaction (AgentTradingApi::verify_list, WalletTradingApi::
\* verify_list).
LEMMA ListsAgree ==
  ASSUME NEW r, NEW h
  PROVE  AgentVerifyList(r, h) = WalletVerifyList(r, h)
BY Zenon DEF AgentVerifyList, WalletVerifyList, ListOutputs, SpendsFirst, CommonInputs

\* What is decoded is the transaction of the request.
LEMMA Decoded ==
  ASSUME NEW n \in Names, NEW t \in DecodeUnsigned(Requests[n].raw)
  PROVE  t = Tx(n)
BY Zenon DEF DecodeUnsigned, Tx

\* The two verifiers accept the same purchases.
LEMMA BuysAgree ==
  ASSUME NEW n \in Names, NEW h
  PROVE  AgentVerifyBuy(Requests[n], h) = WalletVerifyBuy(Requests[n], h)
<1> DEFINE r == Requests[n]
           l == r.listing
<1>1. ASSUME NEW t \in DecodeUnsigned(r.raw)
      PROVE  BuyOutputs(t, l, r.buyer_key) <=>
               /\ Len(t.outputs) \in {3, 4}
               /\ Pays(t.outputs[1], l.receipt.item_sat_amount, ItemOwnerScript(r.buyer_key))
               /\ Pays(t.outputs[2], l.price_sat, l.seller_payout_script)
               /\ Pays(t.outputs[3], l.creator_fee_sat, l.creator_fee_script)
               /\ Len(t.outputs) = 4 => t.outputs[4].script = ItemOwnerScript(r.buyer_key)
  <2>1. t = Tx(n)
    BY Zenon, <1>1, Decoded
  <2> DEFINE outs == t.outputs
  <2>2. /\ outs \in Seq(Range(outs)) /\ Len(outs) \in Nat
        /\ \A k \in 1..Len(outs) : \A value, script :
             outs[k] = [value |-> value, script |-> script] <=> Pays(outs[k], value, script)
    BY <2>1, OutputShape, TradingAssumption
  <2> HIDE DEF outs
  <2>3. ASSUME Len(outs) \in {3, 4}, NEW a, NEW b, NEW c
        PROVE  SubSeq(outs, 1, 3) = <<a, b, c>> <=> outs[1] = a /\ outs[2] = b /\ outs[3] = c
    <3>1. \A i \in 1..3 : outs[i] \in Range(outs)
      BY <2>2, <2>3
    <3>2. /\ SubSeq(outs, 1, 3) \in Seq(Range(outs)) /\ Len(SubSeq(outs, 1, 3)) = 3
          /\ \A i \in 1..3 : SubSeq(outs, 1, 3)[i] = outs[i]
      BY <3>1, SubSeqProperties
    <3>3. SubSeq(outs, 1, 3) = <<outs[1], outs[2], outs[3]>>
      <4> DEFINE s == SubSeq(outs, 1, 3)
      <4>1. s \in Seq(Range(outs)) /\ Len(s) = 3 /\ s[1] = outs[1] /\ s[2] = outs[2] /\ s[3] = outs[3]
        BY <3>2
      <4> HIDE DEF s
      <4>2. s = <<outs[1], outs[2], outs[3]>>
        BY <3>1, <4>1
      <4> QED BY Zenon, <4>2 DEF s
    <3> QED BY <3>3
  <2>4. Len(outs) \in {3, 4} => 1 \in 1..Len(outs) /\ 2 \in 1..Len(outs) /\ 3 \in 1..Len(outs)
    OBVIOUS
  <2>5. ASSUME NEW a, NEW b, NEW c, NEW va, NEW vb, NEW vc, NEW sa, NEW sb, NEW sc,
               a = [value |-> va, script |-> sa], b = [value |-> vb, script |-> sb],
               c = [value |-> vc, script |-> sc], Len(outs) \in {3, 4}
        PROVE  SubSeq(outs, 1, 3) = <<a, b, c>> <=>
                 Pays(outs[1], va, sa) /\ Pays(outs[2], vb, sb) /\ Pays(outs[3], vc, sc)
    <3>1. SubSeq(outs, 1, 3) = <<a, b, c>> <=> outs[1] = a /\ outs[2] = b /\ outs[3] = c
      BY <2>3, <2>5
    <3>2. outs[1] = a <=> Pays(outs[1], va, sa)
      BY <2>2, <2>4, <2>5
    <3>3. outs[2] = b <=> Pays(outs[2], vb, sb)
      BY <2>2, <2>4, <2>5
    <3>4. outs[3] = c <=> Pays(outs[3], vc, sc)
      BY <2>2, <2>4, <2>5
    <3> QED BY Zenon, <3>1, <3>2, <3>3, <3>4
  <2> USE DEF outs
  <2> QED BY <2>5 DEF BuyOutputs
<1>2. \A list \in {r.list_request} : AgentVerifyList(list, h) = WalletVerifyList(list, h)
  BY Zenon, ListsAgree
<1> QED BY Zenon, <1>1, <1>2 DEF AgentVerifyBuy, WalletVerifyBuy, SpendsFirst, CommonInputs

\* The two verifiers accept the same cancellations.
LEMMA CancelsAgree ==
  ASSUME NEW n \in Names, NEW h
  PROVE  AgentVerifyCancel(Requests[n], h) = WalletVerifyCancel(Requests[n], h)
<1> DEFINE r == Requests[n]
           l == r.listing
<1>1. ASSUME NEW t \in DecodeUnsigned(r.raw)
      PROVE  CancelOutputs(t, l) <=>
               /\ Len(t.outputs) \in {1, 2}
               /\ Pays(t.outputs[1], l.receipt.item_sat_amount, l.cancel_script)
               /\ Len(t.outputs) = 2 => t.outputs[2].script = l.cancel_script
  <2>1. t = Tx(n)
    BY <1>1, Decoded
  <2>2. /\ Len(t.outputs) \in Nat
        /\ \A k \in 1..Len(t.outputs) : \A value, script :
             t.outputs[k] = [value |-> value, script |-> script]
               <=> Pays(t.outputs[k], value, script)
    BY <2>1, OutputShape
  <2> QED BY <2>2 DEF CancelOutputs
<1>2. AgentVerifyList(r.list_request, l.expiry_height - 1)
        = WalletVerifyList(r.list_request, l.expiry_height - 1)
  BY Zenon, ListsAgree
<1> QED BY Zenon, <1>1, <1>2 DEF AgentVerifyCancel, WalletVerifyCancel, SpendsFirst, CommonInputs

\* The agent's and the wallet's verifiers accept the same requests at every
\* height and derive the same trade, whatever the request says
\* (AgentTradingApi::verify, WalletTradingApi::verify).
THEOREM VerifiersAlwaysAgree == TradingSpec => []VerifiersAgree
<1>1. \A n \in Names : \A h : AgentVerify(Requests[n], h) = WalletVerify(Requests[n], h)
  BY Zenon, ListsAgree, BuysAgree, CancelsAgree DEF AgentVerify, WalletVerify
<1>2. VerifiersAgree
  BY Zenon, <1>1 DEF VerifiersAgree, Disagreements
<1> QED BY <1>2, PTL

-----------------------------------------------------------------------------
(* The order output.                                                       *)

\* Intent m signs input j of transaction b by the rule of the output it spends.
Signs(m, b, j) ==
  /\ Tx(m).id = Tx(b).id /\ Requests[m].prevouts = Requests[b].prevouts
  /\ OwnInput(m) = j /\ SpendRule(m, Requests[m].prevouts[j])

\* Block i may hold transaction b when the group has signed sg: b is one of
\* them, spends what it says it spends, has the group's signatures for the
\* orders among it, and is not before its lock time.
Fits(b, i, sg) ==
  LET r == Requests[b]
  IN  /\ b \in sg
      /\ \A j \in DOMAIN Tx(b).inputs :
            /\ \/ Tx(b).inputs[j].prev \in DOMAIN BaseOutputs
               \/ \E m \in sg : \E k \in DOMAIN Tx(m).outputs :
                     /\ Tx(b).inputs[j].prev = <<Tx(m).id, k>>
                     /\ r.prevouts[j] = Tx(m).outputs[k]
            /\ GroupOrder(r.prevouts[j]) => \E m \in sg : Signs(m, b, j)
      /\ Tx(b).lock_time <= BaseHeight + i - 1

TradingInv ==
  /\ blocks \in Seq(Names \cup {0})
  /\ DOMAIN phase \subseteq Names
  /\ DOMAIN phase \ opaque \subseteq Reviewed
  /\ signed \subseteq DOMAIN phase
  /\ \A i \in DOMAIN blocks : blocks[i] # 0 => Fits(blocks[i], i, signed)

\* A verified trade is the listing seller's.
LEMMA VerifiedKey ==
  ASSUME NEW path, NEW l, NEW tx, NEW prevouts, NEW spent, NEW fee,
         NEW v \in Verified(path, l, tx, prevouts, spent, fee)
  PROVE  v.seller_key = l.seller_key
BY DEF Verified

\* What the wallet's review of a trade establishes (WalletTradingApi::verify).
LEMMA ReviewFacts ==
  ASSUME NEW n \in Reviewed, IsTrade(n)
  PROVE  LET l == Requests[n].listing
             out == Tx(n).outputs
         IN  /\ l.seller_key = GroupKey
             /\ Requests[n].path \in {"List", "Buy", "Cancel"}
             /\ Requests[n].path = "List" => out[1] = OrderTxOut(l) /\ Len(out) = 2
             /\ Requests[n].path = "Buy" =>
                  /\ Len(out) \in {3, 4}
                  /\ Pays(out[1], l.receipt.item_sat_amount, ItemOwnerScript(Requests[n].buyer_key))
                  /\ Pays(out[2], l.price_sat, l.seller_payout_script)
                  /\ Pays(out[3], l.creator_fee_sat, l.creator_fee_script)
             /\ Requests[n].path = "Cancel" =>
                  /\ Len(out) \in {1, 2}
                  /\ out[1].script = l.cancel_script
                  /\ Len(out) = 2 => out[2].script = l.cancel_script
<1> DEFINE r == Requests[n]
           l == r.listing
<1>1. n \in Names
  BY Zenon DEF Reviewed
<1>2. PICK h \in BaseHeight..MaxHeight : <<n, h>> \in WalletReviews
  BY Zenon DEF Reviewed
<1>3. PICK v \in WalletVerify(r, h) : v.seller_key = GroupKey
  BY Zenon, <1>2 DEF WalletReviews
<1>4. CASE r.path = "List"
  <2>1. v \in WalletVerifyList(r, h)
    BY Zenon, <1>3, <1>4 DEF WalletVerify
  <2>2. PICK t \in DecodeUnsigned(r.raw) :
          /\ v.seller_key = l.seller_key
          /\ Len(t.outputs) = 2 /\ t.outputs[1] = OrderTxOut(l)
    BY SMTT(30), <2>1, VerifiedKey DEF WalletVerifyList
  <2> QED BY Zenon, <1>1, <1>3, <1>4, <2>2, Decoded
<1>5. CASE r.path = "Buy"
  <2>1. v \in WalletVerifyBuy(r, h)
    BY Zenon, <1>3, <1>5 DEF WalletVerify
  <2>2. PICK t \in DecodeUnsigned(r.raw) :
          /\ v \in Verified("Buy", l, t, r.prevouts, r.order_outpoint,
                           Fee(t, r.prevouts, l.max_network_fee_sat))
          /\ Len(t.outputs) \in {3, 4}
          /\ Pays(t.outputs[1], l.receipt.item_sat_amount, ItemOwnerScript(r.buyer_key))
          /\ Pays(t.outputs[2], l.price_sat, l.seller_payout_script)
          /\ Pays(t.outputs[3], l.creator_fee_sat, l.creator_fee_script)
    BY SMTT(30), <2>1 DEF WalletVerifyBuy
  <2>3. v.seller_key = l.seller_key
    BY <2>2, VerifiedKey
  <2> QED BY Zenon, <1>1, <1>3, <1>5, <2>2, <2>3, Decoded
<1>6. CASE r.path = "Cancel"
  <2>1. v \in WalletVerifyCancel(r, h)
    BY Zenon, <1>3, <1>6 DEF WalletVerify
  <2>2. PICK t \in DecodeUnsigned(r.raw) :
          /\ v \in Verified("Cancel", l, t, r.prevouts, r.order_outpoint,
                           Fee(t, r.prevouts, l.max_network_fee_sat))
          /\ Len(t.outputs) \in {1, 2}
          /\ Pays(t.outputs[1], l.receipt.item_sat_amount, l.cancel_script)
          /\ Len(t.outputs) = 2 => t.outputs[2].script = l.cancel_script
    BY SMTT(30), <2>1 DEF WalletVerifyCancel
  <2>3. v.seller_key = l.seller_key
    BY <2>2, VerifiedKey
  <2> QED BY Zenon, <1>1, <1>3, <1>6, <2>2, <2>3, Decoded DEF Pays
<1>7. r.path \in {"List", "Buy", "Cancel"}
  BY Zenon, <1>3 DEF WalletVerify
<1> QED BY Zenon, <1>4, <1>5, <1>6, <1>7

\* A listing's output script names the listing.
LEMMA ScriptNamesListing ==
  ASSUME NEW a, NEW b, ListingOutputScript(a) = ListingOutputScript(b)
  PROVE  a = b
<1>1. {BuyLeaf(a), CancelLeaf(a)} = {BuyLeaf(b), CancelLeaf(b)}
  BY Zenon DEF ListingOutputScript, P2trOutputScript
<1>2. BuyLeaf(a) # CancelLeaf(b)
  BY Zenon DEF BuyLeaf, CancelLeaf
<1>3. BuyLeaf(a) = BuyLeaf(b)
  BY Zenon, <1>1, <1>2
<1> QED BY Zenon, <1>3 DEF BuyLeaf, Commitment

\* An order output that a block spends is the output of the listing
\* transaction, so it is spent through one of the listing's two leaves, by a
\* signature of a reviewed intent when none was unreviewed.
LEMMA OrderRule ==
  ASSUME TradingInv, NEW i \in DOMAIN blocks, blocks[i] # 0, ~SignedUnreviewed(blocks[i]),
         NEW j \in DOMAIN Tx(blocks[i]).inputs, NEW n \in Orders,
         Tx(blocks[i]).inputs[j].prev = <<Tx(n).id, 1>>
  PROVE  \E b \in Reviewed :
           /\ Tx(b) = Tx(blocks[i])
           /\ IsTrade(b) /\ Requests[b].path \in {"Buy", "Cancel"}
           /\ Requests[b].listing = Requests[n].listing
           /\ Requests[b].path = "Cancel" =>
                Tx(b).lock_time >= Requests[n].listing.expiry_height
<1> DEFINE c == blocks[i]
           l == Requests[n].listing
<1>1. c \in signed /\ n \in signed /\ signed \subseteq Names
  BY DEF TradingInv, Fits, Mined, Range, Orders
<1>2. c \in Names /\ n \in Names /\ IsTrade(n)
  BY Zenon, <1>1 DEF Orders, IsTrade
<1>3. l.seller_key = GroupKey /\ Tx(n).outputs[1] = OrderTxOut(l)
  BY Zenon DEF Orders
<1>4. Fits(c, i, signed)
  BY Zenon DEF TradingInv
<1>5. PICK m \in signed : \E k \in DOMAIN Tx(m).outputs :
          /\ Tx(c).inputs[j].prev = <<Tx(m).id, k>>
          /\ Requests[c].prevouts[j] = Tx(m).outputs[k]
  <2>1. Tx(c).inputs[j].prev \notin DOMAIN BaseOutputs
    BY <1>2, TradingAssumption
  <2> QED BY Zenon, <1>4, <2>1 DEF Fits
<1>6. Requests[c].prevouts[j] = OrderTxOut(l)
  <2>1. PICK k \in DOMAIN Tx(m).outputs :
          /\ <<Tx(n).id, 1>> = <<Tx(m).id, k>>
          /\ Requests[c].prevouts[j] = Tx(m).outputs[k]
    BY Zenon, <1>5
  <2>2. k = 1 /\ Tx(m).id = Tx(n).id
    BY Zenon, <2>1
  <2>3. Tx(m) = Tx(n)
    <3>1. m \in Names /\ n \in Names
      BY Zenon, <1>1, <1>2, <1>5
    <3> QED BY Zenon, <2>2, <3>1, TradingAssumption
  <2> QED BY Zenon, <1>3, <2>1, <2>2, <2>3
<1>7. GroupOrder(Requests[c].prevouts[j])
  BY <1>2, <1>3, <1>6 DEF GroupOrder, OrderTxOut
<1>8. PICK b \in signed : Signs(b, c, j)
  BY Zenon, <1>4, <1>7 DEF Fits
<1>9. b \in Names /\ b \in Reviewed /\ Tx(b) = Tx(c)
  <2>1. Tx(b).id = Tx(c).id
    BY Zenon, <1>8 DEF Signs
  <2>2. b \notin opaque
    BY Zenon, <1>8, <2>1 DEF SignedUnreviewed
  <2>3. b \in DOMAIN phase /\ b \in Names
    BY Zenon, <1>8 DEF TradingInv
  <2>4. b \in Reviewed
    BY Zenon, <2>2, <2>3 DEF TradingInv
  <2>5. Tx(b) = Tx(c)
    BY Zenon, <1>2, <2>1, <2>3, TradingAssumption
  <2> QED BY Zenon, <2>3, <2>4, <2>5
<1>10. SpendRule(b, OrderTxOut(l))
  BY Zenon, <1>6, <1>8 DEF Signs
<1>11. OrderTxOut(l).script # P2trOutputScript(GroupKey)
  BY Zenon, <1>2, TradingAssumption DEF OrderTxOut
<1>12. IsTrade(b) /\ LeafOf(Requests[b].path, Requests[b].listing) # {}
  BY Zenon, <1>10, <1>11 DEF SpendRule
<1>13. Requests[b].path \in {"Buy", "Cancel"}
  BY Zenon, <1>9, <1>12, ReviewFacts DEF LeafOf
<1>14. PICK leaf \in LeafOf(Requests[b].path, Requests[b].listing) :
         /\ OrderTxOut(l).script = ListingOutputScript(leaf.commitment)
         /\ leaf.leaf = "cancel" => Tx(b).lock_time >= leaf.after
  BY Zenon, <1>10, <1>12 DEF SpendRule
<1>15. leaf.commitment = l
  BY Zenon, <1>14, ScriptNamesListing DEF OrderTxOut
<1>16. /\ Requests[b].listing = l
       /\ Requests[b].path = "Cancel" => Tx(b).lock_time >= l.expiry_height
  <2>1. CASE Requests[b].path = "Buy"
    <3>1. leaf = BuyLeaf(Requests[b].listing)
      BY Zenon, <1>14, <2>1 DEF LeafOf
    <3> QED BY Zenon, <1>15, <2>1, <3>1 DEF BuyLeaf, Commitment
  <2>2. CASE Requests[b].path = "Cancel"
    <3>1. leaf = CancelLeaf(Requests[b].listing)
      BY Zenon, <1>14, <2>2 DEF LeafOf
    <3> QED BY Zenon, <1>14, <1>15, <3>1 DEF CancelLeaf, Commitment
  <2> QED BY Zenon, <1>13, <2>1, <2>2
<1> QED BY Zenon, <1>9, <1>12, <1>13, <1>16

\* Blocks that fit spend every order as its listing says.
LEMMA InvImpliesPolicy == TradingInv => OrderSpentByPolicy
<1> SUFFICES ASSUME TradingInv, NEW i \in DOMAIN blocks, blocks[i] # 0,
                    ~SignedUnreviewed(blocks[i]),
                    NEW j \in DOMAIN Tx(blocks[i]).inputs, NEW n \in Orders,
                    Tx(blocks[i]).inputs[j].prev = <<Tx(n).id, 1>>
             PROVE  LET l == Requests[n].listing
                        out == Tx(blocks[i]).outputs
                    IN  \/ /\ Len(out) >= 3
                           /\ out[2] = [value |-> l.price_sat, script |-> l.seller_payout_script]
                           /\ out[3] = [value |-> l.creator_fee_sat, script |-> l.creator_fee_script]
                           /\ out[1].value = l.receipt.item_sat_amount
                        \/ /\ \A k \in DOMAIN out : out[k].script = l.cancel_script
                           /\ BaseHeight + i - 1 >= l.expiry_height
  BY DEF OrderSpentByPolicy
<1>0. PICK b \in Reviewed :
        /\ Tx(b) = Tx(blocks[i])
        /\ IsTrade(b) /\ Requests[b].path \in {"Buy", "Cancel"}
        /\ Requests[b].listing = Requests[n].listing
        /\ Requests[b].path = "Cancel" => Tx(b).lock_time >= Requests[n].listing.expiry_height
  BY Zenon, OrderRule
<1> DEFINE l == Requests[n].listing
           out == Tx(b).outputs
<1> SUFFICES \/ /\ Len(out) >= 3
                /\ out[2] = [value |-> l.price_sat, script |-> l.seller_payout_script]
                /\ out[3] = [value |-> l.creator_fee_sat, script |-> l.creator_fee_script]
                /\ out[1].value = l.receipt.item_sat_amount
             \/ /\ \A k \in DOMAIN out : out[k].script = l.cancel_script
                /\ BaseHeight + i - 1 >= l.expiry_height
  <2>1. Tx(blocks[i]).outputs = out
    BY Zenon, <1>0
  <2> HIDE DEF out
  <2> QED BY Zenon, <2>1
<1>1. /\ IsTrade(b) /\ Requests[b].path \in {"Buy", "Cancel"} /\ Requests[b].listing = l
      /\ Requests[b].path = "Cancel" => Tx(b).lock_time >= l.expiry_height
  BY Zenon, <1>0
<1>2. b \in Reviewed /\ b \in Names
  BY Zenon, <1>0 DEF Reviewed
<1>3. CASE Requests[b].path = "Buy"
  <2>1. /\ Len(out) \in {3, 4}
        /\ Pays(out[1], l.receipt.item_sat_amount, ItemOwnerScript(Requests[b].buyer_key))
        /\ Pays(out[2], l.price_sat, l.seller_payout_script)
        /\ Pays(out[3], l.creator_fee_sat, l.creator_fee_script)
    <3> DEFINE own == Requests[b].listing
    <3>1. /\ Len(out) \in {3, 4}
          /\ Pays(out[1], own.receipt.item_sat_amount, ItemOwnerScript(Requests[b].buyer_key))
          /\ Pays(out[2], own.price_sat, own.seller_payout_script)
          /\ Pays(out[3], own.creator_fee_sat, own.creator_fee_script)
      BY Zenon, <1>1, <1>2, <1>3, ReviewFacts
    <3>2. own = l
      BY Zenon, <1>1
    <3> HIDE DEF own, out, l
    <3> QED BY Zenon, <3>1, <3>2
  <2>2. 2 \in 1..Len(out) /\ 3 \in 1..Len(out) /\ Len(out) >= 3
    BY <2>1
  <2>3. \A k \in 1..Len(out) : \A value, script :
          out[k] = [value |-> value, script |-> script] <=> Pays(out[k], value, script)
    BY Zenon, <1>2, OutputShape
  <2>4. out[1].value = l.receipt.item_sat_amount
    BY Zenon, <2>1 DEF Pays
  <2> HIDE DEF out
  <2>5. out[2] = [value |-> l.price_sat, script |-> l.seller_payout_script]
    BY <2>1, <2>2, <2>3
  <2>6. out[3] = [value |-> l.creator_fee_sat, script |-> l.creator_fee_script]
    BY <2>1, <2>2, <2>3
  <2> QED BY Zenon, <2>2, <2>4, <2>5, <2>6 DEF out
<1>4. CASE Requests[b].path = "Cancel"
  <2>1. /\ Len(out) \in {1, 2} /\ out[1].script = l.cancel_script
        /\ Len(out) = 2 => out[2].script = l.cancel_script
    <3> DEFINE own == Requests[b].listing
    <3>1. /\ Len(out) \in {1, 2} /\ out[1].script = own.cancel_script
          /\ Len(out) = 2 => out[2].script = own.cancel_script
      BY Zenon, <1>1, <1>2, <1>4, ReviewFacts
    <3>2. own = l
      BY Zenon, <1>1
    <3> HIDE DEF own, out, l
    <3> QED BY Zenon, <3>1, <3>2
  <2>2. DOMAIN out = 1..Len(out)
    BY Zenon, <1>2, OutputShape
  <2>3. \A k \in DOMAIN out : out[k].script = l.cancel_script
    <3> HIDE DEF out
    <3> QED BY <2>1, <2>2
  <2>4. Tx(b).lock_time <= BaseHeight + i - 1
    BY Zenon, <1>0 DEF TradingInv, Fits
  <2>5. BaseHeight + i - 1 \in Int /\ Tx(b).lock_time \in Nat /\ l.expiry_height \in Nat
    <3>1. i \in Nat
      BY DEF TradingInv
    <3> QED BY <1>1, <1>2, <3>1, TradingAssumption
  <2>6. BaseHeight + i - 1 >= l.expiry_height
    BY <1>1, <1>4, <2>4, <2>5
  <2> QED BY Zenon, <2>3, <2>6
<1> QED BY Zenon, <1>1, <1>3, <1>4

\* No intent, no signature, no block.
LEMMA TradingInitInv == TradingInit => TradingInv
BY DEF TradingInit, TradingInv

\* A block keeps what it was mined with: signatures are never withdrawn.
LEMMA FitsStays ==
  ASSUME NEW b, NEW i, NEW S, NEW T, S \subseteq T, Fits(b, i, S)
  PROVE  Fits(b, i, T)
BY Zenon DEF Fits

\* A block that fits still fits when more is signed.
LEMMA BlocksKept ==
  ASSUME TradingInv, signed \subseteq signed',
         NEW i \in DOMAIN blocks, blocks'[i] = blocks[i], blocks[i] # 0
  PROVE  Fits(blocks'[i], i, signed')
<1>1. Fits(blocks[i], i, signed)
  BY Zenon DEF TradingInv
<1>2. PICK b : b = blocks[i]
  BY Zenon
<1>3. Fits(b, i, signed')
  BY Zenon, <1>1, <1>2, FitsStays
<1> QED BY Zenon, <1>2, <1>3

\* A step that mines nothing keeps the invariant.
LEMMA SilentStep ==
  ASSUME TradingInv, UNCHANGED blocks, DOMAIN phase \subseteq DOMAIN phase',
         DOMAIN phase' \subseteq Names, DOMAIN phase' \ opaque' \subseteq Reviewed,
         signed \subseteq signed', signed' \subseteq DOMAIN phase'
  PROVE  TradingInv'
<1>1. blocks' \in Seq(Names \cup {0})
  BY Zenon DEF TradingInv
<1>2. \A i \in DOMAIN blocks' : blocks'[i] # 0 => Fits(blocks'[i], i, signed')
  BY Zenon, BlocksKept
<1>3. Reviewed' = Reviewed /\ Names' = Names
  BY Zenon DEF Reviewed, Names
<1> QED BY Zenon, <1>1, <1>2, <1>3 DEF TradingInv

\* Creating an intent.
LEMMA CreateKeeps ==
  ASSUME TradingInv, NEW n \in Names,
         CreateTradeIntent(n) \/ CreateTransactionIntent(n) \/ CreateIntent(n)
  PROVE  TradingInv'
<1>1. DOMAIN phase' = DOMAIN phase \cup {n} /\ UNCHANGED <<blocks, signed>>
  BY Zenon DEF CreateTradeIntent, CreateTransactionIntent, CreateIntent
<1>2. CASE CreateTradeIntent(n) \/ CreateTransactionIntent(n)
  <2>1. n \in Reviewed
    BY Zenon, <1>2
       DEF CreateTradeIntent, CreateTransactionIntent, WalletReview, WalletReviews, Reviewed
  <2>2. UNCHANGED opaque
    BY Zenon, <1>2 DEF CreateTradeIntent, CreateTransactionIntent
  <2> QED BY Zenon, <1>1, <2>1, <2>2, SilentStep DEF TradingInv
<1>3. CASE CreateIntent(n)
  <2>1. opaque' = opaque \cup {n}
    BY Zenon, <1>3 DEF CreateIntent
  <2> QED BY Zenon, <1>1, <2>1, SilentStep DEF TradingInv
<1> QED BY Zenon, <1>2, <1>3

\* Approving, signing, cancelling and submitting an intent.
LEMMA IntentKeeps ==
  ASSUME TradingInv, NEW n \in DOMAIN phase,
         \/ ApprovalStart(n) \/ ApprovalFinish(n) \/ SignIntent(n)
         \/ CancelTradeIntent(n) \/ SubmitVerified(n)
  PROVE  TradingInv'
<1>1. /\ DOMAIN phase' = DOMAIN phase /\ UNCHANGED <<blocks, opaque>>
      /\ signed' \in {signed, signed \cup {n}}
  BY Zenon DEF ApprovalStart, ApprovalFinish, SignIntent, CancelTradeIntent, SubmitVerified
<1> QED BY Zenon, <1>1, SilentStep DEF TradingInv

\* A new block holds a signed transaction that consensus accepts, or none.
LEMMA MineKeeps ==
  ASSUME TradingInv, NEW n \in signed \cup {0}, MineBlock(n)
  PROVE  TradingInv'
<1>1. /\ n \in Names \cup {0} /\ signed \subseteq Names /\ UNCHANGED <<phase, signed, opaque>>
      /\ blocks \in Seq(Names \cup {0}) /\ blocks' = Append(blocks, n) /\ BaseHeight \in Nat
  BY Zenon, TradingAssumption DEF MineBlock, TradingInv
<1>2. /\ blocks' \in Seq(Names \cup {0}) /\ DOMAIN blocks' = 1..(Len(blocks) + 1)
      /\ blocks'[Len(blocks) + 1] = n
      /\ \A i \in DOMAIN blocks : i \in DOMAIN blocks' /\ blocks'[i] = blocks[i]
      /\ DOMAIN blocks = 1..Len(blocks) /\ Len(blocks) \in Nat
  BY <1>1
<1>3. ASSUME n # 0
      PROVE  Fits(n, Len(blocks) + 1, signed)
  <2>1. ConsensusValid(n) /\ n \in signed
    BY Zenon, <1>3 DEF MineBlock
  <2>2. ASSUME NEW j \in DOMAIN Tx(n).inputs, GroupOrder(Requests[n].prevouts[j])
        PROVE  \E m \in signed : Signs(m, n, j)
    <3>1. SignedInput(n, j)
      BY Zenon, <2>1, <2>2 DEF ConsensusValid
    <3> QED BY Zenon, <3>1 DEF SignedInput, Signs
  <2>4. Tx(n).lock_time <= BaseHeight + (Len(blocks) + 1) - 1
    BY <1>1, <1>2, <2>1 DEF ConsensusValid, Height
  <2>5. Mined \subseteq signed
    <3>1. ASSUME NEW m \in Mined PROVE m \in signed
      <4>1. PICK i \in DOMAIN blocks : m = blocks[i] /\ blocks[i] # 0
        BY Zenon DEF Mined, Range
      <4>2. Fits(blocks[i], i, signed)
        BY Zenon, <4>1 DEF TradingInv
      <4> QED BY Zenon, <4>1, <4>2 DEF Fits
    <3> QED BY Zenon, <3>1
  <2>6. ASSUME NEW j \in DOMAIN Tx(n).inputs
        PROVE  \/ Tx(n).inputs[j].prev \in DOMAIN BaseOutputs
               \/ \E m \in signed : \E k \in DOMAIN Tx(m).outputs :
                     /\ Tx(n).inputs[j].prev = <<Tx(m).id, k>>
                     /\ Requests[n].prevouts[j] = Tx(m).outputs[k]
    <3>1. Requests[n].prevouts[j] \in OutputAt(Tx(n).inputs[j].prev)
      BY Zenon, <2>1, <2>6 DEF ConsensusValid
    <3> QED BY Zenon, <2>5, <3>1 DEF OutputAt
  <2> QED BY Zenon, <2>1, <2>2, <2>4, <2>6 DEF Fits
<1>4. ASSUME NEW i \in DOMAIN blocks', blocks'[i] # 0
      PROVE  Fits(blocks'[i], i, signed')
  <2>1. CASE i = Len(blocks) + 1
    <3>1. blocks'[i] = n /\ signed' = signed /\ n # 0
      BY Zenon, <1>1, <1>2, <1>4, <2>1
    <3> QED BY Zenon, <1>3, <2>1, <3>1
  <2>2. CASE i # Len(blocks) + 1
    BY <1>1, <1>2, <1>4, <2>2, BlocksKept
  <2> QED BY Zenon, <2>1, <2>2
<1>5. Reviewed' = Reviewed /\ Names' = Names
  BY Zenon DEF Reviewed, Names
<1> QED BY Zenon, <1>1, <1>2, <1>4, <1>5 DEF TradingInv

\* A reorganisation takes the last block away.
LEMMA DisconnectKeeps ==
  ASSUME TradingInv, DisconnectBlock
  PROVE  TradingInv'
<1>1. /\ blocks \in Seq(Names \cup {0}) /\ blocks # <<>> /\ UNCHANGED <<phase, signed, opaque>>
      /\ blocks' = SubSeq(blocks, 1, Len(blocks) - 1)
  BY Zenon DEF DisconnectBlock, TradingInv
<1>2. /\ blocks' \in Seq(Names \cup {0}) /\ Len(blocks') = Len(blocks) - 1
      /\ \A i \in 1..Len(blocks') : blocks'[i] = blocks[i]
  <2>1. \A i \in 1..(Len(blocks) - 1) : blocks[i] \in Names \cup {0}
    BY <1>1
  <2>2. Len(blocks) \in Nat /\ Len(blocks) # 0
    BY <1>1
  <2> DEFINE n == Len(blocks) - 1
  <2>3. n \in Nat
    BY <2>2
  <2> HIDE DEF n
  <2>4. /\ SubSeq(blocks, 1, n) \in Seq(Names \cup {0})
        /\ Len(SubSeq(blocks, 1, n)) = IF 1 <= n THEN n - 1 + 1 ELSE 0
        /\ \A i \in 1..(n - 1 + 1) : SubSeq(blocks, 1, n)[i] = blocks[1 + i - 1]
    BY <2>1, <2>3, SubSeqProperties DEF n
  <2>5. blocks' = SubSeq(blocks, 1, n) /\ n = Len(blocks) - 1
    BY Zenon, <1>1 DEF n
  <2>6. Len(blocks') = n
    <3>1. (IF 1 <= n THEN n - 1 + 1 ELSE 0) = n
      BY ONLY <2>3
    <3> QED BY Zenon, <2>4, <2>5, <3>1
  <2>7. ASSUME NEW i \in 1..Len(blocks') PROVE blocks'[i] = blocks[i]
    <3>1. i \in 1..(n - 1 + 1) /\ 1 + i - 1 = i
      BY <2>3, <2>6
    <3> QED BY Zenon, <2>4, <2>5, <3>1
  <2> QED BY Zenon, <2>4, <2>5, <2>6, <2>7
<1>3. \A i \in DOMAIN blocks' : i \in DOMAIN blocks /\ blocks'[i] = blocks[i]
  BY <1>1, <1>2
<1>4. \A i \in DOMAIN blocks' : blocks'[i] # 0 => Fits(blocks'[i], i, signed')
  BY Zenon, <1>1, <1>2, <1>3, BlocksKept
<1>5. Reviewed' = Reviewed /\ Names' = Names
  BY Zenon DEF Reviewed, Names
<1> QED BY Zenon, <1>1, <1>2, <1>4, <1>5 DEF TradingInv

\* Every step of the wallet and of the chain keeps the invariant.
LEMMA TradingStep == TradingInv /\ [TradingNext]_tradingVars => TradingInv'
<1> SUFFICES ASSUME TradingInv, [TradingNext]_tradingVars
             PROVE  TradingInv'
  OBVIOUS
<1>1. ASSUME NEW n \in Names,
             CreateTradeIntent(n) \/ CreateTransactionIntent(n) \/ CreateIntent(n)
      PROVE  TradingInv'
  BY Zenon, <1>1, CreateKeeps
<1>2. ASSUME NEW n \in DOMAIN phase,
             \/ ApprovalStart(n) \/ ApprovalFinish(n) \/ SignIntent(n)
             \/ CancelTradeIntent(n) \/ SubmitVerified(n)
      PROVE  TradingInv'
  BY Zenon, <1>2, IntentKeeps
<1>3. ASSUME NEW t \in DOMAIN tracker, MarkPending(t) \/ ConfirmCandidate(t)
      PROVE  TradingInv'
  BY Zenon, <1>3, SilentStep DEF MarkPending, ConfirmCandidate, TradingInv
<1>4. ASSUME NEW n \in signed \cup {0}, MineBlock(n)
      PROVE  TradingInv'
  BY Zenon, <1>4, MineKeeps
<1>5. CASE SetNodeSnapshot
  BY Zenon, <1>5, SilentStep DEF SetNodeSnapshot, TradingInv
<1>6. CASE RestartNode
  BY Zenon, <1>6, SilentStep DEF RestartNode, TradingInv
<1>7. CASE DisconnectBlock
  BY Zenon, <1>7, DisconnectKeeps
<1>8. CASE UNCHANGED tradingVars
  BY Zenon, <1>8, SilentStep DEF tradingVars, TradingInv
<1> QED BY Zenon, <1>1, <1>2, <1>3, <1>4, <1>5, <1>6, <1>7, <1>8 DEF TradingNext

\* Whatever mix of approvals, restarts, stale snapshots and reorganisations
\* happened, an order output of the group is spent on chain only by a sale that
\* pays the seller and the creator in full, or by a cancellation at or after
\* the expiry height that returns the item, or by a transaction of which the
\* user approved a bare digest (trading/lib.rs verify_buy, verify_cancel;
\* wallet-core node.rs approval_start).
THEOREM OrdersFollowPolicy == TradingSpec => []OrderSpentByPolicy
BY TradingInitInv, TradingStep, InvImpliesPolicy, PTL DEF TradingSpec
=============================================================================
