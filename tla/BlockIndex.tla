----------------------------- MODULE BlockIndex -----------------------------
(***************************************************************************)
(* The covenant discovery index of crates/indexer: one RocksDB with a       *)
(* column family per record kind.  Blocks are attached and detached in one  *)
(* write batch each; a reorganisation is a sequence of them under the       *)
(* writer lock, which readers do not take.                                  *)
(*                                                                         *)
(* db is what a reader sees.  unsynced lists the earlier contents a power   *)
(* failure can bring back: with durable writes it is empty.                 *)
(***************************************************************************)
EXTENDS Issuance, SequencesExt

CONSTANTS Blocks,        \* the blocks a node may deliver: [hash, prev, txs]
          Heights,       \* heights a caller passes
          ConfigTerms,   \* the issuance terms the index is configured with
          Labels,        \* checkpoint labels, which also name their directories
          DurableModes,  \* values of IndexerConfig.durable_writes
          MaxCrashes,    \* power failures
          MaxUnsynced    \* batches written since the last sync

ASSUME IndexBounds == MaxCrashes \in Nat /\ MaxUnsynced \in Nat

VARIABLES db,        \* the column families and the tip
          unsynced,  \* contents a power failure may return to
          durable,   \* IndexerConfig.durable_writes
          op,        \* the operation that holds the writer lock
          copies,    \* label -> the database in the checkpoint directory
          open,      \* "open", "closed", or "torn": the log ends in a partial record
          crashes,
          query      \* a block_by_height between its two reads, and its answer

indexVars == <<db, unsynced, durable, op, copies, open, crashes, query>>

ZeroHash == "zero"
NullOutPoint == <<"", 0>>
NoTip == [hash |-> ZeroHash, height |-> -1]
EmptyDb == [schema |-> 0, tip |-> NoTip, blocks |-> <<>>, heights |-> <<>>,
            transactions |-> <<>>, utxos |-> <<>>, transitions |-> <<>>, undo |-> <<>>,
            checkpoints |-> <<>>]
SchemaVersion == 1
Unlocked == [kind |-> "none"]
NoQuery == [state |-> "none"]

Put(f, k, v) == [x \in (DOMAIN f) \cup {k} |-> IF x = k THEN v ELSE f[x]]
PutAll(f, g) == [x \in (DOMAIN f) \cup (DOMAIN g) |-> IF x \in DOMAIN g THEN g[x] ELSE f[x]]
Delete(f, keys) == [x \in (DOMAIN f) \ keys |-> f[x]]

Provenance(block, height, i) == [block |-> block.hash, height |-> height, tx_index |-> i]

(***************************************************************************)
(* apply_block_locked.  The accumulator is the overlay view of the UTXO     *)
(* set and what the undo record needs.                                      *)
(***************************************************************************)
\* The issuance transitions of one transaction that pass wallet verification.
TransitionsOf(tx, prevout, prov) ==
    LET verified == UNION {UNION {
              {<<d, v>> : v \in VerifyMint(tx, d.outpoint, prevout[d.input_index], t)} :
                t \in {c \in ConfigTerms : TermsHash(c) = d.state.terms_hash}} :
            d \in {c \in Discover(tx).consumed_issuers : c.outpoint # NullOutPoint}}
    IN  [k \in {<<tx.id, p[2].input>> : p \in verified} |->
           LET p == CHOOSE q \in verified : q[2].input = k[2]
           IN  [terms_hash |-> p[2].state.terms_hash, lane |-> p[2].state.lane,
                sequence |-> p[2].state.seq, remaining_before |-> p[2].state.remaining,
                issuer_outpoint |-> p[1].outpoint,
                item_outpoint |-> <<tx.id, p[2].item>>,
                successor_outpoint |-> {<<tx.id, s>> : s \in p[2].successor},
                owner_key |-> p[2].witness.owner_key, fee |-> p[2].fee,
                provenance |-> prov]]

Spends(tx) == {tx.inputs[j].prev : j \in DOMAIN tx.inputs} \ {NullOutPoint}

DuplicateInput(tx) ==
    \E j, k \in DOMAIN tx.inputs :
        j # k /\ tx.inputs[j].prev = tx.inputs[k].prev /\ tx.inputs[j].prev # NullOutPoint

OutputRecords(tx, prov) ==
    [o \in {<<tx.id, k>> : k \in DOMAIN tx.outputs} |->
       [value |-> tx.outputs[o[2]].value, script |-> tx.outputs[o[2]].script,
        provenance |-> prov]]

ApplyTransaction(acc, tx, prov) ==
    IF ~acc.ok \/ DuplicateInput(tx) \/ ~(Spends(tx) \subseteq DOMAIN acc.utxos)
    THEN [acc EXCEPT !.ok = FALSE]
    ELSE LET prevout == [j \in {k \in DOMAIN tx.inputs : tx.inputs[k].prev # NullOutPoint} |->
                           acc.utxos[tx.inputs[j].prev]]
             created == OutputRecords(tx, prov)
             old == Spends(tx) \ acc.created
         IN  [acc EXCEPT
                !.transitions = PutAll(@, TransitionsOf(tx, prevout, prov)),
                !.restored = PutAll(@, [o \in old |-> acc.utxos[o]]),
                !.utxos = PutAll(Delete(@, Spends(tx)), created),
                !.created = @ \cup DOMAIN created]

TransactionIds(block) == {block.txs[i].id : i \in DOMAIN block.txs}

Accepts(d, height, block) ==
    /\ height = d.tip.height + 1
    /\ block.prev = d.tip.hash
    /\ block.hash \notin DOMAIN d.blocks
    /\ Cardinality(TransactionIds(block)) = Len(block.txs)
    /\ TransactionIds(block) \cap DOMAIN d.transactions = {}

\* The database after the batch of one block; empty when the block is refused.
ApplyBlockLocked(d, height, block) ==
    LET start == [ok |-> TRUE, utxos |-> d.utxos, created |-> {}, restored |-> <<>>,
                  transitions |-> <<>>]
        end == FoldLeft(LAMBDA acc, i : ApplyTransaction(acc, block.txs[i],
                                                         Provenance(block, height, i)),
                        start, [i \in DOMAIN block.txs |-> i])
    IN  IF ~Accepts(d, height, block) \/ ~end.ok THEN {}
        ELSE {[d EXCEPT
                 !.blocks = Put(@, block.hash, [height |-> height, previous |-> block.prev,
                                                raw |-> block]),
                 !.heights = Put(@, height, block.hash),
                 !.tip = [hash |-> block.hash, height |-> height],
                 !.transactions = PutAll(@, [t \in TransactionIds(block) |->
                      Provenance(block, height,
                                 CHOOSE i \in DOMAIN block.txs : block.txs[i].id = t)]),
                 !.utxos = end.utxos,
                 !.transitions = PutAll(@, end.transitions),
                 !.undo = Put(@, block.hash,
                      [previous_tip |-> d.tip, txids |-> TransactionIds(block),
                       created |-> end.created, restored |-> end.restored,
                       transitions |-> DOMAIN end.transitions])]}

\* Seeded fault: the outputs a block creates stay when the block is detached.
KeepCreated(d) ==
    LET u == d.undo[d.tip.hash]
    IN  [d EXCEPT !.blocks = Delete(@, {d.tip.hash}), !.heights = Delete(@, {d.tip.height}),
                  !.undo = Delete(@, {d.tip.hash}), !.transactions = Delete(@, u.txids),
                  !.utxos = PutAll(@, u.restored), !.transitions = Delete(@, u.transitions),
                  !.tip = u.previous_tip]

RollbackTipLocked(d) ==
    LET u == d.undo[d.tip.hash]
    IN  [d EXCEPT !.blocks = Delete(@, {d.tip.hash}),
                  !.heights = Delete(@, {d.tip.height}),
                  !.undo = Delete(@, {d.tip.hash}),
                  !.transactions = Delete(@, u.txids),
                  !.utxos = PutAll(Delete(@, u.created), u.restored),
                  !.transitions = Delete(@, u.transitions),
                  !.tip = u.previous_tip]

(***************************************************************************)
(* Writing a batch: synced, or left to the operating system.                *)
(***************************************************************************)
Write(new) ==
    /\ db' = new
    /\ unsynced' = IF durable THEN {} ELSE unsynced \cup {db}

WriteSynced(new) == db' = new /\ unsynced' = {}

CanWrite == Cardinality(unsynced) < MaxUnsynced \/ durable

ApplyBlock(height, block) ==
    /\ open = "open" /\ op = Unlocked /\ CanWrite
    /\ \E new \in ApplyBlockLocked(db, height, block) : Write(new)
    /\ UNCHANGED <<durable, op, copies, open, crashes, query>>

RollbackTip ==
    /\ open = "open" /\ op = Unlocked /\ CanWrite
    /\ db.tip # NoTip /\ db.tip.hash \in DOMAIN db.undo
    /\ Write(RollbackTipLocked(db))
    /\ UNCHANGED <<durable, op, copies, open, crashes, query>>

Canonical(ancestor) ==
    /\ ancestor \in DOMAIN db.blocks
    /\ LET h == db.blocks[ancestor].height
       IN  h \in DOMAIN db.heights /\ db.heights[h] = ancestor

RollbackTo(ancestor) ==
    /\ open = "open" /\ op = Unlocked
    /\ Canonical(ancestor)
    /\ op' = [kind |-> "detach", ancestor |-> ancestor,
              height |-> db.blocks[ancestor].height, replacement |-> <<>>]
    /\ UNCHANGED <<db, unsynced, durable, copies, open, crashes, query>>

\* Every height and parent of the replacement is compared before anything is detached.
Contiguous(ancestor, replacement) ==
    \A i \in DOMAIN replacement :
        replacement[i].prev = IF i = 1 THEN ancestor ELSE replacement[i - 1].hash

Reorganize(ancestor, replacement) ==
    /\ open = "open" /\ op = Unlocked
    /\ Canonical(ancestor)
    /\ Contiguous(ancestor, replacement)
    /\ op' = [kind |-> "detach", ancestor |-> ancestor,
              height |-> db.blocks[ancestor].height, replacement |-> replacement]
    /\ UNCHANGED <<db, unsynced, durable, copies, open, crashes, query>>

\* The loop of rollback_to_locked, one detached block a step.
Detach ==
    /\ open = "open" /\ op.kind = "detach" /\ CanWrite
    /\ db.tip.hash # op.ancestor
    /\ IF db.tip = NoTip \/ db.tip.height <= op.height \/ db.tip.hash \notin DOMAIN db.undo
       THEN op' = Unlocked /\ UNCHANGED <<db, unsynced>>
       ELSE Write(RollbackTipLocked(db)) /\ UNCHANGED op
    /\ UNCHANGED <<durable, copies, open, crashes, query>>

AttachOp == [kind |-> "attach", replacement |-> op.replacement]

\* A refused block ends the operation with what is attached so far.
Attach ==
    /\ open = "open" /\ CanWrite
    /\ \/ op.kind = "detach" /\ db.tip.hash = op.ancestor
       \/ op.kind = "attach"
    /\ IF op.replacement = <<>>
       THEN op' = Unlocked /\ UNCHANGED <<db, unsynced>>
       ELSE LET applied == ApplyBlockLocked(db, db.tip.height + 1, Head(op.replacement))
            IN  IF applied = {}
                THEN op' = Unlocked /\ UNCHANGED <<db, unsynced>>
                ELSE /\ \E new \in applied : Write(new)
                     /\ op' = [AttachOp EXCEPT !.replacement = Tail(@)]
    /\ UNCHANGED <<durable, copies, open, crashes, query>>

(***************************************************************************)
(* create_checkpoint: flush the log, link the files, write the manifest     *)
(* into the copy, then into the index itself.                               *)
(***************************************************************************)
CreateCheckpoint(label) ==
    /\ open = "open" /\ op = Unlocked
    /\ label # "" /\ db.tip # NoTip
    /\ label \notin DOMAIN copies
    /\ WriteSynced(db)
    /\ copies' = Put(copies, label, db)
    /\ op' = [kind |-> "copied", label |-> label, tip |-> db.tip]
    /\ UNCHANGED <<durable, open, crashes, query>>

PutCheckpoint(d, label, at) == [d EXCEPT !.checkpoints = Put(@, label, at)]

ManifestCopy ==
    /\ open = "open" /\ op.kind = "copied"
    /\ copies' = [copies EXCEPT ![op.label] = PutCheckpoint(@, op.label, op.tip)]
    /\ op' = [op EXCEPT !.kind = "manifest"]
    /\ UNCHANGED <<db, unsynced, durable, open, crashes, query>>

ManifestIndex ==
    /\ open = "open" /\ op.kind = "manifest"
    /\ WriteSynced(PutCheckpoint(db, op.label, op.tip))
    /\ op' = Unlocked
    /\ UNCHANGED <<durable, copies, open, crashes, query>>

(***************************************************************************)
(* block_by_height: the hash at the height, then the record of the hash.    *)
(***************************************************************************)
QueryHash(height) ==
    /\ open = "open" /\ query.state \in {"none", "answered"}
    /\ query' = IF height \in DOMAIN db.heights
                THEN [state |-> "hash", height |-> height, hash |-> db.heights[height]]
                ELSE [state |-> "answered", height |-> height, found |-> {}]
    /\ UNCHANGED <<db, unsynced, durable, op, copies, open, crashes>>

\* Seeded fault: the record of the hash is taken from the raw block kept by the caller.
QueryKept ==
    /\ open = "open" /\ query.state = "hash"
    /\ query' = [state |-> "answered", height |-> query.height, found |-> {query.hash}]
    /\ UNCHANGED <<db, unsynced, durable, op, copies, open, crashes>>

QueryBlock ==
    /\ open = "open" /\ query.state = "hash"
    /\ query' = [state |-> "answered", height |-> query.height,
                 found |-> {query.hash} \cap DOMAIN db.blocks]
    /\ UNCHANGED <<db, unsynced, durable, op, copies, open, crashes>>

(***************************************************************************)
(* Power failure and reopening; the copy in a checkpoint directory can be   *)
(* opened in its place.                                                     *)
(***************************************************************************)
PowerFailure ==
    /\ open = "open" /\ crashes < MaxCrashes
    /\ crashes' = crashes + 1
    /\ \E d \in unsynced \cup {db} : db' = d
    /\ unsynced' = {} /\ op' = Unlocked /\ query' = NoQuery
    /\ open' \in (IF durable /\ op = Unlocked THEN {"closed"} ELSE {"closed", "torn"})
    /\ UNCHANGED <<durable, copies>>

\* open with initialize_schema.  The recovery mode refuses a log with a partial record.
Open ==
    /\ open = "closed"
    /\ db.schema \in {0, SchemaVersion}
    /\ db' = [db EXCEPT !.schema = SchemaVersion]
    /\ open' = "open"
    /\ durable' \in DurableModes
    /\ UNCHANGED <<unsynced, op, copies, crashes, query>>

OpenCopy(label) ==
    /\ open # "open"
    /\ label \in DOMAIN copies
    /\ db' = copies[label]
    /\ copies' = Delete(copies, {label})
    /\ open' = "open"
    /\ UNCHANGED <<unsynced, durable, op, crashes, query>>

Replacements == {<<b>> : b \in Blocks}
                \cup {<<b, c>> : b \in Blocks, c \in Blocks}

IndexInit ==
    /\ db = EmptyDb /\ unsynced = {} /\ durable \in DurableModes
    /\ op = Unlocked /\ copies = <<>> /\ open = "closed" /\ crashes = 0 /\ query = NoQuery

IndexNext ==
    \/ \E h \in Heights, b \in Blocks : ApplyBlock(h, b)
    \/ RollbackTip
    \/ \E b \in Blocks : RollbackTo(b.hash)
    \/ \E b \in Blocks, r \in Replacements : Reorganize(b.hash, r)
    \/ Detach
    \/ Attach
    \/ \E l \in Labels : CreateCheckpoint(l)
    \/ ManifestCopy
    \/ ManifestIndex
    \/ \E h \in Heights : QueryHash(h)
    \/ QueryBlock
    \/ PowerFailure
    \/ Open
    \/ \E l \in Labels : OpenCopy(l)

IndexSpec == IndexInit /\ [][IndexNext]_indexVars

-----------------------------------------------------------------------------
(***************************************************************************)
(* The reference: what the records should be, computed from the chain alone *)
(* without overlay or undo.                                                 *)
(***************************************************************************)
ChainOf(d) == [i \in 1..(d.tip.height + 1) |-> d.blocks[d.heights[i - 1]].raw]

\* The transactions of a chain with their provenance.
Confirmed(chain) ==
    UNION {{<<chain[i].txs[j], Provenance(chain[i], i - 1, j)>> : j \in DOMAIN chain[i].txs} :
              i \in DOMAIN chain}

Created(chain) == UNION {{[at |-> <<p[1].id, k>>, out |-> p[1].outputs[k], prov |-> p[2]] :
                             k \in DOMAIN p[1].outputs} : p \in Confirmed(chain)}

SpentIn(chain) == UNION {Spends(p[1]) : p \in Confirmed(chain)}

ReferenceUtxos(chain) ==
    LET spent == SpentIn(chain)
    IN  {c \in Created(chain) : c.at \notin spent}

ReferenceMints(chain) ==
    LET created == Created(chain)
    IN  {<<p[1].id, j>> : <<p, j>> \in
           {<<p, j>> \in Confirmed(chain) \X (1..2) :
              /\ j \in DOMAIN p[1].inputs
              /\ \E c \in created, t \in ConfigTerms :
                   /\ c.at = p[1].inputs[j].prev
                   /\ VerifyMint(p[1], c.at, c.out, t) # {}}}

IsReplay(d) ==
    LET chain == ChainOf(d)
    IN  /\ DOMAIN d.heights = 0..d.tip.height
        /\ \A i \in DOMAIN chain :
              chain[i].prev = IF i = 1 THEN ZeroHash ELSE chain[i - 1].hash
        /\ d.tip.hash = IF chain = <<>> THEN ZeroHash ELSE Last(chain).hash
        /\ DOMAIN d.blocks = {chain[i].hash : i \in DOMAIN chain}
        /\ DOMAIN d.undo = DOMAIN d.blocks
        /\ DOMAIN d.transactions = {p[1].id : p \in Confirmed(chain)}
        /\ \A p \in Confirmed(chain) : d.transactions[p[1].id] = p[2]
        /\ {[at |-> o, out |-> [value |-> d.utxos[o].value, script |-> d.utxos[o].script],
             prov |-> d.utxos[o].provenance] : o \in DOMAIN d.utxos} = ReferenceUtxos(chain)
        /\ DOMAIN d.transitions = ReferenceMints(chain)

(***************************************************************************)
(* Whatever sequence of attached, refused and detached blocks, interrupted  *)
(* reorganisations and power failures led here, the records are those of    *)
(* replaying the canonical chain from genesis; so are the records in every  *)
(* checkpoint directory (apply_block_locked, rollback_tip_locked,           *)
(* create_checkpoint).                                                      *)
(***************************************************************************)
IndexIsReplay ==
    /\ IsReplay(db)
    /\ \A l \in DOMAIN copies : IsReplay(copies[l])

(***************************************************************************)
(* A height query that races a reorganisation answers with the block that   *)
(* is canonical at that height when it answers, or with none                *)
(* (block_by_height reads two column families without the writer lock).     *)
(***************************************************************************)
AnswersAreCanonical ==
    [][(query'.state = "answered" /\ query' # query) =>
         \A hash \in query'.found :
            query'.height \in DOMAIN db.heights /\ db.heights[query'.height] = hash]_indexVars
=============================================================================
