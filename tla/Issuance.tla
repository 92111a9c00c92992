------------------------------ MODULE Issuance ------------------------------
(***************************************************************************)
(* The OP_CAT issuance rules of crates/issuance: creator terms, the state   *)
(* committed in an issuer output, the proof-of-work gate, the canonical     *)
(* mint transaction and the wallet verification of a mint.                  *)
(*                                                                         *)
(* Hashes and commitments are injective constructors (a commitment is the   *)
(* record of what it commits to).  An optional result is a set with at most *)
(* one member, so that a refusal is the empty set.                          *)
(***************************************************************************)
EXTENDS Integers, Sequences, FiniteSets, Functions

CONSTANTS MaxU32,      \* largest sequence number (u32::MAX)
          MaxNonce,    \* nonces that are scanned
          OwnerKeys    \* valid x-only public keys of item owners

ASSUME IssuanceBounds == MaxU32 \in Nat \ {0} /\ MaxNonce \in Nat

AsSeq(optional) == IF optional = {} THEN <<>> ELSE <<CHOOSE x \in optional : TRUE>>

Concatenation(seqs) ==
    LET upTo[n \in 0..Len(seqs)] == IF n = 0 THEN <<>> ELSE upTo[n - 1] \o seqs[n]
    IN  upTo[Len(seqs)]

Recursive == "RecursiveIssuer"
Sharded == "ShardedLanes"

(***************************************************************************)
(* Terms: [item, target_prefix, total_supply, successor_rule, lane_count,   *)
(* salt].  The canonical bytes hold every field, so the hash is the record. *)
(***************************************************************************)
TermsHash(terms) == terms

MaterializedLanes(terms) ==
    IF terms.successor_rule = Recursive \/ terms.lane_count = 0 THEN 1 ELSE terms.lane_count

LaneSupply(terms, lane) ==
    LET lanes == MaterializedLanes(terms)
    IN  terms.total_supply \div lanes
          + (IF lane < terms.total_supply % lanes THEN 1 ELSE 0)

ItemCommitment(terms_hash, lane, seq, owner, payload) ==
    <<terms_hash, lane, seq, owner, payload>>

(***************************************************************************)
(* The state committed in an issuer tapscript and its successor.            *)
(***************************************************************************)
InitialState(terms, lane) ==
    IF terms.target_prefix > 32 \/ lane >= MaterializedLanes(terms)
    THEN {}
    ELSE {[terms_hash |-> TermsHash(terms), lane |-> lane, seq |-> 0,
           remaining |-> LaneSupply(terms, lane),
           target_prefix |-> terms.target_prefix]}

\* [ok, next]: next is empty when this mint exhausts the lane.
Successor(state) ==
    IF state.remaining = 0 THEN [ok |-> TRUE, next |-> {}]
    ELSE IF state.seq = MaxU32 THEN [ok |-> FALSE, next |-> {}]
    ELSE [ok |-> TRUE,
          next |-> IF state.remaining = 1 THEN {}
                   ELSE {[state EXCEPT !.seq = @ + 1, !.remaining = @ - 1]}]

(***************************************************************************)
(* Proof of work.  A digest is the tuple hashed together with the number of *)
(* leading 0x01 bytes it has, which depends on every part of the input that *)
(* a miner varies.                                                          *)
(***************************************************************************)
PowHash(terms_hash, lane, seq, commitment, nonce) ==
    [input |-> <<terms_hash, lane, seq, commitment, nonce>>,
     ones |-> (nonce + seq) % 3]

MeetsTarget(digest, target_prefix) ==
    \/ target_prefix = 0
    \/ target_prefix <= 32 /\ digest.ones >= target_prefix

HashTail(digest, target_prefix) == <<digest, target_prefix>>

FindNonce(state, commitment) ==
    {n \in 0..MaxNonce :
        /\ MeetsTarget(PowHash(state.terms_hash, state.lane, state.seq, commitment, n),
                       state.target_prefix)
        /\ \A m \in 0..(n - 1) :
              ~MeetsTarget(PowHash(state.terms_hash, state.lane, state.seq, commitment, m),
                           state.target_prefix)}

(***************************************************************************)
(* Scripts.  An issuer script is its state with the program template; a     *)
(* changed template is no issuer script.                                    *)
(***************************************************************************)
IssuerScript(state) == [template |-> "issuer", state |-> state]

ParseIssuerScript(script) ==
    {s \in {script.state} : script = IssuerScript(s)}

IssuerOutputKey(state) == IssuerScript(state)

P2trOutputScript(key) == [p2tr |-> TRUE, key |-> key]

CanonicalIssuerSpk(state) == P2trOutputScript(IssuerOutputKey(state))

ItemOwnerScript(owner) == P2trOutputScript(owner)

TaprootOutputKey(spk) == {k \in {spk.key} : spk.p2tr}

(***************************************************************************)
(* Transactions: [id, inputs, outputs]; an input is [prev, witness], an     *)
(* output [value, script].  A witness has its stack length, the second-last *)
(* item as script, the leaf its control block proves, and the arguments.    *)
(***************************************************************************)
MintWitness(state, owner, payload, nonce) ==
    LET ic == ItemCommitment(state.terms_hash, state.lane, state.seq, owner, payload)
    IN  [len |-> 7, nonce |-> nonce, item_commitment |-> ic,
         hash_tail |-> HashTail(PowHash(state.terms_hash, state.lane, state.seq, ic, nonce),
                                state.target_prefix),
         owner_key |-> owner, payload |-> payload,
         script |-> IssuerScript(state), control |-> IssuerScript(state)]

OutputSum(outputs) ==
    LET sum[n \in 0..Len(outputs)] == IF n = 0 THEN 0 ELSE sum[n - 1] + outputs[n].value
    IN  sum[Len(outputs)]

\* The canonical mint; refused when it would create value.
BuildMintTx(id, outpoint, utxo, witness, item_value, successor) ==
    LET outputs == <<[value |-> item_value, script |-> ItemOwnerScript(witness.owner_key)]>>
                     \o successor
    IN  IF OutputSum(outputs) > utxo.value THEN {}
        ELSE {[id |-> id, inputs |-> <<[prev |-> outpoint, witness |-> witness]>>,
               outputs |-> outputs]}

BuildIssuanceTx(id, funding, terms, issuer_value) ==
    [id |-> id, inputs |-> <<funding>>,
     outputs |-> [l \in 1..MaterializedLanes(terms) |->
                    [value |-> issuer_value,
                     script |-> CanonicalIssuerSpk(CHOOSE s \in InitialState(terms, l - 1) : TRUE)]]]

(***************************************************************************)
(* Structural discovery: which inputs reveal an issuer leaf.                *)
(***************************************************************************)
P2trOutputKeyBytes(output) == TaprootOutputKey(output.script)

Discover(tx) ==
    LET consumed == UNION {{[outpoint |-> tx.inputs[j].prev, input_index |-> j, state |-> s] :
                               s \in ParseIssuerScript(tx.inputs[j].witness.script)} :
                             j \in {k \in DOMAIN tx.inputs : tx.inputs[k].witness.len >= 2}}
    IN  [consumed_issuers |-> consumed,
         p2tr_candidates |-> IF consumed = {} THEN {}
                             ELSE {k \in DOMAIN tx.outputs :
                                      P2trOutputKeyBytes(tx.outputs[k]) # {}}]

(***************************************************************************)
(* Wallet verification of a mint.                                           *)
(***************************************************************************)
CheckTerms(state, terms) ==
    /\ state.terms_hash = TermsHash(terms)
    /\ state.target_prefix = terms.target_prefix
    /\ state.lane < MaterializedLanes(terms)
    /\ state.remaining # 0

ParseMintWitness(w) ==
    {m \in {[nonce |-> w.nonce, item_commitment |-> w.item_commitment,
             hash_tail |-> w.hash_tail, owner_key |-> w.owner_key, payload |-> w.payload]} :
        m.owner_key \in OwnerKeys}

OutputsWith(tx, script) == {k \in DOMAIN tx.outputs : tx.outputs[k].script = script}

VerifiedMint(tx, j, utxo, state, w) ==
    LET digest == PowHash(state.terms_hash, state.lane, state.seq, w.item_commitment, w.nonce)
        items == OutputsWith(tx, ItemOwnerScript(w.owner_key))
        step == Successor(state)
        successors == UNION {OutputsWith(tx, CanonicalIssuerSpk(n)) : n \in step.next}
        outputs == OutputSum(tx.outputs)
    IN  IF /\ MeetsTarget(digest, state.target_prefix)
           /\ w.hash_tail = HashTail(digest, state.target_prefix)
           /\ w.item_commitment = ItemCommitment(state.terms_hash, state.lane, state.seq,
                                                 w.owner_key, w.payload)
           /\ Cardinality(items) = 1
           /\ step.ok
           /\ step.next # {} => Cardinality(successors) = 1
           /\ Len(tx.outputs) = (IF step.next # {} THEN 2 ELSE 1)
           /\ outputs < utxo.value
        THEN {[input |-> j, state |-> state, witness |-> w,
               item |-> CHOOSE k \in items : TRUE, successor |-> successors,
               fee |-> utxo.value - outputs]}
        ELSE {}

\* The first input that spends the outpoint is the one that is verified.
VerifyMint(tx, outpoint, utxo, terms) ==
    LET spending == {j \in DOMAIN tx.inputs : tx.inputs[j].prev = outpoint}
        j == CHOOSE k \in spending : \A m \in spending : k <= m
        w == tx.inputs[j].witness
    IN  IF spending = {} \/ w.len # 7 THEN {}
        ELSE LET scripts == {s \in ParseIssuerScript(w.script) :
                               /\ utxo.script = CanonicalIssuerSpk(s)
                               /\ TaprootOutputKey(utxo.script) = {w.control}
                               /\ CheckTerms(s, terms)}
             IN  UNION {UNION {VerifiedMint(tx, j, utxo, s, m) : m \in ParseMintWitness(w)} :
                        s \in scripts}
=============================================================================
