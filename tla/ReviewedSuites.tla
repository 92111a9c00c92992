--------------------------- MODULE ReviewedSuites ---------------------------
(***************************************************************************)
(* The chain suites of the UTXO chains: Bitcoin and Fractal Bitcoin,       *)
(* Bitcoin Cash, BSV and Kaspa.                                            *)
(*                                                                         *)
(* A suite is bound to one scope (a chain and a network) and one key.  It  *)
(* reviews transaction material, that is, it decodes the material, refuses *)
(* what it cannot account for and returns an artifact that names the       *)
(* message to sign; and it decides whether a finished signature is one for *)
(* an artifact it would produce itself.                                    *)
(*                                                                         *)
(* Hashes are injective and are left as the tuple they are taken over.     *)
(* A signature names the key, the algorithm and the message it was made    *)
(* over.  Indices count from one.  What may fail returns a set that is     *)
(* empty on failure and otherwise has one member.                          *)
(***************************************************************************)
EXTENDS Integers, Sequences, FiniteSets

CONSTANTS
    MaxMaterial,  \* MAX_REVIEW_MATERIAL_BYTES
    MaxElements,  \* the most inputs and the most outputs of a BSV transaction
    MaxAmount     \* u64::MAX

ASSUME SuiteBounds ==
    MaxMaterial \in Nat \ {0} /\ MaxElements \in Nat \ {0} /\ MaxAmount \in Nat

----------------------------------------------------------------------------
(* Scopes and artifacts (chain-domain).                                    *)

BitcoinNetworks == {"mainnet", "testnet3", "testnet4", "signet", "regtest"}
BchNetworks == {"mainnet", "testnet3", "testnet4", "chipnet", "scalenet", "regtest"}
BsvNetworks == {"mainnet", "testnet", "stn", "regtest"}
KaspaNetworks == {"mainnet", "testnet10", "testnet11", "simnet", "devnet"}

\* ChainNetwork::ALL, as pairs of a chain and one of its networks; the chains
\* whose suites are elsewhere are left out.
ChainNetworks ==
    ({"bitcoin", "fractal-bitcoin"} \X BitcoinNetworks)
    \cup ({"bitcoin-cash"} \X BchNetworks) \cup ({"bsv"} \X BsvNetworks)
    \cup ({"kaspa"} \X KaspaNetworks)

\* A scope on the wire names its chain twice, alone and in its network.
ChainScope(version, chain, network) ==
    IF version = 1 /\ chain = network[1] /\ network \in ChainNetworks
    THEN {network} ELSE {}

\* ReviewArtifact::new.  Summaries are fixed texts with numbers and fit.
ReviewArtifact(scope, digest, message, material) ==
    IF material.size \in 1 .. MaxMaterial
    THEN {[schema |-> 2, scope |-> scope, digest |-> digest,
           message |-> message, material |-> material]}
    ELSE {}

\* deserialize_reviewed_material: refused while it is read, not after.
ReadMaterial(m) == m.size \in 1 .. MaxMaterial

\* An artifact read back from storage is built again from its fields.
ReadArtifact(a) ==
    IF a.schema = 2 /\ ReadMaterial(a.material)
    THEN UNION {ReviewArtifact(scope, a.digest, a.message, a.material) :
                   scope \in ChainScope(1, a.scope[1], a.scope)}
    ELSE {}

----------------------------------------------------------------------------
(* Material.  form says how the bytes relate to the value they carry:      *)
(* "exact" is the suite's own encoding, "loose" another encoding of the    *)
(* same value, "torn" bytes that are short or run on.                      *)

\* A reader takes the fields in turn and must end where the bytes end.
Wellformed(m, format) == m.format = format /\ m.form # "torn"

Inputs(m) == m.tx.inputs
Outputs(m) == m.tx.outputs

----------------------------------------------------------------------------
(* Bitcoin and Fractal Bitcoin.                                            *)

\* scope_profile: a scope of one of the two chains; is it a main network?
ScopeProfile(s) ==
    IF s \in {"bitcoin", "fractal-bitcoin"} \X BitcoinNetworks
    THEN {s[2] = "mainnet"} ELSE {}

TapTypes == {0, 1, 2, 3, 129, 130, 131}
AnyoneCanPay(t) == (t \div 128) % 2 = 1

\* TaprootReviewMaterial::decode.
DecodeTaproot(m) == Wellformed(m, "taproot") /\ m.schema = 1

\* TaprootKeySpendRequest::new.
TaprootKeySpendRequest(m) ==
    /\ ScopeProfile(m.scope) # {}
    /\ Len(m.prevouts) = Len(Inputs(m))
    /\ m.index \in DOMAIN Inputs(m)
    /\ m.prevouts[m.index].kind = "p2tr"
    /\ \A i \in DOMAIN Inputs(m) : ~Inputs(m)[i].signed

\* TaprootReviewMaterial::to_request.
ToRequest(m) ==
    /\ m.txForm = "exact"
    /\ m.type \in TapTypes
    /\ TaprootKeySpendRequest(m)

\* BIP341: what a key spend commits to under a hash type.  SIGHASH_SINGLE
\* without an output of the input's index has no digest.
TapSighash(m) ==
    LET t == m.type
        base == t % 4
        own == <<Inputs(m)[m.index].prev, Inputs(m)[m.index].sequence,
                 m.prevouts[m.index]>>
        outs == CASE base \in {0, 1} -> Outputs(m)
                  [] base = 2 -> <<>>
                  [] base = 3 -> <<Outputs(m)[m.index]>>
    IN IF base = 3 /\ m.index > Len(Outputs(m)) THEN {}
       ELSE {<<"bip341", t, m.tx.lock,
               IF AnyoneCanPay(t) THEN <<own>>
               ELSE <<[i \in DOMAIN Inputs(m) |->
                          <<Inputs(m)[i].prev, Inputs(m)[i].sequence>>],
                      m.prevouts, m.index>>,
               outs>>}

\* taproot_key_spend_payload: not on a main network.
TaprootPayload(m) == IF ScopeProfile(m.scope) = {TRUE} THEN {} ELSE TapSighash(m)

\* BitcoinChainSuite::new.
BitcoinChainSuite(scope) == ScopeProfile(scope) = {FALSE}

\* BitcoinChainSuite::review_transaction.
BitcoinReview(s, m) ==
    IF /\ m.size <= MaxMaterial
       /\ DecodeTaproot(m)
       /\ m.form = "exact"
       /\ m.scope = s.scope
       /\ ToRequest(m)
       /\ m.prevouts[m.index].key = s.key
    THEN UNION {ReviewArtifact(s.scope, <<"sha256", m>>, d, m) : d \in TaprootPayload(m)}
    ELSE {}

\* assemble_taproot_key_spend_signature: the type follows unless it is the
\* default.
AssembleTaproot(sig, type) ==
    [sig EXCEPT !.tail = IF type = 0 THEN <<>> ELSE <<type>>]

\* verify_taproot_key_spend_signature.
VerifyTaproot(message, type, key, f) ==
    /\ f.tail # <<0>>
    /\ (IF f.tail = <<>> THEN 0 ELSE f.tail[1]) = type
    /\ f.key = key /\ f.alg = "bip340" /\ f.message = message

\* verify_finalized_signature: the artifact must be what a review of its own
\* material returns now.
BitcoinVerify(s, a, f) ==
    /\ a.schema = 2
    /\ a.scope = s.scope
    /\ BitcoinReview(s, a.material) = {a}
    /\ \E d \in TaprootPayload(a.material) :
          VerifyTaproot(d, a.material.type, s.key, f)

\* verify_finalized_transaction: of the finished transaction, which has a
\* sequence of witness elements for each input, only the reviewed input has a
\* witness, a single element, and everything else is as reviewed.
VerifyFinalizedTransaction(s, a, ftx) ==
    LET m == a.material
    IN /\ DecodeTaproot(m) /\ ToRequest(m)
       /\ Len(ftx.tx.inputs) = Len(Inputs(m)) /\ ftx.tx.outputs = Outputs(m)
       /\ Len(ftx.witness[m.index]) = 1
       /\ ftx.tx = m.tx
       /\ \A i \in DOMAIN ftx.witness \ {m.index} : ftx.witness[i] = <<>>
       /\ BitcoinVerify(s, a, ftx.witness[m.index][1])

\* verify_finalized_key_spend.
VerifyFinalizedKeySpend(s, a, fin) ==
    /\ fin.scope = s.scope
    /\ DecodeTaproot(a.material) /\ ToRequest(a.material)
    /\ fin.index = a.material.index
    /\ VerifyFinalizedTransaction(s, a, fin.ftx)

\* finalize_reviewed_key_spend: the signature is put into the reviewed input
\* and the whole is verified.
FinalizeReviewedKeySpend(s, a, sig) ==
    LET m == a.material
        f == AssembleTaproot(sig, m.type)
        fin == [scope |-> s.scope, index |-> m.index,
                ftx |-> [tx |-> m.tx,
                         witness |-> [i \in DOMAIN Inputs(m) |->
                                         IF i = m.index THEN <<f>> ELSE <<>>]]]
    IN IF DecodeTaproot(m) /\ ToRequest(m) /\ BitcoinVerify(s, a, f)
          /\ VerifyFinalizedKeySpend(s, a, fin)
       THEN {fin} ELSE {}

----------------------------------------------------------------------------
(* Bitcoin Cash and BSV: the replay-protected digest of the fork.          *)

ForkBase(t) == t % 32

\* ForkIdSighashType::from_consensus (Bitcoin Cash): the fork bit is set, the
\* base is known, bit five is clear; a fork id may stand above.
BchSighashType(raw) ==
    (raw \div 64) % 2 = 1 /\ ForkBase(raw) \in 1 .. 3 /\ (raw \div 32) % 2 = 0

\* signature_byte: no fork id above the low byte.
SignatureByte(raw) == IF raw \div 256 = 0 THEN {raw % 256} ELSE {}

\* ForkIdSighashType::from_u8 (BSV).
BsvSighashType(t) == t \in {65, 66, 67, 193, 194, 195}

\* The preimage, common to both chains.
ForkPreimage(m, outs) ==
    LET t == m.type
    IN <<"forkid", t, m.tx.lock,
         IF AnyoneCanPay(t) THEN <<>> ELSE [i \in DOMAIN Inputs(m) |-> Inputs(m)[i].prev],
         IF AnyoneCanPay(t) \/ ForkBase(t) \in {2, 3} THEN <<>>
         ELSE [i \in DOMAIN Inputs(m) |-> Inputs(m)[i].sequence],
         Inputs(m)[m.index].prev, Inputs(m)[m.index].sequence,
         m.prevouts[1], outs>>

\* fork_id_sighash (Bitcoin Cash): SINGLE without its output commits to none.
BchSighash(m) ==
    IF m.index \notin DOMAIN Inputs(m) THEN {}
    ELSE {ForkPreimage(m, CASE ForkBase(m.type) = 1 -> Outputs(m)
                            [] ForkBase(m.type) = 3 /\ m.index <= Len(Outputs(m)) ->
                                  <<Outputs(m)[m.index]>>
                            [] OTHER -> <<>>)}

\* validate_transaction (BSV).
BsvValidateTransaction(m) ==
    Len(Inputs(m)) \in 1 .. MaxElements /\ Len(Outputs(m)) \in 1 .. MaxElements

\* fork_id_sighash (BSV): SINGLE without its output is an error.
BsvSighash(m) ==
    IF \/ ~BsvValidateTransaction(m)
       \/ m.index \notin DOMAIN Inputs(m)
       \/ ForkBase(m.type) = 3 /\ m.index > Len(Outputs(m))
    THEN {}
    ELSE {ForkPreimage(m, CASE ForkBase(m.type) = 1 -> Outputs(m)
                            [] ForkBase(m.type) = 3 -> <<Outputs(m)[m.index]>>
                            [] OTHER -> <<>>)}

\* Transaction::decode: every count has its shortest form.
BchTransaction(m) == m.txForm = "exact"

\* BitcoinCashSigningRequest::decode: the lengths add up to the whole.
BchDecode(m) ==
    /\ Wellformed(m, "bchr") /\ m.form = "exact" /\ BchTransaction(m)
    /\ m.schema = 1 /\ m.scope[2] \in BchNetworks
    /\ BchSighashType(m.type)

\* BsvSigningRequest::decode: any JSON text of a request with a digest.
BsvDecode(m) ==
    /\ Wellformed(m, "bsv")
    /\ m.schema = 1 /\ m.scope[2] \in BsvNetworks
    /\ BsvSighashType(m.type)
    /\ BsvSighash(m) # {}

\* BitcoinCashChainSuite::new: ALL with the fork bit, nothing else.
BchChainSuite(type) == SignatureByte(type) # {} /\ type = 65

\* review_digest.
BchReviewDigest(s, d, m) == <<"bch.review.v2", s.scope, d, m>>
BsvReviewDigest(s, d, m) == <<"bsv.review.v2", s.scope, d, m>>

\* BitcoinCashChainSuite::review_transaction.
BchReview(s, m) ==
    IF /\ m.size <= MaxMaterial
       /\ BchDecode(m)
       /\ m.scope = s.scope
       /\ m.type = s.type
    THEN UNION {ReviewArtifact(s.scope, BchReviewDigest(s, d, m), d, m) :
                   d \in BchSighash(m)}
    ELSE {}

\* BsvChainSuite::review_transaction.
BsvReview(s, m) ==
    IF /\ m.size <= MaxMaterial
       /\ BsvDecode(m)
       /\ m.form = "exact"
       /\ m.scope = s.scope
       /\ m.type = 65
    THEN UNION {ReviewArtifact(s.scope, BsvReviewDigest(s, d, m), d, m) :
                   d \in BsvSighash(m)}
    ELSE {}

\* parse_standard_ecdsa and parse_canonical_signature: strict DER with a low
\* s.
CanonicalEcdsa(f) == f.alg = "ecdsa" /\ f.s = "low"

\* assemble_ecdsa_transaction_signature, assemble_schnorr_transaction_signature.
AssembleBch(sig, type) ==
    IF sig.alg = "bch-schnorr" \/ CanonicalEcdsa(sig)
    THEN {[sig EXCEPT !.tail = <<b>>] : b \in SignatureByte(type)} ELSE {}

\* assemble_reviewed_cb_mpc_signature: the type is the reviewed one.
AssembleBsv(sig, m) ==
    IF BsvDecode(m) /\ CanonicalEcdsa(sig) THEN {[sig EXCEPT !.tail = <<m.type>>]} ELSE {}

\* verify_ecdsa_transaction_signature.
BchVerifyEcdsa(key, message, f, type) ==
    /\ Len(f.tail) = 1 /\ {f.tail[1]} = SignatureByte(type)
    /\ CanonicalEcdsa(f)
    /\ f.key = key /\ f.message = message

\* verify_schnorr: the equation holds and the point has a square y.
SchnorrHolds(key, message, f) ==
    f.alg = "bch-schnorr" /\ f.key = key /\ f.message = message

\* verify_schnorr_transaction_signature: 64 bytes and the type.
BchVerifySchnorr(key, message, f, type) ==
    /\ Len(f.tail) = 1 /\ {f.tail[1]} = SignatureByte(type)
    /\ SchnorrHolds(key, message, f)

\* verify_transaction_signature (BSV).
BsvVerifySignature(key, message, f, type) ==
    /\ Len(f.tail) = 1 /\ BsvSighashType(f.tail[1]) /\ f.tail[1] = type
    /\ CanonicalEcdsa(f)
    /\ f.key = key /\ f.message = message

\* verify_finalized_signature.
BchVerify(s, a, f) ==
    /\ a.schema = 2
    /\ a.scope = s.scope
    /\ BchReview(s, a.material) = {a}
    /\ IF s.alg = "ecdsa" THEN BchVerifyEcdsa(s.key, a.message, f, s.type)
       ELSE BchVerifySchnorr(s.key, a.message, f, s.type)

\* Fault: the stored message is trusted, the review is not made again.
BsvVerifyStored(s, a, f) ==
    /\ a.schema = 2
    /\ a.scope = s.scope
    /\ BsvVerifySignature(s.key, a.message, f, 65)

\* verify_finalized_signature.
BsvVerify(s, a, f) ==
    /\ a.schema = 2
    /\ a.scope = s.scope
    /\ BsvReview(s, a.material) = {a}
    /\ BsvVerifySignature(s.key, a.message, f, 65)

----------------------------------------------------------------------------
(* Kaspa.                                                                  *)

KaspaTypes == {1, 2, 4, 129, 130, 132}

\* Kaspa's digest (its consensus library), one for each kind of signature.
KaspaSighash(m, alg) ==
    LET t == m.type
        base == t % 128
        own == <<Inputs(m)[m.index].prev, Inputs(m)[m.index].sequence,
                 m.prevouts[m.index]>>
    IN <<"kaspa", alg, t, m.tx.lock, own,
         IF AnyoneCanPay(t) THEN <<>>
         ELSE [i \in DOMAIN Inputs(m) |-> Inputs(m)[i].prev],
         IF AnyoneCanPay(t) \/ base # 1 THEN <<>>
         ELSE [i \in DOMAIN Inputs(m) |-> Inputs(m)[i].sequence],
         CASE base = 1 -> Outputs(m)
           [] base = 4 /\ m.index <= Len(Outputs(m)) -> <<Outputs(m)[m.index]>>
           [] OTHER -> <<>>>>

\* KaspaReviewMaterial::validate; txForm is "loose" when the transaction id
\* stored with the transaction is not the one of its fields.
KaspaValidate(m) ==
    /\ m.schema = 2
    /\ Len(Inputs(m)) = Len(m.prevouts)
    /\ m.txForm = "exact"
    /\ m.index \in DOMAIN Inputs(m)
    /\ m.type \in KaspaTypes
    /\ m.scope[2] \in KaspaNetworks

\* KaspaReviewMaterial::decode; borsh has one encoding of a value.
KaspaDecode(m) ==
    m.size <= MaxMaterial /\ Wellformed(m, "kaspa") /\ m.form = "exact" /\ KaspaValidate(m)

\* validate_cb_mpc_spent_script: the coin is the group key's own.
CbMpcSpentScript(m, key) ==
    m.prevouts[m.index].kind = "p2pk-ecdsa" /\ m.prevouts[m.index].key = key

\* try_fold with checked_add.
CheckedSum(values) ==
    LET sum[n \in 0 .. Len(values)] ==
            IF n = 0 THEN {0}
            ELSE {x + values[n] : x \in {y \in sum[n - 1] : y + values[n] <= MaxAmount}}
    IN sum[Len(values)]

\* The fee: neither sum overflows and outputs do not exceed inputs.
KaspaFee(m) ==
    {p[1] - p[2] :
        p \in {q \in CheckedSum([i \in DOMAIN m.prevouts |-> m.prevouts[i].value])
                      \X CheckedSum([i \in DOMAIN Outputs(m) |-> Outputs(m)[i].value]) :
                   q[1] >= q[2]}}

SchnorrVerifier(s) == s.alg = "bip340"

\* review_digest: it names the verifier too.
KaspaReviewDigest(s, d, m) == <<"kaspa.review.v3", s.scope, s.alg, s.key, d, m>>

\* KaspaChainSuite::review and review_transaction.
KaspaReview(s, m) ==
    IF /\ m.size <= MaxMaterial
       /\ KaspaDecode(m)
       /\ m.scope = s.scope
       /\ s.alg = "ecdsa-cb-mpc" => CbMpcSpentScript(m, s.key)
       /\ KaspaFee(m) # {}
    THEN LET d == KaspaSighash(m, IF SchnorrVerifier(s) THEN "schnorr" ELSE "ecdsa")
         IN ReviewArtifact(s.scope, KaspaReviewDigest(s, d, m), d, m)
    ELSE {}

\* assemble_reviewed_cb_mpc_ecdsa_signature.
AssembleKaspa(sig, m) ==
    IF KaspaDecode(m) /\ sig.s = "low" THEN {[sig EXCEPT !.tail = <<m.type>>]} ELSE {}

\* parse_finalized_signature; a direct push around the signature is the same
\* signature.
ParseKaspa(f) == IF Len(f.tail) = 1 /\ f.tail[1] \in KaspaTypes THEN {f.tail[1]} ELSE {}

\* verify_schnorr_digest and verify_ecdsa_digest.
KaspaVerifyDigest(s, message, f) ==
    /\ IF SchnorrVerifier(s) THEN f.alg = "bip340" ELSE CanonicalEcdsa(f)
    /\ f.key = s.key /\ f.message = message

\* execute_reviewed_input: the script of the spent coin runs on the reviewed
\* transaction with the signature in place.
ExecuteReviewedInput(m, f) ==
    /\ f.key = m.prevouts[m.index].key
    /\ f.message = KaspaSighash([m EXCEPT !.type = f.tail[1]], "ecdsa")

\* verify_finalized_signature.
KaspaVerify(s, a, f) ==
    /\ a.schema = 2
    /\ a.scope = s.scope
    /\ KaspaReview(s, a.material) = {a}
    /\ KaspaDecode(a.material)
    /\ ParseKaspa(f) = {a.material.type}
    /\ KaspaVerifyDigest(s, a.message, f)
    /\ s.alg = "ecdsa-cb-mpc" => ExecuteReviewedInput(a.material, f)

----------------------------------------------------------------------------
(* The suite of an account, by its chain.                                  *)

ReviewTransaction(s, m) ==
    CASE s.scope[1] \in {"bitcoin", "fractal-bitcoin"} -> BitcoinReview(s, m)
      [] s.scope[1] = "bitcoin-cash" -> BchReview(s, m)
      [] s.scope[1] = "bsv" -> BsvReview(s, m)
      [] s.scope[1] = "kaspa" -> KaspaReview(s, m)

VerifyFinalizedSignature(s, a, f) ==
    CASE s.scope[1] \in {"bitcoin", "fractal-bitcoin"} -> BitcoinVerify(s, a, f)
      [] s.scope[1] = "bitcoin-cash" -> BchVerify(s, a, f)
      [] s.scope[1] = "bsv" -> BsvVerify(s, a, f)
      [] s.scope[1] = "kaspa" -> KaspaVerify(s, a, f)

\* How a raw signature becomes the bytes the chain expects.
Assemble(s, m, sig) ==
    CASE s.scope[1] \in {"bitcoin", "fractal-bitcoin"} -> {AssembleTaproot(sig, m.type)}
      [] s.scope[1] = "bitcoin-cash" -> AssembleBch(sig, s.type)
      [] s.scope[1] = "bsv" -> AssembleBsv(sig, m)
      [] s.scope[1] = "kaspa" -> AssembleKaspa(sig, m)

\* The algorithm a signer of the account uses.
SignatureAlgorithm(s) == IF s.alg = "ecdsa-cb-mpc" THEN "ecdsa" ELSE s.alg

\* The suite can be built.
SuiteOpens(s) ==
    CASE s.scope[1] \in {"bitcoin", "fractal-bitcoin"} -> BitcoinChainSuite(s.scope)
      [] s.scope[1] = "bitcoin-cash" -> BchChainSuite(s.type)
      [] OTHER -> TRUE
=============================================================================
