--------------------------- MODULE ErgoThreshold ----------------------------
(***************************************************************************)
(* Ergo: review material, the chain suite, and two-round 2-of-3 threshold  *)
(* Schnorr signing of pay-to-public-key inputs.                            *)
(*                                                                         *)
(* Three share providers hold the shares of one key.  For each input of a  *)
(* reviewed transaction two of them reserve nonces, a coordinator packs    *)
(* the commitments into a transcript, both answer it, and the coordinator  *)
(* adds the answers up to a proof; a proof for every input makes a signed  *)
(* transaction, which the chain suite verifies.  The coordinator may mix   *)
(* up what it relays: commitments, packages, answers, proofs, reviews.  A  *)
(* provider keeps nonces in memory, so that a restart loses them, and the  *)
(* record of their reservation and use on disk.                            *)
(*                                                                         *)
(* Hashes are left as what they are taken over; where one is used as a     *)
(* number, ToScalar stands for the reduction of the hash.                  *)
(***************************************************************************)
EXTENDS PrimeField, Sequences, FiniteSets, Functions

CONSTANTS
    ErgoRequests,   \* sequence of [review, binding]: what may be asked for
    ErgoKeys,       \* <<secret, coefficient>> a dealer may split
    ErgoNonces,     \* [participant, session, turn -> <<hiding, binding>>]
    ErgoSessions,   \* signing sessions; "zero" is the all-zero identifier
    MaxTurns,       \* bound: nonces a provider makes for a session
    MaxReserved,    \* bound: nonces made altogether
    MaxPackages,    \* bound: packages made
    MaxErgoMaterial,  \* MAX_REVIEW_MATERIAL_BYTES
    MaxComponent,   \* MAX_COMPONENT_BYTES
    ToScalar(_)     \* the scalar a digest reduces to

ASSUME ErgoBounds ==
    /\ {MaxTurns, MaxReserved, MaxPackages, MaxErgoMaterial, MaxComponent} \subseteq Nat
    /\ \A k \in ErgoKeys : k \in Scalars \X Scalars

VARIABLES
    ergoKey,     \* the commitment and the shares the dealer handed out
    imported,    \* [participant -> the participant whose share it was given]
    reserved,    \* nonces on record as reserved: <<participant, session, turn>>
    pending,     \* nonces in the providers' memory
    consumed,    \* nonces on record as consumed
    packages,    \* packages made: [request, session, nonces]
    answers,     \* <<participant, request, package, response>>: given
    proofs,      \* <<package, response>>: proofs aggregated
    assembled,   \* <<request, proofs, transaction>> last assembled
    ergoAccepted \* <<request, transaction>> the chain suite accepted last

ergoVars == <<ergoKey, imported, reserved, pending, consumed, packages, answers,
              proofs, assembled, ergoAccepted>>

----------------------------------------------------------------------------
(* Review material.  The bytes of a material or of one of its components   *)
(* have a form: "exact" is the encoding the library writes, "loose"        *)
(* another encoding of the same value, "torn" bytes that do not parse or   *)
(* run on.                                                                 *)

\* BoundedReader::component, put_component: a length, then that many bytes.
Component(c) == c.form # "torn" /\ c.size \in 1 .. MaxComponent

\* Parsed and written again, the component must be the same bytes.
Canonical(c) == Component(c) /\ c.form = "exact"

\* read_boxes.
ReadBoxes(boxes) == \A i \in DOMAIN boxes : Canonical(boxes[i])

\* What the inputs of an unsigned transaction commit to: the whole of it.
BytesToSign(tx) == [inputs |-> tx.inputs, data |-> tx.data, outputs |-> tx.outputs]

\* ErgoReviewMaterialV1::new.
NewMaterial(m) == m.boxes # <<>> /\ m.headers = 10

\* ErgoReviewMaterialV1::encode: what cannot be written, or is too long.
EncodeMaterial(m) ==
    /\ Component(m.preHeader) /\ Component(m.unsigned) /\ Component(m.claimed)
    /\ \A i \in DOMAIN m.boxes : Component(m.boxes[i])
    /\ m.size <= MaxErgoMaterial

\* ErgoReviewMaterialV1::decode.
DecodeMaterial(m) ==
    /\ m.size <= MaxErgoMaterial
    /\ m.magic = "ERGOREV1" /\ m.version = 1
    /\ m.network \in {"mainnet", "testnet"}
    /\ Canonical(m.preHeader) /\ Canonical(m.unsigned) /\ Component(m.claimed)
    /\ ReadBoxes(m.boxes) /\ ReadBoxes(m.dataBoxes)
    /\ m.form # "torn"
    /\ NewMaterial(m)
    /\ m.claimed.value = BytesToSign(m.unsigned.value)
    /\ EncodeMaterial(m) /\ m.form = "exact"

----------------------------------------------------------------------------
(* The chain suite.                                                        *)

\* The boxes of a transaction are found by their identifiers (sigma-rust).
BoxOf(m, id) == CHOOSE b \in Range(m.boxes) : b.id = id

TransactionContext(m, tx) ==
    /\ Range(tx.inputs) \subseteq {b.id : b \in Range(m.boxes)}
    /\ Len(m.dataBoxes) = Len(tx.data)
    /\ Range(tx.data) \subseteq {b.id : b \in Range(m.dataBoxes)}

\* ErgoChainSuite::review_transaction.
ErgoReview(network, m) ==
    IF /\ DecodeMaterial(m)
       /\ m.network = network
       /\ TransactionContext(m, m.unsigned.value)
       /\ \A i \in DOMAIN m.boxes : m.boxes[i].script = "p2pk"
    THEN {[schema |-> 2, scope |-> <<"ergo", network>>, digest |-> m,
           message |-> BytesToSign(m.unsigned.value), material |-> m]}
    ELSE {}

\* ensure_signed_matches_review.
SignedMatchesReview(m, signed) ==
    /\ BytesToSign(signed.tx) = m.claimed.value
    /\ Len(signed.tx.inputs) = Len(m.unsigned.value.inputs)
    /\ \A i \in DOMAIN signed.tx.inputs :
          signed.tx.inputs[i] = m.unsigned.value.inputs[i]
    /\ signed.tx.data = m.unsigned.value.data
    /\ signed.tx.outputs = m.unsigned.value.outputs

\* ergo_challenge: the proposition, the commitment and the message.
ErgoChallenge(group, commitment, message) ==
    [group |-> group, commitment |-> commitment, message |-> message]

\* challenge_scalar.
ChallengeScalar(c) == ToScalar(c)

\* verify_signature (sigma-rust): the commitment is what the response leaves
\* when the challenge times the key is taken off, and it must give the same
\* challenge again.
VerifyProof(group, message, proof) ==
    LET commitment == (proof.response - ChallengeScalar(proof.challenge) * group) % Order
    IN proof.challenge = ErgoChallenge(group, commitment, message)

\* TransactionContext::validate (sigma-rust): nothing is created or lost, and
\* each input has its proof.
ValidSpend(m, signed) ==
    /\ SumFunction([i \in DOMAIN signed.tx.inputs |-> BoxOf(m, signed.tx.inputs[i]).value])
         = SumFunction([i \in DOMAIN signed.tx.outputs |-> signed.tx.outputs[i].value])
    /\ \A i \in DOMAIN signed.tx.inputs :
          VerifyProof(BoxOf(m, signed.tx.inputs[i]).key, BytesToSign(signed.tx),
                      signed.proofs[i])

\* ErgoChainSuite::verify_finalized_signature.
ErgoVerify(network, review, signed) ==
    /\ review.schema = 2
    /\ review.scope = <<"ergo", network>>
    /\ review \in ErgoReview(network, review.material)
    /\ signed.form = "exact"
    /\ SignedMatchesReview(review.material, signed)
    /\ TransactionContext(review.material, signed.tx)
    /\ ValidSpend(review.material, signed)

----------------------------------------------------------------------------
(* Keys and requests.                                                      *)

\* ErgoThresholdCommitment::import: neither point is the identity.
ErgoCommitment(group, coefficient) ==
    IF group # 0 /\ coefficient # 0
    THEN {[group |-> group, coefficient |-> coefficient]} ELSE {}

\* ErgoThresholdCommitment::share_public_key.
ErgoSharePublic(c, p) == AtParticipant(c.group, c.coefficient, p)

\* dealer_split_threshold_secret_2_of_3: no scalar may be zero.
ErgoDealerSplit(secret, coefficient) ==
    IF secret # 0 /\ coefficient # 0
       /\ \A p \in Participants : AtParticipant(secret, coefficient, p) # 0
    THEN {[commitment |-> c,
           shares |-> [p \in Participants |-> AtParticipant(secret, coefficient, p)]] :
             c \in ErgoCommitment(secret, coefficient)}
    ELSE {}

\* validate_threshold_secret_share.
ErgoShareFits(c, p, scalar) == scalar # 0 /\ scalar = ErgoSharePublic(c, p)

ThresholdSuite == "ergo-sigma-p2pk-threshold-2of3-v1"

\* ErgoThresholdP2pkRuntimeDescriptor::new: the suite is registered for both
\* networks, with the contract this module implements.
RuntimeDescriptor(scope) == scope \in {<<"ergo", "mainnet">>, <<"ergo", "testnet">>}

\* validate_review_binding.
BindingFits(review, binding) ==
    /\ binding.suite = ThresholdSuite
    /\ binding.scope = review.scope
    /\ binding.reviewSchema = review.schema
    /\ binding.digest = review.digest

\* ErgoThresholdSigningRequest::new: a review that is bound as it should be and
\* is what reviewing its material gives.
ReviewedRequest(review, binding) ==
    /\ RuntimeDescriptor(review.scope)
    /\ BindingFits(review, binding)
    /\ DecodeMaterial(review.material)
    /\ review \in ErgoReview(review.material.network, review.material)

ReviewedRequests ==
    {IF ReviewedRequest(ErgoRequests[r].review, ErgoRequests[r].binding) THEN r ELSE 0 :
        r \in DOMAIN ErgoRequests} \ {0}

SigningRequest(r, session) == session # "zero" /\ r \in ReviewedRequests

\* domain_separator of the binding: the digest of the review with the suite,
\* the scope, and the signer set and its epoch.
Binding(r) == ErgoRequests[r].binding

Message(r) == ErgoRequests[r].review.message

----------------------------------------------------------------------------
(* Packages.                                                               *)

\* The public commitments to a nonce; points are written by their logarithm.
Commitments(n) == [p |-> n[1], session |-> n[2],
                   hiding |-> ErgoNonces[n][1], binding |-> ErgoNonces[n][2]]

\* transcript_digest.
TranscriptDigest(c, r, session, ordered) ==
    [binding |-> Binding(r), session |-> session, commitment |-> c,
     message |-> Message(r),
     nonces |-> [i \in 1 .. 2 |-> <<Commitments(ordered[i]).p, Commitments(ordered[i]).hiding,
                                    Commitments(ordered[i]).binding>>]]

\* binding_factor.
BindingFactor(digest, p) == ToScalar([digest |-> digest, p |-> p])

\* The nonces of a package, ordered by participant.
Ordered(ns) ==
    LET first == CHOOSE n \in ns : \A o \in ns : n[1] <= o[1]
    IN <<first, CHOOSE n \in ns : n # first>>

PackageTranscript(c, k) == TranscriptDigest(c, k.request, k.session, Ordered(k.nonces))

\* The binding factors of a package's participants.
Factors(c, k) ==
    LET digest == PackageTranscript(c, k)
    IN [p \in {n[1] : n \in k.nonces} |-> BindingFactor(digest, p)]

\* The nonce commitment of a whole package.
AggregateCommitment(k, factors) ==
    SumFunction([n \in k.nonces |-> Commitments(n).hiding
                                    + Commitments(n).binding * factors[n[1]]]) % Order

PackageChallenge(c, k) == ErgoChallenge(c.group, k.aggregate, Message(k.request))

\* ErgoThresholdSigningPackage::new, through for_review.
SigningPackage(c, k) ==
    IF /\ k.session # "zero"
       /\ Cardinality(k.nonces) = 2
       /\ Cardinality({n[1] : n \in k.nonces}) = 2
       /\ \A n \in k.nonces : n[2] = k.session
       /\ \A n \in k.nonces : Commitments(n).hiding # 0 /\ Commitments(n).binding # 0
    THEN {[request |-> k.request, session |-> k.session, nonces |-> k.nonces,
           factors |-> f, aggregate |-> AggregateCommitment(k, f)] : f \in {Factors(c, k)}}
    ELSE {}

\* Mutant: the signer's own identifier in the numerator.
ErgoLagrangeOwn(p, other) == (p * FieldInverse((other - p) % Order)) % Order

\* lagrange_coefficient.
ErgoLagrange(p, other) == (other * FieldInverse((other - p) % Order)) % Order

Other(k, p) == CHOOSE o \in {n[1] : n \in k.nonces} : o # p
NonceOf(k, p) == CHOOSE n \in k.nonces : n[1] = p

\* The response of sign_threshold_share_2_of_3.
Response(c, k, p, scalar) ==
    (ErgoNonces[NonceOf(k, p)][1]
     + k.factors[p] * ErgoNonces[NonceOf(k, p)][2]
     + ChallengeScalar(PackageChallenge(c, k)) * ErgoLagrange(p, Other(k, p)) * scalar) % Order

\* What a response must be, from public values alone.
ExpectedResponse(c, k, p) ==
    (Commitments(NonceOf(k, p)).hiding
     + Commitments(NonceOf(k, p)).binding * k.factors[p]
     + ErgoSharePublic(c, p) * (ChallengeScalar(PackageChallenge(c, k))
                                * ErgoLagrange(p, Other(k, p)))) % Order

\* aggregate_threshold_p2pk_proof_2_of_3; partials are
\* [p, digest, response], in the order they are given.
AggregateProof(c, k, parts) ==
    LET proof == [challenge |-> PackageChallenge(c, k),
                  response |-> (parts[1].response + parts[2].response) % Order]
    IN IF /\ Len(parts) = 2
          /\ parts[1].p # parts[2].p
          /\ \A i \in 1 .. 2 :
                /\ parts[i].p \in {n[1] : n \in k.nonces}
                /\ parts[i].response = ExpectedResponse(c, k, parts[i].p)
                /\ parts[i].digest = PackageTranscript(c, k)
          /\ VerifyProof(c.group, Message(k.request), proof)
       THEN {[proof |-> proof, binding |-> Binding(k.request)]} ELSE {}

\* assemble_threshold_p2pk_transaction.
AssembleTransaction(c, r, ps) ==
    LET review == ErgoRequests[r].review
        m == review.material
        tx == m.unsigned.value
    IN IF /\ BindingFits(review, Binding(r))
          /\ \A i \in DOMAIN ps : ps[i].binding = Binding(r)
          /\ DecodeMaterial(m)
          /\ review \in ErgoReview(m.network, m)
          /\ Len(ps) = Len(tx.inputs)
          /\ m.claimed.value = BytesToSign(tx)
          /\ TransactionContext(m, tx)
          /\ \A i \in DOMAIN ps :
                /\ BoxOf(m, tx.inputs[i]).key = c.group
                /\ VerifyProof(c.group, m.claimed.value, ps[i].proof)
       THEN {[tx |-> tx, form |-> "exact",
              proofs |-> [i \in DOMAIN ps |-> ps[i].proof]]}
       ELSE {}

----------------------------------------------------------------------------
(* The providers and the coordinator.                                      *)

ErgoInit ==
    /\ ergoKey \in UNION {ErgoDealerSplit(k[1], k[2]) : k \in ErgoKeys}
    /\ imported \in {[p \in Participants |-> p], [p \in Participants |-> 1]}
    /\ reserved = {} /\ pending = {} /\ consumed = {}
    /\ packages = {} /\ answers = {} /\ proofs = {}
    /\ assembled = <<>> /\ ergoAccepted = <<>>

commitmentOf == ergoKey.commitment
ErgoJobs == DOMAIN ErgoRequests

\* LocalErgoShareProvider::reserve: the reservation is on disk before the
\* commitments leave.  Nonces are random and nonzero, hence new.
ReserveNonces(p, r, session) ==
    /\ SigningRequest(r, session)
    /\ \A n \in pending : ~(n[1] = p /\ n[2] = session)
    /\ \E turn \in 1 .. MaxTurns :
          /\ turn = 1 + Cardinality({n \in reserved : n[1] = p /\ n[2] = session})
          /\ reserved' = reserved \cup {<<p, session, turn>>}
          /\ pending' = pending \cup {<<p, session, turn>>}
    /\ UNCHANGED <<ergoKey, imported, consumed, packages, answers, proofs, assembled,
                   ergoAccepted>>

\* The coordinator packs two commitments for a request.
MakePackage(r, session, ns) ==
    /\ SigningRequest(r, session)
    /\ \E k \in SigningPackage(commitmentOf,
                               [request |-> r, session |-> session, nonces |-> ns]) :
          /\ k.aggregate # 0
          /\ packages' = packages \cup {k}
    /\ UNCHANGED <<ergoKey, imported, reserved, pending, consumed, answers, proofs,
                   assembled, ergoAccepted>>

\* Mutant: the package's review is not compared with the provider's.
MaySignAny(p, r, n, k) ==
    /\ k.session = n[2]
    /\ ErgoShareFits(commitmentOf, p, ergoKey.shares[imported[p]])
    /\ n \in k.nonces

\* sign_threshold_share_2_of_3: what is checked before the nonce is used.
MaySign(p, r, n, k) ==
    /\ Binding(k.request) = Binding(r)
    /\ k.session = n[2]
    /\ ErgoShareFits(commitmentOf, p, ergoKey.shares[imported[p]])
    /\ n \in k.nonces

\* LocalErgoShareProvider::sign: the nonce leaves the memory whatever comes
\* of it; its use is on disk before the response leaves.
SignPackage(n, r, k) ==
    LET p == n[1]
    IN /\ SigningRequest(r, n[2])
       /\ pending' = pending \ {n}
       /\ IF MaySign(p, r, n, k) /\ n \in reserved /\ n \notin consumed
          THEN /\ consumed' = consumed \cup {n}
               /\ answers' = answers \cup
                     {<<p, r, k, Response(commitmentOf, k, p, ergoKey.shares[imported[p]])>>}
          ELSE UNCHANGED <<consumed, answers>>
       /\ UNCHANGED <<ergoKey, imported, reserved, packages, proofs, assembled, ergoAccepted>>

\* A provider's process ends and is started again.
RestartProvider(p) ==
    /\ \E n \in pending : n[1] = p
    /\ pending' = {n \in pending : n[1] # p}
    /\ UNCHANGED <<ergoKey, imported, reserved, consumed, packages, answers, proofs,
                   assembled, ergoAccepted>>

\* The partial an answer is, and what it is like after a fault on the way.
Partial(a) ==
    [p |-> a[1], digest |-> PackageTranscript(commitmentOf, a[3]),
     response |-> a[4]]
Faulty(x) == [x EXCEPT !.response = (@ + 1) % Order]

\* The coordinator adds up two partials; the proof is kept with its package.
Aggregate(k, x, y) ==
    \E proof \in AggregateProof(commitmentOf, k, <<x, y>>) :
       /\ proofs' = proofs \cup {<<k, proof.proof.response>>}
       /\ UNCHANGED <<ergoKey, imported, reserved, pending, consumed, packages, answers,
                      assembled, ergoAccepted>>

ProofOf(pr) ==
    [proof |-> [challenge |-> PackageChallenge(commitmentOf, pr[1]), response |-> pr[2]],
     binding |-> Binding(pr[1].request)]

Assembled(r, prs) ==
    AssembleTransaction(commitmentOf, r, [i \in DOMAIN prs |-> ProofOf(prs[i])])

AssembleProofs(r, prs) ==
    /\ \E signed \in Assembled(r, prs) : assembled' = <<r, prs, signed>>
    /\ UNCHANGED <<ergoKey, imported, reserved, pending, consumed, packages, answers,
                   proofs, ergoAccepted>>

\* The transaction is verified against a review, which may be another one.
VerifyTransaction(network, r) ==
    /\ assembled # <<>>
    /\ ErgoVerify(network, ErgoRequests[r].review, assembled[3])
    /\ ergoAccepted' = <<r, assembled[2]>>
    /\ UNCHANGED <<ergoKey, imported, reserved, pending, consumed, packages, answers,
                   proofs, assembled>>

ErgoNext ==
    \/ /\ Cardinality(reserved) < MaxReserved
       /\ \E p \in Participants, r \in ErgoJobs, s \in ErgoSessions : ReserveNonces(p, r, s)
    \/ /\ Cardinality(packages) < MaxPackages
       /\ \E r \in ErgoJobs, s \in ErgoSessions, n, o \in reserved : MakePackage(r, s, {n, o})
    \/ \E n \in pending, r \in ErgoJobs, k \in packages : SignPackage(n, r, k)
    \/ \E p \in Participants : RestartProvider(p)
    \/ \E k \in packages, a, b \in answers : \E x \in {Partial(a), Faulty(Partial(a))} :
          Aggregate(k, x, Partial(b))
    \/ \E r \in ErgoJobs, n \in 1 .. 2 : \E prs \in [1 .. n -> proofs] : AssembleProofs(r, prs)
    \/ \E network \in {"mainnet", "testnet"}, r \in ErgoJobs : VerifyTransaction(network, r)

ErgoSpec == ErgoInit /\ [][ErgoNext]_ergoVars
----------------------------------------------------------------------------
(* Properties.                                                             *)

\* Two providers that hold their own shares and answer the same package give a
\* proof, and proofs for all the inputs of a balanced transaction of the key
\* give a transaction that the chain suite of the review's network accepts.
ErgoQuorumSigns ==
    /\ \A a, b \in answers :
          a[3] = b[3] /\ a[1] # b[1]
             => AggregateProof(commitmentOf, a[3], <<Partial(a), Partial(b)>>) # {}
    /\ assembled # <<>> =>
          LET review == ErgoRequests[assembled[1]].review
              tx == review.material.unsigned.value
          IN SumFunction([i \in DOMAIN tx.inputs |-> BoxOf(review.material, tx.inputs[i]).value])
                = SumFunction([i \in DOMAIN tx.outputs |-> tx.outputs[i].value])
             => ErgoVerify(review.scope[2], review, assembled[3])

\* A transaction that the suite accepts spends what two different providers
\* agreed to: for each proof in it both answered a request whose review is of
\* the very transaction accepted, whatever the coordinator mixed up.
ErgoTransactionWasAgreed ==
    ergoAccepted # <<>> =>
       \A i \in DOMAIN ergoAccepted[2] :
          \E a, b \in answers :
             /\ a[1] # b[1]
             /\ {a[3], b[3]} = {ergoAccepted[2][i][1]}
             /\ \A x \in {a, b} :
                   ErgoRequests[x[2]].review.material.unsigned.value
                     = ErgoRequests[ergoAccepted[1]].review.material.unsigned.value
=============================================================================
