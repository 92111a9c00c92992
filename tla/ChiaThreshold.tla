--------------------------- MODULE ChiaThreshold ----------------------------
(***************************************************************************)
(* Chia: standard spends signed by two of three shares of a BLS key, the   *)
(* chain suite that reviews and verifies them, and the adapter that pushes *)
(* them to a full node.                                                    *)
(*                                                                         *)
(* The share arithmetic of the crate works on 32 bytes, most significant   *)
(* first.  Here a scalar has Digits digits in base Base, and the same      *)
(* carries, borrows and shifts.  A BLS signature is a scalar times the     *)
(* point that a key and a message hash to, and is written as both.  What   *)
(* the Chia libraries do (run a puzzle, apply the consensus rules) is      *)
(* modelled by its outcome.                                                *)
(*                                                                         *)
(* The same key may be in use on both networks.  Partial signatures,       *)
(* bundles and reviews may be mixed up between any two calls, a share may  *)
(* have been imported under the wrong participant, and the node answers    *)
(* what it likes.                                                          *)
(***************************************************************************)
EXTENDS PrimeField, Sequences, FiniteSets, Functions

CONSTANTS
    Base,            \* 256, an even number
    Digits,          \* 32
    ChiaKeys,        \* <<wallet secret, coefficient, key kind>> of a dealer
    ChiaHash(_),     \* a digest read as a signed number
    ChiaOrders,      \* sequence of [coin, outputs]: spends the wallet builds
    ChiaStrays,      \* sequence of other bundles given for review
    ChiaScopes,      \* scopes of adapters and suites
    Endpoints,       \* endpoints an adapter may be opened with
    NodeAnswers,     \* what a node may answer to a call
    MaxU64,          \* u64::MAX
    MaxChiaMaterial, \* MAX_REVIEW_MATERIAL_BYTES
    MaxPartials,     \* bound: partial signatures made
    MaxPushed        \* bound: bundles sent to a node

ASSUME ChiaBounds ==
    /\ Base \in Nat /\ Base % 2 = 0 /\ Digits \in Nat \ {0}
    /\ 2 * Order <= Base ^ Digits /\ Base > 3
    /\ {MaxU64, MaxChiaMaterial, MaxPartials, MaxPushed} \subseteq Nat

VARIABLES
    chiaKey,      \* [commitment, shares, wallet]: what the dealer handed out
    delivered,    \* [participant -> the participant whose share it was given]
    partials,     \* <<participant, scope, material>>: partial signatures made
    bundle,       \* the bundle finalized last: [spends, signature, form]
    chiaAccepted, \* <<scope, material, bundle>> the suite accepted last
    pushReview,   \* the ChiaPushReview: [scope, id, coin, outputs]
    adapter,      \* the scope of the open adapter
    push,         \* the push under way: [step, bundle, outputs]
    pushed        \* <<scope, bundle, outputs>>: bundles sent to a node

chiaVars == <<chiaKey, delivered, partials, bundle, chiaAccepted, pushReview, adapter, push,
              pushed>>

----------------------------------------------------------------------------
(* Scalars in digits.                                                      *)

\* The value of the first n digits, and the digits of a number.
ValueUpTo(d) ==
    LET v[n \in 0 .. Digits] == IF n = 0 THEN 0 ELSE v[n - 1] * Base + d[n]
    IN v
Value(d) == ValueUpTo(d)[Digits]
DigitsOf(x) ==
    <<>> \o [n \in 1 .. Digits |-> (x \div Base ^ (Digits - n)) % Base]
OrderDigits == DigitsOf(Order)

\* subtract_threshold_order: from the last digit, with a borrow.
SubtractOrder(d) ==
    LET diff[n \in 1 .. Digits] ==
          LET raw == d[n] - OrderDigits[n]
                     - (IF n = Digits THEN 0 ELSE diff[n + 1].borrow)
          IN IF raw < 0 THEN [digit |-> raw + Base, borrow |-> 1]
             ELSE [digit |-> raw, borrow |-> 0]
    IN <<>> \o [n \in 1 .. Digits |-> diff[n].digit]

\* Two arrays of digits compare as the numbers they write.
AtLeastOrder(d) ==
    \/ d = OrderDigits
    \/ \E n \in 1 .. Digits :
          d[n] > OrderDigits[n] /\ \A m \in 1 .. n - 1 : d[m] = OrderDigits[m]

\* add_threshold_scalars_mod_order.
AddScalars(x, y) ==
    LET sum[n \in 1 .. Digits] ==
          LET raw == x[n] + y[n] + (IF n = Digits THEN 0 ELSE sum[n + 1].carry)
          IN [digit |-> raw % Base, carry |-> raw \div Base]
        digits == <<>> \o [n \in 1 .. Digits |-> sum[n].digit]
    IN IF AtLeastOrder(digits) THEN SubtractOrder(digits) ELSE digits

\* scalar_from_small, scalar_order_minus.
ScalarFromSmall(v) == [n \in 1 .. Digits |-> IF n = Digits THEN v ELSE 0]
ScalarOrderMinus(v) ==
    LET diff[n \in 1 .. Digits] ==
          LET borrow == IF n = Digits THEN v ELSE diff[n + 1].borrow
          IN IF OrderDigits[n] >= borrow
             THEN [digit |-> OrderDigits[n] - borrow, borrow |-> 0]
             ELSE [digit |-> OrderDigits[n] + Base - borrow, borrow |-> 1]
    IN <<>> \o [n \in 1 .. Digits |-> diff[n].digit]

\* Mutant: the bit shifted out of a digit is lost.
DivideByTwoNoCarry(d) == <<>> \o [n \in 1 .. Digits |-> d[n] \div 2]

\* divide_scalar_by_two: a shift, the bit shifted out entering the next digit.
DivideByTwo(d) ==
    <<>> \o [n \in 1 .. Digits |->
               d[n] \div 2 + (IF n > 1 /\ d[n - 1] % 2 = 1 THEN Base \div 2 ELSE 0)]

ScalarNegativeHalf == DivideByTwo(ScalarOrderMinus(1))
ScalarThreeHalves == AddScalars(ScalarNegativeHalf, ScalarFromSmall(2))

\* lagrange_coefficient_2_of_3.
ChiaLagrange(p, other) ==
    CASE <<p, other>> = <<1, 2>> -> ScalarFromSmall(2)
      [] <<p, other>> = <<2, 1>> -> ScalarOrderMinus(1)
      [] <<p, other>> = <<1, 3>> -> ScalarThreeHalves
      [] <<p, other>> = <<3, 1>> -> ScalarNegativeHalf
      [] <<p, other>> = <<2, 3>> -> ScalarFromSmall(3)
      [] <<p, other>> = <<3, 2>> -> ScalarOrderMinus(2)

----------------------------------------------------------------------------
(* Keys.                                                                   *)

\* The remainder of big integers takes the sign of the dividend.
Remainder(a, b) == IF a < 0 THEN -((-a) % b) ELSE a % b

\* synthetic_offset, from the public key alone.
SyntheticOffset(public) ==
    Remainder(Remainder(ChiaHash(public), Order) + Order, Order)

\* derive_synthetic_secret_key and derive_synthetic_public_key.
SyntheticSecret(secret) == (secret + SyntheticOffset(secret)) % Order
SyntheticPublic(public) == (public + SyntheticOffset(public)) % Order

\* blst refuses zero and what is not below the order.
ParseSecret(d) == Value(d) \in 1 .. Order - 1

\* ThresholdBlsCommitment::import and share_public_key.
ChiaCommitment(group, coefficient) ==
    IF group # 0 /\ coefficient # 0
    THEN {[group |-> group, coefficient |-> coefficient]} ELSE {}
ChiaSharePublic(c, p) == AtParticipant(c.group, c.coefficient, p)

\* The share of a participant: the coefficient added as often as it counts.
MakeShare(secret, coefficient, p) ==
    LET after[n \in 0 .. 3] ==
          IF n = 0 THEN secret ELSE AddScalars(after[n - 1], coefficient)
    IN after[p]

\* dealer_split_threshold_secret_2_of_3.
ChiaDealerSplit(kind, secret, coefficient) ==
    IF /\ kind = "final"
       /\ ParseSecret(secret) /\ ParseSecret(coefficient)
       /\ \A p \in Participants : ParseSecret(MakeShare(secret, coefficient, p))
    THEN {[commitment |-> c,
           shares |-> [p \in Participants |-> MakeShare(secret, coefficient, p)]] :
             c \in ChiaCommitment(Value(secret), Value(coefficient))}
    ELSE {}

\* validate_threshold_secret_share; the share's key must not be the identity.
ChiaShareFits(c, p, share) ==
    ChiaSharePublic(c, p) # 0 /\ ChiaSharePublic(c, p) = Value(share)

----------------------------------------------------------------------------
(* Networks.                                                               *)

\* Mutant: the test network uses the data of the main network.
ScopeProfilesOneData == [mainnet |-> [hrp |-> "xch", data |-> "mainnet-data"],
                         testnet11 |-> [hrp |-> "txch", data |-> "mainnet-data"]]

\* scope_profile and expected_network: prefix and additional data.
ScopeProfiles == [mainnet |-> [hrp |-> "xch", data |-> "mainnet-data"],
                  testnet11 |-> [hrp |-> "txch", data |-> "testnet11-data"]]
ChiaProfile(scope) ==
    IF scope[1] = "chia" /\ scope[2] \in DOMAIN ScopeProfiles
    THEN {ScopeProfiles[scope[2]]} ELSE {}

\* consensus_constants_for_scope: the data that AGG_SIG_ME commits to; on the
\* test network every other kind has data derived from it.
ConsensusConstants(scope) ==
    {[me |-> f.data, testnet |-> scope[2] # "mainnet"] : f \in ChiaProfile(scope)}

\* AggSigMe::new.
AggSigMe(scope, message, coin) == {<<message, coin, f.data>> : f \in ChiaProfile(scope)}

----------------------------------------------------------------------------
(* Spends.  A coin spend reveals its puzzle, here the key of a standard    *)
(* puzzle or another puzzle, and carries the conditions of its delegated   *)
(* puzzle.  The standard puzzle puts an AGG_SIG_ME over them in front.     *)

StandardPuzzle(key) == <<"standard", key>>

\* standard_threshold_puzzle_hash.
ThresholdPuzzle(group) == IF group # 0 THEN {StandardPuzzle(group)} ELSE {}

\* Running the puzzle of a spend (clvm).
RunPuzzle(cs) ==
    IF cs.puzzle[1] = "standard"
    THEN <<[op |-> "agg_sig_me", key |-> cs.puzzle[2], message |-> cs.conditions]>>
         \o cs.conditions
    ELSE cs.conditions

Creates(conditions) == SelectSeq(conditions, LAMBDA c : c.op = "create_coin")
AggregateSignatures(cs) ==
    SelectSeq(RunPuzzle(cs),
              LAMBDA c : c.op \in {"agg_sig_me", "agg_sig_unsafe", "agg_sig_other"})
Total(outputs) == SumFunction([i \in DOMAIN outputs |-> outputs[i].amount])

\* get_conditions_from_spendbundle (consensus): the coin is locked to the
\* puzzle revealed, and no coin is minted or made twice.
ConsensusAllows(cs) ==
    LET made == Creates(RunPuzzle(cs))
    IN /\ cs.puzzle = cs.coin.puzzle
       /\ \A i \in DOMAIN made : made[i].amount \in 0 .. MaxU64
       /\ Total(made) <= cs.coin.amount
       /\ \A i, j \in DOMAIN made :
             i # j => <<made[i].puzzle, made[i].amount>> # <<made[j].puzzle, made[j].amount>>

\* clvm_atom_to_u64: eight bytes whose first bit is the sign, so that the upper
\* half of the amounts, which take nine bytes, is refused.
AtomToU64(amount) == amount <= MaxU64 \div 2

\* extract_memo_list: a proper list of atoms, or no list at all.
MemoList(memos) == memos.proper /\ \A i \in DOMAIN memos.items : memos.items[i] # "pair"

\* extract_create_coin_payloads.
CreateCoinPayloads(cs) ==
    LET made == Creates(RunPuzzle(cs))
    IN IF \A i \in DOMAIN made : AtomToU64(made[i].amount) /\ MemoList(made[i].memos)
       THEN {[i \in DOMAIN made |-> [puzzle |-> made[i].puzzle, amount |-> made[i].amount,
                                     memos |-> made[i].memos.items]]}
       ELSE {}

\* inspect_unsigned_spend: one AGG_SIG_ME, of the group key, and no other kind
\* of aggregate signature.
InspectSpend(scope, c, cs) ==
    LET sigs == AggregateSignatures(cs)
    IN IF /\ ConsensusConstants(scope) # {}
          /\ ConsensusAllows(cs)
          /\ Len(sigs) = 1
          /\ sigs[1].op = "agg_sig_me" /\ sigs[1].key = c.group
       THEN {[message |-> m, outputs |-> o] :
               m \in AggSigMe(scope, sigs[1].message, cs.coin),
               o \in CreateCoinPayloads(cs)}
       ELSE {}

\* build_standard_coin_spend.
StandardCoinSpend(coin, group, outputs) ==
    [coin |-> coin, puzzle |-> StandardPuzzle(group),
     conditions |-> [i \in DOMAIN outputs |->
        [op |-> "create_coin", puzzle |-> outputs[i].puzzle, amount |-> outputs[i].amount,
         memos |-> [proper |-> TRUE, items |-> outputs[i].memos]]]]

\* ThresholdChiaSpend::standard.
StandardSpend(scope, coin, kind, c, outputs) ==
    IF /\ ChiaProfile(scope) # {} /\ kind = "final"
       /\ outputs # <<>>
       /\ Total(outputs) <= MaxU64
       /\ Total(outputs) <= coin.amount
       /\ coin.puzzle \in ThresholdPuzzle(c.group)
    THEN {cs \in {StandardCoinSpend(coin, c.group, outputs)} :
            \E found \in InspectSpend(scope, c, cs) : found.outputs = outputs}
    ELSE {}

\* The identity: what a bundle that is not signed has for a signature.
NoSignature == [scalar |-> 0, base |-> <<>>]

\* to_review_bytes.
ReviewBytes(cs) == [spends |-> <<cs>>, signature |-> NoSignature, form |-> "exact", size |-> 1]

\* threshold_spend_from_review.
SpendFromReview(scope, c, material) ==
    IF /\ material.form = "exact"
       /\ material.signature = NoSignature
       /\ Len(material.spends) = 1
    THEN InspectSpend(scope, c, material.spends[1])
    ELSE {}

----------------------------------------------------------------------------
(* Signatures.                                                             *)

\* verify_augmented.
VerifyAugmented(key, message, signature) ==
    /\ key # 0 /\ signature.scalar # 0
    /\ signature = [scalar |-> key, base |-> <<key, message>>]

\* sign_threshold_share_2_of_3: every participant hashes the group key.
SignShare(c, p, share, message) ==
    IF ChiaShareFits(c, p, share)
    THEN {[scalar |-> Value(share), base |-> <<c.group, message>>]} ELSE {}

\* interpolate_threshold_signature_2_of_3; shares are <<participant, signature>>.
Interpolate(c, message, shares) ==
    LET p == shares[1][1]
        q == shares[2][1]
        signature ==
          [scalar |-> (Value(ChiaLagrange(p, q)) * shares[1][2].scalar
                       + Value(ChiaLagrange(q, p)) * shares[2][2].scalar) % Order,
           base |-> <<c.group, message>>]
    IN IF /\ Len(shares) = 2
          /\ p \in Participants /\ q \in Participants /\ p # q
          /\ \A i \in 1 .. 2 :
                /\ ChiaSharePublic(c, shares[i][1]) # 0
                /\ shares[i][2] = [scalar |-> ChiaSharePublic(c, shares[i][1]),
                                   base |-> <<c.group, message>>]
          /\ VerifyAugmented(c.group, message, signature)
       THEN {signature} ELSE {}

\* verify_bundle: consensus first (every AGG_SIG_ME of the run, on this
\* network), then the inspection and the signature once more.
VerifyBundle(scope, c, b) ==
    IF /\ Len(b.spends) = 1
       /\ \E k \in ConsensusConstants(scope) :
             LET sigs == AggregateSignatures(b.spends[1])
             IN /\ ConsensusAllows(b.spends[1])
                /\ Len(sigs) = 1 /\ sigs[1].op = "agg_sig_me"
                /\ b.signature.base = <<sigs[1].key, <<sigs[1].message, b.spends[1].coin, k.me>>>>
                /\ b.signature.scalar = sigs[1].key
    THEN {[id |-> <<b.spends, b.signature>>, coin |-> b.spends[1].coin, outputs |-> f.outputs] :
            f \in {g \in InspectSpend(scope, c, b.spends[1]) :
                      VerifyAugmented(c.group, g.message, b.signature)}}
    ELSE {}

\* verify_threshold_spend_bundle: the bytes need not be the canonical ones.
VerifyThresholdBundle(scope, c, b) ==
    IF ChiaProfile(scope) # {} /\ b.form # "torn" THEN VerifyBundle(scope, c, b) ELSE {}

\* finalize_reviewed_threshold_spend, through ThresholdChiaSpend::finalize.
FinalizeReviewed(scope, c, material, shares) ==
    {b \in {[spends |-> material.spends, signature |-> sig, form |-> "exact"] :
              sig \in UNION {Interpolate(c, f.message, shares) :
                               f \in SpendFromReview(scope, c, material)}} :
        VerifyBundle(scope, c, b) # {}}

----------------------------------------------------------------------------
(* The chain suite.                                                        *)

\* ChiaChainSuite::review_transaction, of a threshold suite.
ChiaReview(scope, c, material) ==
    IF material.size <= MaxChiaMaterial
    THEN {[schema |-> 2, scope |-> scope, digest |-> material, message |-> f.message,
           material |-> material] :
             f \in {g \in SpendFromReview(scope, c, material) : Total(g.outputs) <= MaxU64}}
    ELSE {}

\* verify_finalized_signature.
ChiaVerify(scope, c, review, b) ==
    /\ review.schema = 2
    /\ review.scope = scope
    /\ review \in ChiaReview(scope, c, review.material)
    /\ b.form = "exact"
    /\ b.spends = review.material.spends
    /\ VerifyThresholdBundle(scope, c, b) # {}

----------------------------------------------------------------------------
(* The adapter.                                                            *)

\* validate_endpoint.
ValidEndpoint(scope, e) ==
    /\ ConsensusConstants(scope) # {}
    /\ e.timeout > 0
    /\ ~e.extra /\ e.scheme \in {"http", "https"}

\* new_loopback_http: plain HTTP, to this machine only.
LoopbackHttp(scope, e) ==
    ValidEndpoint(scope, e) /\ e.scheme = "http" /\ e.host = "loopback"

\* new_private_mtls.
PrivateMtls(scope, e) ==
    /\ e.identity /\ e.ca
    /\ ValidEndpoint(scope, e) /\ e.scheme = "https"

\* post, then require_success and required_string: an answer in time, small
\* enough, that says success and has the fields read.
Answered(a, fields) ==
    /\ a.http /\ a.small /\ a.json
    /\ a.success
    /\ fields \subseteq DOMAIN a.fields

----------------------------------------------------------------------------
(* The wallet.                                                             *)

group == chiaKey.commitment.group

\* The coin of an order: one locked to the address derived from the wallet's
\* public key, or to another puzzle.
CoinOf(o) ==
    [parent |-> o.parent, amount |-> o.amount,
     puzzle |-> IF o.mine THEN StandardPuzzle(SyntheticPublic(chiaKey.wallet))
                ELSE StandardPuzzle(0)]

\* Materials: the reviews of the spends the wallet can build, and the strays.
ChiaMaterials(scope) ==
    UNION {{ReviewBytes(cs) :
              cs \in StandardSpend(scope, CoinOf(ChiaOrders[o]), "final", chiaKey.commitment,
                                   ChiaOrders[o].outputs)} : o \in DOMAIN ChiaOrders}
    \cup {ReviewBytes([coin |-> CoinOf(x), puzzle |-> StandardPuzzle(group),
                       conditions |-> x.conditions]) : x \in ChiaStrays}

ChiaInit ==
    /\ chiaKey \in UNION {{[commitment |-> d.commitment, shares |-> d.shares, wallet |-> k[1]] :
                             d \in ChiaDealerSplit(k[3], DigitsOf(SyntheticSecret(k[1])),
                                                   DigitsOf(k[2]))} : k \in ChiaKeys}
    /\ delivered \in {[p \in Participants |-> p], [p \in Participants |-> 4 - p]}
    /\ partials = {} /\ bundle = <<>> /\ chiaAccepted = <<>>
    /\ pushReview = <<>> /\ adapter = <<>> /\ push = <<>> /\ pushed = {}

PartialOf(x) ==
    UNION {SignShare(chiaKey.commitment, x[1], chiaKey.shares[delivered[x[1]]], f.message) :
             f \in SpendFromReview(x[2], chiaKey.commitment, x[3])}

\* sign_reviewed_threshold_share.
SignReviewed(p, scope, material) ==
    /\ PartialOf(<<p, scope, material>>) # {}
    /\ partials' = partials \cup {<<p, scope, material>>}
    /\ UNCHANGED <<chiaKey, delivered, bundle, chiaAccepted, pushReview, adapter, push, pushed>>

Finalized(scope, material, x, y) ==
    UNION {FinalizeReviewed(scope, chiaKey.commitment, material,
                            <<<<x[1], sx>>, <<y[1], sy>>>>) :
             sx \in PartialOf(x), sy \in PartialOf(y)}

\* Two partials, of any reviews, are finalized for a review.
FinalizeSpend(scope, material, x, y) ==
    /\ \E b \in Finalized(scope, material, x, y) : bundle' = b
    /\ UNCHANGED <<chiaKey, delivered, partials, chiaAccepted, pushReview, adapter, push, pushed>>

ReviewOf(scope, material) == ChiaReview(scope, chiaKey.commitment, material)

\* The bundle is verified by the suite of a scope, against some review.
VerifySpend(scope, material) ==
    /\ bundle # <<>>
    /\ \E review \in ReviewOf(scope, material) :
          ChiaVerify(scope, chiaKey.commitment, review, bundle)
    /\ chiaAccepted' = <<scope, material, bundle>>
    /\ UNCHANGED <<chiaKey, delivered, partials, bundle, pushReview, adapter, push, pushed>>

OpenAdapter(scope, e) ==
    /\ push = <<>>
    /\ IF e.mode = "loopback" THEN LoopbackHttp(scope, e) ELSE PrivateMtls(scope, e)
    /\ adapter' = scope
    /\ UNCHANGED <<chiaKey, delivered, partials, bundle, chiaAccepted, pushReview, push, pushed>>

\* The wallet records what is to be pushed: the bundle it has now, and the
\* outputs of a review.
RecordPush(scope, material) ==
    /\ push = <<>> /\ bundle # <<>>
    /\ \E f \in SpendFromReview(scope, chiaKey.commitment, material) :
          pushReview' = [scope |-> scope, id |-> <<bundle.spends, bundle.signature>>,
                         coin |-> material.spends[1].coin, outputs |-> f.outputs]
    /\ UNCHANGED <<chiaKey, delivered, partials, bundle, chiaAccepted, adapter, push, pushed>>

\* push_tx up to its first call: the bundle is verified and is the reviewed one.
StartPush ==
    /\ push = <<>> /\ bundle # <<>> /\ adapter # <<>> /\ pushReview # <<>>
    /\ pushReview.scope = adapter
    /\ \E v \in VerifyThresholdBundle(adapter, chiaKey.commitment, bundle) :
          /\ pushReview.id = v.id
          /\ pushReview.coin = v.coin
          /\ pushReview.outputs = v.outputs
    /\ push' = [step |-> "network", bundle |-> bundle, outputs |-> pushReview.outputs]
    /\ UNCHANGED <<chiaKey, delivered, partials, bundle, chiaAccepted, pushReview, adapter, pushed>>

EndPush == push' = <<>>

\* get_network_info.
NetworkInfo(a) ==
    /\ push # <<>> /\ push.step = "network"
    /\ IF /\ Answered(a, {"name", "prefix"})
          /\ \E f \in ChiaProfile(adapter) :
                a.fields.name = adapter[2] /\ a.fields.prefix = f.hrp
       THEN push' = [push EXCEPT !.step = "data"]
       ELSE EndPush
    /\ UNCHANGED <<chiaKey, delivered, partials, bundle, chiaAccepted, pushReview, adapter, pushed>>

\* get_aggsig_additional_data.
AdditionalData(a) ==
    /\ push # <<>> /\ push.step = "data"
    /\ IF Answered(a, {"data"}) /\ \E k \in ConsensusConstants(adapter) : a.fields.data = k.me
       THEN push' = [push EXCEPT !.step = "send"]
       ELSE EndPush
    /\ UNCHANGED <<chiaKey, delivered, partials, bundle, chiaAccepted, pushReview, adapter, pushed>>

\* push_tx itself: the node has the bundle, whatever it answers.
SendBundle ==
    /\ push # <<>> /\ push.step = "send" /\ Cardinality(pushed) < MaxPushed
    /\ pushed' = pushed \cup {<<adapter, push.bundle, push.outputs>>}
    /\ EndPush
    /\ UNCHANGED <<chiaKey, delivered, partials, bundle, chiaAccepted, pushReview, adapter>>

ChiaNext ==
    \/ /\ Cardinality(partials) < MaxPartials
       /\ \E scope \in ChiaScopes : \E m \in ChiaMaterials(scope), p \in Participants :
             SignReviewed(p, scope, m)
    \/ \E x, y, z \in partials : FinalizeSpend(z[2], z[3], x, y)
    \/ bundle # <<>> /\ \E scope \in ChiaScopes : \E m \in ChiaMaterials(scope) :
          VerifySpend(scope, m) \/ RecordPush(scope, m)
    \/ StartPush
    \/ \E scope \in ChiaScopes, e \in Endpoints : OpenAdapter(scope, e)
    \/ \E a \in NodeAnswers : NetworkInfo(a) \/ AdditionalData(a)
    \/ SendBundle

ChiaSpec == ChiaInit /\ [][ChiaNext]_chiaVars

----------------------------------------------------------------------------
(* Properties.                                                             *)

\* Any two participants that sign the same review finalize it, and the suite
\* accepts the result: the shares, the coefficients and the derivation agree.
ChiaQuorumSigns ==
    \A x, y \in partials :
       x[1] # y[1] /\ <<x[2], x[3]>> = <<y[2], y[3]>> =>
          \E b \in Finalized(x[2], x[3], x, y), review \in ReviewOf(x[2], x[3]) :
             ChiaVerify(x[2], chiaKey.commitment, review, b)

\* A bundle that is sent spends what two participants signed for the adapter's
\* network, and the outputs of the push review are the coins it creates.
ChiaPushedWasAgreed ==
    \A s \in pushed :
       /\ \E x, y \in partials :
             /\ x[1] # y[1] /\ x[2] = s[1] /\ y[2] = s[1]
             /\ x[3].spends = s[2].spends /\ y[3].spends = s[2].spends
       /\ LET made == Creates(RunPuzzle(s[2].spends[1]))
          IN /\ Len(made) = Len(s[3])
             /\ \A i \in DOMAIN made :
                   made[i].puzzle = s[3][i].puzzle /\ made[i].amount = s[3][i].amount
=============================================================================
