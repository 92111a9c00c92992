--------------------------- MODULE SignerProvider ---------------------------
(***************************************************************************)
(* The FROST signers behind the provider interface: the fail-closed guard  *)
(* (crates/threshold-signer: provider.rs), the participant that owns the   *)
(* secret nonces (participant.rs, session.rs, nonce_guard.rs) and the      *)
(* transport that serialises the requests to one provider                  *)
(* (crates/signer-transport).                                              *)
(*                                                                         *)
(* A provider is a lock-protected object: a request it admits is one step, *)
(* also when it is refused after the request nonce was claimed.  A request *)
(* refused before that changes nothing and is no step.  Requests may be    *)
(* repeated, reordered and delayed: the caller retries and the clock runs. *)
(* A restarted signer process loses its reservations, its secret nonces    *)
(* and, with MemoryProviderReplayStore, the request nonces it has claimed. *)
(***************************************************************************)
EXTENDS Integers, FiniteSets

CONSTANTS
  Signers,       \* participants of the signer set
  Operations,    \* operation identifiers; each has its own session and message
  Expiry,        \* expires_at of an operation's requests
  Lifetime,      \* max_session_lifetime_seconds
  DurableReplay, \* signers whose replay store is the wallet database
  Faulty,        \* signers whose shares need not verify
  Ids,           \* request nonces
  MaxNonces,     \* bound on the secret nonces drawn
  MaxTime        \* bound on the clock

ASSUME ProviderAssumption ==
  /\ IsFiniteSet(Signers) /\ Signers # {} /\ Operations # {}
  /\ Expiry \in [Operations -> Nat]
  /\ Lifetime \in Nat
  /\ DurableReplay \subseteq Signers /\ Faulty \subseteq Signers
  /\ MaxNonces \in Nat /\ MaxTime \in Nat

VARIABLES
  now,
  consumed,     \* request nonces claimed, per signer
  reservations, \* operations with a nonce reservation, per signer
  pending,      \* the participant's pending nonce, per signer and operation
  claims,       \* nonces the participant's guard has seen, per signer
  answers,      \* responses that left a provider
  \* history
  drawn,        \* number of nonces drawn; nonces are numbered in that order
  signed,       \* the packages each nonce signed
  burned        \* nonces whose round was aborted

providerVars == <<consumed, reservations, pending, claims, answers, drawn,
                  signed, burned>>

Nonces == 1..MaxNonces

NoNonce == 0

\* A share that does not verify, which only a faulty signer produces.
BadShare == -1

\* A signing package is the commitment of each of its participants; a
\* commitment is named by the nonce behind it.
Packages == [Signers -> Nonces \cup {NoNonce}]

NoPackage == [s \in Signers |-> NoNonce]

Requests ==
  [id : Ids, to : Signers, op : Operations, kind : {"one", "abort"},
   package : {NoPackage}]
  \cup
  [id : Ids, to : Signers, op : Operations, kind : {"two"},
   package : Packages]

\* The commitment to a nonce, the share made with a nonce, or an
\* acknowledgement.
Answers == [request : Requests, nonce : Nonces \cup {NoNonce, BadShare}]

ProviderTypeOK ==
  /\ now \in 0..MaxTime
  /\ consumed \in [Signers -> SUBSET Ids]
  /\ reservations \in [Signers -> SUBSET Operations]
  /\ pending \in [Signers -> [Operations -> Nonces \cup {NoNonce}]]
  /\ claims \in [Signers -> SUBSET Nonces]
  /\ answers \subseteq Answers
  /\ drawn \in 0..MaxNonces
  /\ signed \subseteq [nonce : Nonces, op : Operations, package : Packages]
  /\ burned \subseteq Nonces

ProviderInit ==
  /\ now = 0
  /\ consumed = [s \in Signers |-> {}]
  /\ reservations = [s \in Signers |-> {}]
  /\ pending = [s \in Signers |-> [o \in Operations |-> NoNonce]]
  /\ claims = [s \in Signers |-> {}]
  /\ answers = {}
  /\ drawn = 0
  /\ signed = {}
  /\ burned = {}

-----------------------------------------------------------------------------
\* GuardedSignerProvider::authorize_context.

\* The deadline has not passed and is not further away than a session lasts.
Timely(r) == now <= Expiry[r.op] /\ Expiry[r.op] <= now + Lifetime

\* ProviderReplayStore::claim_request_nonce, the same for both stores.
ClaimRequestNonce(r) ==
  /\ r.id \notin consumed[r.to]
  /\ consumed' = [consumed EXCEPT ![r.to] = @ \cup {r.id}]

AuthorizeContext(r) == Timely(r) /\ ClaimRequestNonce(r)

-----------------------------------------------------------------------------
\* Round one.

\* Mutant: the nonces are derived from the key, not drawn.
MutRound1(s, o) ==
  /\ pending[s][o] = NoNonce
  /\ UNCHANGED drawn
  /\ pending' = [pending EXCEPT ![s][o] = drawn + 1]

\* LocalFrostParticipant::round1 draws fresh nonces unless a round is pending.
Round1(s, o) ==
  /\ pending[s][o] = NoNonce
  /\ drawn < MaxNonces
  /\ drawn' = drawn + 1
  /\ pending' = [pending EXCEPT ![s][o] = drawn + 1]

ReserveNonceAndCommit(s, o) ==
  /\ o \notin reservations[s]
  /\ Round1(s, o)
  /\ reservations' = [reservations EXCEPT ![s] = @ \cup {o}]

RoundOne(r) ==
  /\ r.kind = "one"
  /\ AuthorizeContext(r)
  /\ ReserveNonceAndCommit(r.to, r.op)
  /\ answers' = answers \cup
       {[request |-> r, nonce |-> drawn + 1]}
  /\ UNCHANGED <<now, claims, signed, burned>>

\* The request nonce is spent although the operation has a reservation or a
\* pending round.
RoundOneRefused(r) ==
  /\ r.kind = "one"
  /\ AuthorizeContext(r)
  /\ r.op \in reservations[r.to] \/ pending[r.to][r.op] # NoNonce
  /\ UNCHANGED <<now, reservations, pending, claims, answers, drawn, signed,
                 burned>>

-----------------------------------------------------------------------------
\* Round two.

\* The package names this signer and the operation has a reservation.
Reserved(r) == r.package[r.to] # NoNonce /\ r.op \in reservations[r.to]

\* The signer's commitment in the package is the one of its pending round.
Round2Matches(r) == pending[r.to][r.op] = r.package[r.to]

\* NonceGuard::claim_fingerprint.
NonceUnclaimed(r) == pending[r.to][r.op] \notin claims[r.to]

\* Taking the reservation burns it, whatever follows.
BurnBeforeSigning(r) ==
  reservations' = [reservations EXCEPT ![r.to] = @ \ {r.op}]

TakePending(r) == pending' = [pending EXCEPT ![r.to][r.op] = NoNonce]

\* sign_share: the nonce is claimed, then the share is made.
SignShare(r) ==
  /\ NonceUnclaimed(r)
  /\ claims' = [claims EXCEPT ![r.to] = @ \cup {pending[r.to][r.op]}]
  /\ signed' = signed \cup
       {[nonce |-> pending[r.to][r.op], op |-> r.op, package |-> r.package]}

\* What a signer may answer instead of the share it made.
FaultyShare(s) == IF s \in Faulty THEN {BadShare} ELSE {}

RoundTwo(r) ==
  /\ r.kind = "two"
  /\ AuthorizeContext(r)
  /\ Reserved(r)
  /\ BurnBeforeSigning(r)
  /\ Round2Matches(r)
  /\ TakePending(r)
  /\ SignShare(r)
  /\ \E share \in {pending[r.to][r.op]} \cup FaultyShare(r.to) :
       answers' = answers \cup {[request |-> r, nonce |-> share]}
  /\ UNCHANGED <<now, drawn, burned>>

\* The reservation is gone and no share was made: the package commits this
\* signer to other nonces than the pending ones, which stay.
RoundTwoMismatched(r) ==
  /\ r.kind = "two"
  /\ AuthorizeContext(r)
  /\ Reserved(r)
  /\ BurnBeforeSigning(r)
  /\ ~Round2Matches(r)
  /\ UNCHANGED <<now, pending, claims, answers, drawn, signed, burned>>

RoundTwoRefused(r) ==
  /\ r.kind = "two"
  /\ AuthorizeContext(r)
  /\ ~Reserved(r)
  /\ UNCHANGED <<now, reservations, pending, claims, answers, drawn, signed,
                 burned>>

-----------------------------------------------------------------------------
\* Abort.

BurnReservation(s, o) ==
  /\ o \in reservations[s]
  /\ reservations' = [reservations EXCEPT ![s] = @ \ {o}]
  /\ pending' = [pending EXCEPT ![s][o] = NoNonce]
  /\ burned' = burned \cup ({pending[s][o]} \ {NoNonce})

Abort(r) ==
  /\ r.kind = "abort"
  /\ AuthorizeContext(r)
  /\ BurnReservation(r.to, r.op)
  /\ answers' = answers \cup
       {[request |-> r, nonce |-> NoNonce]}
  /\ UNCHANGED <<now, claims, drawn, signed>>

AbortRefused(r) ==
  /\ r.kind = "abort"
  /\ AuthorizeContext(r)
  /\ r.op \notin reservations[r.to]
  /\ UNCHANGED <<now, reservations, pending, claims, answers, drawn, signed,
                 burned>>

-----------------------------------------------------------------------------
\* The signer process ends and is started again.
RestartSigner(s) ==
  /\ consumed' = [consumed EXCEPT ![s] = IF s \in DurableReplay THEN @ ELSE {}]
  /\ reservations' = [reservations EXCEPT ![s] = {}]
  /\ pending' = [pending EXCEPT ![s] = [o \in Operations |-> NoNonce]]
  /\ claims' = [claims EXCEPT ![s] = {}]
  /\ UNCHANGED <<now, answers, drawn, signed, burned>>

Tick ==
  /\ now < MaxTime
  /\ now' = now + 1
  /\ UNCHANGED providerVars

\* One request reaches its provider.
Handle(r) ==
  \/ RoundOne(r) \/ RoundOneRefused(r)
  \/ RoundTwo(r) \/ RoundTwoMismatched(r) \/ RoundTwoRefused(r)
  \/ Abort(r) \/ AbortRefused(r)

\* Any sequence of requests, from a coordinator that may have crashed, lost
\* its state or be retrying.
ProviderNext ==
  \/ \E r \in Requests : Handle(r)
  \/ \E s \in Signers : RestartSigner(s)
  \/ Tick

ProviderSpec == ProviderInit /\ [][ProviderNext]_<<now, providerVars>>

-----------------------------------------------------------------------------
\* A nonce signs at most one package of one operation, whatever requests
\* arrive in whatever order and however often the signers restart.
NonceSignsOnce ==
  \A x, y \in signed : x.nonce = y.nonce => x = y

\* A nonce burned by an abort never signs, before or after.
BurnedNeverSigns == \A x \in signed : x.nonce \notin burned

\* A signer with the durable replay store answers a request nonce at most once,
\* also across its restarts.
AnsweredOnce ==
  \A x, y \in answers :
    (/\ x.request.id = y.request.id
     /\ x.request.to = y.request.to
     /\ x.request.to \in DurableReplay)
    => x = y

\* Two operations, or two signers, never have the same nonce pending, and a
\* reservation always has its nonces.
PendingDistinct ==
  \A s, t \in Signers : \A o, p \in Operations :
    /\ o \in reservations[s] => pending[s][o] # NoNonce
    /\ pending[s][o] = pending[t][p] /\ pending[s][o] # NoNonce
       => s = t /\ o = p
=============================================================================
