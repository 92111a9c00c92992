--------------------------- MODULE PersonalSigning ---------------------------
(***************************************************************************)
(* The coordinator of personal 2-of-3 signing operations                   *)
(* (crates/wallet-core: signing_operation.rs), the session machine it      *)
(* drives (crates/threshold-signer: orchestrator.rs), the rows and         *)
(* receipts it writes (crates/wallet-storage: sqlite.rs) and, from         *)
(* SignerProvider, the signers it asks.                                    *)
(*                                                                         *)
(* Each public method of PersonalSigningCoordinator is an action for each  *)
(* of its outcomes that changes something.  The method moves the machine   *)
(* in memory first and writes to the database second; a write may fail     *)
(* (FailedWrite) and leaves the machine moved.  The host that sends the    *)
(* dispatches and delivers the answers may repeat, reorder, delay and lose *)
(* both.  Restart ends the process: the machines are lost, the database    *)
(* and the signers go on.                                                  *)
(***************************************************************************)
EXTENDS SignerProvider

CONSTANT MaxBatches \* bound on the batches of requests dispatched

ASSUME BatchAssumption == MaxBatches \in Nat /\ Ids = 1..MaxBatches

VARIABLES
  \* the wallet database
  status,            \* of an operation's row; "none" is no row
  selected,          \* selected_participants
  package,           \* signing_package
  commitmentReceipt, \* payload of a commitment receipt, per signer
  shareReceipt,      \* payload of a share receipt, per signer
  \* the coordinator process
  machine,           \* ThresholdSessionMachine; phase "none" is no entry
  roundOneContext,   \* request nonce awaited in round one, per signer
  roundTwoContext,   \* request nonce awaited in round two, per signer
  \* the host
  sent,              \* requests dispatched
  batches            \* number of batches dispatched

durable == <<status, selected, package, commitmentReceipt, shareReceipt>>
process == <<machine, roundOneContext, roundTwoContext>>
vars == <<now, providerVars, durable, process, sent, batches>>

Collecting == {"collecting_commitments", "collecting_shares"}

Terminal == {"finalized", "aborted", "expired"}

Phases == Collecting \cup {"none", "finalized", "expired", "failed"}

\* The share of each signer: the nonce it is made with, or NoNonce for nothing
\* yet.  Collected commitments have the form of a package.
Contributions == [Signers -> Nonces \cup {NoNonce, BadShare}]

Nothing == [s \in Signers |-> NoNonce]

NoContext == [s \in Signers |-> 0]

Machines == [phase : Phases, commitments : Packages, shares : Contributions]

NoMachine == [phase |-> "none", commitments |-> Nothing, shares |-> Nothing]

\* validate_pair: two distinct participants.
Pairs == {P \in SUBSET Signers : Cardinality(P) = 2}

Given(f) == {s \in Signers : f[s] # NoNonce}

TypeOK ==
  /\ ProviderTypeOK
  /\ status \in [Operations -> {"none"} \cup Collecting \cup Terminal]
  /\ selected \in [Operations -> SUBSET Signers]
  /\ package \in [Operations -> Packages]
  /\ commitmentReceipt \in [Operations -> Packages]
  /\ shareReceipt \in [Operations -> Contributions]
  /\ machine \in [Operations -> Machines]
  /\ roundOneContext \in [Operations -> [Signers -> Ids \cup {0}]]
  /\ roundTwoContext \in [Operations -> [Signers -> Ids \cup {0}]]
  /\ sent \subseteq Requests
  /\ batches \in 0..MaxBatches

Init ==
  /\ ProviderInit
  /\ status = [o \in Operations |-> "none"]
  /\ selected = [o \in Operations |-> {}]
  /\ package = [o \in Operations |-> NoPackage]
  /\ commitmentReceipt = [o \in Operations |-> Nothing]
  /\ shareReceipt = [o \in Operations |-> Nothing]
  /\ machine = [o \in Operations |-> NoMachine]
  /\ roundOneContext = [o \in Operations |-> NoContext]
  /\ roundTwoContext = [o \in Operations |-> NoContext]
  /\ sent = {}
  /\ batches = 0

-----------------------------------------------------------------------------
\* The session machine.  Every method but expire begins with check_deadline:
\* past the deadline it only moves a running machine to Expired.

Late(o) == now > Expiry[o]

Running(o) == machine[o].phase \in Collecting

\* The effect of check_deadline on a late call.
ExpireMachine(o) ==
  /\ Late(o) /\ Running(o)
  /\ machine' = [machine EXCEPT ![o].phase = "expired"]

CanAddCommitment(o, s) ==
  /\ ~Late(o)
  /\ machine[o].phase = "collecting_commitments"
  /\ machine[o].commitments[s] = NoNonce

AddCommitment(m, s, n) == [m EXCEPT !.commitments[s] = n]

CanFreeze(o) ==
  /\ ~Late(o)
  /\ machine[o].phase = "collecting_commitments"
  /\ Cardinality(Given(machine[o].commitments)) >= 2

FreezeMachine(m) == [m EXCEPT !.phase = "collecting_shares"]

CanAddShare(o, s) ==
  /\ ~Late(o)
  /\ machine[o].phase = "collecting_shares"
  /\ machine[o].shares[s] = NoNonce

\* Mutant: the share is not verified.
MutShareVerifies(o, a) == a.request.op = o

\* verify_signature_share against the frozen package.
ShareVerifies(o, a) ==
  /\ a.request.op = o
  /\ a.request.package = machine[o].commitments
  /\ a.nonce = machine[o].commitments[a.request.to]

AddShare(m, s, n) == [m EXCEPT !.shares[s] = n]

FailMachine(m) == [m EXCEPT !.phase = "failed"]

\* aggregate_and_verify succeeds on shares that verify one by one; its
\* failure branch is not reachable from add_signature_share.
CanFinalize(o) ==
  /\ ~Late(o)
  /\ machine[o].phase = "collecting_shares"
  /\ Cardinality(Given(machine[o].shares)) >= 2
  /\ \A s \in Given(machine[o].shares) :
       machine[o].shares[s] = machine[o].commitments[s]

FinalizeMachine(m) == [m EXCEPT !.phase = "finalized"]

-----------------------------------------------------------------------------
\* The database.  Each operator is one transaction.

InsertOperation(o, P) ==
  /\ status[o] = "none"
  /\ status' = [status EXCEPT ![o] = "collecting_commitments"]
  /\ selected' = [selected EXCEPT ![o] = P]
  /\ UNCHANGED <<package, commitmentReceipt, shareReceipt>>

RecordCommitment(o, s, n) ==
  /\ status[o] = "collecting_commitments"
  /\ s \in selected[o]
  /\ commitmentReceipt[o][s] = NoNonce
  /\ commitmentReceipt' = [commitmentReceipt EXCEPT ![o][s] = n]
  /\ UNCHANGED <<status, selected, package, shareReceipt>>

RecordShare(o, s, n) ==
  /\ status[o] = "collecting_shares"
  /\ s \in selected[o]
  /\ shareReceipt[o][s] = NoNonce
  /\ shareReceipt' = [shareReceipt EXCEPT ![o][s] = n]
  /\ UNCHANGED <<status, selected, package, commitmentReceipt>>

FreezeOperation(o, pkg) ==
  /\ Cardinality(Given(commitmentReceipt[o])) >= 2
  /\ status[o] = "collecting_commitments"
  /\ status' = [status EXCEPT ![o] = "collecting_shares"]
  /\ package' = [package EXCEPT ![o] = pkg]
  /\ UNCHANGED <<selected, commitmentReceipt, shareReceipt>>

CompleteOperation(o) ==
  /\ Cardinality(Given(shareReceipt[o])) >= 2
  /\ status[o] = "collecting_shares"
  /\ status' = [status EXCEPT ![o] = "finalized"]
  /\ UNCHANGED <<selected, package, commitmentReceipt, shareReceipt>>

TerminateOperation(o, st) ==
  /\ status[o] \in Collecting
  /\ status' = [status EXCEPT ![o] = st]
  /\ UNCHANGED <<selected, package, commitmentReceipt, shareReceipt>>

\* A transaction that is refused, or fails, changes nothing.
FailedWrite == UNCHANGED durable

-----------------------------------------------------------------------------
\* Dispatches: requests with fresh request nonces, one per signer of a batch.

Context(P) ==
  [s \in Signers |-> IF s \in P THEN batches + 1 ELSE 0]

Dispatch(o, P, kind, pkg) ==
  /\ batches < MaxBatches
  /\ batches' = batches + 1
  /\ sent' = sent \cup
       {[id |-> batches + 1, to |-> s, op |-> o, kind |-> kind,
         package |-> pkg] : s \in P}

NoDispatch == UNCHANGED <<sent, batches>>

\* The bound leaves each operation that has not ended the batch of aborts
\* that Expire sends.
SpareBatch ==
  batches + Cardinality({o \in Operations : status[o] \notin Terminal})
    < MaxBatches

-----------------------------------------------------------------------------
\* The coordinator.

\* prepare_operation, create_authorized_operation, activate_prepared.  The
\* authorization is the subject of WalletAuthority: without one the call
\* fails and changes nothing.
BeginAuthorized(o, P) ==
  /\ machine[o].phase = "none"
  /\ now < Expiry[o]
  /\ SpareBatch
  /\ InsertOperation(o, P)
  /\ machine' = [machine EXCEPT ![o] =
       [NoMachine EXCEPT !.phase = "collecting_commitments"]]
  /\ roundOneContext' = [roundOneContext EXCEPT ![o] = Context(P)]
  /\ roundTwoContext' = [roundTwoContext EXCEPT ![o] = NoContext]
  /\ Dispatch(o, P, "one", NoPackage)
  /\ UNCHANGED <<now, providerVars>>

\* The response carries the binding digest of the request it answers.
AwaitedOne(o, a) ==
  /\ machine[o].phase # "none"
  /\ a.request.kind = "one" /\ a.request.op = o
  /\ roundOneContext[o][a.request.to] = a.request.id

AcceptRoundOne(o, a) ==
  /\ AwaitedOne(o, a)
  /\ CanAddCommitment(o, a.request.to)
  /\ machine' = [machine EXCEPT ![o] = AddCommitment(@, a.request.to, a.nonce)]
  /\ RecordCommitment(o, a.request.to, a.nonce)
  /\ roundOneContext' = [roundOneContext EXCEPT ![o][a.request.to] = 0]
  /\ NoDispatch /\ UNCHANGED <<now, providerVars, roundTwoContext>>

\* The receipt is not stored; the machine has the commitment all the same.
AcceptRoundOneFails(o, a) ==
  /\ AwaitedOne(o, a)
  /\ CanAddCommitment(o, a.request.to)
  /\ machine' = [machine EXCEPT ![o] = AddCommitment(@, a.request.to, a.nonce)]
  /\ FailedWrite
  /\ NoDispatch
  /\ UNCHANGED <<now, providerVars, roundOneContext, roundTwoContext>>

RoundOneComplete(o) ==
  machine[o].phase # "none" /\ roundOneContext[o] = NoContext

FreezeCommitments(o) ==
  /\ RoundOneComplete(o)
  /\ CanFreeze(o)
  /\ SpareBatch
  /\ machine' = [machine EXCEPT ![o] = FreezeMachine(@)]
  /\ FreezeOperation(o, machine[o].commitments)
  /\ roundTwoContext' = [roundTwoContext EXCEPT ![o] = Context(selected[o])]
  /\ Dispatch(o, selected[o], "two", machine[o].commitments)
  /\ UNCHANGED <<now, providerVars, roundOneContext>>

FreezeCommitmentsFails(o) ==
  /\ RoundOneComplete(o)
  /\ CanFreeze(o)
  /\ machine' = [machine EXCEPT ![o] = FreezeMachine(@)]
  /\ FailedWrite
  /\ NoDispatch
  /\ UNCHANGED <<now, providerVars, roundOneContext, roundTwoContext>>

AwaitedTwo(o, a) ==
  /\ machine[o].phase # "none"
  /\ a.request.kind = "two" /\ a.request.op = o
  /\ roundTwoContext[o][a.request.to] = a.request.id

AcceptRoundTwo(o, a) ==
  /\ AwaitedTwo(o, a)
  /\ CanAddShare(o, a.request.to) /\ ShareVerifies(o, a)
  /\ machine' = [machine EXCEPT ![o] = AddShare(@, a.request.to, a.nonce)]
  /\ RecordShare(o, a.request.to, a.nonce)
  /\ roundTwoContext' = [roundTwoContext EXCEPT ![o][a.request.to] = 0]
  /\ NoDispatch /\ UNCHANGED <<now, providerVars, roundOneContext>>

AcceptRoundTwoFails(o, a) ==
  /\ AwaitedTwo(o, a)
  /\ CanAddShare(o, a.request.to) /\ ShareVerifies(o, a)
  /\ machine' = [machine EXCEPT ![o] = AddShare(@, a.request.to, a.nonce)]
  /\ FailedWrite
  /\ NoDispatch
  /\ UNCHANGED <<now, providerVars, roundOneContext, roundTwoContext>>

\* A share that does not verify ends the machine and nothing else.
RejectShare(o, a) ==
  /\ AwaitedTwo(o, a)
  /\ CanAddShare(o, a.request.to) /\ ~ShareVerifies(o, a)
  /\ machine' = [machine EXCEPT ![o] = FailMachine(@)]
  /\ NoDispatch
  /\ UNCHANGED <<now, providerVars, durable, roundOneContext, roundTwoContext>>

RoundTwoComplete(o) ==
  machine[o].phase # "none" /\ roundTwoContext[o] = NoContext

Finalize(o) ==
  /\ RoundTwoComplete(o)
  /\ CanFinalize(o)
  /\ machine' = [machine EXCEPT ![o] = FinalizeMachine(@)]
  /\ CompleteOperation(o)
  /\ NoDispatch
  /\ UNCHANGED <<now, providerVars, roundOneContext, roundTwoContext>>

\* The signature is not stored and not returned.
FinalizeFails(o) ==
  /\ RoundTwoComplete(o)
  /\ CanFinalize(o)
  /\ machine' = [machine EXCEPT ![o] = FinalizeMachine(@)]
  /\ FailedWrite
  /\ NoDispatch
  /\ UNCHANGED <<now, providerVars, roundOneContext, roundTwoContext>>

\* accept_round_one, accept_round_two, freeze_commitments or finalize called
\* after the deadline: the machine expires, the row is left as it is.
CallTooLate(o) ==
  /\ \/ \E a \in answers : AwaitedOne(o, a) \/ AwaitedTwo(o, a)
     \/ RoundOneComplete(o) \/ RoundTwoComplete(o)
  /\ ExpireMachine(o)
  /\ NoDispatch
  /\ UNCHANGED <<now, providerVars, durable, roundOneContext, roundTwoContext>>

Expire(o) ==
  /\ ExpireMachine(o)
  /\ TerminateOperation(o, "expired")
  /\ Dispatch(o, selected[o], "abort", NoPackage)
  /\ UNCHANGED <<now, providerVars, roundOneContext, roundTwoContext>>

ExpireFails(o) ==
  /\ ExpireMachine(o)
  /\ FailedWrite
  /\ NoDispatch
  /\ UNCHANGED <<now, providerVars, roundOneContext, roundTwoContext>>

-----------------------------------------------------------------------------
\* recover_operation, which the host may call at any time.

RecoverCommitmentRound(o) ==
  /\ status[o] = "collecting_commitments"
  /\ TerminateOperation(o, "aborted")
  /\ NoDispatch /\ UNCHANGED <<now, providerVars, process>>

RecoverExpired(o) ==
  /\ status[o] = "collecting_shares" /\ Late(o)
  /\ TerminateOperation(o, "expired")
  /\ NoDispatch /\ UNCHANGED <<now, providerVars, process>>

\* The machine is rebuilt from the receipts; ThresholdSessionMachine::new
\* refuses a deadline that is not in the future, the rebuilt package must be
\* the stored one and every stored share must verify against it.
Rebuilds(o) ==
  /\ now < Expiry[o]
  /\ Cardinality(Given(commitmentReceipt[o])) >= 2
  /\ package[o] = commitmentReceipt[o]
  /\ \A s \in Given(shareReceipt[o]) : shareReceipt[o][s] = package[o][s]

\* Mutant: every selected signer is asked again.
MutMissing(o) == selected[o]

\* The signers whose share is not stored are asked again.
Missing(o) == selected[o] \ Given(shareReceipt[o])

ResumeRoundTwo(o) ==
  /\ status[o] = "collecting_shares"
  /\ Rebuilds(o)
  /\ machine' = [machine EXCEPT ![o] =
       [phase |-> "collecting_shares", commitments |-> commitmentReceipt[o],
        shares |-> shareReceipt[o]]]
  /\ roundOneContext' = [roundOneContext EXCEPT ![o] = NoContext]
  /\ roundTwoContext' = [roundTwoContext EXCEPT ![o] = Context(Missing(o))]
  /\ IF Missing(o) = {}
     THEN NoDispatch
     ELSE SpareBatch /\ Dispatch(o, Missing(o), "two", package[o])
  /\ UNCHANGED <<now, providerVars, durable>>

-----------------------------------------------------------------------------
\* The coordinator process ends; the next one starts with no operations.
Restart ==
  /\ machine' = [o \in Operations |-> NoMachine]
  /\ roundOneContext' = [o \in Operations |-> NoContext]
  /\ roundTwoContext' = [o \in Operations |-> NoContext]
  /\ NoDispatch /\ UNCHANGED <<now, providerVars, durable>>

Coordinate(o) ==
  \/ \E P \in Pairs : BeginAuthorized(o, P)
  \/ \E a \in answers :
       \/ AcceptRoundOne(o, a) \/ AcceptRoundOneFails(o, a)
       \/ AcceptRoundTwo(o, a) \/ AcceptRoundTwoFails(o, a)
       \/ RejectShare(o, a)
  \/ FreezeCommitments(o) \/ FreezeCommitmentsFails(o)
  \/ Finalize(o) \/ FinalizeFails(o)
  \/ CallTooLate(o)
  \/ Expire(o) \/ ExpireFails(o)
  \/ RecoverCommitmentRound(o) \/ RecoverExpired(o) \/ ResumeRoundTwo(o)

SignerStep ==
  \/ \E r \in sent : Handle(r)
  \/ \E s \in Signers : RestartSigner(s)
  \/ Tick

Next ==
  \/ \E o \in Operations : Coordinate(o)
  \/ Restart
  \/ SignerStep /\ UNCHANGED <<durable, process, sent, batches>>

Spec == Init /\ [][Next]_vars

-----------------------------------------------------------------------------
\* A stored share was made by its signer for the frozen package with the
\* nonce that signer committed to, and a finalized operation has the share of
\* both selected signers.
FinalizedByPair ==
  \A o \in Operations :
    /\ \A s \in Given(shareReceipt[o]) :
         /\ shareReceipt[o][s] = package[o][s]
         /\ [nonce |-> package[o][s], op |-> o, package |-> package[o]]
              \in signed
    /\ status[o] = "finalized" =>
         Given(shareReceipt[o]) = selected[o] /\ Cardinality(selected[o]) = 2

\* Until its deadline an operation that collects shares can be rebuilt from
\* its receipts: recover_operation never refuses what the coordinator stored.
RecoveryNeverRefused ==
  \A o \in Operations :
    status[o] = "collecting_shares" /\ now < Expiry[o] => Rebuilds(o)

\* No signer is asked for, or produces, a share of a package other than the
\* one frozen in the database, through retries, recoveries and restarts.
OnePackage ==
  /\ \A r \in sent : r.kind = "two" => r.package = package[r.op]
  /\ \A x \in signed : x.package = package[x.op]

\* A running machine knows every receipt that is stored: a stored answer is
\* never asked for again nor dropped by the round that is in memory.
MachineCoversReceipts ==
  \A o \in Operations : \A s \in Signers :
    Running(o) =>
      /\ commitmentReceipt[o][s] \in {NoNonce, machine[o].commitments[s]}
      /\ shareReceipt[o][s] \in {NoNonce, machine[o].shares[s]}
      /\ roundTwoContext[o][s] # 0 => shareReceipt[o][s] = NoNonce

\* A row that ended keeps its status and its package, a frozen package stays,
\* and a receipt is never replaced.
RowsOnlyAdvance ==
  [][\A o \in Operations :
       /\ status[o] \in Terminal => status'[o] = status[o]
       /\ package[o] # NoPackage => package'[o] = package[o]
       /\ \A s \in Signers :
            /\ commitmentReceipt[o][s] # NoNonce =>
                 commitmentReceipt'[o][s] = commitmentReceipt[o][s]
            /\ shareReceipt[o][s] # NoNonce =>
                 shareReceipt'[o][s] = shareReceipt[o][s]]_vars
=============================================================================
