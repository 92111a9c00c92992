------------------------- MODULE ThresholdExecution -------------------------
(***************************************************************************)
(* The chain signing executors.                                            *)
(*                                                                         *)
(* The wallet node hands a claimed job to the executor of its profile and  *)
(* lets go of its own lock: several requests can be inside execute of the  *)
(* same executor.  An executor validates the job against its profile,      *)
(* consumes a claim on the job's session so that it is tried only once,    *)
(* obtains shares from two of three participants and accepts only a        *)
(* signature that the chain's own verifier accepts.                        *)
(*                                                                         *)
(* Four backends differ in what they remember and for how long: FROST      *)
(* (Bitcoin, Fractal) claims in a set of the process and runs two rounds   *)
(* with its providers; Chia claims in a file and asks for two stateless    *)
(* shares; Ergo claims in a file and reserves and consumes a nonce per     *)
(* participant and input, each in a file of its own; cb-mpc (Bitcoin Cash, *)
(* BSV, Kaspa) claims in an append-only log and runs two threads that talk *)
(* over a transport that outlives the session.  The variable backend is    *)
(* the one under study and never changes.                                  *)
(***************************************************************************)
EXTENDS Integers, Sequences, FiniteSets

CONSTANTS
    Backends,     \* subset of {"bitcoin", "fractal", "chia", "ergo", "cbmpc"}
    Workers,      \* requests that execute jobs
    Jobs,         \* records [session, message, drift]
    Legacy,       \* sessions in the version-1 claim log
    Remote,       \* FROST participants in another process
    Inputs,       \* inputs of an Ergo transaction
    Rounds,       \* message exchanges of one cb-mpc signing
    MaxFrames,    \* MAX_TRANSPORT_FRAMES
    MaxClaims,    \* MAX_RETAINED_SESSION_IDS
    MaxCalls,     \* bound: calls of execute
    MaxRestarts   \* bound: ends of the process

VARIABLES
    backend,      \* the backend under study
    call,         \* call[w]: the execution of request w
    mutex,        \* the executor's lock: a worker or Nobody
    consumed,     \* claims of the FROST executors, in memory
    claimFiles,   \* claims of the Chia and Ergo executors, one file each
    claimLog,     \* the cb-mpc log: [records, torn]
    claimed,      \* the cb-mpc claims in memory
    failedClosed, \* the cb-mpc store refuses everything
    pending,      \* pending[p]: sessions whose nonces participant p keeps
    nonceFiles,   \* Ergo nonce records: <<nonce, "reserved" or "consumed">>
    busy,         \* the worker that has reserved the two cb-mpc shares
    party,        \* party[i]: the thread of cb-mpc party i
    wire,         \* wire[i]: what party i has not read yet
    sent,         \* sent[i]: frames party i has sent since the start
    cancelled,    \* the executor's CbMpcCancellation
    accepted,     \* signatures returned: records [job, call, sig]
    begun,        \* executions past their claim: [call, key, life]
    calls,        \* number of calls so far
    life          \* number of restarts so far

execVars == <<backend, call, mutex, consumed, claimFiles, claimLog, claimed,
              failedClosed, pending, nonceFiles, busy, party, wire, sent,
              cancelled, accepted, begun, calls, life>>
claimVars == <<consumed, claimFiles, claimLog, claimed, failedClosed>>
shareVars == <<pending, nonceFiles>>
nativeVars == <<busy, party, wire, sent, cancelled>>

Participants == {1, 2}
Other(p) == 3 - p
Nobody == "nobody"
Frost == {"bitcoin", "fractal"}
FileBacked == {"chia", "ergo"}

Idle == [pc |-> "idle"]
NoParty == [state |-> "none"]

\* The clock of a call, relative to created_at = 1 and expires_at = 2 of
\* every job.
Times == 0 .. 3

ASSUME ExecutionAssumption ==
    /\ Inputs \in Nat \ {0} /\ Rounds \in Nat \ {0}
    /\ \A j \in Jobs : j.drift \in {"none", "signers", "material"}
    /\ Backends \subseteq {"bitcoin", "fractal", "chia", "ergo", "cbmpc"}
    /\ Nobody \notin Workers

----------------------------------------------------------------------------
(* Before the claim.                                                       *)

\* A job may have drifted from what the executor was built for: its review
\* binding names another signer set or epoch ("signers"), or its review does
\* not follow from the transaction material it carries ("material").

\* Fractal, Chia, Ergo: the job names the executor's profile, signer set and
\* review, within its lifetime.
ValidateExecution(j, now) == j.drift # "signers" /\ 1 <= now /\ now <= 2

\* Bitcoin: in addition the review is made again from the material.
BitcoinValidateExecution(j, now) ==
    ValidateExecution(j, now) /\ j.drift # "material"

\* cb-mpc: the parts of an approved request agree; its last second is
\* already too late, its first second is not looked at.
ApprovedRequest(j, now) == j.drift # "signers" /\ now < 2

\* What identifies an attempt: a Bitcoin or cb-mpc session can be used once,
\* whatever it is used for; Fractal, Chia and Ergo claim the session together
\* with the review and the operation.
ClaimKey(j) == IF backend \in {"bitcoin", "cbmpc"} THEN <<j.session>>
               ELSE <<j.session, j.message>>

\* ClaimedChainSigningJob::execute, after the node's lock is released.
Execute(w, j, now) ==
    /\ call[w] = Idle
    /\ calls < MaxCalls
    /\ CASE backend = "cbmpc" -> ApprovedRequest(j, now) /\ ~cancelled
         [] backend = "bitcoin" -> BitcoinValidateExecution(j, now)
         [] OTHER -> ValidateExecution(j, now)
    /\ calls' = calls + 1
    /\ call' = [call EXCEPT ![w] =
                  [pc |-> "claim", job |-> j, no |-> calls', input |-> 1,
                   turn |-> 1, shares |-> {}]]
    /\ UNCHANGED <<backend, mutex, accepted, begun, life, claimVars,
                   shareVars, nativeVars>>

Advance(w, pc) == call' = [call EXCEPT ![w].pc = pc]

\* The execution returns; its lock, if it has it, is released.
Leave(w) ==
    /\ call' = [call EXCEPT ![w] = Idle]
    /\ mutex' = IF mutex = w THEN Nobody ELSE mutex

Pass(w) ==
    begun' = begun \cup {[call |-> call[w].no, key |-> ClaimKey(call[w].job),
                          life |-> life]}

----------------------------------------------------------------------------
(* Claims.                                                                 *)

\* ProcessBitcoinClaimStore and ProcessFractalClaimStore: a set.
ProcessClaim(w) ==
    /\ backend \in Frost /\ call[w].pc = "claim" /\ mutex = Nobody
    /\ LET key == ClaimKey(call[w].job) IN
         \/ /\ key \notin consumed
            /\ consumed' = consumed \cup {key}
            /\ mutex' = w
            /\ Advance(w, "prepare")
            /\ Pass(w)
         \/ /\ key \in consumed
            /\ Leave(w)
            /\ UNCHANGED <<consumed, begun>>
    /\ UNCHANGED <<backend, accepted, calls, life, claimFiles, claimLog,
                   claimed, failedClosed, shareVars, nativeVars>>

\* DurableClaimStore::claim_once: the file is created exclusively, written
\* and synchronised.  A failure after the creation leaves the file.
FileClaim(w) ==
    /\ backend \in FileBacked /\ call[w].pc = "claim" /\ mutex = Nobody
    /\ LET key == ClaimKey(call[w].job) IN
         \/ /\ key \notin claimFiles
            /\ claimFiles' = claimFiles \cup {key}
            /\ mutex' = w
            /\ Advance(w, IF backend = "chia" THEN "share" ELSE "reserve")
            /\ Pass(w)
         \/ /\ claimFiles' \in {claimFiles, claimFiles \cup {key}}
            /\ Leave(w)
            /\ UNCHANGED begun
    /\ UNCHANGED <<backend, accepted, calls, life, consumed, claimLog,
                   claimed, failedClosed, shareVars, nativeVars>>

\* The store is in working order and knows the session in neither log.
Claimable(j) ==
    /\ ~failedClosed
    /\ j.session \notin Legacy /\ ClaimKey(j) \notin claimed

\* DurableSessionClaimStore::claim_scoped, which sign_with_providers calls
\* after its look at the cancellation: one record is appended and
\* synchronised.
LogClaim(w) ==
    /\ backend = "cbmpc" /\ call[w].pc = "claim"
    /\ LET key == ClaimKey(call[w].job) IN
         \/ /\ ~cancelled /\ Claimable(call[w].job)
            /\ Cardinality(claimed) < MaxClaims
            /\ claimLog' = [claimLog EXCEPT !.records = @ \cup {key}]
            /\ claimed' = claimed \cup {key}
            /\ Advance(w, "start")
            /\ Pass(w)
            /\ UNCHANGED <<mutex, failedClosed>>
         \/ /\ \/ cancelled \/ ~Claimable(call[w].job)
               \/ Cardinality(claimed) >= MaxClaims
            /\ Leave(w)
            /\ UNCHANGED <<claimLog, claimed, failedClosed, begun>>
    /\ UNCHANGED <<backend, accepted, calls, life, consumed, claimFiles,
                   shareVars, nativeVars>>

\* The append or its synchronisation fails: nothing, part or all of the
\* record is in the file, and the store refuses every later claim.
LogClaimFails(w) ==
    /\ backend = "cbmpc" /\ call[w].pc = "claim"
    /\ ~cancelled /\ Claimable(call[w].job)
    /\ LET key == ClaimKey(call[w].job) IN
         /\ Cardinality(claimed) < MaxClaims
         /\ claimLog' \in {claimLog, [claimLog EXCEPT !.torn = TRUE],
                           [claimLog EXCEPT !.records = @ \cup {key}]}
    /\ failedClosed' = TRUE
    /\ Leave(w)
    /\ UNCHANGED <<backend, accepted, begun, calls, life, consumed,
                   claimFiles, claimed, shareVars, nativeVars>>

----------------------------------------------------------------------------
(* Signatures.                                                             *)

\* A signature stands for the message it signs, the call and the
\* participants whose shares went into it, and whether the shares fit.
Signature(w, fits) ==
    [message |-> call[w].job.message, call |-> call[w].no,
     by |-> call[w].shares, sound |-> fits]

\* The chain suite's verify_finalized_signature: the review follows from the
\* material and the signature is valid for it under the group key.
Verifies(j, sig) ==
    /\ j.drift = "none"
    /\ sig.sound /\ sig.message = j.message /\ sig.by = Participants

\* VerifiedChainSignature::verify and the return of execute.
Finish(w, sig) ==
    /\ accepted' = IF Verifies(call[w].job, sig)
                    THEN accepted \cup {[job |-> call[w].job,
                                         call |-> call[w].no, sig |-> sig]}
                    ELSE accepted
    /\ Leave(w)

----------------------------------------------------------------------------
(* FROST: ProviderThresholdCoordinator::sign_execution.                    *)

\* The next provider's turn in a round, or the next step of the call.
NextTurn(w, next) ==
    IF call[w].turn = 1 THEN [call[w] EXCEPT !.turn = 2]
    ELSE [call[w] EXCEPT !.turn = 1, !.pc = next]

\* Fractal prepares the spend from the material only now and compares it
\* with the review; Bitcoin has done so before the claim.
PrepareSpend(w) ==
    /\ call[w].pc = "prepare"
    /\ IF call[w].job.drift = "material"
       THEN Leave(w)
       ELSE Advance(w, "round one") /\ UNCHANGED mutex
    /\ UNCHANGED <<backend, accepted, begun, calls, life, claimVars,
                   shareVars, nativeVars>>

\* Round one: the provider keeps nonces for the session and commits to
\* them.  It refuses a session it already keeps nonces for.  The answer of a
\* remote provider can be lost.
RoundOne(w) ==
    /\ call[w].pc = "round one"
    /\ LET p == call[w].turn  s == call[w].job.session IN
         \/ /\ s \notin pending[p]
            /\ pending' = [pending EXCEPT ![p] = @ \cup {s}]
            /\ \/ call' = [call EXCEPT ![w] = NextTurn(w, "round two")]
               \/ p \in Remote /\ Advance(w, "abort")
         \/ /\ Advance(w, "abort")
            /\ UNCHANGED pending
    /\ UNCHANGED <<backend, mutex, accepted, begun, calls, life, nonceFiles,
                   claimVars, nativeVars>>

\* Round two: the nonces are spent on a share, which a remote provider may
\* make in vain; a refused round keeps them.
RoundTwo(w) ==
    /\ call[w].pc = "round two"
    /\ LET p == call[w].turn  s == call[w].job.session IN
         \/ /\ s \in pending[p]
            /\ pending' = [pending EXCEPT ![p] = @ \ {s}]
            /\ \/ call' = [call EXCEPT ![w] =
                      [NextTurn(w, "finalize") EXCEPT !.shares = @ \cup {p}]]
               \/ p \in Remote /\ Advance(w, "abort")
         \/ /\ Advance(w, "abort")
            /\ UNCHANGED pending
    /\ UNCHANGED <<backend, mutex, accepted, begun, calls, life, nonceFiles,
                   claimVars, nativeVars>>

\* Mutant: only the provider that failed is told.
MutAbortProviders(w) ==
    /\ call[w].pc = "abort"
    /\ pending' = [pending EXCEPT ![call[w].turn] = @ \ {call[w].job.session}]
    /\ Leave(w)
    /\ UNCHANGED <<backend, accepted, begun, calls, life, nonceFiles,
                   claimVars, nativeVars>>

\* The error path: each provider is told to forget the session; one that
\* cannot be reached does not.
AbortProviders(w) ==
    /\ call[w].pc = "abort"
    /\ \E lost \in SUBSET Remote :
         pending' = [p \in Participants |->
                       IF p \in lost THEN pending[p]
                       ELSE pending[p] \ {call[w].job.session}]
    /\ Leave(w)
    /\ UNCHANGED <<backend, accepted, begun, calls, life, nonceFiles,
                   claimVars, nativeVars>>

\* Aggregation of the shares (FROST, Chia), the chain's assembly of the
\* witness or spend bundle and its verification.
FinalizeShares(w) ==
    /\ call[w].pc = "finalize"
    /\ Finish(w, Signature(w, TRUE))
    /\ UNCHANGED <<backend, begun, calls, life, claimVars, shareVars,
                   nativeVars>>

----------------------------------------------------------------------------
(* Chia: two stateless shares.                                             *)

ChiaShare(w) ==
    /\ call[w].pc = "share"
    /\ \/ /\ call' = [call EXCEPT ![w] =
                        [NextTurn(w, "finalize") EXCEPT
                           !.shares = @ \cup {call[w].turn}]]
          /\ UNCHANGED mutex
       \/ Leave(w)
    /\ UNCHANGED <<backend, accepted, begun, calls, life, claimVars,
                   shareVars, nativeVars>>

----------------------------------------------------------------------------
(* Ergo: a reserved and consumed nonce per participant and input.          *)

\* input_session_id and the fresh nonces of one participant.
InputSession(w) == <<call[w].job.session, call[w].input>>
Nonce(w, p) == <<call[w].no, InputSession(w), p>>

\* LocalErgoShareProvider::reserve: the reservation is on disk before the
\* commitments leave the participant.
ErgoReserve(w) ==
    /\ backend = "ergo" /\ call[w].pc = "reserve"
    /\ LET p == call[w].turn IN
         \/ /\ InputSession(w) \notin pending[p]
            /\ nonceFiles' = nonceFiles \cup {<<Nonce(w, p), "reserved">>}
            /\ pending' = [pending EXCEPT ![p] = @ \cup {InputSession(w)}]
            /\ call' = [call EXCEPT ![w] = NextTurn(w, "sign")]
            /\ UNCHANGED mutex
         \/ /\ Leave(w)
            /\ UNCHANGED shareVars
    /\ UNCHANGED <<backend, accepted, begun, calls, life, claimVars,
                   nativeVars>>

\* LocalErgoShareProvider::sign: the nonces leave memory first, then their
\* consumption is recorded, then they are used.
ErgoSign(w) ==
    /\ backend = "ergo" /\ call[w].pc = "sign"
    /\ LET p == call[w].turn IN
         /\ InputSession(w) \in pending[p]
         /\ pending' = [pending EXCEPT ![p] = @ \ {InputSession(w)}]
         /\ \/ /\ <<Nonce(w, p), "reserved">> \in nonceFiles
               /\ <<Nonce(w, p), "consumed">> \notin nonceFiles
               /\ nonceFiles' = nonceFiles \cup {<<Nonce(w, p), "consumed">>}
               /\ call' = [call EXCEPT ![w] =
                             [NextTurn(w, "proof") EXCEPT !.shares = @ \cup {p}]]
               /\ UNCHANGED mutex
            \/ /\ Leave(w)
               /\ UNCHANGED nonceFiles
    /\ UNCHANGED <<backend, accepted, begun, calls, life, claimVars,
                   nativeVars>>

\* The proof of one input is aggregated; the last one completes the
\* transaction.
ErgoProof(w) ==
    /\ call[w].pc = "proof"
    /\ IF call[w].input < Inputs
       THEN /\ call' = [call EXCEPT ![w].pc = "reserve", ![w].input = @ + 1,
                                    ![w].shares = {}]
            /\ UNCHANGED <<mutex, accepted>>
       ELSE Finish(w, Signature(w, TRUE))
    /\ UNCHANGED <<backend, begun, calls, life, claimVars, shareVars,
                   nativeVars>>

----------------------------------------------------------------------------
(* cb-mpc: two threads over a transport that is shared by all sessions.    *)

\* sign_started: both shares are reserved or the session, already claimed,
\* is given up.
StartParties(w) ==
    /\ call[w].pc = "start"
    /\ IF busy = Nobody
       THEN /\ busy' = w
            /\ party' = [i \in Participants |->
                          [state |-> "send", round |-> 1, sound |-> TRUE]]
            /\ Advance(w, "native")
            /\ UNCHANGED mutex
       ELSE Leave(w) /\ UNCHANGED <<busy, party>>
    /\ UNCHANGED <<backend, accepted, begun, calls, life, wire, sent,
                   cancelled, claimVars, shareVars>>

Session == call[busy].no

\* What is left of a frame whose header was consumed.
Payload == <<0, 0>>

PartyFails(i) == party' = [party EXCEPT ![i].state = "failed"]
PartyVars == <<backend, call, mutex, busy, cancelled, accepted, begun, calls,
               life, claimVars, shareVars>>

\* A send fails once the executor is cancelled or the session's deadline has
\* passed.  Otherwise the frame is on the wire before the transcript is
\* advanced, which fails at its frame limit.
PartySend(i) ==
    /\ party[i].state = "send"
    /\ \/ PartyFails(i) /\ UNCHANGED <<wire, sent>>
       \/ /\ ~cancelled
          /\ wire' = [wire EXCEPT ![Other(i)] =
                        Append(@, <<Session, party[i].round>>)]
          /\ IF sent[i] < MaxFrames
             THEN /\ sent' = [sent EXCEPT ![i] = @ + 1]
                  /\ party' = [party EXCEPT ![i].state = "receive"]
             ELSE PartyFails(i) /\ UNCHANGED sent
    /\ UNCHANGED PartyVars

\* receive of a whole frame.  Sequence number and transcript are those of
\* the transport, so a frame left over from an earlier session passes; what
\* the native protocol makes of it is its own: an error, or a share that
\* does not fit.
PartyReceive(i) ==
    /\ party[i].state = "receive" /\ wire[i] # <<>>
    /\ IF cancelled
       THEN PartyFails(i) /\ UNCHANGED wire
       ELSE LET frame == Head(wire[i])
                fits == frame = <<Session, party[i].round>>
            IN \/ /\ frame = Payload
                  /\ PartyFails(i) /\ UNCHANGED wire
               \/ /\ frame # Payload
                  /\ wire' = [wire EXCEPT ![i] = Tail(@)]
                  /\ \/ party' = [party EXCEPT ![i] =
                            [state |-> IF @.round = Rounds THEN "done"
                                       ELSE "send",
                             round |-> @.round + 1,
                             sound |-> @.sound /\ fits]]
                     \/ ~fits /\ PartyFails(i)
    /\ UNCHANGED <<sent, PartyVars>>

\* The 25 ms poll of CancelAwareTransport runs out between the header and
\* the payload of a frame: the header is lost and the payload will be read
\* as the next header.
PartialReceive(i) ==
    /\ party[i].state = "receive" /\ wire[i] # <<>> /\ ~cancelled
    /\ Head(wire[i]) # Payload
    /\ wire' = [wire EXCEPT ![i] = <<Payload>> \o Tail(@)]
    /\ UNCHANGED <<party, sent, PartyVars>>

\* A receive without the deadline of BoundedTransport and the poll.
ReceiveForever(i) ==
    /\ party[i].state = "receive" /\ wire[i] = <<>> /\ cancelled
    /\ PartyFails(i)
    /\ UNCHANGED <<wire, sent, PartyVars>>

\* Nothing arrives before the receive or session deadline, or the
\* cancellation is seen at a poll.
ReceiveTimeout(i) ==
    /\ party[i].state = "receive" /\ wire[i] = <<>>
    /\ PartyFails(i)
    /\ UNCHANGED <<wire, sent, PartyVars>>

\* Both threads are joined.  The receiver's signature is normalised and
\* verified against the digest and the group key, assembled for the chain
\* and verified once more; the reservations end.
JoinParties(w) ==
    /\ call[w].pc = "native"
    /\ \A i \in Participants : party[i].state \in {"done", "failed"}
    /\ LET done == \A i \in Participants : party[i].state = "done"
           sound == \A i \in Participants : party[i].sound
       IN IF done
          THEN Finish(w, [Signature(w, sound) EXCEPT !.by = Participants])
          ELSE Leave(w) /\ UNCHANGED accepted
    /\ busy' = Nobody
    /\ party' = [i \in Participants |-> NoParty]
    /\ UNCHANGED <<backend, begun, calls, life, wire, sent, cancelled,
                   claimVars, shareVars>>

\* The wallet scheduler cancels the executor; nothing revokes that.
Cancel ==
    /\ backend = "cbmpc" /\ ~cancelled
    /\ cancelled' = TRUE
    /\ UNCHANGED <<backend, call, mutex, busy, party, wire, sent, accepted,
                   begun, calls, life, claimVars, shareVars>>

----------------------------------------------------------------------------
(* The end of the process and its next start.                              *)

\* A store that starts empty.
EmptyClaims == {}

\* DurableSessionClaimStore::open, load_or_initialize.
LoadClaims == claimLog.records

\* Executors are built again from disk; a log with a torn record builds
\* none, which failedClosed stands for.  A remote participant keeps its
\* nonces.  The process may also die in the middle of an append.
Restart ==
    /\ life < MaxRestarts
    /\ life' = life + 1
    /\ \/ UNCHANGED claimLog
       \/ /\ \E w \in Workers :
               backend = "cbmpc" /\ call[w].pc = "claim" /\ ~failedClosed
          /\ claimLog' = [claimLog EXCEPT !.torn = TRUE]
    /\ call' = [w \in Workers |-> Idle]
    /\ mutex' = Nobody
    /\ consumed' = {}
    /\ claimed' = LoadClaims
    /\ failedClosed' = claimLog'.torn
    /\ pending' = [p \in Participants |->
                     IF backend \in Frost /\ p \in Remote
                     THEN pending[p] ELSE {}]
    /\ busy' = Nobody
    /\ party' = [i \in Participants |-> NoParty]
    /\ wire' = [i \in Participants |-> <<>>]
    /\ sent' = [i \in Participants |-> 0]
    /\ cancelled' = FALSE
    /\ UNCHANGED <<backend, claimFiles, nonceFiles, accepted, begun, calls>>

ExecInit ==
    /\ backend \in Backends
    /\ call = [w \in Workers |-> Idle]
    /\ mutex = Nobody
    /\ consumed = {} /\ claimFiles = {} /\ claimed = {}
    /\ claimLog = [records |-> {}, torn |-> FALSE]
    /\ failedClosed = FALSE
    /\ pending = [p \in Participants |-> {}]
    /\ nonceFiles = {}
    /\ busy = Nobody
    /\ party = [i \in Participants |-> NoParty]
    /\ wire = [i \in Participants |-> <<>>]
    /\ sent = [i \in Participants |-> 0]
    /\ cancelled = FALSE
    /\ accepted = {} /\ begun = {} /\ calls = 0 /\ life = 0

WorkerStep(w) ==
    \/ ProcessClaim(w) \/ FileClaim(w) \/ LogClaim(w) \/ LogClaimFails(w)
    \/ PrepareSpend(w) \/ RoundOne(w) \/ RoundTwo(w) \/ AbortProviders(w)
    \/ FinalizeShares(w)
    \/ ChiaShare(w)
    \/ ErgoReserve(w) \/ ErgoSign(w) \/ ErgoProof(w)
    \/ StartParties(w) \/ JoinParties(w)

PartyStep(i) ==
    PartySend(i) \/ PartyReceive(i) \/ PartialReceive(i) \/ ReceiveTimeout(i)

ExecNext ==
    \/ \E w \in Workers :
         (\E j \in Jobs, now \in Times : Execute(w, j, now)) \/ WorkerStep(w)
    \/ \E i \in Participants : PartyStep(i)
    \/ Cancel \/ Restart

\* Every thread that can run runs: they are threads of the operating system.
ExecFairness ==
    /\ \A w \in Workers : WF_execVars(WorkerStep(w))
    /\ \A i \in Participants : WF_execVars(PartyStep(i))

ExecSpec == ExecInit /\ [][ExecNext]_execVars /\ ExecFairness

----------------------------------------------------------------------------
(* Properties.                                                             *)

\* A FROST participant of this process keeps nonces only for the session
\* that holds the executor's lock and is in its rounds: whichever provider
\* refused or was not reached, and whenever the process ended, no nonce of an
\* abandoned session waits for a later request (sign_execution).
KeptNoncesAreInUse ==
    backend \in Frost =>
        \A p \in Participants \ Remote : \A s \in pending[p] :
            \E w \in Workers :
                /\ mutex = w /\ call[w].pc \in {"round one", "round two", "abort"}
                /\ call[w].job.session = s

\* No attempt gets past its claim twice: within a process for FROST, ever
\* for the executors whose claims are durable, whatever was killed in
\* between and however often the job is delivered.
ExecutedOnce ==
    \A a, b \in begun :
        /\ a.key = b.key /\ a # b
        => backend \in Frost /\ a.life # b.life

\* Every execution ends, even when the threads of a session wait for each
\* other's frames: no request keeps the executor.
ExecutionEnds ==
    \A w \in Workers : call[w] # Idle ~> call[w] = Idle
=============================================================================
