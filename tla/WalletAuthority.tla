--------------------------- MODULE WalletAuthority ---------------------------
(***************************************************************************)
(* The wallet's signing authority: intents, Passkey approvals, one-time    *)
(* authorizations, the two ways of spending one (the FROST rounds and the  *)
(* chain signing job), and what survives a crash, a restart and a restore  *)
(* (crates/wallet-core: node.rs, api.rs, gate.rs, webauthn.rs,             *)
(* durable_store.rs; crates/wallet-storage: sqlite.rs).                    *)
(*                                                                         *)
(* Every handler of WalletNodeService runs under one mutex and is one      *)
(* action.  The exception is the execution of a chain signing job, which   *)
(* claims under the lock, contacts the signers without it, and completes   *)
(* under it again: three actions.  Handlers that refuse change nothing and *)
(* are not actions; those that fail after they changed something are.      *)
(*                                                                         *)
(* A digest, a session identifier or a message is a model value.  A        *)
(* database row is kept for each identifier; status "none" is no row.      *)
(***************************************************************************)
EXTENDS Integers, FiniteSets

CONSTANTS
  Intents,       \* intent identifiers
  Ceremonies,    \* approval ceremony identifiers (random UUIDs)
  Registrations, \* registration ceremony identifiers
  Nonces,        \* FROST signing nonces, named by their fingerprints
  Sessions, Messages,
  Kind,          \* of an intent: "legacy" (a local FROST share), "covhub", "personal"
  Session, Message, Expiry, \* immutable fields of an intent
  Jobbable,      \* intents whose signer label names a stored signer profile
  TTL,           \* ceremony_ttl_seconds
  MaxTime, MaxEpoch, MaxCrashes \* bounds

ASSUME AuthorityAssumption ==
  /\ Intents # {}
  /\ Kind \in [Intents -> {"legacy", "covhub", "personal"}]
  /\ Session \in [Intents -> Sessions]
  /\ Message \in [Intents -> Messages]
  /\ Expiry \in [Intents -> Nat]
  /\ Jobbable \subseteq Intents
  /\ TTL \in Nat
  /\ MaxTime \in Nat /\ MaxEpoch \in Nat \ {0} /\ MaxCrashes \in Nat

VARIABLES
  \* the wallet database
  epoch, restoreState, intents, ceremonies, authorizations, nonceClaims, jobs,
  executorClaims, credential,
  backup,         \* the latest backup bundle
  \* the service process
  up, projection, usedNonces, approvals, registrations, passkey, held, records,
  recovered, phases, rounds, guard, running,
  \* the environment
  now, crashes,
  \* history
  minted,         \* identifiers ever given to an intent
  drawn,          \* nonces ever drawn
  consents,       \* Passkey approvals a human completed, per intent
  uses,           \* authorizations spent, per intent
  shares,         \* signature shares handed out, per nonce
  contacts        \* executions that reached the signers, per intent and epoch

durable == <<epoch, restoreState, intents, ceremonies, authorizations,
             nonceClaims, jobs, executorClaims, credential>>
process == <<up, projection, usedNonces, approvals, registrations, passkey,
             held, records, recovered, phases, rounds, guard, running>>
history == <<minted, drawn, consents, uses, shares, contacts>>
vars == <<durable, backup, process, now, crashes, history>>

StoredStatus == {"none", "pending", "approved", "signing", "signed",
                 "cancelled", "expired", "invalidated"}
IntentStatus == StoredStatus \ {"invalidated"}
CeremonyStatus == {"none", "open", "completed", "invalidated"}
AuthorizationStatus == {"none", "available", "consumed", "invalidated"}
JobStatus == {"none", "signing", "finalized", "failed", "aborted", "expired"}
SigningPhase == {"none", "pending_approval", "approved", "round_one_ready",
                 "share_produced", "signing", "signed", "cancelled", "expired"}

Epochs == 1..MaxEpoch
IntentRow == [st : StoredStatus, epoch : Nat]
CeremonyRow == [st : CeremonyStatus, intent : Intents, epoch : Nat, expires : Nat]
AuthorizationRow == [st : AuthorizationStatus, epoch : Nat]

Snapshot == [epoch : Nat, intents : [Intents -> IntentRow],
             ceremonies : [Ceremonies -> CeremonyRow],
             authorizations : [Intents -> AuthorizationRow],
             nonceClaims : SUBSET (Nonces \cup Intents),
             jobs : [Intents -> JobStatus], executorClaims : SUBSET Intents,
             credential : Nat]

NoIntent == [st |-> "none", epoch |-> 0]
NoCeremony == [st |-> "none", intent |-> CHOOSE i \in Intents : TRUE,
               epoch |-> 0, expires |-> 0]
NoAuthorization == [st |-> "none", epoch |-> 0]
NoBackup == [epoch |-> 0,
             intents |-> [i \in Intents |-> NoIntent],
             ceremonies |-> [c \in Ceremonies |-> NoCeremony],
             authorizations |-> [i \in Intents |-> NoAuthorization],
             nonceClaims |-> {}, jobs |-> [i \in Intents |-> "none"],
             executorClaims |-> {}, credential |-> 0]

(* The database writes of every handler are refused unless the wallet is   *)
(* in the normal state (or snapshotting, which RestoreCutover models).     *)
MutationsAllowed == restoreState = "normal"

(* An intent row as the queries that filter by the current epoch see it.   *)
HasStatus(i, st) == intents[i] = [st |-> st, epoch |-> epoch]

IsExpired(i) == now > Expiry[i]

(* Status of the in-memory projection for a stored status.                 *)
FromStorageStatus(st) == IF st = "invalidated" THEN "expired" ELSE st

(* The authorizations that are still available, and not past their time.   *)
Recoverable(e, rows) ==
  {i \in Intents : rows[i] = [st |-> "available", epoch |-> e] /\ ~IsExpired(i)}

(* The rows a query limited to the current epoch returns.                  *)
Listed(e, rows) == {i \in Intents : rows[i].st # "none" /\ rows[i].epoch = e}

-----------------------------------------------------------------------------
(* A new wallet, opened by the service.                                    *)
Init ==
  /\ epoch = 1 /\ restoreState = "normal"
  /\ intents = [i \in Intents |-> NoIntent]
  /\ ceremonies = [c \in Ceremonies |-> NoCeremony]
  /\ authorizations = [i \in Intents |-> NoAuthorization]
  /\ nonceClaims = {}
  /\ jobs = [i \in Intents |-> "none"]
  /\ executorClaims = {}
  /\ credential = 0
  /\ backup = NoBackup
  /\ up = TRUE
  /\ projection = [i \in Intents |-> "none"]
  /\ passkey = 0 /\ records = {} /\ recovered = {}
  /\ usedNonces = {} /\ approvals = {} /\ held = {}
  /\ registrations = [r \in Registrations |-> 0]
  /\ phases = [i \in Intents |-> "none"]
  /\ rounds = [s \in Sessions |-> {}] /\ guard = {}
  /\ running = [i \in Intents |-> "no"]
  /\ now = 1 /\ crashes = 0
  /\ minted = {} /\ drawn = {}
  /\ consents = [i \in Intents |-> 0]
  /\ uses = [i \in Intents |-> 0]
  /\ shares = [n \in Nonces |-> 0]
  /\ contacts = [i \in Intents |-> [e \in Epochs |-> 0]]

-----------------------------------------------------------------------------
(* Intents.                                                                *)

CreateTransactionIntentV2(i) ==
  /\ MutationsAllowed
  /\ intents[i].st = "none"
  /\ intents' = [intents EXCEPT ![i] = [st |-> "pending", epoch |-> epoch]]

InsertIntent(i) ==
  /\ CreateTransactionIntentV2(i)
  /\ projection' = [projection EXCEPT ![i] = "pending"]
  /\ phases' = [phases EXCEPT ![i] = "pending_approval"]
  /\ minted' = minted \cup {i}
  /\ UNCHANGED <<epoch, restoreState, ceremonies, authorizations, nonceClaims,
                 jobs, executorClaims, credential, backup, up, usedNonces,
                 approvals, registrations, passkey, held, records, recovered,
                 rounds, guard, running, now, crashes, drawn, consents, uses,
                 shares, contacts>>

(* The identifier of a legacy or personal intent is drawn by the wallet,   *)
(* that of a CovHub intent comes with the request.                         *)
CreateIntent(i) ==
  up /\ Kind[i] # "covhub" /\ i \notin minted /\ Expiry[i] > now /\ InsertIntent(i)

CreateCovhubIntent(i) ==
  up /\ Kind[i] = "covhub" /\ Expiry[i] > now /\ InsertIntent(i)

TransitionTransactionIntent(i, expected, next) ==
  /\ MutationsAllowed
  /\ HasStatus(i, expected)
  /\ intents' = [intents EXCEPT ![i].st = next]

(* A pending intent is cancelled, or expired when its time has passed, in  *)
(* the database first; one that is expired already is only forgotten.      *)
CancelIntent(i) ==
  /\ up
  /\ \/ /\ projection[i] = "pending"
        /\ LET st == IF IsExpired(i) THEN "expired" ELSE "cancelled"
           IN  /\ TransitionTransactionIntent(i, "pending", st)
               /\ projection' = [projection EXCEPT ![i] = st]
               /\ phases' = [phases EXCEPT ![i] = st]
     \/ /\ projection[i] = "expired"
        /\ phases' = [phases EXCEPT ![i] = "expired"]
        /\ UNCHANGED <<intents, projection>>
  /\ recovered' = recovered \ {i}
  /\ held' = held \ {i}
  /\ UNCHANGED <<epoch, restoreState, ceremonies, authorizations, nonceClaims,
                 jobs, executorClaims, credential, backup, up, usedNonces,
                 approvals, registrations, passkey, records, rounds, guard,
                 running, now, crashes, history>>

-----------------------------------------------------------------------------
(* The Passkey of the wallet: 0 is none, a positive number the version of  *)
(* the stored credential record.                                           *)

RegistrationStart(r) ==
  /\ up /\ passkey = 0
  /\ registrations[r] = 0
  /\ registrations' = [registrations EXCEPT ![r] = now + TTL]
  /\ UNCHANGED <<durable, backup, up, projection, usedNonces, approvals, passkey,
                 held, records, recovered, phases, rounds, guard, running, now,
                 crashes, history>>

InsertPasskeyRecord == MutationsAllowed /\ credential' = 1

(* The ceremony is forgotten whatever its outcome.  When the record cannot *)
(* be stored the credential is forgotten as well, as if it were rejected.  *)
RegistrationFinish(r) ==
  /\ up /\ registrations[r] # 0
  /\ registrations' = [registrations EXCEPT ![r] = 0]
  /\ \/ UNCHANGED <<passkey, credential>>
     \/ /\ passkey = 0 /\ now <= registrations[r]
        /\ passkey' = 1
        /\ InsertPasskeyRecord
  /\ UNCHANGED <<epoch, restoreState, intents, ceremonies, authorizations,
                 nonceClaims, jobs, executorClaims, backup, up, projection,
                 usedNonces, approvals, held, records, recovered, phases, rounds,
                 guard, running, now, crashes, history>>

-----------------------------------------------------------------------------
(* Approval.                                                               *)

(* The relying party's challenge, and the time it is good for.             *)
RelyingPartyStart(c, i) ==
  /\ projection[i] = "pending" /\ ~IsExpired(i)
  /\ passkey # 0
  /\ approvals' = approvals \cup {c}

ApprovalExpiry(i) == IF Expiry[i] < now + TTL THEN Expiry[i] ELSE now + TTL

BeginPasskeyApproval(c, i) ==
  /\ MutationsAllowed
  /\ HasStatus(i, "pending")
  /\ ApprovalExpiry(i) > now
  /\ ceremonies[c].st = "none"
  /\ ceremonies' = [ceremonies EXCEPT ![c] =
       [st |-> "open", intent |-> i, epoch |-> epoch, expires |-> ApprovalExpiry(i)]]

(* A recovered intent lost its review context and is refused, unless it is *)
(* a CovHub one.  When the ceremony cannot be stored it is dropped from    *)
(* memory again, and nothing has changed.                                  *)
ApprovalStart(c, i) ==
  /\ up
  /\ ~(i \in recovered /\ Kind[i] # "covhub")
  /\ RelyingPartyStart(c, i)
  /\ BeginPasskeyApproval(c, i)
  /\ UNCHANGED <<epoch, restoreState, intents, authorizations, nonceClaims, jobs,
                 executorClaims, credential, backup, up, projection, usedNonces,
                 registrations, passkey, held, records, recovered, phases, rounds,
                 guard, running, now, crashes, history>>

(* The ceremony leaves memory on every outcome.                            *)
ApprovalRejected(c) ==
  /\ up /\ c \in approvals
  /\ approvals' = approvals \ {c}
  /\ UNCHANGED <<durable, backup, up, projection, usedNonces, registrations,
                 passkey, held, records, recovered, phases, rounds, guard,
                 running, now, crashes, history>>

RelyingPartyFinish(c) ==
  /\ c \in approvals
  /\ now <= ceremonies[c].expires
  /\ projection[ceremonies[c].intent] = "pending"
  /\ passkey # 0
  /\ approvals' = approvals \ {c}

(* The gate takes the approval nonce of the intent.                        *)
AuthorizeVerified(i) ==
  /\ projection[i] = "pending" /\ ~IsExpired(i)
  /\ i \notin usedNonces
  /\ usedNonces' = usedNonces \cup {i}

(* The store fails or refuses after that: the nonce stays used.            *)
ApprovalNotStored(c) ==
  /\ up
  /\ RelyingPartyFinish(c)
  /\ AuthorizeVerified(ceremonies[c].intent)
  /\ UNCHANGED <<durable, backup, up, projection, registrations, passkey, held,
                 records, recovered, phases, rounds, guard, running, now, crashes,
                 history>>

(* One transaction completes the ceremony, approves the intent, issues its *)
(* only authorization and replaces the credential record by version.       *)
CompletePasskeyApprovalAtomic(c) ==
  LET i == ceremonies[c].intent
  IN  /\ MutationsAllowed
      /\ ceremonies[c].st = "open" /\ ceremonies[c].epoch = epoch
      /\ now <= ceremonies[c].expires
      /\ HasStatus(i, "pending") /\ ~IsExpired(i)
      /\ credential = passkey
      /\ authorizations[i].st = "none"
      /\ ceremonies' = [ceremonies EXCEPT ![c].st = "completed"]
      /\ intents' = [intents EXCEPT ![i].st = "approved"]
      /\ authorizations' = [authorizations EXCEPT ![i] =
                             [st |-> "available", epoch |-> epoch]]
      /\ credential' = credential + 1

CommitVerifiedPasskey == passkey' = passkey + 1

ApprovalFinish(c) ==
  LET i == ceremonies[c].intent
  IN  /\ up
      /\ RelyingPartyFinish(c)
      /\ AuthorizeVerified(i)
      /\ CompletePasskeyApprovalAtomic(c)
      /\ projection' = [projection EXCEPT ![i] = "approved"]
      /\ CommitVerifiedPasskey
      /\ held' = held \cup {i}
      /\ records' = records \cup {i}
      /\ phases' = [phases EXCEPT ![i] = "approved"]
      /\ consents' = [consents EXCEPT ![i] = @ + 1]
      /\ UNCHANGED <<epoch, restoreState, nonceClaims, jobs, executorClaims,
                     backup, up, registrations, recovered, rounds, guard, running,
                     now, crashes, minted, drawn, uses, shares, contacts>>

-----------------------------------------------------------------------------
(* Spending an authorization.                                              *)

Available(i) == authorizations[i] = [st |-> "available", epoch |-> epoch]

\* Mutation: the transaction does not record the claim.
MutSpend(i, claim) ==
  /\ MutationsAllowed
  /\ Available(i) /\ ~IsExpired(i)
  /\ HasStatus(i, "approved")
  /\ authorizations' = [authorizations EXCEPT ![i].st = "consumed"]
  /\ nonceClaims' = nonceClaims
  /\ intents' = [intents EXCEPT ![i].st = "signing"]
  /\ uses' = [uses EXCEPT ![i] = @ + 1]

(* What both ways of signing commit in one transaction: the authorization  *)
(* is consumed, the nonce or the operation binding is claimed once and for *)
(* all, and the approved intent moves to signing.                          *)
Spend(i, claim) ==
  /\ MutationsAllowed
  /\ Available(i) /\ ~IsExpired(i)
  /\ HasStatus(i, "approved")
  /\ claim \notin nonceClaims
  /\ authorizations' = [authorizations EXCEPT ![i].st = "consumed"]
  /\ nonceClaims' = nonceClaims \cup {claim}
  /\ intents' = [intents EXCEPT ![i].st = "signing"]
  /\ uses' = [uses EXCEPT ![i] = @ + 1]

(* The participant draws secret nonces for a session with none pending.    *)
ParticipantRound1(i, n) ==
  /\ rounds[Session[i]] = {}
  /\ n \notin drawn
  /\ rounds' = [rounds EXCEPT ![Session[i]] = {<<Message[i], n>>}]
  /\ drawn' = drawn \cup {n}

SignerRound1(i, n) ==
  /\ up /\ Kind[i] = "legacy"
  /\ ~IsExpired(i) /\ projection[i] = "approved"
  /\ i \in held
  /\ ParticipantRound1(i, n)
  /\ phases' = [phases EXCEPT ![i] = "round_one_ready"]
  /\ UNCHANGED <<durable, backup, up, projection, usedNonces, approvals,
                 registrations, passkey, held, records, recovered, guard, running,
                 now, crashes, minted, consents, uses, shares, contacts>>

(* The share is made when the message is the authorized one and the nonces *)
(* were not used before.                                                   *)
SignShare(i, round) == round[1] = Message[i] /\ round[2] \notin guard

(* The participant finds the commitments of round one in the session       *)
(* (matching) and gives up the nonces, or refuses and keeps them.          *)
ParticipantRound2(i, round, signs, matching) ==
  /\ rounds' = IF matching THEN [rounds EXCEPT ![Session[i]] = {}] ELSE rounds
  /\ guard' = IF signs THEN guard \cup {round[2]} ELSE guard
  /\ shares' = IF signs THEN [shares EXCEPT ![round[2]] = @ + 1] ELSE shares

PhaseAfterRound2(i, signs) ==
  IF signs THEN [phases EXCEPT ![i] = "share_produced"] ELSE phases

(* FROST round two: the store commits before the participant signs.        *)
SignerRound2(i, matching) ==
  /\ up /\ Kind[i] = "legacy"
  /\ i \in held /\ i \in records
  /\ \E round \in rounds[Session[i]] :
       LET signs == matching /\ SignShare(i, round)
       IN  /\ Spend(i, round[2])
           /\ ParticipantRound2(i, round, signs, matching)
           /\ phases' = PhaseAfterRound2(i, signs)
  /\ records' = records \ {i}
  /\ held' = held \ {i}
  /\ UNCHANGED <<epoch, restoreState, ceremonies, jobs, executorClaims, credential,
                 backup, up, projection, usedNonces, approvals, registrations,
                 passkey, recovered, running, now, crashes, minted, drawn,
                 consents, contacts>>

(* A job's session is unique among jobs, and it ends after it is created.  *)
CreateSigningJob(i) ==
  /\ i \in Jobbable
  /\ now < Expiry[i]
  /\ \A j \in Intents : jobs[j] # "none" => Session[j] # Session[i]
  /\ Spend(i, i)
  /\ jobs' = [jobs EXCEPT ![i] = "signing"]

(* A chain signing job takes the authorization record, held or recovered.  *)
CreateChainSigningJob(i) ==
  /\ up
  /\ i \in records
  /\ projection[i] = "approved"
  /\ CreateSigningJob(i)
  /\ projection' = [projection EXCEPT ![i] = "signing"]
  /\ records' = records \ {i}
  /\ held' = held \ {i}
  /\ phases' = [phases EXCEPT ![i] = "signing"]
  /\ UNCHANGED <<epoch, restoreState, ceremonies, executorClaims, credential,
                 backup, up, usedNonces, approvals, registrations, passkey,
                 recovered, rounds, guard, running, now, crashes, minted, drawn,
                 consents, shares, contacts>>

-----------------------------------------------------------------------------
(* Executing a chain signing job.                                          *)

(* An end of a job and of its intent, in one transaction that fails as a   *)
(* whole unless the job is signing and its intent is signing in the        *)
(* current epoch.                                                          *)
IsSigning(i) == MutationsAllowed /\ jobs[i] = "signing" /\ HasStatus(i, "signing")

CompleteSigningJob(i) ==
  /\ IsSigning(i)
  /\ jobs' = [jobs EXCEPT ![i] = "finalized"]
  /\ intents' = [intents EXCEPT ![i].st = "signed"]

TerminateSigningJob(i, status) ==
  /\ IsSigning(i)
  /\ jobs' = [jobs EXCEPT ![i] = status]
  /\ intents' = [intents EXCEPT ![i].st = "invalidated"]

(* The projection follows the database.                                    *)
FinalizeChainSigningJob(i) ==
  /\ CompleteSigningJob(i)
  /\ projection' = [projection EXCEPT ![i] = "signed"]

\* Mutation: the projection is not updated.
MutTerminateChainSigningJob(i, status) ==
  TerminateSigningJob(i, status) /\ UNCHANGED projection

TerminateChainSigningJob(i, status) ==
  /\ TerminateSigningJob(i, status)
  /\ projection' = [projection EXCEPT ![i] = "expired"]

\* Mutation: the claim is not unique.
MutClaimChainExecutor(i) ==
  /\ MutationsAllowed
  /\ jobs[i] = "signing" /\ ~IsExpired(i)
  /\ executorClaims' = executorClaims \cup {i}

ClaimChainExecutor(i) ==
  /\ MutationsAllowed
  /\ jobs[i] = "signing" /\ ~IsExpired(i)
  /\ i \notin executorClaims
  /\ executorClaims' = executorClaims \cup {i}

(* An execute request first claims the job, once in its life.              *)
ClaimExecution(i) ==
  /\ up
  /\ ClaimChainExecutor(i)
  /\ running' = [running EXCEPT ![i] = "claimed"]
  /\ UNCHANGED <<epoch, restoreState, intents, ceremonies, authorizations,
                 nonceClaims, jobs, credential, backup, up, projection, usedNonces,
                 approvals, registrations, passkey, held, records, recovered,
                 phases, rounds, guard, now, crashes, history>>

\* Mutation: a claimed job is left to the request that claimed it.
MutOverdue(i) == IsExpired(i) /\ i \notin executorClaims

Overdue(i) == IsExpired(i)

(* An execute request after the deadline ends the job instead, whether or  *)
(* not an earlier request is still executing it.                           *)
ExpireExecution(i) ==
  /\ up /\ Overdue(i)
  /\ TerminateChainSigningJob(i, "expired")
  /\ UNCHANGED <<epoch, restoreState, ceremonies, authorizations, nonceClaims,
                 executorClaims, credential, backup, up, usedNonces, approvals,
                 registrations, passkey, held, records, recovered, phases, rounds,
                 guard, running, now, crashes, history>>

(* The executor reaches the signers; the service lock is not held.         *)
Execute(i) ==
  /\ up /\ running[i] = "claimed"
  /\ running' = [running EXCEPT ![i] = "contacted"]
  /\ contacts' = [contacts EXCEPT ![i][epoch] = @ + 1]
  /\ UNCHANGED <<durable, backup, up, projection, usedNonces, approvals,
                 registrations, passkey, held, records, recovered, phases, rounds,
                 guard, now, crashes, minted, drawn, consents, uses, shares>>

(* The request that claimed the job stores the verified signature; the     *)
(* deadline is compared with the time of the request, not with the clock.  *)
CompleteJob(i) ==
  /\ up /\ running[i] = "contacted"
  /\ FinalizeChainSigningJob(i)
  /\ running' = [running EXCEPT ![i] = "no"]
  /\ UNCHANGED <<epoch, restoreState, ceremonies, authorizations, nonceClaims,
                 executorClaims, credential, backup, up, usedNonces, approvals,
                 registrations, passkey, held, records, recovered, phases, rounds,
                 guard, now, crashes, history>>

(* The executor failed, before or after it reached the signers.            *)
FailJob(i) ==
  /\ up /\ running[i] # "no"
  /\ \E status \in {"failed", "aborted"} : TerminateChainSigningJob(i, status)
  /\ running' = [running EXCEPT ![i] = "no"]
  /\ UNCHANGED <<epoch, restoreState, ceremonies, authorizations, nonceClaims,
                 executorClaims, credential, backup, up, usedNonces, approvals,
                 registrations, passkey, held, records, recovered, phases, rounds,
                 guard, now, crashes, history>>

(* The result cannot be stored (an I/O error, or the job ended meanwhile): *)
(* the request returns an error and the job stays as it is.                *)
ResultNotStored(i) ==
  /\ up /\ running[i] # "no"
  /\ running' = [running EXCEPT ![i] = "no"]
  /\ UNCHANGED <<durable, backup, up, projection, usedNonces, approvals,
                 registrations, passkey, held, records, recovered, phases, rounds,
                 guard, now, crashes, history>>

-----------------------------------------------------------------------------
(* The process and the database file.                                      *)

(* The process ends, between any two actions.                              *)
Stop ==
  /\ up /\ crashes < MaxCrashes
  /\ up' = FALSE /\ crashes' = crashes + 1
  /\ projection' = [i \in Intents |-> "none"]
  /\ passkey' = 0 /\ records' = {} /\ recovered' = {}
  /\ usedNonces' = {} /\ approvals' = {} /\ held' = {}
  /\ registrations' = [r \in Registrations |-> 0]
  /\ phases' = [i \in Intents |-> "none"]
  /\ rounds' = [s \in Sessions |-> {}] /\ guard' = {}
  /\ running' = [i \in Intents |-> "no"]
  /\ UNCHANGED <<durable, backup, now, history>>

InvalidateUnfinished(e, rows) ==
  [c \in Ceremonies |-> IF rows[c].st = "open" /\ rows[c].epoch = e
                        THEN [rows[c] EXCEPT !.st = "invalidated"] ELSE rows[c]]

(* Opening the database ends the ceremonies left open in its epoch.  The   *)
(* service lists the intents of the epoch, reads the credential and the    *)
(* authorizations that are still available, and marks every intent it      *)
(* found as recovered.                                                     *)
Start ==
  /\ ~up /\ up' = TRUE
  /\ ceremonies' = InvalidateUnfinished(epoch, ceremonies)
  /\ LET found == Listed(epoch, intents)
     IN  /\ projection' = [i \in Intents |->
              IF i \in found THEN FromStorageStatus(intents[i].st) ELSE "none"]
         /\ recovered' = found
  /\ passkey' = credential
  /\ records' = Recoverable(epoch, authorizations)
  /\ UNCHANGED <<epoch, restoreState, intents, authorizations, nonceClaims, jobs,
                 executorClaims, credential, backup, usedNonces, approvals,
                 registrations, held, phases, rounds, guard, running, now, crashes,
                 history>>

(* Export of the database while no service has it open.                    *)
ExportBackup ==
  /\ ~up /\ MutationsAllowed
  /\ backup' = [epoch |-> epoch, intents |-> intents, ceremonies |-> ceremonies,
                authorizations |-> authorizations, nonceClaims |-> nonceClaims,
                jobs |-> jobs, executorClaims |-> executorClaims,
                credential |-> credential]
  /\ UNCHANGED <<durable, process, now, crashes, history>>

\* Mutation: the restored database keeps the epoch of the backup.
MutNewEpoch == backup.epoch

NewEpoch == backup.epoch + 1

(* What the cutover leaves of the rows of older epochs than e.             *)
FenceCeremonies(rows, e) ==
  [c \in Ceremonies |-> IF rows[c].epoch < e /\ rows[c].st = "open"
                        THEN [rows[c] EXCEPT !.st = "invalidated"] ELSE rows[c]]

FenceAuthorizations(rows, e) ==
  [i \in Intents |-> IF rows[i].epoch < e /\ rows[i].st = "available"
                     THEN [rows[i] EXCEPT !.st = "invalidated"] ELSE rows[i]]

FenceIntents(rows, e) ==
  [i \in Intents |->
     IF rows[i].epoch < e /\ rows[i].st \in {"pending", "approved", "signing"}
     THEN [rows[i] EXCEPT !.st = "invalidated"] ELSE rows[i]]

(* Restore: the backup, fenced by a new epoch, becomes the database.       *)
(* Everything of an older epoch that was not finished is invalidated; jobs,*)
(* executor claims and the credential are as they were backed up.          *)
CutoverRestore ==
  /\ ~up /\ MutationsAllowed
  /\ backup.epoch >= epoch /\ backup.epoch < MaxEpoch
  /\ epoch' = NewEpoch
  /\ restoreState' = "recovering"
  /\ ceremonies' = FenceCeremonies(backup.ceremonies, NewEpoch)
  /\ authorizations' = FenceAuthorizations(backup.authorizations, NewEpoch)
  /\ intents' = FenceIntents(backup.intents, NewEpoch)
  /\ nonceClaims' = backup.nonceClaims
  /\ jobs' = backup.jobs
  /\ executorClaims' = backup.executorClaims
  /\ credential' = backup.credential
  /\ UNCHANGED <<backup, process, now, crashes, history>>

FinishRecovery ==
  /\ ~up /\ restoreState = "recovering"
  /\ restoreState' = "normal"
  /\ UNCHANGED <<epoch, intents, ceremonies, authorizations, nonceClaims, jobs,
                 executorClaims, credential, backup, process, now, crashes, history>>

Tick ==
  /\ now < MaxTime
  /\ now' = now + 1
  /\ UNCHANGED <<durable, backup, process, crashes, history>>

IntentStep(i) ==
  \/ CreateIntent(i) \/ CreateCovhubIntent(i)
  \/ CancelIntent(i)
  \/ \E c \in Ceremonies : ApprovalStart(c, i)
  \/ \E n \in Nonces : SignerRound1(i, n)
  \/ \E matching \in BOOLEAN : SignerRound2(i, matching)
  \/ CreateChainSigningJob(i)
  \/ ClaimExecution(i) \/ ExpireExecution(i)
  \/ Execute(i) \/ CompleteJob(i) \/ FailJob(i) \/ ResultNotStored(i)

CeremonyStep(c) == ApprovalRejected(c) \/ ApprovalNotStored(c) \/ ApprovalFinish(c)

Next ==
  \/ \E i \in Intents : IntentStep(i)
  \/ \E c \in Ceremonies : CeremonyStep(c)
  \/ \E r \in Registrations : RegistrationStart(r) \/ RegistrationFinish(r)
  \/ Stop \/ Start \/ ExportBackup \/ CutoverRestore \/ FinishRecovery \/ Tick

Spec == Init /\ [][Next]_vars

(* The clock advances, a stopped service is started again, an executor     *)
(* returns (every provider call has a timeout), and the client repeats its *)
(* execute request until the job has ended.                                *)
FairSpec ==
  /\ Spec
  /\ WF_vars(Tick) /\ WF_vars(Start)
  /\ \A i \in Intents :
       /\ WF_vars(ClaimExecution(i)) /\ WF_vars(ExpireExecution(i))
       /\ WF_vars(Execute(i))
       /\ WF_vars(CompleteJob(i) \/ FailJob(i) \/ ResultNotStored(i))

-----------------------------------------------------------------------------
(* Properties.                                                             *)

(* Every variable has the shape of the code's tables and maps.             *)
TypeOK ==
  /\ epoch \in Nat \ {0} /\ restoreState \in {"normal", "recovering"}
  /\ intents \in [Intents -> IntentRow]
  /\ ceremonies \in [Ceremonies -> CeremonyRow]
  /\ authorizations \in [Intents -> AuthorizationRow]
  /\ nonceClaims \subseteq Nonces \cup Intents
  /\ jobs \in [Intents -> JobStatus]
  /\ executorClaims \subseteq Intents
  /\ credential \in Nat
  /\ backup \in Snapshot
  /\ up \in BOOLEAN
  /\ projection \in [Intents -> IntentStatus]
  /\ usedNonces \subseteq Intents /\ approvals \subseteq Ceremonies
  /\ registrations \in [Registrations -> Nat]
  /\ passkey \in Nat
  /\ held \subseteq Intents /\ records \subseteq Intents /\ recovered \subseteq Intents
  /\ phases \in [Intents -> SigningPhase]
  /\ rounds \in [Sessions -> SUBSET (Messages \X Nonces)]
  /\ guard \subseteq Nonces
  /\ running \in [Intents -> {"no", "claimed", "contacted"}]
  /\ now \in Nat /\ crashes \in Nat
  /\ minted \subseteq Intents /\ drawn \subseteq Nonces
  /\ consents \in [Intents -> Nat]
  /\ uses \in [Intents -> Nat]
  /\ shares \in [Nonces -> Nat]
  /\ contacts \in [Intents -> [Epochs -> Nat]]

(* Every spent authorization is covered by a Passkey approval of its own,  *)
(* over any sequence of crashes, restarts and restores of an old backup    *)
(* (consume_authorization_and_claim_frost_nonce, create_signing_job).      *)
UseNeedsConsent == \A i \in Intents : uses[i] <= consents[i]

(* No nonce of FROST round one makes two signature shares, and a nonce     *)
(* that made one was claimed in the database or belongs to an epoch a      *)
(* restore rolled back (node.rs signer_round2).                            *)
NonceUsedOnce ==
  \A n \in Nonces : /\ shares[n] <= 1
                    /\ shares[n] = 1 /\ epoch = 1 => n \in nonceClaims

(* Within one epoch a chain signing job reaches the signers at most once,  *)
(* whatever requests, crashes and restarts there are: the executor claim   *)
(* is committed before the contact (node.rs claim_chain_signing_job_       *)
(* execution).                                                             *)
ContactedOnce == \A i \in Intents : \A e \in Epochs : contacts[i][e] <= 1

(* While the service runs, its projection of an intent is the stored       *)
(* status.  The one exception is FROST round two, which moves the stored   *)
(* intent to signing and leaves the projection approved; then the service  *)
(* has dropped the authorization it would need to act on that.             *)
ProjectionAgrees ==
  up => \A i \in Intents :
    LET stored == IF intents[i].epoch = epoch THEN FromStorageStatus(intents[i].st)
                                              ELSE "none"
    IN  \/ projection[i] = stored
        \/ /\ projection[i] = "approved" /\ stored = "signing"
           /\ i \notin held \cup records

(* The service holds an authorization in memory only while the database    *)
(* row is unspent in the current epoch (node.rs authorizations and         *)
(* authorization_records).                                                 *)
HeldIsAvailable == held \subseteq records /\ \A i \in records : Available(i)

(* A job and its intent move together: in the epoch of the intent, a       *)
(* signing job has a signing intent, a finalized job a signed one, any     *)
(* other ended job an invalidated one, and an intent is signed only by a   *)
(* finalized job (sqlite.rs complete_signing_job, terminate_signing_job).  *)
JobTracksIntent ==
  \A i \in Intents :
    /\ intents[i].st = "signed" <=> jobs[i] = "finalized"
    /\ jobs[i] = "signing" =>
         \/ HasStatus(i, "signing")
         \/ intents[i].st = "invalidated" /\ intents[i].epoch < epoch
    /\ jobs[i] \in {"failed", "aborted", "expired"} => intents[i].st = "invalidated"

(* Restores and restarts never make an authorization usable again: one     *)
(* that is not available stays so unless a ceremony is completed.          *)
NeverRevived ==
  [][\A i \in Intents : Available(i)' /\ ~Available(i) => consents'[i] = consents[i] + 1]_vars

(* Every chain signing job ends: it is completed, it fails, or a request   *)
(* after its deadline expires it, also when the service stopped while the  *)
(* job was being executed (without a restore in between).                  *)
JobSettles == \A i \in Intents : jobs[i] = "signing" ~> jobs[i] # "signing"

(* After a restore no signer is contacted on the strength of an            *)
(* authorization of an older epoch.                                        *)
NoOldEpochExecution ==
  \A i \in Intents : \A e \in Epochs :
    e = epoch /\ contacts[i][e] > 0 => intents[i].epoch = epoch
=============================================================================
