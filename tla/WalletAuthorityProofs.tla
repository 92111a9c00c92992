----------------------- MODULE WalletAuthorityProofs -----------------------
(***************************************************************************)
(* Proofs about WalletAuthority for every set of intents, ceremonies and   *)
(* nonces and every bound.                                                 *)
(***************************************************************************)
EXTENDS WalletAuthority, TLAPS

LEMMA NoRowsTyped ==
  /\ NoIntent \in IntentRow
  /\ NoCeremony \in CeremonyRow
  /\ NoAuthorization \in AuthorizationRow
  /\ NoBackup \in Snapshot
<1>1. NoIntent \in IntentRow
  BY Zenon DEF NoIntent, IntentRow, StoredStatus
<1>2. NoCeremony \in CeremonyRow
  <2>1. (CHOOSE i \in Intents : TRUE) \in Intents
    BY Zenon, AuthorityAssumption
  <2> QED BY Zenon, <2>1 DEF NoCeremony, CeremonyRow, CeremonyStatus
<1>3. NoAuthorization \in AuthorizationRow
  BY Zenon DEF NoAuthorization, AuthorizationRow, AuthorizationStatus
<1>4. NoBackup \in Snapshot
  BY Zenon, <1>1, <1>2, <1>3 DEF NoBackup, Snapshot, JobStatus
<1> QED BY Zenon, <1>1, <1>2, <1>3, <1>4

LEMMA InitTyped == Init => TypeOK
BY NoRowsTyped, AuthorityAssumption
   DEF Init, TypeOK, IntentStatus, StoredStatus, JobStatus, SigningPhase, Epochs

LEMMA IntentUpdated ==
  ASSUME NEW f \in [Intents -> IntentRow], NEW i \in Intents, NEW st \in StoredStatus
  PROVE  [f EXCEPT ![i].st = st] \in [Intents -> IntentRow]
BY Zenon DEF IntentRow

LEMMA AuthorizationUpdated ==
  ASSUME NEW f \in [Intents -> AuthorizationRow], NEW i \in Intents,
         NEW st \in AuthorizationStatus
  PROVE  /\ [f EXCEPT ![i].st = st] \in [Intents -> AuthorizationRow]
         /\ \A e \in Nat : [f EXCEPT ![i] = [st |-> st, epoch |-> e]]
                             \in [Intents -> AuthorizationRow]
BY Zenon DEF AuthorizationRow

LEMMA CeremonyUpdated ==
  ASSUME NEW f \in [Ceremonies -> CeremonyRow], NEW c \in Ceremonies, NEW st \in CeremonyStatus
  PROVE  [f EXCEPT ![c].st = st] \in [Ceremonies -> CeremonyRow]
BY Zenon DEF CeremonyRow

LEMMA Bumped ==
  ASSUME NEW S, NEW f \in [S -> Nat], NEW e
  PROVE  [f EXCEPT ![e] = @ + 1] \in [S -> Nat]
<1>1. CASE e \in S
  <2>1. f[e] + 1 \in Nat
    BY <1>1
  <2> QED BY Zenon, <2>1
<1>2. CASE e \notin S
  BY Zenon, <1>2
<1> QED BY Zenon, <1>1, <1>2

LEMMA StartupTyped ==
  ASSUME NEW f \in [Ceremonies -> CeremonyRow], NEW e \in Nat
  PROVE  InvalidateUnfinished(e, f) \in [Ceremonies -> CeremonyRow]
BY Zenon DEF InvalidateUnfinished, CeremonyRow, CeremonyStatus

LEMMA FenceTyped ==
  ASSUME NEW b \in Snapshot, NEW e \in Nat
  PROVE  /\ FenceCeremonies(b.ceremonies, e) \in [Ceremonies -> CeremonyRow]
         /\ FenceAuthorizations(b.authorizations, e) \in [Intents -> AuthorizationRow]
         /\ FenceIntents(b.intents, e) \in [Intents -> IntentRow]
         /\ b.epoch + 1 \in Nat \ {0}
<1>1. /\ b.ceremonies \in [Ceremonies -> CeremonyRow]
      /\ b.authorizations \in [Intents -> AuthorizationRow]
      /\ b.intents \in [Intents -> IntentRow]
      /\ b.epoch \in Nat
  BY Zenon DEF Snapshot
<1>2. FenceCeremonies(b.ceremonies, e) \in [Ceremonies -> CeremonyRow]
  BY Zenon, <1>1 DEF FenceCeremonies, CeremonyRow, CeremonyStatus
<1>3. FenceAuthorizations(b.authorizations, e) \in [Intents -> AuthorizationRow]
  BY Zenon, <1>1 DEF FenceAuthorizations, AuthorizationRow, AuthorizationStatus
<1>4. FenceIntents(b.intents, e) \in [Intents -> IntentRow]
  BY Zenon, <1>1 DEF FenceIntents, IntentRow, StoredStatus
<1> QED BY <1>1, <1>2, <1>3, <1>4

LEMMA TypeStep == TypeOK /\ [Next]_vars => TypeOK'
<1> SUFFICES ASSUME TypeOK, [Next]_vars PROVE TypeOK'
  BY Zenon
<1> USE AuthorityAssumption
<1>0. /\ intents \in [Intents -> IntentRow] /\ ceremonies \in [Ceremonies -> CeremonyRow]
      /\ authorizations \in [Intents -> AuthorizationRow] /\ jobs \in [Intents -> JobStatus]
      /\ projection \in [Intents -> IntentStatus] /\ phases \in [Intents -> SigningPhase]
      /\ rounds \in [Sessions -> SUBSET (Messages \X Nonces)]
      /\ running \in [Intents -> {"no", "claimed", "contacted"}]
      /\ contacts \in [Intents -> [Epochs -> Nat]] /\ registrations \in [Registrations -> Nat]
      /\ shares \in [Nonces -> Nat] /\ consents \in [Intents -> Nat] /\ uses \in [Intents -> Nat]
      /\ backup \in Snapshot /\ epoch \in Nat \ {0} /\ now \in Nat
  BY Zenon DEF TypeOK
<1>1. ASSUME NEW i \in Intents, CreateIntent(i) \/ CreateCovhubIntent(i) PROVE TypeOK'
  <2>1. intents' \in [Intents -> IntentRow]
    <3>1. intents' = [intents EXCEPT ![i] = [st |-> "pending", epoch |-> epoch]]
      BY Zenon, <1>1 DEF CreateIntent, CreateCovhubIntent, InsertIntent,
         CreateTransactionIntentV2
    <3>2. [st |-> "pending", epoch |-> epoch] \in IntentRow
      BY Zenon, <1>0 DEF IntentRow, StoredStatus
    <3> QED BY Zenon, <3>1, <3>2, <1>0
  <2>2. projection' \in [Intents -> IntentStatus]
    BY Zenon, <1>1, <1>0 DEF CreateIntent, CreateCovhubIntent,
       InsertIntent, CreateTransactionIntentV2, IntentStatus, StoredStatus
  <2>3. phases' \in [Intents -> SigningPhase]
    BY Zenon, <1>1, <1>0 DEF CreateIntent, CreateCovhubIntent,
       InsertIntent, CreateTransactionIntentV2, SigningPhase
  <2> QED
    BY Zenon, <1>1, <2>1, <2>2, <2>3 DEF TypeOK, CreateIntent,
       CreateCovhubIntent, InsertIntent, CreateTransactionIntentV2
<1>2. ASSUME NEW i \in Intents, CancelIntent(i) PROVE TypeOK'
  <2>1. intents' \in [Intents -> IntentRow]
    <3>1. CASE intents' = intents
      BY Zenon, <3>1, <1>0
    <3>2. CASE \E st \in {"expired", "cancelled"} : intents' = [intents EXCEPT ![i].st = st]
      <4>1. PICK st \in {"expired", "cancelled"} : intents' = [intents EXCEPT ![i].st = st]
        BY Zenon, <3>2
      <4>2. st \in StoredStatus
        BY Zenon, <4>1 DEF StoredStatus
      <4> QED BY Zenon, <4>1, <4>2, <1>0, IntentUpdated
    <3> QED BY Zenon, <1>2, <3>1, <3>2 DEF CancelIntent, TransitionTransactionIntent
  <2>2. projection' \in [Intents -> IntentStatus]
    <3>1. CASE projection' = projection
      BY Zenon, <3>1, <1>0
    <3>2. CASE \E st \in {"expired", "cancelled"} : projection' = [projection EXCEPT ![i] = st]
      BY Zenon, <3>2, <1>0 DEF IntentStatus, StoredStatus
    <3> QED BY Zenon, <1>2, <3>1, <3>2 DEF CancelIntent
  <2>3. phases' \in [Intents -> SigningPhase]
    BY Zenon, <1>2, <1>0 DEF CancelIntent, TransitionTransactionIntent, SigningPhase
  <2> QED
    BY Zenon, <1>2, <2>1, <2>2, <2>3 DEF TypeOK, CancelIntent, TransitionTransactionIntent,
       history
<1>3. ASSUME NEW i \in Intents, NEW c \in Ceremonies, ApprovalStart(c, i) PROVE TypeOK'
  <2>1. ceremonies' \in [Ceremonies -> CeremonyRow]
    BY <1>3, <1>0, CeremonyUpdated DEF ApprovalStart, RelyingPartyStart,
       BeginPasskeyApproval, ApprovalExpiry, CeremonyRow, CeremonyStatus
  <2> QED
    BY Zenon, <1>3, <2>1 DEF TypeOK, ApprovalStart, RelyingPartyStart, BeginPasskeyApproval,
       ApprovalExpiry, history
<1>4. ASSUME NEW i \in Intents, NEW n \in Nonces, SignerRound1(i, n) PROVE TypeOK'
  <2>1. rounds' \in [Sessions -> SUBSET (Messages \X Nonces)]
    BY <1>4, <1>0 DEF SignerRound1, ParticipantRound1
  <2>2. phases' \in [Intents -> SigningPhase]
    BY Zenon, <1>4, <1>0 DEF SignerRound1, ParticipantRound1, SigningPhase
  <2> QED
    BY Zenon, <1>4, <2>1, <2>2 DEF TypeOK, SignerRound1, ParticipantRound1, durable
<1>5. ASSUME NEW i \in Intents, NEW matching \in BOOLEAN, SignerRound2(i, matching) PROVE TypeOK'
  <2>1. authorizations' \in [Intents -> AuthorizationRow]
    <3>1. authorizations' = [authorizations EXCEPT ![i].st = "consumed"]
      BY Zenon, <1>5 DEF SignerRound2, Spend
    <3> QED BY Zenon, <3>1, <1>0, AuthorizationUpdated DEF AuthorizationStatus
  <2>2. intents' \in [Intents -> IntentRow]
    <3>1. intents' = [intents EXCEPT ![i].st = "signing"]
      BY Zenon, <1>5 DEF SignerRound2, Spend
    <3> QED BY Zenon, <3>1, <1>0, IntentUpdated DEF StoredStatus
  <2>3. uses' \in [Intents -> Nat]
    BY <1>5, <1>0 DEF SignerRound2, Spend, ParticipantRound2, PhaseAfterRound2
  <2>4. rounds' \in [Sessions -> SUBSET (Messages \X Nonces)]
    BY <1>5, <1>0 DEF SignerRound2, Spend, ParticipantRound2, PhaseAfterRound2
  <2>5. shares' \in [Nonces -> Nat]
    BY <1>5, <1>0 DEF SignerRound2, Spend, ParticipantRound2, PhaseAfterRound2
  <2>6. phases' \in [Intents -> SigningPhase]
    BY <1>5, <1>0 DEF SignerRound2, Spend, ParticipantRound2, PhaseAfterRound2,
       SigningPhase
  <2> QED
    BY <1>5, <2>1, <2>2, <2>3, <2>4, <2>5, <2>6 DEF TypeOK, SignerRound2, Spend,
       ParticipantRound2, PhaseAfterRound2
<1>6. ASSUME NEW i \in Intents, CreateChainSigningJob(i) PROVE TypeOK'
  <2>1. authorizations' \in [Intents -> AuthorizationRow]
    BY Zenon, <1>6, <1>0, AuthorizationUpdated DEF CreateChainSigningJob, CreateSigningJob,
       Spend, AuthorizationStatus
  <2>2. intents' \in [Intents -> IntentRow]
    BY Zenon, <1>6, <1>0, IntentUpdated DEF CreateChainSigningJob, CreateSigningJob, Spend,
       StoredStatus
  <2>3. uses' \in [Intents -> Nat]
    BY <1>6, <1>0 DEF CreateChainSigningJob, CreateSigningJob, Spend
  <2>4. jobs' \in [Intents -> JobStatus]
    BY Zenon, <1>6, <1>0 DEF CreateChainSigningJob, CreateSigningJob, Spend, JobStatus
  <2>5. projection' \in [Intents -> IntentStatus]
    BY Zenon, <1>6, <1>0 DEF CreateChainSigningJob, CreateSigningJob, Spend, IntentStatus,
       StoredStatus
  <2>6. phases' \in [Intents -> SigningPhase]
    BY Zenon, <1>6, <1>0 DEF CreateChainSigningJob, CreateSigningJob, Spend, SigningPhase
  <2> QED
    BY <1>6, <2>1, <2>2, <2>3, <2>4, <2>5, <2>6 DEF TypeOK, CreateChainSigningJob,
       CreateSigningJob, Spend
<1>7. ASSUME NEW i \in Intents, ClaimExecution(i) PROVE TypeOK'
  <2>1. running' \in [Intents -> {"no", "claimed", "contacted"}]
    BY Zenon, <1>7, <1>0 DEF ClaimExecution, ClaimChainExecutor
  <2> QED
    BY Zenon, <1>7, <2>1 DEF TypeOK, ClaimExecution, ClaimChainExecutor, history
<1>8. ASSUME NEW i \in Intents, ExpireExecution(i) PROVE TypeOK'
  <2>1. intents' \in [Intents -> IntentRow]
    BY Zenon, <1>8, <1>0, IntentUpdated DEF ExpireExecution, TerminateChainSigningJob,
       TerminateSigningJob, StoredStatus
  <2>2. jobs' \in [Intents -> JobStatus]
    BY Zenon, <1>8, <1>0 DEF ExpireExecution, TerminateChainSigningJob, TerminateSigningJob,
       JobStatus
  <2>3. projection' \in [Intents -> IntentStatus]
    BY Zenon, <1>8, <1>0 DEF ExpireExecution, TerminateChainSigningJob, TerminateSigningJob,
       IntentStatus, StoredStatus
  <2> QED
    BY Zenon, <1>8, <2>1, <2>2, <2>3 DEF TypeOK, ExpireExecution, TerminateChainSigningJob,
       TerminateSigningJob, history
<1>9. ASSUME NEW i \in Intents, Execute(i) PROVE TypeOK'
  <2>1. running' \in [Intents -> {"no", "claimed", "contacted"}]
    BY Zenon, <1>9, <1>0 DEF Execute
  <2>2. contacts' \in [Intents -> [Epochs -> Nat]]
    <3>1. contacts' = [contacts EXCEPT ![i][epoch] = @ + 1]
      BY Zenon, <1>9 DEF Execute
    <3>2. contacts[i] \in [Epochs -> Nat]
      BY Zenon, <1>0
    <3>3. [contacts[i] EXCEPT ![epoch] = @ + 1] \in [Epochs -> Nat]
      BY ONLY Zenon, <3>2, Bumped
    <3> QED BY ONLY Zenon, <3>1, <3>3, <1>0
  <2> QED
    BY Zenon, <1>9, <2>1, <2>2 DEF TypeOK, Execute, durable
<1>10. ASSUME NEW i \in Intents, CompleteJob(i) PROVE TypeOK'
  <2>1. intents' \in [Intents -> IntentRow]
    BY Zenon, <1>10, <1>0, IntentUpdated DEF CompleteJob, FinalizeChainSigningJob,
       CompleteSigningJob, StoredStatus
  <2>2. jobs' \in [Intents -> JobStatus]
    BY Zenon, <1>10, <1>0 DEF CompleteJob, FinalizeChainSigningJob, CompleteSigningJob,
       JobStatus
  <2>3. projection' \in [Intents -> IntentStatus]
    BY Zenon, <1>10, <1>0 DEF CompleteJob, FinalizeChainSigningJob, CompleteSigningJob,
       IntentStatus, StoredStatus
  <2>4. running' \in [Intents -> {"no", "claimed", "contacted"}]
    BY Zenon, <1>10, <1>0 DEF CompleteJob, FinalizeChainSigningJob, CompleteSigningJob
  <2> QED
    BY Zenon, <1>10, <2>1, <2>2, <2>3, <2>4 DEF TypeOK, CompleteJob, FinalizeChainSigningJob,
       CompleteSigningJob, history
<1>11. ASSUME NEW i \in Intents, FailJob(i) PROVE TypeOK'
  <2>1. intents' \in [Intents -> IntentRow]
    <3>1. intents' = [intents EXCEPT ![i].st = "invalidated"]
      BY Zenon, <1>11 DEF FailJob, TerminateChainSigningJob, TerminateSigningJob
    <3> QED BY Zenon, <3>1, <1>0, IntentUpdated DEF StoredStatus
  <2>2. jobs' \in [Intents -> JobStatus]
    BY Zenon, <1>11, <1>0 DEF FailJob, TerminateChainSigningJob, TerminateSigningJob, JobStatus
  <2>3. projection' \in [Intents -> IntentStatus]
    BY Zenon, <1>11, <1>0 DEF FailJob, TerminateChainSigningJob, TerminateSigningJob,
       IntentStatus, StoredStatus
  <2>4. running' \in [Intents -> {"no", "claimed", "contacted"}]
    BY Zenon, <1>11, <1>0 DEF FailJob, TerminateChainSigningJob, TerminateSigningJob
  <2> QED
    BY Zenon, <1>11, <2>1, <2>2, <2>3, <2>4 DEF TypeOK, FailJob, TerminateChainSigningJob,
       TerminateSigningJob, history
<1>12. ASSUME NEW i \in Intents, ResultNotStored(i) PROVE TypeOK'
  <2>1. running' \in [Intents -> {"no", "claimed", "contacted"}]
    BY Zenon, <1>12, <1>0 DEF ResultNotStored
  <2> QED
    BY Zenon, <1>12, <2>1 DEF TypeOK, ResultNotStored, durable, history
<1>13. ASSUME NEW c \in Ceremonies, ApprovalRejected(c) PROVE TypeOK'
  BY Zenon, <1>13 DEF TypeOK, ApprovalRejected, durable, history
<1>14. ASSUME NEW c \in Ceremonies, ApprovalNotStored(c) PROVE TypeOK'
  BY <1>14 DEF TypeOK, ApprovalNotStored, RelyingPartyFinish, AuthorizeVerified,
     CeremonyRow, durable, history
<1>15. ASSUME NEW c \in Ceremonies, ApprovalFinish(c) PROVE TypeOK'
  <2>1. ceremonies[c].intent \in Intents
    BY Zenon DEF TypeOK, CeremonyRow
  <2>2. ceremonies' \in [Ceremonies -> CeremonyRow]
    BY Zenon, <1>15, <1>0, <2>1, CeremonyUpdated DEF ApprovalFinish, RelyingPartyFinish,
       AuthorizeVerified, CompletePasskeyApprovalAtomic, CommitVerifiedPasskey,
       CeremonyStatus
  <2>3. intents' \in [Intents -> IntentRow]
    BY Zenon, <1>15, <1>0, <2>1, IntentUpdated DEF ApprovalFinish, RelyingPartyFinish,
       AuthorizeVerified, CompletePasskeyApprovalAtomic, CommitVerifiedPasskey,
       StoredStatus
  <2>4. authorizations' \in [Intents -> AuthorizationRow]
    BY Zenon, <1>15, <1>0, <2>1, AuthorizationUpdated DEF ApprovalFinish, RelyingPartyFinish,
       AuthorizeVerified, CompletePasskeyApprovalAtomic, CommitVerifiedPasskey,
       AuthorizationStatus
  <2>5. projection' \in [Intents -> IntentStatus]
    BY Zenon, <1>15, <1>0, <2>1 DEF ApprovalFinish, RelyingPartyFinish, AuthorizeVerified,
       CompletePasskeyApprovalAtomic, CommitVerifiedPasskey, IntentStatus, StoredStatus
  <2>6. phases' \in [Intents -> SigningPhase]
    BY Zenon, <1>15, <1>0, <2>1 DEF ApprovalFinish, RelyingPartyFinish, AuthorizeVerified,
       CompletePasskeyApprovalAtomic, CommitVerifiedPasskey, SigningPhase
  <2>7. consents' \in [Intents -> Nat]
    BY <1>15, <1>0, <2>1 DEF ApprovalFinish, RelyingPartyFinish, AuthorizeVerified,
       CompletePasskeyApprovalAtomic, CommitVerifiedPasskey
  <2> QED
    BY <1>15, <2>1, <2>2, <2>3, <2>4, <2>5, <2>6, <2>7 DEF TypeOK, ApprovalFinish,
       RelyingPartyFinish, AuthorizeVerified, CompletePasskeyApprovalAtomic,
       CommitVerifiedPasskey
<1>16. ASSUME NEW r \in Registrations, RegistrationStart(r) PROVE TypeOK'
  <2>1. registrations' \in [Registrations -> Nat]
    BY <1>16, <1>0 DEF RegistrationStart
  <2> QED
    BY Zenon, <1>16, <2>1 DEF TypeOK, RegistrationStart, durable, history
<1>17. ASSUME NEW r \in Registrations, RegistrationFinish(r) PROVE TypeOK'
  <2>1. registrations' \in [Registrations -> Nat]
    BY Zenon, <1>17, <1>0 DEF RegistrationFinish, InsertPasskeyRecord
  <2> QED
    BY <1>17, <2>1 DEF TypeOK, RegistrationFinish, InsertPasskeyRecord, history
<1>18. CASE Stop
  <2>1. projection' \in [Intents -> IntentStatus]
    BY Zenon, <1>18, <1>0 DEF Stop, IntentStatus, StoredStatus
  <2>2. phases' \in [Intents -> SigningPhase]
    BY Zenon, <1>18, <1>0 DEF Stop, SigningPhase
  <2> QED
    <3>1. /\ registrations' \in [Registrations -> Nat]
          /\ rounds' \in [Sessions -> SUBSET (Messages \X Nonces)]
          /\ running' \in [Intents -> {"no", "claimed", "contacted"}]
      BY Zenon, <1>18 DEF Stop
    <3>2. /\ up' = FALSE /\ crashes' \in Nat /\ passkey' = 0
          /\ usedNonces' = {} /\ approvals' = {} /\ held' = {} /\ records' = {}
          /\ recovered' = {} /\ guard' = {}
      BY <1>18 DEF Stop, TypeOK
    <3>3. UNCHANGED <<durable, backup, now, history>>
      BY Zenon, <1>18 DEF Stop
    <3> QED BY Zenon, <2>1, <2>2, <3>1, <3>2, <3>3 DEF TypeOK, durable, history
<1>19. CASE Start
  <2>1. ceremonies' \in [Ceremonies -> CeremonyRow]
    BY Zenon, <1>19, <1>0, StartupTyped DEF Start
  <2>2. projection' \in [Intents -> IntentStatus]
    BY Zenon, <1>19, <1>0 DEF Start, FromStorageStatus, IntentRow, IntentStatus, StoredStatus
  <2> QED
    BY Zenon, <1>19, <2>1, <2>2 DEF TypeOK, Start, InvalidateUnfinished, Listed,
       FromStorageStatus, Recoverable, history
<1>20. CASE ExportBackup
  <2>1. backup' \in Snapshot
    <3>1. nonceClaims \in SUBSET (Nonces \cup Intents) /\ executorClaims \in SUBSET Intents
          /\ credential \in Nat
      BY Zenon DEF TypeOK
    <3> QED BY ONLY Zenon, <1>20, <1>0, <3>1 DEF ExportBackup, Snapshot
  <2> QED
    BY Zenon, <1>20, <2>1 DEF TypeOK, ExportBackup, durable, process, history
<1>21. CASE CutoverRestore
  <2>1. backup.ceremonies \in [Ceremonies -> CeremonyRow]
    BY Zenon DEF TypeOK, Snapshot
  <2>2. ceremonies' \in [Ceremonies -> CeremonyRow]
    BY Zenon, <1>21, <1>0, <2>1, FenceTyped DEF CutoverRestore, NewEpoch
  <2>3. intents' \in [Intents -> IntentRow]
    BY Zenon, <1>21, <1>0, <2>1, FenceTyped DEF CutoverRestore, NewEpoch
  <2>4. authorizations' \in [Intents -> AuthorizationRow]
    BY Zenon, <1>21, <1>0, <2>1, FenceTyped DEF CutoverRestore, NewEpoch
  <2>5. jobs' \in [Intents -> JobStatus]
    BY Zenon, <1>21, <1>0, <2>1 DEF CutoverRestore, NewEpoch, FenceCeremonies,
       FenceAuthorizations, FenceIntents, JobStatus, Snapshot
  <2> QED
    <3>1. /\ epoch' \in Nat \ {0} /\ restoreState' = "recovering"
          /\ nonceClaims' \in SUBSET (Nonces \cup Intents) /\ executorClaims' \in SUBSET Intents
          /\ credential' \in Nat
      BY ONLY <1>21, <1>0 DEF CutoverRestore, NewEpoch, Snapshot
    <3>2. UNCHANGED <<backup, process, now, crashes, history>>
      BY Zenon, <1>21 DEF CutoverRestore
    <3> QED BY Zenon, <2>2, <2>3, <2>4, <2>5, <3>1, <3>2 DEF TypeOK, process, history
<1>22. CASE FinishRecovery
  BY Zenon, <1>22 DEF TypeOK, FinishRecovery, process, history
<1>23. CASE Tick
  BY <1>23 DEF TypeOK, Tick, durable, process, history
<1>24. CASE UNCHANGED vars
  BY Zenon, <1>24 DEF TypeOK, vars, durable, process, history
<1> QED
  BY Zenon, <1>1, <1>2, <1>3, <1>4, <1>5, <1>6, <1>7, <1>8, <1>9, <1>10, <1>11, <1>12, <1>13,
     <1>14, <1>15, <1>16, <1>17, <1>18, <1>19, <1>20, <1>21, <1>22, <1>23, <1>24
     DEF Next, IntentStep, CeremonyStep

(* The tables, maps and histories keep their shape in every behaviour of   *)
(* the wallet service and its database.                                    *)
THEOREM TypeCorrect == Spec => []TypeOK
BY InitTyped, TypeStep, PTL DEF Spec

-----------------------------------------------------------------------------
(* The inductive invariant.  Its parts are stated about the values of the  *)
(* variables, so that the steps which leave those alone need no unfolding. *)

Usable(e) == [st |-> "available", epoch |-> e]

(* An approval covers every use, and one more while the authorization is   *)
(* still usable; no row is of a later epoch than the database.             *)
Budget(a, e, u, k) ==
  \A i \in Intents : /\ u[i] <= k[i]
                     /\ a[i] = Usable(e) => u[i] + 1 <= k[i]
                     /\ a[i].epoch <= e

(* What a backup holds is no younger than the backup.                      *)
NotYounger(b) == \A i \in Intents : b.authorizations[i].epoch <= b.epoch

(* A contact needs a claim that no contact has used in this epoch.         *)
Claimed(t, x, r, e) ==
  \A i \in Intents :
    /\ i \notin x => t[i][e] = 0 /\ r[i] = "no"
    /\ r[i] = "claimed" => t[i][e] = 0
    /\ \A f \in Epochs : t[i][f] <= 1 /\ (f > e => t[i][f] = 0)

Remembered(h, rec, a, e) == h \subseteq rec /\ \A i \in rec : a[i] = Usable(e)

Tracks(rows, js, e) ==
  \A i \in Intents :
    /\ rows[i].st = "signed" <=> js[i] = "finalized"
    /\ js[i] = "signing" => \/ rows[i] = [st |-> "signing", epoch |-> e]
                            \/ rows[i].st = "invalidated" /\ rows[i].epoch < e
    /\ js[i] \in {"failed", "aborted", "expired"} => rows[i].st = "invalidated"
    /\ rows[i].epoch <= e

Idle(h, rec, r) == h = {} /\ rec = {} /\ r = [i \in Intents |-> "no"]

Inv ==
  /\ Budget(authorizations, epoch, uses, consents)
  /\ NotYounger(backup)
  /\ Claimed(contacts, executorClaims, running, epoch)
  /\ epoch \in Epochs
  /\ Remembered(held, records, authorizations, epoch)
  /\ Tracks(intents, jobs, epoch)
  /\ Tracks(backup.intents, backup.jobs, backup.epoch)
  /\ ~up => Idle(held, records, running)

LEMMA InitInv == Init => Inv
<1> SUFFICES ASSUME Init PROVE Inv
  BY Zenon
<1>1. /\ epoch = 1 /\ up = TRUE /\ held = {} /\ records = {} /\ executorClaims = {}
      /\ authorizations = [i \in Intents |-> NoAuthorization]
      /\ intents = [i \in Intents |-> NoIntent] /\ jobs = [i \in Intents |-> "none"]
      /\ running = [i \in Intents |-> "no"] /\ backup = NoBackup
      /\ uses = [i \in Intents |-> 0] /\ consents = [i \in Intents |-> 0]
      /\ contacts = [i \in Intents |-> [e \in Epochs |-> 0]]
  BY Zenon DEF Init
<1>2. epoch \in Epochs
  BY <1>1, AuthorityAssumption DEF Epochs
<1>3. Budget(authorizations, epoch, uses, consents)
  BY ONLY <1>1 DEF Budget, Usable, NoAuthorization
<1>4. NotYounger(backup)
  BY ONLY <1>1 DEF NotYounger, NoBackup, NoAuthorization
<1>5. Claimed(contacts, executorClaims, running, epoch)
  BY ONLY <1>1, <1>2 DEF Claimed
<1>6. Tracks(intents, jobs, epoch)
  BY ONLY <1>1 DEF Tracks, NoIntent
<1>7. Tracks(backup.intents, backup.jobs, backup.epoch)
  BY ONLY <1>1 DEF Tracks, NoIntent, NoBackup
<1> QED BY Zenon, <1>1, <1>2, <1>3, <1>4, <1>5, <1>6, <1>7 DEF Inv, Remembered

(* A use consumes the authorization that one approval made usable.         *)
LEMMA BudgetSpent ==
  ASSUME NEW a \in [Intents -> AuthorizationRow], NEW e \in Nat,
         NEW u \in [Intents -> Nat], NEW k \in [Intents -> Nat], NEW i \in Intents,
         Budget(a, e, u, k), a[i] = Usable(e)
  PROVE  Budget([a EXCEPT ![i].st = "consumed"], e, [u EXCEPT ![i] = @ + 1], k)
BY Zenon DEF Budget, Usable, AuthorizationRow

(* An approval makes one authorization usable.                             *)
LEMMA BudgetGranted ==
  ASSUME NEW a \in [Intents -> AuthorizationRow], NEW e \in Nat,
         NEW u \in [Intents -> Nat], NEW k \in [Intents -> Nat], NEW i \in Intents,
         Budget(a, e, u, k)
  PROVE  Budget([a EXCEPT ![i] = Usable(e)], e, u, [k EXCEPT ![i] = @ + 1])
BY DEF Budget, Usable, AuthorizationRow

(* After the fence of a restore no authorization is usable.                *)
LEMMA BudgetFenced ==
  ASSUME NEW b \in Snapshot, NotYounger(b), NEW a, NEW e,
         NEW u \in [Intents -> Nat], NEW k \in [Intents -> Nat], Budget(a, e, u, k)
  PROVE  Budget(FenceAuthorizations(b.authorizations, b.epoch + 1), b.epoch + 1, u, k)
<1>1. b.authorizations \in [Intents -> AuthorizationRow] /\ b.epoch \in Nat
  BY Zenon DEF Snapshot
<1>2. ASSUME NEW i \in Intents
      PROVE FenceAuthorizations(b.authorizations, b.epoch + 1)[i].epoch = b.authorizations[i].epoch
  BY Zenon, <1>1 DEF FenceAuthorizations, AuthorizationRow
<1>3. ASSUME NEW i \in Intents PROVE b.authorizations[i].epoch \in Nat /\ b.authorizations[i].epoch <= b.epoch
  BY Zenon, <1>1 DEF AuthorizationRow, NotYounger
<1>4. ASSUME NEW i \in Intents
      PROVE FenceAuthorizations(b.authorizations, b.epoch + 1)[i] # Usable(b.epoch + 1)
  BY <1>1, <1>2, <1>3 DEF Usable
<1> QED BY <1>1, <1>2, <1>3, <1>4 DEF Budget

LEMMA TracksMoved ==
  ASSUME NEW rows \in [Intents -> IntentRow], NEW js \in [Intents -> JobStatus],
         NEW e \in Nat, Tracks(rows, js, e), NEW i \in Intents,
         NEW st \in StoredStatus \ {"signed"}, rows[i].st \in {"none", "pending", "approved"}
  PROVE  /\ Tracks([rows EXCEPT ![i] = [st |-> st, epoch |-> e]], js, e)
         /\ rows[i].epoch = e => Tracks([rows EXCEPT ![i].st = st], js, e)
<1>1. js[i] = "none"
  BY DEF Tracks, JobStatus
<1> QED BY <1>1 DEF Tracks, IntentRow

LEMMA TracksJob ==
  ASSUME NEW rows \in [Intents -> IntentRow], NEW js \in [Intents -> JobStatus],
         NEW e \in Nat, Tracks(rows, js, e), NEW i \in Intents, rows[i].epoch = e
  PROVE  /\ rows[i].st = "approved" =>
              Tracks([rows EXCEPT ![i].st = "signing"], [js EXCEPT ![i] = "signing"], e)
         /\ rows[i].st = "signing" /\ js[i] = "signing" =>
              /\ Tracks([rows EXCEPT ![i].st = "signed"], [js EXCEPT ![i] = "finalized"], e)
              /\ \A st \in {"failed", "aborted", "expired"} :
                   Tracks([rows EXCEPT ![i].st = "invalidated"], [js EXCEPT ![i] = st], e)
<1>1. ASSUME rows[i].st = "approved"
      PROVE  Tracks([rows EXCEPT ![i].st = "signing"], [js EXCEPT ![i] = "signing"], e)
  BY Zenon, <1>1 DEF Tracks, IntentRow
<1>2. ASSUME rows[i].st = "signing", js[i] = "signing"
      PROVE  Tracks([rows EXCEPT ![i].st = "signed"], [js EXCEPT ![i] = "finalized"], e)
  BY Zenon, <1>2 DEF Tracks, IntentRow
<1>3. ASSUME rows[i].st = "signing", js[i] = "signing", NEW st \in {"failed", "aborted", "expired"}
      PROVE  Tracks([rows EXCEPT ![i].st = "invalidated"], [js EXCEPT ![i] = st], e)
  BY Zenon, <1>3 DEF Tracks, IntentRow
<1> QED BY Zenon, <1>1, <1>2, <1>3

LEMMA TracksFenced ==
  ASSUME NEW b \in Snapshot, Tracks(b.intents, b.jobs, b.epoch)
  PROVE  Tracks(FenceIntents(b.intents, b.epoch + 1), b.jobs, b.epoch + 1)
<1>1. b.intents \in [Intents -> IntentRow] /\ b.epoch \in Nat /\ b.jobs \in [Intents -> JobStatus]
  BY Zenon DEF Snapshot
<1> QED BY <1>1 DEF Tracks, FenceIntents, IntentRow

invVars == <<epoch, intents, authorizations, jobs, executorClaims, backup, up,
             held, records, running, consents, uses, contacts>>

(* What the intents, the authorizations and the memory of the service may  *)
(* lose without the invariant noticing.                                    *)
LEMMA LessRemembered ==
  ASSUME NEW h, NEW rec, NEW a, NEW e, Remembered(h, rec, a, e), NEW i
  PROVE  Remembered(h \ {i}, rec, a, e)
BY Zenon DEF Remembered

LEMMA SpentForgotten ==
  ASSUME NEW h \in SUBSET Intents, NEW rec \in SUBSET Intents,
         NEW a \in [Intents -> AuthorizationRow], NEW e \in Nat,
         Remembered(h, rec, a, e), NEW i \in Intents
  PROVE  Remembered(h \ {i}, rec \ {i}, [a EXCEPT ![i].st = "consumed"], e)
BY Zenon DEF Remembered

LEMMA ClaimTaken ==
  ASSUME NEW t, NEW x, NEW r \in [Intents -> {"no", "claimed", "contacted"}], NEW e,
         Claimed(t, x, r, e), NEW i \in Intents
  PROVE  /\ i \notin x => Claimed(t, x \cup {i}, [r EXCEPT ![i] = "claimed"], e)
         /\ Claimed(t, x, [r EXCEPT ![i] = "no"], e)
BY Zenon DEF Claimed

LEMMA ContactMade ==
  ASSUME NEW t \in [Intents -> [Epochs -> Nat]], NEW x,
         NEW r \in [Intents -> {"no", "claimed", "contacted"}], NEW e \in Epochs,
         Claimed(t, x, r, e), NEW i \in Intents, r[i] = "claimed"
  PROVE  Claimed([t EXCEPT ![i][e] = @ + 1], x, [r EXCEPT ![i] = "contacted"], e)
<1> DEFINE tt == [t EXCEPT ![i][e] = @ + 1]
           rr == [r EXCEPT ![i] = "contacted"]
<1>1. t[i][e] = 0 /\ i \in x
  BY Zenon DEF Claimed
<1>2. tt[i] = [t[i] EXCEPT ![e] = 1]
  BY <1>1
<1>3. \A j \in Intents : j # i => tt[j] = t[j] /\ rr[j] = r[j]
  BY Zenon
<1>4. rr[i] = "contacted"
  BY Zenon
<1>5. tt[i][e] = 1 /\ \A f \in Epochs : f # e => tt[i][f] = t[i][f]
  BY Zenon, <1>2
<1>6. e \in Nat
  BY AuthorityAssumption DEF Epochs
<1> HIDE DEF tt, rr
<1>7. Claimed(tt, x, rr, e)
  BY ONLY <1>1, <1>3, <1>4, <1>5, <1>6, Claimed(t, x, r, e) DEF Claimed
<1> QED BY Zenon, <1>7 DEF tt, rr

LEMMA EpochBegun ==
  ASSUME NEW t, NEW x, NEW r, NEW e \in Nat, Claimed(t, x, r, e),
         NEW g \in Epochs, g > e, NEW y
  PROVE  Claimed(t, y, [i \in Intents |-> "no"], g)
BY AuthorityAssumption DEF Claimed, Epochs

LEMMA InvStep == TypeOK /\ Inv /\ [Next]_vars => Inv'
<1> SUFFICES ASSUME TypeOK, Inv, [Next]_vars PROVE Inv'
  BY Zenon
<1>0. /\ intents \in [Intents -> IntentRow] /\ jobs \in [Intents -> JobStatus]
      /\ authorizations \in [Intents -> AuthorizationRow]
      /\ running \in [Intents -> {"no", "claimed", "contacted"}]
      /\ contacts \in [Intents -> [Epochs -> Nat]]
      /\ consents \in [Intents -> Nat] /\ uses \in [Intents -> Nat]
      /\ held \in SUBSET Intents /\ records \in SUBSET Intents
      /\ backup \in Snapshot /\ epoch \in Nat
  BY Zenon DEF TypeOK
<1>i. /\ Budget(authorizations, epoch, uses, consents)
      /\ NotYounger(backup)
      /\ Claimed(contacts, executorClaims, running, epoch)
      /\ epoch \in Epochs
      /\ Remembered(held, records, authorizations, epoch)
      /\ Tracks(intents, jobs, epoch)
      /\ Tracks(backup.intents, backup.jobs, backup.epoch)
      /\ ~up => Idle(held, records, running)
  BY Zenon DEF Inv
<1>1. ASSUME UNCHANGED invVars PROVE Inv'
  BY ONLY Zenon, <1>1, <1>i DEF Inv, invVars
<1>2. ASSUME NEW i \in Intents, CreateIntent(i) \/ CreateCovhubIntent(i)
      PROVE Inv'
  <2>1. /\ up /\ intents[i].st = "none"
        /\ intents' = [intents EXCEPT ![i] = [st |-> "pending", epoch |-> epoch]]
        /\ UNCHANGED <<epoch, authorizations, jobs, executorClaims, backup, up, held,
                       records, running, consents, uses, contacts>>
    BY Zenon, <1>2 DEF CreateIntent, CreateCovhubIntent, InsertIntent,
       CreateTransactionIntentV2
  <2>2. Tracks(intents', jobs, epoch)
    BY Zenon, <2>1, <1>0, <1>i, TracksMoved DEF StoredStatus
  <2> QED BY ONLY Zenon, <2>1, <2>2, <1>i DEF Inv
<1>3. ASSUME NEW i \in Intents, CancelIntent(i) PROVE Inv'
  <2>1. /\ up /\ held' = held \ {i}
        /\ UNCHANGED <<epoch, authorizations, jobs, executorClaims, backup, up,
                       records, running, consents, uses, contacts>>
    BY Zenon, <1>3 DEF CancelIntent, history
  <2>2. Tracks(intents', jobs, epoch)
    <3>1. CASE intents' = intents
      BY Zenon, <3>1, <1>i
    <3>2. CASE intents' # intents
      <4>1. PICK st \in {"expired", "cancelled"} : /\ HasStatus(i, "pending")
                                                   /\ intents' = [intents EXCEPT ![i].st = st]
        BY Zenon, <1>3, <3>2 DEF CancelIntent, TransitionTransactionIntent
      <4>2. /\ st \in StoredStatus \ {"signed"}
            /\ intents[i].st \in {"none", "pending", "approved"} /\ intents[i].epoch = epoch
        BY <4>1 DEF StoredStatus, HasStatus
      <4> QED BY Zenon, <4>1, <4>2, <1>0, <1>i, TracksMoved
    <3> QED BY Zenon, <3>1, <3>2
  <2>3. Remembered(held', records, authorizations, epoch)
    BY Zenon, <2>1, <1>i, LessRemembered
  <2> QED BY ONLY Zenon, <2>1, <2>2, <2>3, <1>i DEF Inv
<1>4. ASSUME NEW i \in Intents,
             \/ \E matching \in BOOLEAN : SignerRound2(i, matching)
             \/ CreateChainSigningJob(i)
      PROVE Inv'
  <2>1. /\ up /\ Available(i) /\ HasStatus(i, "approved")
        /\ authorizations' = [authorizations EXCEPT ![i].st = "consumed"]
        /\ intents' = [intents EXCEPT ![i].st = "signing"]
        /\ uses' = [uses EXCEPT ![i] = @ + 1]
        /\ held' = held \ {i} /\ records' = records \ {i}
        /\ UNCHANGED <<epoch, executorClaims, backup, up, running, consents, contacts>>
    BY Zenon, <1>4 DEF SignerRound2, CreateChainSigningJob, CreateSigningJob, Spend
  <2>2. Tracks(intents', jobs', epoch)
    <3>1. intents[i].st = "approved" /\ intents[i].epoch = epoch
      BY <2>1 DEF HasStatus
    <3>2. jobs' = jobs \/ jobs' = [jobs EXCEPT ![i] = "signing"]
      BY Zenon, <1>4 DEF SignerRound2, CreateChainSigningJob, CreateSigningJob
    <3>3. CASE jobs' = jobs
      <4>1. "signing" \in StoredStatus \ {"signed"}
        BY Zenon DEF StoredStatus
      <4> QED BY Zenon, <2>1, <3>1, <3>3, <4>1, <1>0, <1>i, TracksMoved
    <3>4. CASE jobs' = [jobs EXCEPT ![i] = "signing"]
      BY Zenon, <2>1, <3>1, <3>4, <1>0, <1>i, TracksJob
    <3> QED BY Zenon, <3>2, <3>3, <3>4
  <2>3. Remembered(held', records', authorizations', epoch)
    BY Zenon, <2>1, <1>0, <1>i, SpentForgotten
  <2>4. Budget(authorizations', epoch, uses', consents)
    <3>1. authorizations[i] = Usable(epoch)
      BY Zenon, <2>1 DEF Available, Usable
    <3> QED BY Zenon, <2>1, <3>1, <1>0, <1>i, BudgetSpent
  <2> QED BY ONLY Zenon, <2>1, <2>2, <2>3, <2>4, <1>i DEF Inv
<1>5. ASSUME NEW i \in Intents, ClaimExecution(i) PROVE Inv'
  <2>1. /\ up /\ i \notin executorClaims /\ executorClaims' = executorClaims \cup {i}
        /\ running' = [running EXCEPT ![i] = "claimed"]
        /\ UNCHANGED <<epoch, intents, authorizations, jobs, backup, up, held, records,
                       consents, uses, contacts>>
    BY Zenon, <1>5 DEF ClaimExecution, ClaimChainExecutor, history
  <2>2. Claimed(contacts, executorClaims', running', epoch)
    BY Zenon, <2>1, <1>0, <1>i, ClaimTaken
  <2> QED BY ONLY Zenon, <2>1, <2>2, <1>i DEF Inv
<1>6. ASSUME NEW i \in Intents, Execute(i) PROVE Inv'
  <2>1. /\ up /\ running[i] = "claimed"
        /\ running' = [running EXCEPT ![i] = "contacted"]
        /\ contacts' = [contacts EXCEPT ![i][epoch] = @ + 1]
        /\ UNCHANGED <<epoch, intents, authorizations, jobs, executorClaims, backup, up,
                       held, records, consents, uses>>
    BY Zenon, <1>6 DEF Execute, durable
  <2>2. Claimed(contacts', executorClaims, running', epoch)
    BY Zenon, <2>1, <1>0, <1>i, ContactMade
  <2> QED BY ONLY Zenon, <2>1, <2>2, <1>i DEF Inv
<1>7. ASSUME NEW i \in Intents,
             ExpireExecution(i) \/ CompleteJob(i) \/ FailJob(i) \/ ResultNotStored(i)
      PROVE Inv'
  <2>1. /\ up
        /\ running' = [running EXCEPT ![i] = "no"] \/ running' = running
        /\ UNCHANGED <<epoch, authorizations, executorClaims, backup, up, held, records,
                       consents, uses, contacts>>
    BY Zenon, <1>7 DEF ExpireExecution, CompleteJob, FailJob, ResultNotStored, durable, history
  <2>2. Tracks(intents', jobs', epoch)
    <3>1. CASE UNCHANGED <<intents, jobs>>
      BY Zenon, <3>1, <1>i
    <3>2. CASE CompleteSigningJob(i)
      <4>1. /\ intents[i].st = "signing" /\ intents[i].epoch = epoch /\ jobs[i] = "signing"
            /\ intents' = [intents EXCEPT ![i].st = "signed"]
            /\ jobs' = [jobs EXCEPT ![i] = "finalized"]
        BY <3>2 DEF CompleteSigningJob, IsSigning, HasStatus
      <4> QED BY Zenon, <4>1, <1>0, <1>i, TracksJob
    <3>3. ASSUME NEW st \in {"failed", "aborted", "expired"}, TerminateSigningJob(i, st)
          PROVE  Tracks(intents', jobs', epoch)
      <4>1. /\ intents[i].st = "signing" /\ intents[i].epoch = epoch /\ jobs[i] = "signing"
            /\ intents' = [intents EXCEPT ![i].st = "invalidated"]
            /\ jobs' = [jobs EXCEPT ![i] = st]
        BY <3>3 DEF TerminateSigningJob, IsSigning, HasStatus
      <4> QED BY Zenon, <4>1, <1>0, <1>i, TracksJob
    <3> QED
      BY Zenon, <1>7, <3>1, <3>2, <3>3 DEF ExpireExecution, CompleteJob, FailJob, ResultNotStored,
         FinalizeChainSigningJob, TerminateChainSigningJob, durable
  <2>3. Claimed(contacts, executorClaims, running', epoch)
    <3>1. Claimed(contacts, executorClaims, [running EXCEPT ![i] = "no"], epoch)
      BY ONLY Zenon, <1>0, <1>i, ClaimTaken, i \in Intents
    <3> QED BY ONLY Zenon, <2>1, <3>1, <1>i
  <2> QED BY ONLY Zenon, <2>1, <2>2, <2>3, <1>i DEF Inv
<1>8. ASSUME NEW c \in Ceremonies, ApprovalFinish(c) PROVE Inv'
  <2> DEFINE i == ceremonies[c].intent
  <2>1. i \in Intents
    BY Zenon DEF TypeOK, CeremonyRow
  <2>2. /\ up /\ HasStatus(i, "pending")
        /\ intents' = [intents EXCEPT ![i].st = "approved"]
        /\ authorizations' = [authorizations EXCEPT ![i] = [st |-> "available", epoch |-> epoch]]
        /\ consents' = [consents EXCEPT ![i] = @ + 1]
        /\ held' = held \cup {i} /\ records' = records \cup {i}
        /\ UNCHANGED <<epoch, jobs, executorClaims, backup, up, running, uses, contacts>>
    BY Zenon, <1>8 DEF ApprovalFinish, CompletePasskeyApprovalAtomic
  <2> HIDE DEF i
  <2>3. Tracks(intents', jobs, epoch)
    <3>1. "approved" \in StoredStatus \ {"signed"} /\ intents[i].st = "pending" /\ intents[i].epoch = epoch
      BY <2>2 DEF StoredStatus, HasStatus
    <3> QED BY Zenon, <2>1, <2>2, <3>1, <1>0, <1>i, TracksMoved
  <2>4. Budget(authorizations', epoch, uses, consents')
    BY Zenon, <2>1, <2>2, <1>0, <1>i, BudgetGranted DEF Usable
  <2>5. Remembered(held', records', authorizations', epoch)
    BY Zenon, <2>1, <2>2, <1>0, <1>i DEF Remembered, Usable
  <2> QED BY ONLY Zenon, <2>2, <2>3, <2>4, <2>5, <1>i DEF Inv
<1>9. CASE Stop
  <2>1. /\ held' = {} /\ records' = {} /\ running' = [i \in Intents |-> "no"]
        /\ UNCHANGED <<epoch, intents, authorizations, jobs, executorClaims, backup,
                       consents, uses, contacts>>
    BY Zenon, <1>9 DEF Stop, durable, history
  <2>2. Claimed(contacts, executorClaims, running', epoch)
    BY Zenon, <2>1, <1>i DEF Claimed
  <2>3. Remembered(held', records', authorizations, epoch) /\ Idle(held', records', running')
    BY Zenon, <2>1 DEF Remembered, Idle
  <2> QED BY ONLY Zenon, <2>1, <2>2, <2>3, <1>i DEF Inv
<1>10. CASE Start
  <2>1. /\ up' /\ held = {} /\ held' = {} /\ records' = Recoverable(epoch, authorizations)
        /\ UNCHANGED <<epoch, intents, authorizations, jobs, executorClaims, backup,
                       running, consents, uses, contacts>>
    BY Zenon, <1>10, <1>i DEF Start, Idle, history
  <2>2. Remembered(held', records', authorizations, epoch)
    BY Zenon, <2>1 DEF Remembered, Recoverable, Usable
  <2> QED BY ONLY Zenon, <2>1, <2>2, <1>i DEF Inv
<1>11. CASE ExportBackup
  <2>1. /\ backup'.authorizations = authorizations /\ backup'.intents = intents
        /\ backup'.jobs = jobs /\ backup'.epoch = epoch
        /\ UNCHANGED <<epoch, intents, authorizations, jobs, executorClaims, up,
                       held, records, running, consents, uses, contacts>>
    BY Zenon, <1>11 DEF ExportBackup, durable, process, history
  <2>2. NotYounger(backup')
    BY Zenon, <2>1, <1>i DEF NotYounger, Budget
  <2> QED BY ONLY Zenon, <2>1, <2>2, <1>i DEF Inv
<1>12. CASE CutoverRestore
  <2>1. /\ ~up /\ epoch' = backup.epoch + 1
        /\ backup.epoch >= epoch /\ backup.epoch < MaxEpoch
        /\ authorizations' = FenceAuthorizations(backup.authorizations, backup.epoch + 1)
        /\ intents' = FenceIntents(backup.intents, backup.epoch + 1)
        /\ jobs' = backup.jobs /\ executorClaims' = backup.executorClaims
        /\ UNCHANGED <<backup, up, held, records, running, consents, uses, contacts>>
    BY Zenon, <1>12 DEF CutoverRestore, NewEpoch, process, history
  <2>2. backup.epoch \in Nat
    BY Zenon, <1>0 DEF Snapshot
  <2>3. epoch' \in Epochs /\ epoch' > epoch
    BY <2>1, <2>2, <1>0, AuthorityAssumption DEF Epochs
  <2>4. Budget(authorizations', epoch', uses, consents)
    BY Zenon, <2>1, <1>0, <1>i, BudgetFenced
  <2>5. Tracks(intents', jobs', epoch')
    BY Zenon, <2>1, <1>0, <1>i, TracksFenced
  <2>6. held = {} /\ records = {} /\ running = [i \in Intents |-> "no"]
    BY Zenon, <2>1, <1>i DEF Idle
  <2>7. Claimed(contacts, executorClaims', running, epoch')
    BY Zenon, <2>3, <2>6, <1>0, <1>i, EpochBegun
  <2>8. Remembered(held, records, authorizations', epoch')
    BY Zenon, <2>6 DEF Remembered
  <2> QED BY ONLY Zenon, <2>1, <2>3, <2>4, <2>5, <2>7, <2>8, <1>i DEF Inv
<1>13. ASSUME NEW i \in Intents,
              \/ \E c \in Ceremonies : ApprovalStart(c, i)
              \/ \E n \in Nonces : SignerRound1(i, n)
       PROVE Inv'
  <2> SUFFICES UNCHANGED invVars
    BY Zenon, <1>1
  <2> QED BY Zenon, <1>13 DEF ApprovalStart, SignerRound1, durable, history, invVars
<1>14. ASSUME NEW c \in Ceremonies, ApprovalRejected(c) \/ ApprovalNotStored(c) PROVE Inv'
  <2> SUFFICES UNCHANGED invVars
    BY Zenon, <1>1
  <2> QED BY Zenon, <1>14 DEF ApprovalRejected, ApprovalNotStored, durable, history, invVars
<1>15. ASSUME NEW r \in Registrations, RegistrationStart(r) \/ RegistrationFinish(r) PROVE Inv'
  <2> SUFFICES UNCHANGED invVars
    BY Zenon, <1>1
  <2> QED BY Zenon, <1>15 DEF RegistrationStart, RegistrationFinish, durable, history, invVars
<1>16. CASE FinishRecovery \/ Tick \/ UNCHANGED vars
  <2> SUFFICES UNCHANGED invVars
    BY Zenon, <1>1
  <2> QED BY Zenon, <1>16 DEF FinishRecovery, Tick, vars, durable, process, history, invVars
<1> QED
  BY Zenon, <1>2, <1>3, <1>4, <1>5, <1>6, <1>7, <1>8, <1>9, <1>10, <1>11, <1>12, <1>13, <1>14,
     <1>15, <1>16 DEF Next, IntentStep, CeremonyStep

(* The parts of the invariant hold in every reachable state.               *)
LEMMA Invariance == Spec => [](TypeOK /\ Inv)
<1>1. Init => TypeOK /\ Inv
  BY Zenon, InitTyped, InitInv
<1>2. TypeOK /\ Inv /\ [Next]_vars => (TypeOK /\ Inv)'
  BY Zenon, TypeStep, InvStep
<1> QED BY <1>1, <1>2, PTL DEF Spec

(* Every spent authorization has a Passkey approval of its own.            *)
THEOREM Consented == Spec => []UseNeedsConsent
<1>1. TypeOK /\ Inv => UseNeedsConsent
  BY Zenon DEF Inv, Budget, UseNeedsConsent
<1> QED BY <1>1, Invariance, PTL

(* A job reaches the signers at most once in an epoch.                     *)
THEOREM SingleContact == Spec => []ContactedOnce
<1>1. TypeOK /\ Inv => ContactedOnce
  BY Zenon DEF Inv, Claimed, ContactedOnce
<1> QED BY <1>1, Invariance, PTL

(* The service holds only authorizations that the database has unspent.    *)
THEOREM OnlyAvailableHeld == Spec => []HeldIsAvailable
<1>1. TypeOK /\ Inv => HeldIsAvailable
  BY Zenon DEF Inv, Remembered, HeldIsAvailable, Usable, Available
<1> QED BY <1>1, Invariance, PTL

(* A job and its intent move together, also over a restore.                *)
THEOREM JobsTracked == Spec => []JobTracksIntent
<1>1. TypeOK /\ Inv => JobTracksIntent
  BY Zenon DEF Inv, Tracks, JobTracksIntent, HasStatus
<1> QED BY <1>1, Invariance, PTL

(* No step but a completed approval makes an authorization usable.         *)
THEOREM NothingRevived == Spec => NeverRevived
<1> DEFINE Granted(i) == consents'[i] = consents[i] + 1
<1>1. TypeOK /\ Inv /\ [Next]_vars =>
        [\A i \in Intents : Available(i)' /\ ~Available(i) => Granted(i)]_vars
  <2> SUFFICES ASSUME TypeOK, Inv, Next, NEW i \in Intents, Available(i)', ~Available(i)
               PROVE  Granted(i)
    BY Zenon
  <2>0. /\ authorizations \in [Intents -> AuthorizationRow] /\ backup \in Snapshot
        /\ consents \in [Intents -> Nat]
    BY Zenon DEF TypeOK
  <2>1. ~UNCHANGED <<authorizations, epoch>>
    BY Zenon DEF Available
  <2>2. ASSUME NEW j \in Intents, authorizations' = [authorizations EXCEPT ![j].st = "consumed"],
               epoch' = epoch
        PROVE FALSE
    <3>1. authorizations'[i] = authorizations[i] \/ authorizations'[i].st = "consumed"
      BY Zenon, <2>0, <2>2 DEF AuthorizationRow
    <3> QED BY <3>1, <2>2 DEF Available
  <2>3. ASSUME NEW c \in Ceremonies, ApprovalFinish(c) PROVE Granted(i)
    <3>1. /\ authorizations' = [authorizations EXCEPT ![ceremonies[c].intent] =
                                  [st |-> "available", epoch |-> epoch]]
          /\ consents' = [consents EXCEPT ![ceremonies[c].intent] = @ + 1] /\ epoch' = epoch
      BY Zenon, <2>3 DEF ApprovalFinish, CompletePasskeyApprovalAtomic
    <3>2. ceremonies[c].intent = i
      BY Zenon, <3>1, <2>0 DEF Available
    <3> QED BY Zenon, <3>1, <3>2, <2>0
  <2>4. ASSUME CutoverRestore PROVE FALSE
    <3>1. /\ epoch' = backup.epoch + 1
          /\ authorizations' = FenceAuthorizations(backup.authorizations, backup.epoch + 1)
      BY Zenon, <2>4 DEF CutoverRestore, NewEpoch
    <3>2. Budget(authorizations', epoch', uses', consents') /\ NotYounger(backup)
      BY Zenon, InvStep DEF Inv
    <3>3. /\ backup.authorizations \in [Intents -> AuthorizationRow] /\ backup.epoch \in Nat
      BY Zenon, <2>0 DEF Snapshot
    <3>4. authorizations'[i].epoch = backup.authorizations[i].epoch
      BY Zenon, <3>1, <3>3 DEF FenceAuthorizations, AuthorizationRow
    <3>5. backup.authorizations[i].epoch \in Nat /\ backup.authorizations[i].epoch <= backup.epoch
      BY Zenon, <3>2, <3>3 DEF NotYounger, AuthorizationRow
    <3> QED BY <3>1, <3>3, <3>4, <3>5 DEF Available
  <2>5. ASSUME NEW j \in Intents, IntentStep(j) PROVE FALSE
    <3>1. epoch' = epoch /\ \/ authorizations' = authorizations
                            \/ authorizations' = [authorizations EXCEPT ![j].st = "consumed"]
      <4>1. CASE CreateIntent(j) \/ CreateCovhubIntent(j) \/ CancelIntent(j)
        BY Zenon, <4>1 DEF CreateIntent, CreateCovhubIntent, InsertIntent, CancelIntent
      <4>2. CASE (\E c \in Ceremonies : ApprovalStart(c, j)) \/ (\E n \in Nonces : SignerRound1(j, n))
        BY Zenon, <4>2 DEF ApprovalStart, SignerRound1, durable
      <4>3. CASE (\E matching \in BOOLEAN : SignerRound2(j, matching)) \/ CreateChainSigningJob(j)
        BY Zenon, <4>3 DEF SignerRound2, CreateChainSigningJob, CreateSigningJob, Spend
      <4>4. CASE ClaimExecution(j) \/ ExpireExecution(j) \/ Execute(j) \/ CompleteJob(j)
                   \/ FailJob(j) \/ ResultNotStored(j)
        BY Zenon, <4>4 DEF ClaimExecution, ExpireExecution, Execute, CompleteJob, FailJob,
           ResultNotStored, durable
      <4> QED BY Zenon, <2>5, <4>1, <4>2, <4>3, <4>4 DEF IntentStep
    <3> QED BY Zenon, <3>1, <2>1, <2>2
  <2>6. ASSUME \/ \E c \in Ceremonies : ApprovalRejected(c) \/ ApprovalNotStored(c)
               \/ \E r \in Registrations : RegistrationStart(r) \/ RegistrationFinish(r)
               \/ Stop \/ Start \/ ExportBackup \/ FinishRecovery \/ Tick
        PROVE FALSE
    BY Zenon, <2>6, <2>1 DEF ApprovalRejected, ApprovalNotStored, RegistrationStart, RegistrationFinish,
       Stop, Start, ExportBackup, FinishRecovery, Tick, durable
  <2> QED BY Zenon, <2>3, <2>4, <2>5, <2>6 DEF Next, CeremonyStep
<1> QED BY <1>1, Invariance, PTL DEF Spec, NeverRevived

-----------------------------------------------------------------------------
(* The nonces of FROST round one.                                          *)

(* A pending round holds a drawn nonce that made no share and that no      *)
(* other session holds; a nonce makes one share, claimed in its epoch.     *)
Rounds(r, d, sh) ==
  /\ \A s \in Sessions : \A a \in r[s] : a[2] \in d /\ sh[a[2]] = 0
  /\ \A s, t \in Sessions : \A a \in r[s], b \in r[t] : a[2] = b[2] => s = t
  /\ \A s \in Sessions : \A a, b \in r[s] : a = b

Shared(sh, d) == \A n \in Nonces : sh[n] \in {0, 1} /\ (sh[n] # 0 => n \in d)

ClaimedShares(sh, claims, e) == \A n \in Nonces : sh[n] # 0 /\ e = 1 => n \in claims

NonceInv ==
  Rounds(rounds, drawn, shares) /\ Shared(shares, drawn) /\ ClaimedShares(shares, nonceClaims, epoch)

nonceVars == <<rounds, drawn, shares, nonceClaims, epoch>>

LEMMA InitNonce == Init => NonceInv
BY Zenon DEF Init, NonceInv, Rounds, Shared, ClaimedShares

LEMMA NonceDrawn ==
  ASSUME NEW r \in [Sessions -> SUBSET (Messages \X Nonces)], NEW d, NEW sh,
         Rounds(r, d, sh), Shared(sh, d), NEW s \in Sessions, NEW m \in Messages,
         NEW n \in Nonces, n \notin d
  PROVE  /\ Rounds([r EXCEPT ![s] = {<<m, n>>}], d \cup {n}, sh)
         /\ Shared(sh, d \cup {n})
<1> DEFINE rr == [r EXCEPT ![s] = {<<m, n>>}]
<1>1. rr[s] = {<<m, n>>} /\ \A t \in Sessions : t # s => rr[t] = r[t]
  BY Zenon
<1>2. \A a \in rr[s] : a = <<m, n>> /\ a[2] = n
  BY <1>1
<1>3. \A t \in Sessions : \A a \in r[t] : a[2] # n /\ a[2] \in d /\ sh[a[2]] = 0
  BY DEF Rounds
<1>4. sh[n] = 0
  BY Zenon DEF Shared
<1> HIDE DEF rr
<1>5. \A t \in Sessions : \A a \in rr[t] : a[2] \in d \cup {n} /\ sh[a[2]] = 0
  BY Zenon, <1>1, <1>2, <1>3, <1>4
<1>6. \A t, u \in Sessions : \A a \in rr[t], b \in rr[u] : a[2] = b[2] => t = u
  BY <1>1, <1>2, <1>3 DEF Rounds
<1>7. \A t \in Sessions : \A a, b \in rr[t] : a = b
  BY <1>1, <1>2 DEF Rounds
<1>8. Shared(sh, d \cup {n})
  BY Zenon DEF Shared
<1> QED BY Zenon, <1>5, <1>6, <1>7, <1>8 DEF Rounds, rr

LEMMA RoundForgotten ==
  ASSUME NEW r \in [Sessions -> SUBSET (Messages \X Nonces)], NEW d, NEW sh,
         Rounds(r, d, sh), NEW s \in Sessions
  PROVE  Rounds([r EXCEPT ![s] = {}], d, sh)
BY DEF Rounds

LEMMA NonceSigned ==
  ASSUME NEW r \in [Sessions -> SUBSET (Messages \X Nonces)], NEW d, NEW sh \in [Nonces -> Nat],
         Rounds(r, d, sh), Shared(sh, d), NEW s \in Sessions, NEW a \in r[s],
         NEW claims, NEW e, ClaimedShares(sh, claims, e)
  PROVE  /\ Rounds([r EXCEPT ![s] = {}], d, [sh EXCEPT ![a[2]] = @ + 1])
         /\ Shared([sh EXCEPT ![a[2]] = @ + 1], d)
         /\ ClaimedShares([sh EXCEPT ![a[2]] = @ + 1], claims \cup {a[2]}, e)
<1> DEFINE n == a[2]
           rr == [r EXCEPT ![s] = {}]
           hh == [sh EXCEPT ![n] = @ + 1]
<1>1. n \in Nonces /\ n \in d /\ sh[n] = 0
  BY DEF Rounds
<1>2. rr[s] = {} /\ \A t \in Sessions : t # s => rr[t] = r[t]
  BY Zenon
<1>3. hh[n] = 1 /\ \A k \in Nonces : k # n => hh[k] = sh[k]
  BY <1>1
<1>4. \A t \in Sessions : t # s => \A b \in r[t] : b[2] # n /\ b[2] \in Nonces
  BY DEF Rounds
<1> HIDE DEF rr, hh, n
<1>5. \A t \in Sessions : \A b \in rr[t] : b[2] \in d /\ hh[b[2]] = 0
  BY <1>2, <1>3, <1>4 DEF Rounds
<1>6. /\ \A t, u \in Sessions : \A x \in rr[t], y \in rr[u] : x[2] = y[2] => t = u
      /\ \A t \in Sessions : \A x, y \in rr[t] : x = y
  BY <1>2 DEF Rounds
<1>7. Shared(hh, d) /\ ClaimedShares(hh, claims \cup {n}, e)
  BY Zenon, <1>1, <1>3 DEF Shared, ClaimedShares
<1> QED BY Zenon, <1>5, <1>6, <1>7 DEF Rounds, rr, hh, n

LEMMA NonceStep == TypeOK /\ NonceInv /\ [Next]_vars => NonceInv'
<1> SUFFICES ASSUME TypeOK, NonceInv, [Next]_vars PROVE NonceInv'
  OBVIOUS
<1> USE AuthorityAssumption
<1>0. /\ rounds \in [Sessions -> SUBSET (Messages \X Nonces)] /\ shares \in [Nonces -> Nat]
      /\ backup \in Snapshot /\ epoch \in Nat \ {0}
      /\ Rounds(rounds, drawn, shares) /\ Shared(shares, drawn)
      /\ ClaimedShares(shares, nonceClaims, epoch)
  BY Zenon DEF TypeOK, NonceInv
<1>1. ASSUME UNCHANGED nonceVars PROVE NonceInv'
  BY ONLY Zenon, <1>0, <1>1 DEF NonceInv, nonceVars
<1>2. ASSUME NEW i \in Intents, NEW n \in Nonces, SignerRound1(i, n) PROVE NonceInv'
  <2>1. /\ n \notin drawn /\ drawn' = drawn \cup {n}
        /\ rounds' = [rounds EXCEPT ![Session[i]] = {<<Message[i], n>>}]
        /\ UNCHANGED <<shares, nonceClaims, epoch>>
    BY Zenon, <1>2 DEF SignerRound1, ParticipantRound1, durable
  <2>2. Session[i] \in Sessions /\ Message[i] \in Messages
    BY Zenon
  <2> QED BY Zenon, <1>0, <2>1, <2>2, NonceDrawn DEF NonceInv
<1>3. ASSUME NEW i \in Intents, NEW matching \in BOOLEAN, SignerRound2(i, matching) PROVE NonceInv'
  <2>1. PICK round \in rounds[Session[i]] :
          LET signs == matching /\ SignShare(i, round)
          IN  /\ Spend(i, round[2])
              /\ ParticipantRound2(i, round, signs, matching)
    BY Zenon, <1>3 DEF SignerRound2
  <2>2. /\ nonceClaims' = nonceClaims \cup {round[2]}
        /\ UNCHANGED <<drawn, epoch>>
    BY Zenon, <1>3, <2>1 DEF SignerRound2, Spend
  <2>3. Session[i] \in Sessions
    BY Zenon
  <2>4. ClaimedShares(shares, nonceClaims', epoch)
    BY Zenon, <1>0, <2>2 DEF ClaimedShares
  <2>5. CASE matching /\ SignShare(i, round)
    <3>1. /\ rounds' = [rounds EXCEPT ![Session[i]] = {}]
          /\ shares' = [shares EXCEPT ![round[2]] = @ + 1]
      BY Zenon, <2>1, <2>5 DEF ParticipantRound2
    <3>3. /\ Rounds([rounds EXCEPT ![Session[i]] = {}], drawn, [shares EXCEPT ![round[2]] = @ + 1])
          /\ Shared([shares EXCEPT ![round[2]] = @ + 1], drawn)
          /\ ClaimedShares([shares EXCEPT ![round[2]] = @ + 1], nonceClaims \cup {round[2]}, epoch)
      BY ONLY Zenon, <1>0, <2>3, round \in rounds[Session[i]], NonceSigned
    <3>4. drawn' = drawn /\ epoch' = epoch
      BY Zenon, <2>2
    <3>5. Rounds(rounds', drawn', shares') /\ Shared(shares', drawn')
      BY ONLY Zenon, <3>1, <3>3, <3>4
    <3>6. ClaimedShares(shares', nonceClaims', epoch')
      BY ONLY Zenon, <2>2, <3>1, <3>3, <3>4
    <3> QED BY ONLY <3>5, <3>6 DEF NonceInv
  <2>6. CASE ~(matching /\ SignShare(i, round))
    <3>1. /\ rounds' = [rounds EXCEPT ![Session[i]] = {}] \/ rounds' = rounds
          /\ shares' = shares
      BY Zenon, <2>1, <2>6 DEF ParticipantRound2
    <3>2. Rounds([rounds EXCEPT ![Session[i]] = {}], drawn, shares)
      BY ONLY Zenon, <1>0, <2>3, RoundForgotten
    <3>3. drawn' = drawn /\ epoch' = epoch
      BY <2>2
    <3>4. Rounds(rounds', drawn', shares')
      BY ONLY Zenon, <1>0, <3>1, <3>2, <3>3
    <3>5. Shared(shares', drawn') /\ ClaimedShares(shares', nonceClaims', epoch')
      BY ONLY Zenon, <1>0, <2>4, <3>1, <3>3
    <3> QED BY ONLY <3>4, <3>5 DEF NonceInv
  <2> QED BY Zenon, <2>5, <2>6
<1>4. ASSUME NEW i \in Intents, CreateChainSigningJob(i) PROVE NonceInv'
  <2>1. /\ nonceClaims' = nonceClaims \cup {i} /\ UNCHANGED <<rounds, drawn, shares, epoch>>
    BY Zenon, <1>4 DEF CreateChainSigningJob, CreateSigningJob, Spend
  <2>2. ClaimedShares(shares, nonceClaims', epoch)
    BY Zenon, <1>0, <2>1 DEF ClaimedShares
  <2> QED BY Zenon, <1>0, <2>1, <2>2 DEF NonceInv
<1>5. CASE Stop
  <2>1. rounds' = [s \in Sessions |-> {}] /\ UNCHANGED <<drawn, shares, nonceClaims, epoch>>
    BY Zenon, <1>5 DEF Stop, durable, history
  <2>2. Rounds(rounds', drawn, shares)
    BY Zenon, <2>1 DEF Rounds
  <2> QED BY Zenon, <1>0, <2>1, <2>2 DEF NonceInv
<1>6. CASE CutoverRestore
  <2>1. /\ epoch' = backup.epoch + 1 /\ backup.epoch >= epoch
        /\ UNCHANGED <<rounds, drawn, shares>>
    BY Zenon, <1>6 DEF CutoverRestore, NewEpoch, process, history
  <2>2. backup.epoch \in Nat
    BY Zenon, <1>0 DEF Snapshot
  <2>3. epoch' # 1
    BY <1>0, <2>1, <2>2
  <2> QED BY Zenon, <1>0, <2>1, <2>3 DEF NonceInv, ClaimedShares
<1>7. ASSUME NEW i \in Intents,
             \/ CreateIntent(i) \/ CreateCovhubIntent(i) \/ CancelIntent(i)
             \/ \E c \in Ceremonies : ApprovalStart(c, i)
      PROVE NonceInv'
  BY Zenon, <1>1, <1>7 DEF CreateIntent, CreateCovhubIntent, InsertIntent, CancelIntent, ApprovalStart,
     history, nonceVars
<1>8. ASSUME NEW i \in Intents,
             \/ ClaimExecution(i) \/ ExpireExecution(i) \/ Execute(i)
             \/ CompleteJob(i) \/ FailJob(i) \/ ResultNotStored(i)
      PROVE NonceInv'
  BY Zenon, <1>1, <1>8 DEF ClaimExecution, ExpireExecution, Execute, CompleteJob, FailJob,
     ResultNotStored, durable, history, nonceVars
<1>9. ASSUME NEW c \in Ceremonies, ApprovalRejected(c) \/ ApprovalNotStored(c) \/ ApprovalFinish(c)
      PROVE NonceInv'
  BY Zenon, <1>1, <1>9 DEF ApprovalRejected, ApprovalNotStored, ApprovalFinish, durable, history, nonceVars
<1>10. ASSUME NEW r \in Registrations, RegistrationStart(r) \/ RegistrationFinish(r)
       PROVE NonceInv'
  BY Zenon, <1>1, <1>10 DEF RegistrationStart, RegistrationFinish, durable, history, nonceVars
<1>11. CASE Start \/ ExportBackup \/ FinishRecovery \/ Tick \/ UNCHANGED vars
  BY Zenon, <1>1, <1>11 DEF Start, ExportBackup, FinishRecovery, Tick, vars, durable, process, history,
     nonceVars
<1> QED
  BY Zenon, <1>2, <1>3, <1>4, <1>5, <1>6, <1>7, <1>8, <1>9, <1>10, <1>11
     DEF Next, IntentStep, CeremonyStep

(* No nonce of FROST round one makes two signature shares, and one that    *)
(* made a share was claimed in the database or was rolled back by a        *)
(* restore (node.rs signer_round2).                                        *)
THEOREM NonceSharesOnce == Spec => []NonceUsedOnce
<1>1. TypeOK /\ NonceInv => NonceUsedOnce
  BY DEF NonceInv, Shared, ClaimedShares, NonceUsedOnce
<1>2. TypeOK /\ NonceInv /\ [Next]_vars => NonceInv'
  BY Zenon, NonceStep
<1> QED BY <1>1, <1>2, InitNonce, TypeCorrect, PTL DEF Spec

-----------------------------------------------------------------------------
(* The in-memory projection of the intents.                                *)

Stored(rows, e, i) == IF rows[i].epoch = e THEN FromStorageStatus(rows[i].st) ELSE "none"

Agrees(prj, rows, e, kept) ==
  \A i \in Intents : \/ prj[i] = Stored(rows, e, i)
                     \/ /\ prj[i] = "approved" /\ Stored(rows, e, i) = "signing"
                        /\ i \notin kept

agreeVars == <<up, projection, intents, epoch, held, records>>

LEMMA AgreesMoved ==
  ASSUME NEW prj \in [Intents -> IntentStatus], NEW rows \in [Intents -> IntentRow],
         NEW e \in Nat, NEW kept, Agrees(prj, rows, e, kept), NEW i \in Intents,
         NEW st \in StoredStatus, NEW more, more \subseteq kept \cup {i}
  PROVE  /\ rows[i].epoch = e =>
              Agrees([prj EXCEPT ![i] = FromStorageStatus(st)], [rows EXCEPT ![i].st = st], e, more)
         /\ Agrees([prj EXCEPT ![i] = FromStorageStatus(st)],
                   [rows EXCEPT ![i] = [st |-> st, epoch |-> e]], e, more)
<1>1. ASSUME NEW rr \in [Intents -> IntentRow], rr[i].st = st, rr[i].epoch = e,
             \A j \in Intents : j # i => rr[j] = rows[j]
      PROVE  Agrees([prj EXCEPT ![i] = FromStorageStatus(st)], rr, e, more)
  BY Zenon, <1>1 DEF Agrees, Stored
<1>2. [rows EXCEPT ![i] = [st |-> st, epoch |-> e]] \in [Intents -> IntentRow]
  BY Zenon DEF IntentRow
<1>3. Agrees([prj EXCEPT ![i] = FromStorageStatus(st)],
             [rows EXCEPT ![i] = [st |-> st, epoch |-> e]], e, more)
  BY Zenon, <1>1, <1>2
<1>4. ASSUME rows[i].epoch = e
      PROVE  Agrees([prj EXCEPT ![i] = FromStorageStatus(st)], [rows EXCEPT ![i].st = st], e, more)
  <2> DEFINE rr == [rows EXCEPT ![i].st = st]
  <2>1. rr \in [Intents -> IntentRow]
    BY Zenon, IntentUpdated
  <2>2. rr[i].st = st /\ rr[i].epoch = e /\ \A j \in Intents : j # i => rr[j] = rows[j]
    BY Zenon, <1>4 DEF IntentRow
  <2> HIDE DEF rr
  <2>3. Agrees([prj EXCEPT ![i] = FromStorageStatus(st)], rr, e, more)
    BY Zenon, <1>1, <2>1, <2>2
  <2> QED BY Zenon, <2>3 DEF rr
<1> QED BY Zenon, <1>3, <1>4

LEMMA AgreesLess ==
  ASSUME NEW prj, NEW rows, NEW e, NEW kept, NEW less, less \subseteq kept, Agrees(prj, rows, e, kept)
  PROVE  Agrees(prj, rows, e, less)
BY Zenon DEF Agrees

(* Round two moves only the stored intent.                                 *)
LEMMA AgreesSpent ==
  ASSUME NEW prj, NEW rows \in [Intents -> IntentRow], NEW e, NEW kept,
         Agrees(prj, rows, e, kept), NEW i \in Intents,
         rows[i] = [st |-> "approved", epoch |-> e]
  PROVE  Agrees(prj, [rows EXCEPT ![i].st = "signing"], e, kept \ {i})
<1> DEFINE rr == [rows EXCEPT ![i].st = "signing"]
<1>1. rr[i].st = "signing" /\ rr[i].epoch = e /\ \A j \in Intents : j # i => rr[j] = rows[j]
  BY DEF IntentRow
<1>2. rows[i].st = "approved" /\ rows[i].epoch = e
  OBVIOUS
<1>3. prj[i] = "approved"
  BY Zenon, <1>2 DEF Agrees, Stored, FromStorageStatus
<1> HIDE DEF rr
<1>4. Agrees(prj, rr, e, kept \ {i})
  BY <1>1, <1>3 DEF Agrees, Stored, FromStorageStatus
<1> QED BY Zenon, <1>4 DEF rr

AgreeInv == up => Agrees(projection, intents, epoch, held \cup records)

LEMMA AgreeStep == TypeOK /\ AgreeInv /\ [Next]_vars => AgreeInv'
<1> SUFFICES ASSUME TypeOK, AgreeInv, [Next]_vars PROVE AgreeInv'
  OBVIOUS
<1>0. /\ projection \in [Intents -> IntentStatus] /\ intents \in [Intents -> IntentRow]
      /\ epoch \in Nat /\ up \in BOOLEAN
  BY Zenon DEF TypeOK
<1>1. ASSUME UNCHANGED agreeVars PROVE AgreeInv'
  BY ONLY Zenon, AgreeInv, <1>1 DEF AgreeInv, agreeVars
<1>m. ASSUME NEW i \in Intents, NEW st \in StoredStatus, up, intents[i].epoch = epoch,
             intents' = [intents EXCEPT ![i].st = st],
             projection' = [projection EXCEPT ![i] = FromStorageStatus(st)],
             held' \cup records' \subseteq held \cup records \cup {i}, epoch' = epoch
      PROVE  AgreeInv'
  BY Zenon, <1>0, <1>m, AgreesMoved DEF AgreeInv
<1>2. ASSUME NEW i \in Intents, CreateIntent(i) \/ CreateCovhubIntent(i) PROVE AgreeInv'
  <2>1. /\ up /\ intents' = [intents EXCEPT ![i] = [st |-> "pending", epoch |-> epoch]]
        /\ projection' = [projection EXCEPT ![i] = "pending"]
        /\ UNCHANGED <<epoch, up, held, records>>
    BY Zenon, <1>2 DEF CreateIntent, CreateCovhubIntent, InsertIntent, CreateTransactionIntentV2
  <2>2. "pending" \in StoredStatus /\ FromStorageStatus("pending") = "pending"
    BY Zenon DEF StoredStatus, FromStorageStatus
  <2>3. held' \cup records' \subseteq held \cup records \cup {i}
    BY Zenon, <2>1
  <2> QED BY Zenon, <1>0, <2>1, <2>2, <2>3, AgreesMoved DEF AgreeInv
<1>3. ASSUME NEW i \in Intents, CancelIntent(i) PROVE AgreeInv'
  <2>1. up /\ up' = up /\ held' = held \ {i} /\ UNCHANGED <<epoch, records>>
    BY Zenon, <1>3 DEF CancelIntent
  <2>2. CASE UNCHANGED <<intents, projection>>
    <3>1. held' \cup records' \subseteq held \cup records
      BY Zenon, <2>1
    <3> QED BY Zenon, <2>1, <2>2, <3>1, AgreesLess DEF AgreeInv
  <2>3. ASSUME NEW st \in {"expired", "cancelled"}, HasStatus(i, "pending"),
               intents' = [intents EXCEPT ![i].st = st],
               projection' = [projection EXCEPT ![i] = st]
        PROVE  AgreeInv'
    <3>1. st \in StoredStatus /\ FromStorageStatus(st) = st /\ intents[i].epoch = epoch
      BY <2>3 DEF StoredStatus, FromStorageStatus, HasStatus
    <3>2. held' \cup records' \subseteq held \cup records \cup {i}
      BY Zenon, <2>1
    <3> QED BY Zenon, <1>m, <2>1, <2>3, <3>1, <3>2
  <2> QED BY Zenon, <1>3, <2>2, <2>3 DEF CancelIntent, TransitionTransactionIntent
<1>4. ASSUME NEW i \in Intents, NEW matching \in BOOLEAN, SignerRound2(i, matching) PROVE AgreeInv'
  <2>1. /\ up /\ HasStatus(i, "approved") /\ intents' = [intents EXCEPT ![i].st = "signing"]
        /\ held' = held \ {i} /\ records' = records \ {i} /\ UNCHANGED <<up, projection, epoch>>
    BY Zenon, <1>4 DEF SignerRound2, Spend
  <2>2. held' \cup records' = (held \cup records) \ {i}
    BY Zenon, <2>1
  <2>3. /\ intents[i] = [st |-> "approved", epoch |-> epoch]
        /\ Agrees(projection, intents, epoch, held \cup records)
    BY Zenon, <2>1 DEF AgreeInv, HasStatus
  <2>4. Agrees(projection, [intents EXCEPT ![i].st = "signing"], epoch, (held \cup records) \ {i})
    BY Zenon, <1>0, <2>3, AgreesSpent
  <2> QED BY Zenon, <2>1, <2>2, <2>4 DEF AgreeInv
<1>5. ASSUME NEW i \in Intents, CreateChainSigningJob(i) PROVE AgreeInv'
  <2>1. /\ up /\ HasStatus(i, "approved") /\ intents' = [intents EXCEPT ![i].st = "signing"]
        /\ projection' = [projection EXCEPT ![i] = "signing"]
        /\ held' = held \ {i} /\ records' = records \ {i} /\ UNCHANGED <<up, epoch>>
    BY Zenon, <1>5 DEF CreateChainSigningJob, CreateSigningJob, Spend
  <2>2. "signing" \in StoredStatus /\ FromStorageStatus("signing") = "signing" /\ intents[i].epoch = epoch
    BY <2>1 DEF StoredStatus, FromStorageStatus, HasStatus
  <2>3. held' \cup records' \subseteq held \cup records \cup {i}
    BY Zenon, <2>1
  <2> QED BY Zenon, <1>m, <2>1, <2>2, <2>3
<1>6. ASSUME NEW i \in Intents, ExpireExecution(i) \/ CompleteJob(i) \/ FailJob(i) PROVE AgreeInv'
  <2>1. up /\ UNCHANGED <<up, epoch, held, records>>
    BY Zenon, <1>6 DEF ExpireExecution, CompleteJob, FailJob
  <2>2. PICK st \in {"signed", "invalidated"} :
          /\ intents[i].epoch = epoch /\ intents' = [intents EXCEPT ![i].st = st]
          /\ projection' = [projection EXCEPT ![i] = FromStorageStatus(st)]
    BY <1>6 DEF ExpireExecution, CompleteJob, FailJob, FinalizeChainSigningJob, CompleteSigningJob,
       TerminateChainSigningJob, TerminateSigningJob, IsSigning, HasStatus, FromStorageStatus
  <2>3. st \in StoredStatus /\ held' \cup records' \subseteq held \cup records \cup {i}
    BY Zenon, <2>1, <2>2 DEF StoredStatus
  <2> QED BY Zenon, <1>m, <2>1, <2>2, <2>3
<1>7. ASSUME NEW c \in Ceremonies, ApprovalFinish(c) PROVE AgreeInv'
  <2> DEFINE i == ceremonies[c].intent
  <2>1. i \in Intents
    BY Zenon DEF TypeOK, CeremonyRow
  <2>2. /\ up /\ HasStatus(i, "pending")
        /\ intents' = [intents EXCEPT ![i].st = "approved"]
        /\ projection' = [projection EXCEPT ![i] = "approved"]
        /\ held' = held \cup {i} /\ records' = records \cup {i} /\ UNCHANGED <<epoch, up>>
    BY Zenon, <1>7 DEF ApprovalFinish, CompletePasskeyApprovalAtomic
  <2>3. PICK k \in Intents : k = i
    BY Zenon, <2>1
  <2> HIDE DEF i
  <2>4. "approved" \in StoredStatus /\ FromStorageStatus("approved") = "approved" /\ intents[k].epoch = epoch
    BY <2>2, <2>3 DEF StoredStatus, FromStorageStatus, HasStatus
  <2>5. held' \cup records' \subseteq held \cup records \cup {k}
    BY Zenon, <2>2, <2>3
  <2> QED BY Zenon, <1>m, <2>2, <2>3, <2>4, <2>5
<1>8. CASE Start
  <2>1. /\ projection' = [i \in Intents |-> IF i \in Listed(epoch, intents)
                                            THEN FromStorageStatus(intents[i].st) ELSE "none"]
        /\ UNCHANGED <<epoch, intents>>
    BY Zenon, <1>8 DEF Start
  <2>2. Agrees(projection', intents, epoch, held' \cup records')
    BY Zenon, <1>0, <2>1 DEF Agrees, Stored, Listed, FromStorageStatus, IntentRow
  <2> QED BY Zenon, <2>1, <2>2 DEF AgreeInv
<1>9. CASE Stop \/ ExportBackup \/ CutoverRestore \/ FinishRecovery
  BY Zenon, <1>9 DEF Stop, ExportBackup, CutoverRestore, FinishRecovery, process, AgreeInv
<1>10. ASSUME NEW i \in Intents,
             \/ \E c \in Ceremonies : ApprovalStart(c, i)
             \/ \E n \in Nonces : SignerRound1(i, n)
             \/ ClaimExecution(i) \/ Execute(i) \/ ResultNotStored(i)
      PROVE AgreeInv'
  BY Zenon, <1>1, <1>10 DEF ApprovalStart, SignerRound1, ClaimExecution, Execute, ResultNotStored,
     durable, agreeVars
<1>11. ASSUME NEW c \in Ceremonies, ApprovalRejected(c) \/ ApprovalNotStored(c) PROVE AgreeInv'
  BY Zenon, <1>1, <1>11 DEF ApprovalRejected, ApprovalNotStored, durable, agreeVars
<1>12. ASSUME NEW r \in Registrations, RegistrationStart(r) \/ RegistrationFinish(r) PROVE AgreeInv'
  BY Zenon, <1>1, <1>12 DEF RegistrationStart, RegistrationFinish, durable, agreeVars
<1>13. CASE Tick \/ UNCHANGED vars
  BY Zenon, <1>1, <1>13 DEF Tick, vars, durable, process, agreeVars
<1> QED
  BY Zenon, <1>2, <1>3, <1>4, <1>5, <1>6, <1>7, <1>8, <1>9, <1>10, <1>11, <1>12, <1>13
     DEF Next, IntentStep, CeremonyStep

(* While the service runs its projection of an intent is the stored        *)
(* status, except after round two, when it has dropped the authorization   *)
(* (node.rs from_storage_status, signer_round2).                           *)
THEOREM ProjectionFollows == Spec => []ProjectionAgrees
<1>1. Init => AgreeInv
  BY DEF Init, AgreeInv, Agrees, Stored, NoIntent, FromStorageStatus
<1>2. AgreeInv => ProjectionAgrees
  BY Zenon DEF AgreeInv, Agrees, Stored, ProjectionAgrees
<1>3. TypeOK /\ AgreeInv /\ [Next]_vars => AgreeInv'
  BY AgreeStep
<1> QED BY <1>1, <1>2, <1>3, TypeCorrect, PTL DEF Spec

=============================================================================
