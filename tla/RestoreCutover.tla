--------------------------- MODULE RestoreCutover ---------------------------
(***************************************************************************)
(* Encrypted backup, restore and crash recovery of the wallet database     *)
(* (crates/wallet-storage: backup.rs and the restore state machine of      *)
(* sqlite.rs).                                                             *)
(*                                                                         *)
(* The durable state is a directory: the live database, the database       *)
(* staged by a restore, the original set aside by a restore, the cutover   *)
(* journal, and the backup bundles.  One process at a time holds the owner *)
(* lock; its program counter pc names the step it takes next.  Every step  *)
(* that changes a file is an action, and the process may stop between any  *)
(* two of them, in recovery itself too.                                    *)
(*                                                                         *)
(* A database is abstracted to its recovery epoch, its restore state and   *)
(* its one-time authorizations.  Directory syncs precede every following   *)
(* step in the code, so a rename is taken to be durable when it is made.   *)
(***************************************************************************)
EXTENDS Integers, FiniteSets

CONSTANTS
  Auths,         \* identifiers of one-time authorizations (random UUIDs)
  ForeignEpochs, \* epochs of bundles exported by another installation
  MaxEpoch,      \* bound: no restore beyond this epoch
  MaxBundles,    \* bound: exports kept
  MaxCrashes     \* bound: interruptions of a running step

ASSUME BoundsAssumption ==
  /\ MaxEpoch \in Nat \ {0}
  /\ MaxBundles \in Nat
  /\ MaxCrashes \in Nat
  /\ ForeignEpochs \subseteq Nat \ {0}

VARIABLES
  live, prepared, rollback, \* database files
  journal,                  \* cutover journal file
  bundles,                  \* sealed backup bundles
  pc,                       \* next step of the process, or "down"
  captured,                 \* snapshot bytes held in memory by export or restore
  crashes,                  \* interruptions so far
  issued, uses, served      \* history: authorizations issued, times each was
                            \* consumed, highest epoch ever opened

files == <<live, prepared, rollback, journal, bundles>>
history == <<issued, uses, served>>
vars == <<live, prepared, rollback, journal, bundles, pc, captured, crashes,
          issued, uses, served>>

RestoreStates == {"normal", "snapshotting", "restore_precheck", "cutover", "recovering"}
AuthStates == {"none", "available", "consumed", "invalidated"}

Database == [epoch : Nat, state : RestoreStates,
             auths : [Auths -> [st : AuthStates, epoch : Nat]]]

Absent == [file |-> "absent"]
Partial == [file |-> "partial"]  \* created but not completely written
NoAuth == [st |-> "none", epoch |-> 0]

Phases == {"preparing", "ready", "original_moved", "installed",
           "recovered_rolled_back", "recovered_continued", "recovered_cleaned"}
Journal == [phase : Phases, recovery_epoch : Nat]

-----------------------------------------------------------------------------
(* Transactions on one database. *)

MutationsAllowed(db) == db.state \in {"normal", "snapshotting"}

TransitionRestore(db, to) == [db EXCEPT !.state = to]

\* Startup also invalidates the unfinished ceremonies; they are not data here.
BeginRestorePrecheck(db) == [db EXCEPT !.state = "restore_precheck"]

\* Mutation: the authorizations are left as they are.
MutCutoverAuths(db) == [db EXCEPT !.epoch = @ + 1, !.state = "cutover"]

CutoverRestore(db) ==
  [epoch |-> db.epoch + 1,
   state |-> "cutover",
   auths |-> [a \in Auths |->
                IF db.auths[a].st = "available" /\ db.auths[a].epoch < db.epoch + 1
                THEN [db.auths[a] EXCEPT !.st = "invalidated"]
                ELSE db.auths[a]]]

\* finish_snapshot, begin_restore_precheck, cutover_restore, begin_recovering
\* on the staged copy, in that order.
Staged(db) ==
  TransitionRestore(
    CutoverRestore(BeginRestorePrecheck(TransitionRestore(db, "normal"))),
    "recovering")

\* Does the file pass the recovery's check as the installed / original database?
IsInstalled(file, j) ==
  /\ file \in Database
  /\ file.epoch = j.recovery_epoch
  /\ file.state = "recovering"

IsOriginal(file, j) ==
  /\ file \in Database
  /\ file.epoch = j.recovery_epoch - 1
  /\ file.state \in {"normal", "restore_precheck"}

-----------------------------------------------------------------------------
Init ==
  /\ live = [epoch |-> 1, state |-> "normal", auths |-> [a \in Auths |-> NoAuth]]
  /\ prepared = Absent /\ rollback = Absent /\ journal = Absent
  /\ bundles = {[epoch |-> e, state |-> "snapshotting",
                 auths |-> [a \in Auths |-> NoAuth]] : e \in ForeignEpochs}
  /\ pc = "open" /\ captured = Absent /\ crashes = 0
  /\ issued = {} /\ uses = [a \in Auths |-> 0] /\ served = 1

-----------------------------------------------------------------------------
(* Opening the database: owner lock, recovery, connection, receipt. *)

\* A supervisor or an operator starts the wallet or a backup command.
StartOpen ==
  /\ pc \in {"down", "refused"}
  /\ pc' = "recover"
  /\ UNCHANGED <<files, captured, crashes, history>>

\* recover_interrupted_cutover without a journal removes orphans, but only
\* beside an existing database.
CleanupOrphans ==
  /\ pc = "recover" /\ journal = Absent
  /\ IF live = Absent
     THEN UNCHANGED <<prepared, rollback>>
     ELSE prepared' = Absent /\ rollback' = Absent
  /\ pc' = "connect"
  /\ UNCHANGED <<live, journal, bundles, captured, crashes, history>>

\* Mutation: the journal phase "installed" is believed without a look at the
\* live file.
MutRecoveryDecision ==
  IF journal.phase \in {"recovered_rolled_back", "recovered_cleaned", "recovered_continued"}
  THEN "connect"
  ELSE IF journal.phase = "installed" THEN "continue_prepared"
  ELSE IF rollback # Absent THEN "rollback_live"
  ELSE "clean_prepared"

\* With a journal, the recovery decides once and then acts; "refused" is
\* the error InvalidCutoverJournal or InvalidDatabase.
RecoveryDecision ==
  IF journal.phase \in {"recovered_rolled_back", "recovered_cleaned"}
  THEN IF IsOriginal(live, journal) THEN "connect" ELSE "refused"
  ELSE IF journal.phase = "recovered_continued"
  THEN IF IsInstalled(live, journal) THEN "connect" ELSE "refused"
  ELSE IF rollback # Absent
  THEN IF journal.phase = "installed" /\ IsInstalled(live, journal)
       THEN "continue_prepared"
       ELSE IF IsOriginal(rollback, journal) THEN "rollback_live" ELSE "refused"
  ELSE IF IsOriginal(live, journal)
  THEN IF journal.phase \in {"preparing", "ready"}
       THEN "clean_prepared" ELSE "rollback_prepared"
  ELSE IF journal.phase = "installed" /\ IsInstalled(live, journal)
  THEN "continue_prepared"
  ELSE "refused"

DecideRecovery ==
  /\ pc = "recover" /\ journal # Absent
  /\ pc' = RecoveryDecision
  /\ UNCHANGED <<files, captured, crashes, history>>

\* remove_restore_artifact(prepared), the first or third step of each plan.
RemovePrepared ==
  /\ \/ pc = "continue_prepared" /\ pc' = "continue_rollback"
     \/ pc = "rollback_prepared" /\ pc' = "rollback_receipt"
     \/ pc = "clean_prepared" /\ pc' = "clean_receipt"
  /\ prepared' = Absent
  /\ UNCHANGED <<live, rollback, journal, bundles, captured, crashes, history>>

RemoveRollback ==
  /\ pc = "continue_rollback" /\ pc' = "continue_receipt"
  /\ rollback' = Absent
  /\ UNCHANGED <<live, prepared, journal, bundles, captured, crashes, history>>

RemoveLive ==
  /\ pc = "rollback_live" /\ pc' = "rollback_rename"
  /\ live' = Absent
  /\ UNCHANGED <<prepared, rollback, journal, bundles, captured, crashes, history>>

RenameRollback ==
  /\ pc = "rollback_rename" /\ pc' = "rollback_prepared"
  /\ live' = rollback /\ rollback' = Absent
  /\ UNCHANGED <<prepared, journal, bundles, captured, crashes, history>>

PersistRecoveryReceipt ==
  /\ \/ pc = "continue_receipt" /\ journal' = [journal EXCEPT !.phase = "recovered_continued"]
     \/ pc = "rollback_receipt" /\ journal' = [journal EXCEPT !.phase = "recovered_rolled_back"]
     \/ pc = "clean_receipt" /\ journal' = [journal EXCEPT !.phase = "recovered_cleaned"]
  /\ pc' = "connect"
  /\ UNCHANGED <<live, prepared, rollback, bundles, captured, crashes, history>>

\* open_database_connection, then record_cutover_recovery: only a rolled back
\* recovery returns a database in restore_precheck to normal.
OpenDatabaseConnection ==
  /\ pc = "connect"
  /\ IF live = Absent
     THEN pc' = "refused" /\ UNCHANGED live
     ELSE /\ live' = IF journal # Absent /\ journal.phase = "recovered_rolled_back"
                       /\ live.state = "restore_precheck"
                    THEN TransitionRestore(live, "normal") ELSE live
          /\ pc' = "complete"
  /\ UNCHANGED <<prepared, rollback, journal, bundles, captured, crashes, history>>

Serve(db) == IF db.epoch > served THEN db.epoch ELSE served

CompleteInterruptedCutover ==
  /\ pc = "complete" /\ pc' = "open"
  /\ journal' = Absent
  /\ served' = Serve(live)
  /\ UNCHANGED <<live, prepared, rollback, bundles, captured, crashes, issued, uses>>

-----------------------------------------------------------------------------
(* Authority transactions of the open wallet. *)

IssueAuthorization(a) ==
  /\ pc = "open" /\ MutationsAllowed(live)
  /\ a \notin issued                        \* a fresh UUID
  /\ live' = [live EXCEPT !.auths[a] = [st |-> "available", epoch |-> live.epoch]]
  /\ issued' = issued \cup {a}
  /\ UNCHANGED <<prepared, rollback, journal, bundles, pc, captured, crashes, uses, served>>

ConsumeAuthorization(a) ==
  /\ pc = "open" /\ MutationsAllowed(live)
  /\ live.auths[a].st = "available" /\ live.auths[a].epoch = live.epoch
  /\ live' = [live EXCEPT !.auths[a].st = "consumed"]
  /\ uses' = [uses EXCEPT ![a] = @ + 1]
  /\ UNCHANGED <<prepared, rollback, journal, bundles, pc, captured, crashes, issued, served>>

FinishRecovery ==
  /\ pc = "open" /\ live.state = "recovering"
  /\ live' = TransitionRestore(live, "normal")
  /\ UNCHANGED <<prepared, rollback, journal, bundles, pc, captured, crashes, history>>

-----------------------------------------------------------------------------
(* export_encrypted_backup. *)

BeginSnapshot ==
  /\ pc = "open" /\ live.state = "normal"
  /\ Cardinality(bundles) < MaxBundles
  /\ live' = TransitionRestore(live, "snapshotting")
  /\ pc' = "export_snapshot"
  /\ UNCHANGED <<prepared, rollback, journal, bundles, captured, crashes, history>>

ConsistentSnapshotBytes ==
  /\ pc = "export_snapshot" /\ pc' = "export_finish"
  /\ captured' = live
  /\ UNCHANGED <<files, crashes, history>>

FinishSnapshot ==
  /\ pc = "export_finish" /\ pc' = "export_seal"
  /\ live' = TransitionRestore(live, "normal")
  /\ UNCHANGED <<prepared, rollback, journal, bundles, captured, crashes, history>>

\* The second transaction may fail: the export returns the error as it is.
FinishSnapshotFails ==
  /\ pc = "export_finish" /\ pc' = "open"
  /\ captured' = Absent
  /\ UNCHANGED <<files, crashes, history>>

\* Sealing either writes artifact and manifest or removes the bundle again.
SealBundle ==
  /\ pc = "export_seal" /\ pc' = "open"
  /\ bundles' \in {bundles, bundles \cup {captured}}
  /\ captured' = Absent
  /\ UNCHANGED <<live, prepared, rollback, journal, crashes, history>>

-----------------------------------------------------------------------------
(* restore_encrypted_backup. *)

\* Epoch check and creation of the journal; the database was just opened.
BeginRestore(b) ==
  /\ pc = "open"
  /\ b.epoch >= live.epoch
  /\ b.epoch < MaxEpoch
  /\ journal = Absent
  /\ captured' = b
  /\ journal' = [phase |-> "preparing", recovery_epoch |-> b.epoch + 1]
  /\ pc' = "restore_create"
  /\ UNCHANGED <<live, prepared, rollback, bundles, crashes, history>>

CreatePrepared ==
  /\ pc = "restore_create" /\ pc' = "restore_write"
  /\ prepared' = Partial
  /\ UNCHANGED <<live, rollback, journal, bundles, captured, crashes, history>>

WritePrepared ==
  /\ pc = "restore_write" /\ pc' = "restore_stage"
  /\ prepared' = captured /\ captured' = Absent
  /\ UNCHANGED <<live, rollback, journal, bundles, crashes, history>>

StagePrepared ==
  /\ pc = "restore_stage" /\ pc' = "restore_ready"
  /\ prepared' = Staged(prepared)
  /\ UNCHANGED <<live, rollback, journal, bundles, captured, crashes, history>>

AdvanceJournal ==
  /\ \/ pc = "restore_ready" /\ pc' = "restore_precheck"
        /\ journal' = [journal EXCEPT !.phase = "ready"]
     \/ pc = "restore_moved" /\ pc' = "restore_install"
        /\ journal' = [journal EXCEPT !.phase = "original_moved"]
     \/ pc = "restore_installed" /\ pc' = "restore_commit"
        /\ journal' = [journal EXCEPT !.phase = "installed"]
  /\ UNCHANGED <<live, prepared, rollback, bundles, captured, crashes, history>>

PrecheckLive ==
  /\ pc = "restore_precheck" /\ live.state = "normal"
  /\ live' = BeginRestorePrecheck(live)
  /\ pc' = "restore_move"
  /\ UNCHANGED <<prepared, rollback, journal, bundles, captured, crashes, history>>

MoveOriginal ==
  /\ pc = "restore_move" /\ pc' = "restore_moved"
  /\ rollback' = live /\ live' = Absent
  /\ UNCHANGED <<prepared, journal, bundles, captured, crashes, history>>

InstallPrepared ==
  /\ pc = "restore_install" /\ pc' = "restore_installed"
  /\ live' = prepared /\ prepared' = Absent
  /\ UNCHANGED <<rollback, journal, bundles, captured, crashes, history>>

CommitCutover ==
  /\ pc = "restore_commit" /\ pc' = "restore_finish"
  /\ rollback' = Absent
  /\ UNCHANGED <<live, prepared, journal, bundles, captured, crashes, history>>

FinishJournal ==
  /\ pc = "restore_finish" /\ pc' = "open"
  /\ journal' = Absent
  /\ served' = Serve(live)
  /\ UNCHANGED <<live, prepared, rollback, bundles, captured, crashes, issued, uses>>

-----------------------------------------------------------------------------
(* A step of the restore fails: the guards run in reverse order of creation *)
(* (CutoverGuard, PreparedDatabaseGuard, CutoverJournalGuard) and the       *)
(* command exits.                                                           *)

CutoverActive == {"restore_moved", "restore_install", "restore_installed", "restore_commit"}

\* Mutation: the refused precheck of the live database does not unwind.
MutRestoreFails ==
  /\ pc \in {"restore_create", "restore_write", "restore_stage", "restore_ready"}
  /\ pc' = "drop_prepared"
  /\ captured' = Absent
  /\ UNCHANGED <<files, crashes, history>>

RestoreFails ==
  /\ \/ /\ pc \in {"restore_create", "restore_write", "restore_stage", "restore_ready",
                   "restore_precheck", "restore_move"}
        /\ pc' = "drop_prepared"
     \/ /\ pc \in {"restore_move", "restore_moved", "restore_finish"}
        /\ pc' = "drop_prepared_only"  \* no active guard, journal preserved
     \/ /\ pc \in CutoverActive
        /\ pc' = "undo_live"
  /\ captured' = Absent
  /\ UNCHANGED <<files, crashes, history>>

UndoLive ==
  /\ pc = "undo_live" /\ pc' = "undo_rename"
  /\ live' = Absent
  /\ UNCHANGED <<prepared, rollback, journal, bundles, captured, crashes, history>>

UndoRename ==
  /\ pc = "undo_rename" /\ pc' = "undo_journal"
  /\ live' = rollback /\ rollback' = Absent
  /\ UNCHANGED <<prepared, journal, bundles, captured, crashes, history>>

DropPrepared ==
  /\ \/ pc = "drop_prepared" /\ pc' = "drop_journal"
     \/ pc = "drop_prepared_only" /\ pc' = "down"
  /\ prepared' = Absent
  /\ UNCHANGED <<live, rollback, journal, bundles, captured, crashes, history>>

DropJournal ==
  /\ \/ pc = "drop_journal" /\ pc' = "down"
     \/ pc = "undo_journal" /\ pc' = "drop_prepared_only"
  /\ journal' = Absent
  /\ UNCHANGED <<live, prepared, rollback, bundles, captured, crashes, history>>

-----------------------------------------------------------------------------
(* The process ends: between requests, or in the middle of a step sequence. *)

Stop ==
  /\ pc = "open" /\ pc' = "down"
  /\ UNCHANGED <<files, captured, crashes, history>>

Crash ==
  /\ pc \notin {"open", "down", "refused"}
  /\ crashes < MaxCrashes
  /\ crashes' = crashes + 1
  /\ pc' = "down" /\ captured' = Absent
  /\ UNCHANGED <<files, history>>

OpenStep ==
  \/ StartOpen \/ CleanupOrphans \/ DecideRecovery \/ RemovePrepared \/ RemoveRollback
  \/ RemoveLive \/ RenameRollback \/ PersistRecoveryReceipt \/ OpenDatabaseConnection
  \/ CompleteInterruptedCutover

ExportStep == ConsistentSnapshotBytes \/ FinishSnapshot \/ FinishSnapshotFails \/ SealBundle

RestoreStep ==
  \/ CreatePrepared \/ WritePrepared \/ StagePrepared \/ AdvanceJournal \/ PrecheckLive
  \/ MoveOriginal \/ InstallPrepared \/ CommitCutover \/ FinishJournal
  \/ RestoreFails \/ UndoLive \/ UndoRename \/ DropPrepared \/ DropJournal

Request ==
  \/ \E a \in Auths : IssueAuthorization(a) \/ ConsumeAuthorization(a)
  \/ FinishRecovery
  \/ BeginSnapshot
  \/ \E b \in bundles : BeginRestore(b)

Next == OpenStep \/ ExportStep \/ RestoreStep \/ Request \/ Stop \/ Crash

Spec == Init /\ [][Next]_vars

\* The process keeps running the command it started, and somebody starts the
\* wallet again after it ended; no request, failure or crash is forced.
FairSpec == Spec /\ WF_vars(OpenStep \/ ExportStep \/ RestoreStep)

-----------------------------------------------------------------------------
PcValues ==
  {"down", "refused", "recover", "connect", "complete", "open",
   "continue_prepared", "continue_rollback", "continue_receipt",
   "rollback_live", "rollback_rename", "rollback_prepared", "rollback_receipt",
   "clean_prepared", "clean_receipt",
   "export_snapshot", "export_finish", "export_seal",
   "restore_create", "restore_write", "restore_stage", "restore_ready",
   "restore_precheck", "restore_move", "restore_moved", "restore_install",
   "restore_installed", "restore_commit", "restore_finish",
   "undo_live", "undo_rename", "undo_journal",
   "drop_prepared", "drop_prepared_only", "drop_journal"}

TypeOK ==
  /\ live \in Database \cup {Absent}
  /\ prepared \in Database \cup {Absent, Partial}
  /\ rollback \in Database \cup {Absent}
  /\ journal \in Journal \cup {Absent}
  /\ bundles \subseteq Database
  /\ pc \in PcValues
  /\ captured \in Database \cup {Absent}
  /\ crashes \in Nat /\ issued \subseteq Auths /\ uses \in [Auths -> Nat] /\ served \in Nat

\* A one-time authorization is consumed at most once in the whole history of
\* the wallet: a consumption recorded only in the replaced database does not
\* come back as an available authorization with an older backup.
AuthorizationUsedOnce == \A a \in Auths : uses[a] <= 1

\* Wherever the process stops, the directory holds a complete database at
\* least as new as the newest one ever opened, as the live file or as the
\* original set aside by CutoverGuard.
WalletNeverLost ==
  \E db \in {live, rollback} : db \in Database /\ db.epoch >= served

\* An opened wallet has the highest epoch ever opened, and neither journal,
\* staged copy nor set-aside original is left beside it.
OpenIsSettled ==
  pc = "open" => /\ live \in Database /\ live.epoch = served
                 /\ journal = Absent /\ prepared = Absent /\ rollback = Absent

\* Whatever was interrupted, the wallet is opened again or recovery says why not.
EventuallyOpens == (pc # "open") ~> (pc \in {"open", "refused"})

-----------------------------------------------------------------------------
(* The database that a process starting now would open: the live file,     *)
(* unless an original is set aside and the installed copy is not yet       *)
(* accepted.  A running restore accepts it by removing the original, a     *)
(* recovery by the journal phase "installed".                              *)

CurrentDatabase ==
  IF rollback = Absent THEN live
  ELSE IF /\ journal # Absent /\ journal.phase = "installed" /\ IsInstalled(live, journal)
          /\ pc \notin CutoverActive \cup {"undo_live"}
  THEN live ELSE rollback

Contents(db) == [epoch |-> db.epoch, auths |-> db.auths]

Atomic == INSTANCE AtomicRestore WITH
  wallet <- Contents(CurrentDatabase),
  bundles <- {Contents(b) : b \in bundles}

\* Restore is atomic: through every interleaving of its file operations with
\* failures, crashes and recoveries, the wallet changes only as AtomicRestore
\* allows.
RestoreIsAtomic == Atomic!ASpec

-----------------------------------------------------------------------------
(* What the tests say of an interrupted restore.                            *)

\* A restore interrupted before installation reopens the original database.
ReopensAfterCrash == pc # "refused"
=============================================================================
