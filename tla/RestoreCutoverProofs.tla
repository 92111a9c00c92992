----------------------- MODULE RestoreCutoverProofs -------------------------
(***************************************************************************)
(* Proofs about RestoreCutover, for every set of authorizations, every     *)
(* bound and every foreign bundle.                                         *)
(***************************************************************************)
EXTENDS RestoreCutover, TLAPS

Recovered == {"recovered_rolled_back", "recovered_continued", "recovered_cleaned"}

\* No authorization of the database could still be used.
NoneAvailable(db) == \A a \in Auths : db.auths[a].st # "available"

\* An available authorization was issued and never used; none is from a
\* later epoch than the database itself.
Sound(db, known, used) ==
  /\ \A a \in Auths : db.auths[a].st = "available" => a \in known /\ used[a] = 0
  /\ \A a \in Auths : db.auths[a].epoch <= db.epoch

EpochsBounded(db) == \A a \in Auths : db.auths[a].epoch <= db.epoch

\* The database is the staged form of a bundle at least as new as the wallet.
FromBundle(db, known, epoch) == \E b \in known : b.epoch >= epoch /\ db = Staged(b)

\* The staged copy as it will be installed.
Ready(db) ==
  /\ db \in Database
  /\ FromBundle(db, bundles, served)
  /\ db.epoch = journal.recovery_epoch
  /\ db.state = "recovering"
  /\ NoneAvailable(db)
  /\ EpochsBounded(db)

UsesInv ==
  /\ \A a \in Auths : uses[a] <= 1
  /\ \A a \in Auths : uses[a] # 0 => a \in issued

SoundInv ==
  /\ live \in Database => Sound(live, issued, uses)
  /\ rollback \in Database => Sound(rollback, issued, uses)
  /\ captured \in Database => EpochsBounded(captured)
  /\ \A b \in bundles : EpochsBounded(b)

\* What the directory looks like wherever the process stops.
DiskInv ==
  /\ journal = Absent => live \in Database /\ rollback = Absent /\ live.epoch = served
  /\ journal # Absent => journal.recovery_epoch > served
  /\ journal # Absent /\ journal.phase \in Recovered =>
       rollback = Absent /\ prepared = Absent
  /\ rollback = Absent =>
       /\ live \in Database
       /\ \/ live.epoch = served
          \/ /\ journal # Absent /\ live.epoch = journal.recovery_epoch
             /\ journal.phase \in {"installed", "recovered_continued"}
  /\ rollback # Absent =>
       /\ rollback.epoch = served
       /\ journal # Absent /\ journal.phase \in {"ready", "original_moved", "installed"}
       /\ live # Absent => Ready(live)

\* Where each step of the restore, the undo and the recovery stands.
RestoreInv ==
  /\ pc \in {"open", "export_snapshot", "export_finish", "export_seal"} =>
       journal = Absent /\ prepared = Absent /\ rollback = Absent
  /\ pc \in {"export_finish", "export_seal", "restore_create", "restore_write"} =>
       captured \in Database
  /\ pc \in {"restore_create", "restore_write", "restore_stage", "restore_ready"} =>
       journal # Absent /\ journal.phase = "preparing" /\ rollback = Absent
  /\ pc \in {"restore_precheck", "restore_move", "restore_moved"} =>
       journal # Absent /\ journal.phase = "ready"
  /\ pc \in {"restore_install", "restore_installed"} =>
       journal # Absent /\ journal.phase = "original_moved"
  /\ pc \in {"restore_commit", "restore_finish"} =>
       journal # Absent /\ journal.phase = "installed"
  /\ pc \in {"export_finish", "export_seal"} =>
       captured.epoch = live.epoch /\ captured.auths = live.auths
  /\ pc \in {"restore_create", "restore_write"} =>
       /\ captured.epoch + 1 = journal.recovery_epoch
       /\ captured \in bundles /\ captured.epoch >= served
  /\ pc = "restore_stage" =>
       /\ prepared \in Database /\ prepared.epoch + 1 = journal.recovery_epoch
       /\ EpochsBounded(prepared)
       /\ prepared \in bundles /\ prepared.epoch >= served
  /\ pc \in {"restore_ready", "restore_precheck", "restore_move", "restore_moved",
             "restore_install"} => Ready(prepared)
  /\ pc \in {"restore_precheck", "restore_move", "restore_finish"} => rollback = Absent
  /\ pc \in {"restore_moved", "restore_install"} => live = Absent /\ rollback # Absent
  /\ pc \in {"restore_installed", "restore_commit"} =>
       Ready(live) /\ rollback # Absent /\ prepared = Absent
  /\ pc = "restore_finish" => prepared = Absent /\ live.epoch = journal.recovery_epoch

UndoInv ==
  /\ pc \in {"undo_live", "undo_rename"} => rollback # Absent
  /\ pc = "undo_rename" => live = Absent
  /\ pc = "undo_journal" =>
       /\ journal # Absent /\ journal.phase \notin Recovered
       /\ rollback = Absent /\ live.epoch = served
  /\ pc \in {"drop_prepared", "drop_journal"} =>
       /\ journal # Absent /\ journal.phase \in {"preparing", "ready"}
       /\ rollback = Absent
  /\ pc = "drop_journal" => prepared = Absent

RecoveryInv ==
  /\ pc \in {"connect", "complete"} =>
       /\ journal # Absent => journal.phase \in Recovered
       /\ prepared = Absent /\ rollback = Absent
  /\ pc \in {"continue_prepared", "continue_rollback", "continue_receipt"} =>
       /\ journal # Absent /\ journal.phase = "installed"
       /\ live # Absent /\ IsInstalled(live, journal)
  /\ pc \in {"rollback_live", "rollback_rename"} => rollback # Absent
  /\ pc = "rollback_live" => ~(journal.phase = "installed" /\ IsInstalled(live, journal))
  /\ pc = "rollback_rename" => live = Absent
  /\ pc \in {"rollback_prepared", "rollback_receipt", "clean_prepared", "clean_receipt"} =>
       /\ journal # Absent /\ journal.phase \notin Recovered
       /\ rollback = Absent /\ live.epoch = served
  /\ pc = "continue_receipt" => rollback = Absent
  /\ pc \in {"continue_rollback", "continue_receipt", "rollback_receipt", "clean_receipt"} =>
       prepared = Absent

IInv == TypeOK /\ UsesInv /\ SoundInv /\ DiskInv /\ RestoreInv /\ UndoInv /\ RecoveryInv
-----------------------------------------------------------------------------
\* The absent and the partly written file are not databases or journals.
LEMMA FilesDiffer ==
  Absent \notin Database /\ Partial \notin Database /\ Absent # Partial /\ Absent \notin Journal
BY Zenon DEF Absent, Partial, Database, Journal

LEMMA FieldTypes ==
  /\ \A db \in Database : db.epoch \in Nat /\ db.state \in RestoreStates
  /\ \A j \in Journal : j.recovery_epoch \in Nat /\ j.phase \in Phases
BY Zenon DEF Database, Journal

\* A restore-state transition changes the state and nothing else.
LEMMA TransitionKeeps ==
  ASSUME NEW db \in Database, NEW to \in RestoreStates
  PROVE  /\ TransitionRestore(db, to) \in Database
         /\ TransitionRestore(db, to).state = to
         /\ TransitionRestore(db, to).epoch = db.epoch
         /\ TransitionRestore(db, to).auths = db.auths
BY Zenon DEF TransitionRestore, Database

LEMMA PrecheckKeeps ==
  ASSUME NEW db \in Database
  PROVE  /\ BeginRestorePrecheck(db) \in Database
         /\ BeginRestorePrecheck(db).state = "restore_precheck"
         /\ BeginRestorePrecheck(db).epoch = db.epoch
         /\ BeginRestorePrecheck(db).auths = db.auths
BY Zenon DEF BeginRestorePrecheck, Database, RestoreStates

\* cutover_restore raises the epoch and leaves no authorization available.
LEMMA CutoverFences ==
  ASSUME NEW db \in Database, EpochsBounded(db)
  PROVE  /\ CutoverRestore(db) \in Database
         /\ CutoverRestore(db).epoch = db.epoch + 1
         /\ NoneAvailable(CutoverRestore(db))
         /\ EpochsBounded(CutoverRestore(db))
<1> DEFINE cut(a) == IF db.auths[a].st = "available" /\ db.auths[a].epoch < db.epoch + 1
                     THEN [db.auths[a] EXCEPT !.st = "invalidated"] ELSE db.auths[a]
<1>1. ASSUME NEW a \in Auths
      PROVE  /\ cut(a) \in [st : AuthStates, epoch : Nat]
             /\ cut(a).st # "available"
             /\ cut(a).epoch <= db.epoch
  BY <1>1 DEF Database, AuthStates, EpochsBounded
<1>2. CutoverRestore(db) = [epoch |-> db.epoch + 1, state |-> "cutover",
                            auths |-> [a \in Auths |-> cut(a)]]
  BY Zenon DEF CutoverRestore
<1> HIDE DEF cut
<1> QED
  BY <1>1, <1>2 DEF Database, RestoreStates, NoneAvailable, EpochsBounded

\* The staged copy: one epoch up, recovering, no authorization available.
LEMMA StagedReady ==
  ASSUME NEW db \in Database, EpochsBounded(db)
  PROVE  /\ Staged(db) \in Database
         /\ Staged(db).epoch = db.epoch + 1
         /\ Staged(db).state = "recovering"
         /\ NoneAvailable(Staged(db))
         /\ EpochsBounded(Staged(db))
<1> DEFINE normal == TransitionRestore(db, "normal")
<1> DEFINE checked == BeginRestorePrecheck(normal)
<1> DEFINE cut == CutoverRestore(checked)
<1>1. normal \in Database /\ normal.epoch = db.epoch /\ normal.auths = db.auths
  BY Zenon, TransitionKeeps DEF RestoreStates
<1> HIDE DEF normal
<1>2. checked \in Database /\ checked.epoch = db.epoch /\ checked.auths = db.auths
  BY Zenon, <1>1, PrecheckKeeps
<1> HIDE DEF checked
<1>3. /\ cut \in Database /\ cut.epoch = db.epoch + 1
      /\ NoneAvailable(cut) /\ EpochsBounded(cut)
  <2>1. EpochsBounded(checked)
    BY Zenon, <1>2 DEF EpochsBounded
  <2> QED
    BY Zenon, <1>2, <2>1, CutoverFences
<1> HIDE DEF cut
<1>4. Staged(db) = TransitionRestore(cut, "recovering")
  BY Zenon DEF Staged, cut, checked, normal
<1> QED
  BY <1>3, <1>4, TransitionKeeps DEF RestoreStates, NoneAvailable, EpochsBounded

\* The wallet of a new installation satisfies the invariant.
LEMMA InitInv == Init => IInv
BY FilesDiffer, BoundsAssumption
DEF Init, IInv, TypeOK, UsesInv, SoundInv, DiskInv, RestoreInv, UndoInv, RecoveryInv,
    Sound, EpochsBounded, NoAuth, Database, RestoreStates, AuthStates, PcValues

\* Every step of the process, every request and every crash preserves it.
LEMMA StepInv == IInv /\ [Next]_vars => IInv'
<1> SUFFICES ASSUME IInv, [Next]_vars PROVE IInv'
  BY Zenon
<1> USE FilesDiffer DEF IInv, TypeOK, UsesInv, SoundInv, DiskInv, RestoreInv, UndoInv,
        RecoveryInv, Ready, files, history, PcValues, Recovered, IsInstalled
<1>1. CASE StartOpen
  BY <1>1 DEF StartOpen
<1>2. CASE CleanupOrphans
  BY <1>2 DEF CleanupOrphans
<1>3. CASE DecideRecovery
  BY <1>3, FieldTypes DEF DecideRecovery, RecoveryDecision, IsOriginal, Phases
<1>4. CASE RemovePrepared
  BY <1>4 DEF RemovePrepared
<1>5. CASE RemoveRollback
  BY Zenon, <1>5 DEF RemoveRollback
<1>6. CASE RemoveLive
  BY <1>6 DEF RemoveLive
<1>7. CASE RenameRollback
  BY <1>7 DEF RenameRollback
<1>8. CASE PersistRecoveryReceipt
  <2>1. CASE pc = "continue_receipt"
    <3>1. /\ journal' \in Journal /\ journal'.phase = "recovered_continued"
          /\ journal'.recovery_epoch = journal.recovery_epoch
      BY <1>8, <2>1 DEF PersistRecoveryReceipt, Phases, Journal
    <3>2. pc' = "connect" /\ UNCHANGED <<live, prepared, rollback, bundles, captured, crashes, history>>
      BY Zenon, <1>8, <2>1 DEF PersistRecoveryReceipt
    <3> QED
      BY <2>1, <3>1, <3>2
  <2>2. CASE pc = "rollback_receipt"
    <3>1. /\ journal' \in Journal /\ journal'.phase = "recovered_rolled_back"
          /\ journal'.recovery_epoch = journal.recovery_epoch
      BY <1>8, <2>2 DEF PersistRecoveryReceipt, Phases, Journal
    <3>2. pc' = "connect" /\ UNCHANGED <<live, prepared, rollback, bundles, captured, crashes, history>>
      BY Zenon, <1>8, <2>2 DEF PersistRecoveryReceipt
    <3> QED
      BY <2>2, <3>1, <3>2
  <2>3. CASE pc = "clean_receipt"
    <3>1. /\ journal' \in Journal /\ journal'.phase = "recovered_cleaned"
          /\ journal'.recovery_epoch = journal.recovery_epoch
      BY <1>8, <2>3 DEF PersistRecoveryReceipt, Phases, Journal
    <3>2. pc' = "connect" /\ UNCHANGED <<live, prepared, rollback, bundles, captured, crashes, history>>
      BY Zenon, <1>8, <2>3 DEF PersistRecoveryReceipt
    <3> QED
      BY <2>3, <3>1, <3>2
  <2> QED
    BY Zenon, <1>8, <2>1, <2>2, <2>3 DEF PersistRecoveryReceipt
<1>9. CASE OpenDatabaseConnection
  <2>1. live \in Database
    BY Zenon, <1>9 DEF OpenDatabaseConnection
  <2>2. live' \in Database /\ live'.epoch = live.epoch /\ live'.auths = live.auths
    BY ONLY <1>9, <2>1, TransitionKeeps DEF OpenDatabaseConnection, RestoreStates
  <2>3. Sound(live, issued, uses)'
    BY ONLY SoundInv, <1>9, <2>1, <2>2 DEF SoundInv, Sound, OpenDatabaseConnection, history
  <2> QED
    BY <1>9, <2>1, <2>2, <2>3 DEF OpenDatabaseConnection
<1>10. CASE CompleteInterruptedCutover
  BY <1>10, FieldTypes DEF CompleteInterruptedCutover, Serve
<1>11. CASE ConsistentSnapshotBytes
  BY <1>11 DEF ConsistentSnapshotBytes, Sound, EpochsBounded
<1>12. CASE FinishSnapshot
  <2>1. live \in Database
    BY Zenon, <1>12 DEF FinishSnapshot
  <2>2. live' \in Database /\ live'.epoch = live.epoch /\ live'.auths = live.auths
    BY ONLY <1>12, <2>1, TransitionKeeps DEF FinishSnapshot, RestoreStates
  <2>3. Sound(live, issued, uses)'
    BY ONLY SoundInv, <1>12, <2>1, <2>2 DEF SoundInv, Sound, FinishSnapshot, history
  <2> QED
    BY Zenon, <1>12, <2>1, <2>2, <2>3 DEF FinishSnapshot
<1>13. CASE FinishSnapshotFails
  BY Zenon, <1>13 DEF FinishSnapshotFails
<1>14. CASE SealBundle
  BY <1>14 DEF SealBundle
<1>15. CASE CreatePrepared
  BY Zenon, <1>15 DEF CreatePrepared
<1>16. CASE WritePrepared
  BY Zenon, <1>16 DEF WritePrepared
<1>17. CASE StagePrepared
  <2>1. FromBundle(prepared', bundles, served)
    BY Zenon, <1>17 DEF StagePrepared, FromBundle
  <2> QED
    BY <1>17, <2>1, StagedReady DEF StagePrepared
<1>18. CASE AdvanceJournal
  <2>1. CASE pc = "restore_ready"
    <3>1. /\ journal' \in Journal /\ journal'.phase = "ready"
          /\ journal'.recovery_epoch = journal.recovery_epoch
      BY <1>18, <2>1 DEF AdvanceJournal, Phases, Journal
    <3>2. pc' = "restore_precheck" /\ UNCHANGED <<live, prepared, rollback, bundles, captured, crashes, history>>
      BY Zenon, <1>18, <2>1 DEF AdvanceJournal
    <3> QED
      BY <2>1, <3>1, <3>2
  <2>2. CASE pc = "restore_moved"
    <3>1. /\ journal' \in Journal /\ journal'.phase = "original_moved"
          /\ journal'.recovery_epoch = journal.recovery_epoch
      BY <1>18, <2>2 DEF AdvanceJournal, Phases, Journal
    <3>2. pc' = "restore_install" /\ UNCHANGED <<live, prepared, rollback, bundles, captured, crashes, history>>
      BY Zenon, <1>18, <2>2 DEF AdvanceJournal
    <3> QED
      BY <2>2, <3>1, <3>2
  <2>3. CASE pc = "restore_installed"
    <3>1. /\ journal' \in Journal /\ journal'.phase = "installed"
          /\ journal'.recovery_epoch = journal.recovery_epoch
      BY <1>18, <2>3 DEF AdvanceJournal, Phases, Journal
    <3>2. pc' = "restore_commit" /\ UNCHANGED <<live, prepared, rollback, bundles, captured, crashes, history>>
      BY Zenon, <1>18, <2>3 DEF AdvanceJournal
    <3> QED
      BY Zenon, <2>3, <3>1, <3>2
  <2> QED
    BY Zenon, <1>18, <2>1, <2>2, <2>3 DEF AdvanceJournal
<1>19. CASE PrecheckLive
  <2>1. live \in Database
    BY Zenon, <1>19 DEF PrecheckLive
  <2>2. live' \in Database /\ live'.epoch = live.epoch /\ live'.auths = live.auths
    BY ONLY Zenon, <1>19, <2>1, PrecheckKeeps DEF PrecheckLive, RestoreStates
  <2>3. Sound(live, issued, uses)'
    BY ONLY SoundInv, <1>19, <2>1, <2>2 DEF SoundInv, Sound, PrecheckLive, history
  <2> QED
    BY <1>19, <2>1, <2>2, <2>3 DEF PrecheckLive
<1>20. CASE MoveOriginal
  BY <1>20 DEF MoveOriginal
<1>21. CASE InstallPrepared
  <2>1. Sound(prepared, issued, uses)
    BY Zenon, <1>21 DEF InstallPrepared, Sound, NoneAvailable, EpochsBounded
  <2> QED
    BY Zenon, <1>21, <2>1 DEF InstallPrepared
<1>22. CASE CommitCutover
  BY Zenon, <1>22 DEF CommitCutover
<1>23. CASE FinishJournal
  BY <1>23, FieldTypes DEF FinishJournal, Serve
<1>24. CASE RestoreFails
  <2>1. UNCHANGED <<live, prepared, rollback, journal, bundles, crashes, issued, uses, served>>
    BY Zenon, <1>24 DEF RestoreFails
  <2>2. captured' = Absent
    BY Zenon, <1>24 DEF RestoreFails
  <2>3. \/ /\ pc \in {"restore_create", "restore_write", "restore_stage", "restore_ready",
                      "restore_precheck", "restore_move"}
           /\ pc' = "drop_prepared"
        \/ pc' = "drop_prepared_only"
        \/ pc \in CutoverActive /\ pc' = "undo_live"
    BY ONLY Zenon, <1>24 DEF RestoreFails
  <2>4. TypeOK' /\ UsesInv' /\ SoundInv'
    BY <2>1, <2>2, <2>3
  <2>5. DiskInv' /\ RestoreInv' /\ RecoveryInv'
    BY Zenon, <2>1, <2>2, <2>3
  <2>6. UndoInv'
    BY Zenon, <2>1, <2>3 DEF CutoverActive
  <2> QED
    BY Zenon, <2>4, <2>5, <2>6
<1>25. CASE UndoLive
  BY <1>25 DEF UndoLive
<1>26. CASE UndoRename
  BY <1>26 DEF UndoRename
<1>27. CASE DropPrepared
  BY <1>27 DEF DropPrepared
<1>28. CASE DropJournal
  BY <1>28 DEF DropJournal
<1>29. CASE FinishRecovery
  <2>1. live \in Database
    BY Zenon, <1>29 DEF FinishRecovery
  <2>2. live' \in Database /\ live'.epoch = live.epoch /\ live'.auths = live.auths
    BY ONLY <1>29, <2>1, TransitionKeeps DEF FinishRecovery, RestoreStates
  <2>3. Sound(live, issued, uses)'
    BY ONLY SoundInv, <1>29, <2>1, <2>2 DEF SoundInv, Sound, FinishRecovery, history
  <2> QED
    BY <1>29, <2>1, <2>2, <2>3 DEF FinishRecovery
<1>30. CASE BeginSnapshot
  <2>1. live \in Database
    BY Zenon, <1>30 DEF BeginSnapshot
  <2>2. live' \in Database /\ live'.epoch = live.epoch /\ live'.auths = live.auths
    BY ONLY <1>30, <2>1, TransitionKeeps DEF BeginSnapshot, RestoreStates
  <2>3. Sound(live, issued, uses)'
    BY ONLY SoundInv, <1>30, <2>1, <2>2 DEF SoundInv, Sound, BeginSnapshot, history
  <2> QED
    BY <1>30, <2>1, <2>2, <2>3 DEF BeginSnapshot
<1>31. CASE Stop
  BY Zenon, <1>31 DEF Stop
<1>32. CASE Crash
  <2>1. /\ UNCHANGED <<live, prepared, rollback, journal, bundles, issued, uses, served>>
        /\ captured' = Absent /\ pc' = "down" /\ crashes' = crashes + 1
    BY Zenon, <1>32 DEF Crash
  <2>2. TypeOK' /\ UsesInv' /\ SoundInv'
    BY <2>1
  <2>3. DiskInv' /\ RestoreInv' /\ UndoInv' /\ RecoveryInv'
    BY Zenon, <2>1
  <2> QED
    BY Zenon, <2>2, <2>3
<1>33. ASSUME NEW a \in Auths, IssueAuthorization(a) PROVE IInv'
  <2>1. pc = "open" /\ pc' = "open" /\ a \notin issued /\ issued' = issued \cup {a} /\ uses' = uses
    BY Zenon, <1>33 DEF IssueAuthorization
  <2>2. UNCHANGED <<prepared, rollback, journal, bundles, captured, crashes, served>>
    BY Zenon, <1>33 DEF IssueAuthorization
  <2>3. live \in Database /\ rollback = Absent /\ journal = Absent
    BY Zenon, <2>1
  <2>4. /\ live' \in Database /\ live'.epoch = live.epoch
        /\ live'.auths[a].epoch <= live.epoch
        /\ \A x \in Auths \ {a} : live'.auths[x] = live.auths[x]
    BY ONLY <1>33, <2>3 DEF IssueAuthorization, Database, AuthStates
  <2>5. TypeOK' /\ UsesInv'
    BY <2>1, <2>2, <2>4
  <2>6. uses[a] = 0
    BY Zenon, <2>1
  <2>7. Sound(live, issued, uses)'
    BY <2>1, <2>3, <2>4, <2>6 DEF Sound
  <2>8. SoundInv' /\ DiskInv' /\ RestoreInv' /\ UndoInv' /\ RecoveryInv'
    BY Zenon, <2>1, <2>2, <2>3, <2>4, <2>7
  <2> QED
    BY Zenon, <2>5, <2>8
<1>34. ASSUME NEW a \in Auths, ConsumeAuthorization(a) PROVE IInv'
  <2>1. /\ pc = "open" /\ pc' = "open" /\ live.auths[a].st = "available"
        /\ issued' = issued /\ uses' = [uses EXCEPT ![a] = uses[a] + 1]
    BY Zenon, <1>34 DEF ConsumeAuthorization
  <2>2. UNCHANGED <<prepared, rollback, journal, bundles, captured, crashes, served>>
    BY Zenon, <1>34 DEF ConsumeAuthorization
  <2>3. live \in Database /\ rollback = Absent /\ journal = Absent
    BY Zenon, <2>1
  <2>4. /\ live' \in Database /\ live'.epoch = live.epoch
        /\ live'.auths[a].st = "consumed" /\ live'.auths[a].epoch = live.auths[a].epoch
        /\ \A x \in Auths \ {a} : live'.auths[x] = live.auths[x]
    BY ONLY Zenon, <1>34, <2>3 DEF ConsumeAuthorization, Database, AuthStates
  <2>5. uses[a] = 0 /\ a \in issued
    BY Zenon, <2>1, <2>3 DEF Sound
  <2>6. /\ uses' \in [Auths -> Nat] /\ uses'[a] = 1
        /\ \A x \in Auths \ {a} : uses'[x] = uses[x]
    BY <2>1, <2>5
  <2>7. TypeOK' /\ UsesInv'
    <3>1. TypeOK'
      BY ONLY Zenon, TypeOK, <2>1, <2>2, <2>4, <2>6 DEF TypeOK, PcValues
    <3>2. UsesInv'
      BY ONLY UsesInv, <2>1, <2>5, <2>6 DEF UsesInv
    <3> QED
      BY ONLY Zenon, <3>1, <3>2
  <2>8. Sound(live, issued, uses)'
    BY <2>1, <2>3, <2>4, <2>6 DEF Sound
  <2>9. SoundInv' /\ DiskInv' /\ RestoreInv' /\ UndoInv' /\ RecoveryInv'
    BY <2>1, <2>2, <2>3, <2>4, <2>8
  <2> QED
    BY Zenon, <2>7, <2>9
<1>35. ASSUME NEW b \in bundles, BeginRestore(b) PROVE IInv'
  <2>1. pc = "open" /\ pc' = "restore_create" /\ captured' = b /\ b.epoch >= live.epoch
    BY Zenon, <1>35 DEF BeginRestore
  <2>2. UNCHANGED <<live, prepared, rollback, bundles, crashes, history>>
    BY Zenon, <1>35 DEF BeginRestore
  <2>3. b \in Database /\ live \in Database /\ rollback = Absent /\ prepared = Absent
    BY Zenon, <2>1
  <2>4. /\ journal' \in Journal /\ journal'.phase = "preparing"
        /\ journal'.recovery_epoch = b.epoch + 1
    BY ONLY <1>35, <2>3 DEF BeginRestore, Journal, Phases, Database
  <2>5. TypeOK' /\ UsesInv' /\ SoundInv'
    BY Zenon, <2>1, <2>2, <2>3, <2>4
  <2>6. DiskInv'
    BY <2>1, <2>2, <2>3, <2>4, FieldTypes
  <2>7. RestoreInv' /\ UndoInv' /\ RecoveryInv'
    BY <2>1, <2>2, <2>3, <2>4, FieldTypes
  <2> QED
    BY Zenon, <2>5, <2>6, <2>7
<1>36. CASE UNCHANGED vars
  <2>1. TypeOK' /\ UsesInv' /\ SoundInv' /\ DiskInv'
    BY <1>36 DEF vars
  <2>2. RestoreInv'
    BY <1>36 DEF vars
  <2>3. UndoInv' /\ RecoveryInv'
    BY Zenon, <1>36 DEF vars
  <2> QED
    BY Zenon, <2>1, <2>2, <2>3
<1> QED
  BY <1>1, <1>2, <1>3, <1>4, <1>5, <1>6, <1>7, <1>8, <1>9, <1>10, <1>11, <1>12, <1>13, <1>14, <1>15, <1>16, <1>17, <1>18, <1>19, <1>20, <1>21, <1>22, <1>23, <1>24, <1>25, <1>26, <1>27, <1>28, <1>29, <1>30, <1>31, <1>32, <1>33, <1>34, <1>35, <1>36 DEF Next, OpenStep, ExportStep, RestoreStep, Request

-----------------------------------------------------------------------------
\* The files, the journal and the history stay of their types, whatever is
\* interrupted.
THEOREM TypeCorrect == Spec => []TypeOK
<1>1. IInv => TypeOK
  BY Zenon DEF IInv
<1> QED
  BY <1>1, InitInv, StepInv, PTL DEF Spec

\* No authorization is consumed twice in the history of the wallet, however
\* often older backups are restored (sqlite.rs, cutover_restore).
THEOREM UsedOnce == Spec => []AuthorizationUsedOnce
<1>1. IInv => AuthorizationUsedOnce
  BY Zenon DEF IInv, UsesInv, AuthorizationUsedOnce
<1> QED
  BY <1>1, InitInv, StepInv, PTL DEF Spec

\* No crash point of export, restore, undo or recovery leaves the directory
\* without a complete database as new as the newest one opened.
THEOREM NeverLost == Spec => []WalletNeverLost
<1>1. IInv => WalletNeverLost
  BY FilesDiffer, FieldTypes DEF IInv, TypeOK, DiskInv, WalletNeverLost, Ready, Phases
<1> QED
  BY <1>1, InitInv, StepInv, PTL DEF Spec

\* Every open ends at the highest epoch ever opened with no restore file left.
THEOREM Settled == Spec => []OpenIsSettled
<1>1. IInv => OpenIsSettled
  BY Zenon DEF IInv, DiskInv, RestoreInv, OpenIsSettled
<1> QED
  BY <1>1, InitInv, StepInv, PTL DEF Spec

-----------------------------------------------------------------------------
(* Refinement of AtomicRestore. *)

LEMMA InitRefines == Init => Atomic!AInit
<1> SUFFICES ASSUME Init PROVE Atomic!AInit
  BY Zenon
<1>1. Contents(CurrentDatabase) = [epoch |-> 1, auths |-> Atomic!NoAuths]
  BY Zenon DEF Init, CurrentDatabase, Contents, NoAuth, Atomic!NoAuths
<1>2. {Contents(b) : b \in bundles} =
        {[epoch |-> e, auths |-> Atomic!NoAuths] : e \in ForeignEpochs}
  <2> DEFINE bundle(e) == [epoch |-> e, state |-> "snapshotting", auths |-> [a \in Auths |-> NoAuth]]
  <2>1. \A e \in ForeignEpochs : Contents(bundle(e)) = [epoch |-> e, auths |-> Atomic!NoAuths]
    BY Zenon DEF Contents, NoAuth, Atomic!NoAuths
  <2>2. bundles = {bundle(e) : e \in ForeignEpochs}
    BY Zenon DEF Init
  <2> HIDE DEF bundle
  <2> QED
    BY Zenon, <2>1, <2>2
<1> QED
  BY Zenon, <1>1, <1>2 DEF Init, Atomic!AInit

\* Steps that move files but not the wallet.
LEMMA StepStutters ==
  ASSUME IInv, IInv',
         OpenStep \/ ConsistentSnapshotBytes \/ FinishSnapshot \/ FinishSnapshotFails
         \/ (RestoreStep /\ ~CommitCutover) \/ FinishRecovery \/ BeginSnapshot \/ Stop
         \/ \E b \in bundles : BeginRestore(b)
  PROVE  Contents(CurrentDatabase)' = Contents(CurrentDatabase) /\ UNCHANGED <<bundles, issued, uses>>
<1> USE FilesDiffer DEF IInv, TypeOK, DiskInv, RestoreInv, UndoInv, RecoveryInv, Ready, files, history,
        Recovered, IsInstalled, CurrentDatabase, Contents, CutoverActive
<1>1. CASE StartOpen
  BY Zenon, <1>1 DEF StartOpen
<1>2. CASE CleanupOrphans
  BY Zenon, <1>2 DEF CleanupOrphans
<1>3. CASE DecideRecovery
  BY <1>3, FieldTypes DEF DecideRecovery, RecoveryDecision, IsOriginal, Phases
<1>4. CASE RemovePrepared
  BY Zenon, <1>4 DEF RemovePrepared
<1>5. CASE RemoveRollback
  BY Zenon, <1>5 DEF RemoveRollback
<1>6. CASE RemoveLive
  BY Zenon, <1>6 DEF RemoveLive
<1>7. CASE RenameRollback
  BY Zenon, <1>7 DEF RenameRollback
<1>8. CASE PersistRecoveryReceipt
  <2>1. /\ pc \in {"continue_receipt", "rollback_receipt", "clean_receipt"}
        /\ UNCHANGED <<live, rollback, bundles, issued, uses>>
    BY Zenon, <1>8 DEF PersistRecoveryReceipt
  <2>2. rollback = Absent
    BY Zenon, <2>1
  <2> QED
    BY Zenon, <2>1, <2>2
<1>9. CASE OpenDatabaseConnection
  <2>1. rollback = Absent /\ live \in Database
    BY Zenon, <1>9 DEF OpenDatabaseConnection
  <2>2. /\ UNCHANGED <<rollback, bundles, issued, uses>>
        /\ live' = live \/ live' = TransitionRestore(live, "normal")
    BY Zenon, <1>9 DEF OpenDatabaseConnection
  <2>3. live'.epoch = live.epoch /\ live'.auths = live.auths
    BY ONLY <2>1, <2>2, TransitionKeeps DEF RestoreStates
  <2> QED
    BY Zenon, <2>1, <2>2, <2>3
<1>10. CASE CompleteInterruptedCutover
  BY Zenon, <1>10 DEF CompleteInterruptedCutover
<1>11. CASE ConsistentSnapshotBytes
  BY Zenon, <1>11 DEF ConsistentSnapshotBytes
<1>12. CASE FinishSnapshot
  <2>1. rollback = Absent /\ live \in Database
    BY Zenon, <1>12 DEF FinishSnapshot
  <2>2. UNCHANGED <<rollback, bundles, issued, uses>> /\ \E to \in RestoreStates : live' = TransitionRestore(live, to)
    BY ONLY Zenon, <1>12 DEF FinishSnapshot, RestoreStates, history
  <2>3. live'.epoch = live.epoch /\ live'.auths = live.auths
    BY ONLY <2>1, <2>2, TransitionKeeps
  <2> QED
    BY Zenon, <2>1, <2>2, <2>3
<1>13. CASE FinishSnapshotFails
  BY Zenon, <1>13 DEF FinishSnapshotFails
<1>14. CASE CreatePrepared
  BY Zenon, <1>14 DEF CreatePrepared
<1>15. CASE WritePrepared
  BY Zenon, <1>15 DEF WritePrepared
<1>16. CASE StagePrepared
  BY Zenon, <1>16 DEF StagePrepared
<1>17. CASE AdvanceJournal
  BY Zenon, <1>17 DEF AdvanceJournal, Journal, Phases
<1>18. CASE PrecheckLive
  BY Zenon, <1>18, PrecheckKeeps DEF PrecheckLive
<1>19. CASE MoveOriginal
  BY Zenon, <1>19 DEF MoveOriginal
<1>20. CASE InstallPrepared
  BY Zenon, <1>20 DEF InstallPrepared
<1>21. CASE FinishJournal
  BY Zenon, <1>21 DEF FinishJournal
<1>22. CASE RestoreFails
  BY Zenon, <1>22 DEF RestoreFails
<1>23. CASE UndoLive
  BY Zenon, <1>23 DEF UndoLive
<1>24. CASE UndoRename
  BY Zenon, <1>24 DEF UndoRename
<1>25. CASE DropPrepared
  BY Zenon, <1>25 DEF DropPrepared
<1>26. CASE DropJournal
  BY Zenon, <1>26 DEF DropJournal
<1>27. CASE FinishRecovery
  <2>1. rollback = Absent /\ live \in Database
    BY Zenon, <1>27 DEF FinishRecovery
  <2>2. UNCHANGED <<rollback, bundles, issued, uses>> /\ \E to \in RestoreStates : live' = TransitionRestore(live, to)
    BY ONLY Zenon, <1>27 DEF FinishRecovery, RestoreStates, history
  <2>3. live'.epoch = live.epoch /\ live'.auths = live.auths
    BY ONLY <2>1, <2>2, TransitionKeeps
  <2> QED
    BY Zenon, <2>1, <2>2, <2>3
<1>28. CASE BeginSnapshot
  <2>1. rollback = Absent /\ live \in Database
    BY Zenon, <1>28 DEF BeginSnapshot
  <2>2. UNCHANGED <<rollback, bundles, issued, uses>> /\ \E to \in RestoreStates : live' = TransitionRestore(live, to)
    BY ONLY Zenon, <1>28 DEF BeginSnapshot, RestoreStates, history
  <2>3. live'.epoch = live.epoch /\ live'.auths = live.auths
    BY ONLY <2>1, <2>2, TransitionKeeps
  <2> QED
    BY Zenon, <2>1, <2>2, <2>3
<1>29. CASE Stop
  BY Zenon, <1>29 DEF Stop
<1>30. ASSUME NEW b \in bundles, BeginRestore(b)
      PROVE  Contents(CurrentDatabase)' = Contents(CurrentDatabase) /\ UNCHANGED <<bundles, issued, uses>>
  BY Zenon, <1>30 DEF BeginRestore
<1> QED
  BY Zenon, <1>1, <1>2, <1>3, <1>4, <1>5, <1>6, <1>7, <1>8, <1>9, <1>10, <1>11, <1>12, <1>13, <1>14, <1>15, <1>16, <1>17, <1>18, <1>19, <1>20, <1>21, <1>22, <1>23, <1>24, <1>25, <1>26, <1>27, <1>28, <1>29, <1>30 DEF OpenStep, RestoreStep

\* A bundle installed in place of the wallet is one atomic restore of it.
LEMMA InstallRestores ==
  ASSUME IInv, Ready(live), rollback # Absent,
         Contents(CurrentDatabase) = Contents(rollback),
         Contents(CurrentDatabase)' = Contents(live),
         UNCHANGED <<bundles, issued, uses>>
  PROVE  \E b \in {Contents(x) : x \in bundles} : Atomic!ARestore(b)
<1>1. PICK x \in bundles : x.epoch >= served /\ live = Staged(x)
  BY Zenon DEF Ready, FromBundle
<1>2. x \in Database /\ EpochsBounded(x) /\ rollback.epoch = served
  BY Zenon DEF IInv, TypeOK, SoundInv, DiskInv
<1>3. Contents(live) = [epoch |-> x.epoch + 1, auths |-> Atomic!Fenced(x.auths)]
  <2>1. live.epoch = x.epoch + 1
    BY Zenon, <1>1, <1>2, StagedReady
  <2>2. live.auths = Atomic!Fenced(x.auths)
    BY <1>1, <1>2 DEF Staged, TransitionRestore, BeginRestorePrecheck, CutoverRestore,
       Database, EpochsBounded, Atomic!Fenced
  <2> QED
    BY Zenon, <2>1, <2>2 DEF Contents
<1>4. /\ Contents(x).epoch = x.epoch /\ Contents(x).auths = x.auths
      /\ Contents(CurrentDatabase).epoch = served
  BY Zenon, <1>2 DEF Contents
<1>5. Atomic!ARestore(Contents(x))
  BY Zenon, <1>1, <1>3, <1>4 DEF Atomic!ARestore
<1> QED
  BY Zenon, <1>5

\* Every step is a step of AtomicRestore or leaves its variables alone.
LEMMA StepRefines == IInv /\ IInv' /\ [Next]_vars => [Atomic!ANext]_(Atomic!aVars)
<1> SUFFICES ASSUME IInv, IInv', [Next]_vars PROVE [Atomic!ANext]_(Atomic!aVars)
  BY Zenon
<1>1. ASSUME NEW a \in Auths, IssueAuthorization(a) PROVE Atomic!AIssue(a)
  <2>1. CurrentDatabase = live /\ CurrentDatabase' = live' /\ live \in Database
    BY Zenon, <1>1, FilesDiffer DEF IInv, TypeOK, DiskInv, RestoreInv, CurrentDatabase, IssueAuthorization
  <2>2. Contents(live)' = [Contents(live) EXCEPT !.auths[a] =
                             [st |-> "available", epoch |-> Contents(live).epoch]]
    <3>1. /\ live'.epoch = live.epoch
          /\ live'.auths = [live.auths EXCEPT ![a] = [st |-> "available", epoch |-> live.epoch]]
      BY Zenon, <1>1, <2>1 DEF IssueAuthorization, Database
    <3> QED
      BY <3>1 DEF Contents
  <2> QED
    BY Zenon, <1>1, <2>1, <2>2 DEF IssueAuthorization, Atomic!AIssue
<1>2. ASSUME NEW a \in Auths, ConsumeAuthorization(a) PROVE Atomic!AConsume(a)
  <2>1. CurrentDatabase = live /\ CurrentDatabase' = live' /\ live \in Database
    BY Zenon, <1>2, FilesDiffer DEF IInv, TypeOK, DiskInv, RestoreInv, CurrentDatabase, ConsumeAuthorization
  <2>2. Contents(live)' = [Contents(live) EXCEPT !.auths[a].st = "consumed"]
    <3>1. live'.epoch = live.epoch /\ live'.auths = [live.auths EXCEPT ![a].st = "consumed"]
      BY Zenon, <1>2, <2>1 DEF ConsumeAuthorization, Database
    <3> QED
      BY <3>1 DEF Contents
  <2>3. Contents(live).auths[a] = [st |-> "available", epoch |-> Contents(live).epoch]
    BY Zenon, <1>2, <2>1 DEF Contents, ConsumeAuthorization, Database
  <2> QED
    BY Zenon, <1>2, <2>1, <2>2, <2>3 DEF ConsumeAuthorization, Atomic!AConsume
<1>3. CASE SealBundle
  <2>1. CurrentDatabase = live /\ CurrentDatabase' = live' /\ live' = live
    BY Zenon, <1>3, FilesDiffer DEF IInv, RestoreInv, CurrentDatabase, SealBundle
  <2>2. Contents(captured) = Contents(live)
    BY Zenon, <1>3 DEF IInv, RestoreInv, Contents, SealBundle
  <2>3. CASE bundles' = bundles
    BY Zenon, <1>3, <2>1, <2>3 DEF SealBundle, history, Atomic!aVars
  <2>4. CASE bundles' = bundles \cup {captured}
    <3>1. {Contents(b) : b \in bundles}' = {Contents(b) : b \in bundles} \cup {Contents(live)}
      BY Zenon, <2>2, <2>4
    <3> QED
      BY Zenon, <1>3, <2>1, <3>1 DEF SealBundle, history, Atomic!ANext, Atomic!AExport
  <2> QED
    BY Zenon, <1>3, <2>3, <2>4 DEF SealBundle
<1>4. CASE CommitCutover
  <2>1. /\ Ready(live) /\ rollback # Absent /\ UNCHANGED <<live, bundles, issued, uses>>
        /\ CurrentDatabase = rollback /\ CurrentDatabase' = live'
    BY Zenon, <1>4, FilesDiffer DEF IInv, RestoreInv, CurrentDatabase, CommitCutover, history, CutoverActive
  <2> QED
    BY Zenon, <2>1, InstallRestores DEF Atomic!ANext, Contents
<1>5. CASE Crash
  <2>1. UNCHANGED <<live, rollback, journal, bundles, issued, uses>> /\ pc' = "down"
    BY Zenon, <1>5 DEF Crash, files, history
  <2>2. CASE CurrentDatabase' = CurrentDatabase
    BY Zenon, <2>1, <2>2 DEF Atomic!aVars, Contents
  <2>3. CASE CurrentDatabase' # CurrentDatabase
    <3>1. /\ rollback # Absent /\ live # Absent
          /\ CurrentDatabase = rollback /\ CurrentDatabase' = live
      BY Zenon, <2>1, <2>3, FilesDiffer DEF CurrentDatabase, IsInstalled, CutoverActive
    <3>2. Ready(live)
      BY Zenon, <3>1 DEF IInv, DiskInv
    <3> QED
      BY Zenon, <2>1, <3>1, <3>2, InstallRestores DEF Atomic!ANext, Contents
  <2> QED
    BY Zenon, <2>2, <2>3
<1>6. CASE UNCHANGED vars
  BY Zenon, <1>6 DEF vars, Atomic!aVars, Contents, CurrentDatabase, IsInstalled
<1>7. CASE \/ OpenStep \/ ConsistentSnapshotBytes \/ FinishSnapshot \/ FinishSnapshotFails
           \/ (RestoreStep /\ ~CommitCutover) \/ FinishRecovery \/ BeginSnapshot \/ Stop
           \/ \E b \in bundles : BeginRestore(b)
  BY Zenon, <1>7, StepStutters DEF Atomic!aVars
<1> QED
  BY Zenon, <1>1, <1>2, <1>3, <1>4, <1>5, <1>6, <1>7 DEF Next, ExportStep, Request, Atomic!ANext

\* The file protocol of restore_encrypted_backup and its recovery implements
\* the atomic restore.
THEOREM Refinement == Spec => RestoreIsAtomic
  BY InitInv, StepInv, InitRefines, StepRefines, PTL DEF Spec, RestoreIsAtomic, Atomic!ASpec

=============================================================================
