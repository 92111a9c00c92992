----------------------- MODULE PersonalCustodyProofs -----------------------
(***************************************************************************)
(* Proofs about PersonalCustody for any number of commands, wallets,       *)
(* output directories, device keys and backups, and for every bound.       *)
(***************************************************************************)
EXTENDS PersonalCustody, TLAPS

(* Where a bootstrap has its output directory, where a command has the     *)
(* owner lock of the signer, and where that of the authority database.     *)
OutStages == {"profile", "device", "bundle", "key", "install", "put", "manifest", "cleanup"}
OwnerStages == {"put", "manifest", "initPut", "initManifest", "serving", "attach",
                "restorePut", "restoreManifest"}
DatabaseStages == {"initPut", "initManifest", "serving", "export", "attach", "restore",
                   "restorePut", "restoreManifest"}
CreatingStages == {"put", "manifest", "initPut", "initManifest"}
RestoringStages == {"restore", "restorePut", "restoreManifest"}
Stages == {"idle", "mkdir"} \cup OutStages \cup OwnerStages \cup DatabaseStages

Profiles == [wallet : Wallets, epoch : Nat, run : Nat]
ValidProfiles == {f \in Profiles : f.epoch # 0}

Command == [at : Stages, out : OutDirs \cup {NoDir}, profile : Profiles,
            device : DeviceKeys \cup {NoKey}, generation : Nat, handle : Nat,
            backup : Backups \cup {NoBackup}, signer : 0 .. 3]

(* The payloads a data directory ever stores: of a valid profile, and of   *)
(* share 1 when they are personal.                                         *)
IsPayload(x) ==
    \E f \in ValidProfiles, s \in 1 .. 3, b \in BOOLEAN :
        x = Payload(f, s, b) /\ (b => s = 1)

DeviceFile(f, d, g) == SealDevice(Package(f, 2), DeviceBinding(d, f, g))
RecoveryFile(f) == SealRecovery(Package(f, 3), f)

Packages == [profile : Profiles, signer : 1 .. 3, share : Nat \X (1 .. 3)]
Bindings == [key : DeviceKeys \cup {NoKey}, profile : Profiles, signer : {2}, epoch : Nat,
             generation : Nat]
Output == [there : BOOLEAN, profile : SUBSET Profiles,
           device : SUBSET [binding : Bindings, package : Packages],
           bundle : SUBSET [profile : Profiles, key : Nat, package : Packages]]
PayloadRecords == [profile : Profiles, signer : 1 .. 3, personal : BOOLEAN, package : Packages]
Bundle == [there : BOOLEAN,
           signer : SUBSET [audit : Profiles, payload : PayloadRecords, dek : Nat]]

TypeOK ==
    /\ proc \in [Processes -> Command]
    /\ outDirs \in [OutDirs -> Output]
    /\ bundles \in [Backups -> Bundle]
    /\ generations \in Nat /\ handles \in Nat /\ faults \in Nat

(* The locks exclude: a stage that needs one has it alone.                 *)
LockInv ==
    \A p \in Processes :
        /\ proc[p].at \in OwnerStages => signerOwner = {p}
        /\ proc[p].at \in DatabaseStages => database = {p}

(* A signer is made only in a directory without one.                       *)
EmptyInv ==
    \A p \in Processes : proc[p].at \in CreatingStages => manifest = {}

(* A bootstrap at work has an output directory of its own: no other        *)
(* bootstrap and no report is about it.                                    *)
OutInv ==
    \A p \in Processes :
        /\ proc[p].at \in OutStages \cup {"mkdir"} => proc[p].out \in OutDirs
        /\ proc[p].at \in OutStages =>
             /\ outDirs[proc[p].out].there
             /\ \A q \in Processes : q # p /\ proc[q].at \in OutStages => proc[q].out # proc[p].out
             /\ \A r \in reported : r.out # proc[p].out

(* What a bootstrap has written and delivered before each of its stages.   *)
Progress(c) ==
    /\ c.at \in OutStages \cup {"mkdir"} => c.profile \in ValidProfiles /\ c.device \in deviceKeys
    /\ c.at \in {"device", "bundle", "key", "install", "put", "manifest"} =>
         outDirs[c.out].profile = {c.profile}
    /\ c.at \in {"bundle", "key", "install", "put", "manifest"} =>
         outDirs[c.out].device = {DeviceFile(c.profile, c.device, c.generation)}
    /\ c.at \in {"key", "install", "put", "manifest"} =>
         outDirs[c.out].bundle = {RecoveryFile(c.profile)}
    /\ c.at \in {"install", "put", "manifest"} => c.profile.run \in delivered

ProgressInv == \A p \in Processes : Progress(proc[p])

(* What was reported is still there.                                       *)
Kept(r) ==
    /\ r.out \in OutDirs /\ r.profile \in ValidProfiles
    /\ outDirs[r.out].there
    /\ outDirs[r.out].profile = {r.profile}
    /\ outDirs[r.out].device = {DeviceFile(r.profile, r.config.key, r.config.generation)}
    /\ outDirs[r.out].bundle = {RecoveryFile(r.profile)}
    /\ r.profile.run \in delivered /\ r.config.key \in deviceKeys

ReportInv == \A r \in reported : Kept(r)

(* The data directory: handles name records, and unless a manifest is torn *)
(* it names the record it was written for.                                 *)
StoreInv ==
    /\ \A x \in records : /\ x = [handle |-> x.handle, payload |-> x.payload]
                           /\ x.handle \in Nat /\ x.handle <= handles
                           /\ IsPayload(x.payload)
    /\ \A x, y \in records : x.handle = y.handle => x = y
    /\ \A m, n \in manifest : m = n
    /\ \A m \in manifest : m.handle \in Nat /\ m.handle <= handles
    /\ ~torn => \A m \in manifest : \E x \in records :
                  x.handle = m.handle /\ m = ManifestOf(x.payload, m.handle)

(* A command that is about to write a manifest has stored its record.      *)
Pending(c, payload) ==
    /\ [handle |-> c.handle, payload |-> payload] \in records
    /\ c.handle \in Nat /\ c.handle <= handles
    /\ \A m \in manifest : m.handle # c.handle

PendingOf(p) ==
    /\ proc[p].at \in {"initPut", "initManifest"} =>
         proc[p].profile \in ValidProfiles /\ proc[p].signer \in 1 .. 3
    /\ proc[p].at = "manifest" => Pending(proc[p], WalletPayload(p))
    /\ proc[p].at = "initManifest" => Pending(proc[p], InitPayload(p))
    /\ proc[p].at = "restoreManifest" => \A a \in Attachment(p) : Pending(proc[p], a.payload)
    /\ proc[p].at = "attach" => \E x \in records, m \in manifest : m.handle = x.handle

PendingInv == \A p \in Processes : PendingOf(p)

(* A backup bundle holds at most one signer, with a payload that opens.    *)
BundleInv ==
    /\ \A b \in Backups : /\ \A a \in bundles[b].signer : IsPayload(a.payload)
                         /\ \A a1, a2 \in bundles[b].signer : a1 = a2
    /\ \A p \in Processes : proc[p].at \in RestoringStages \cup {"export", "attach"} =>
         proc[p].backup \in Backups

(* Until a loss or a restore the signer is the one that was reported.      *)
Installed(f) ==
    /\ ~torn
    /\ \E h \in Nat : /\ manifest = {[profile |-> f, signer |-> 1, handle |-> h]}
                      /\ [handle |-> h, payload |-> Payload(f, 1, TRUE)] \in records

RestoreInv ==
    /\ \A p \in Processes : proc[p].at \in RestoringStages => restoreState = "recovering"
    /\ losses = 0 /\ restoreState = "normal" => \A r \in reported : Installed(r.profile)

Inv == /\ TypeOK /\ LockInv /\ EmptyInv /\ OutInv /\ ProgressInv /\ ReportInv
       /\ StoreInv /\ PendingInv /\ BundleInv /\ RestoreInv

-----------------------------------------------------------------------------
(* Where a step takes its command.                                         *)

LEMMA IdleCommand == Idle \in Command /\ Idle.at = "idle"
<1>1. NoProfile \in Profiles
  BY Zenon, CustodyAssumption DEF NoProfile, Profile, Profiles
<1>2. "idle" \in Stages
  BY Zenon DEF Stages
<1> QED BY <1>1, <1>2 DEF Idle, Command

(* The command of p becomes c, and no other one changes.                   *)
Becomes(p, c) ==
    /\ proc' \in [Processes -> Command]
    /\ proc'[p] = c
    /\ \A q \in Processes \ {p} : proc'[q] = proc[q]

LEMMA Replaced ==
  ASSUME TypeOK, NEW p \in Processes, NEW c \in Command, proc' = [proc EXCEPT ![p] = c]
  PROVE  Becomes(p, c)
BY Zenon DEF TypeOK, Becomes

LEMMA Ended ==
  ASSUME TypeOK, NEW p \in Processes, proc' = [proc EXCEPT ![p] = Idle]
  PROVE  Becomes(p, Idle)
BY Zenon, Replaced, IdleCommand

LEMMA Jumped ==
  ASSUME TypeOK, NEW p \in Processes, NEW at \in Stages, Jump(p, at)
  PROVE  Becomes(p, [proc[p] EXCEPT !.at = at])
<1>1. [proc[p] EXCEPT !.at = at] \in Command /\ proc \in [Processes -> Command]
  BY Zenon DEF TypeOK, Command
<1>2. proc' = [proc EXCEPT ![p] = [proc[p] EXCEPT !.at = at]]
  BY Zenon, <1>1 DEF Jump
<1> QED BY Zenon, <1>1, <1>2, Replaced

LEMMA Stored ==
  ASSUME TypeOK, NEW p \in Processes, NEW at \in Stages, NEW h \in Nat,
         proc' = [proc EXCEPT ![p].at = at, ![p].handle = h]
  PROVE  Becomes(p, [proc[p] EXCEPT !.at = at, !.handle = h])
<1>1. [proc[p] EXCEPT !.at = at, !.handle = h] \in Command /\ proc \in [Processes -> Command]
  BY DEF TypeOK, Command
<1>2. proc' = [proc EXCEPT ![p] = [proc[p] EXCEPT !.at = at, !.handle = h]]
  BY Zenon, <1>1
<1> QED BY Zenon, <1>1, <1>2, Replaced

-----------------------------------------------------------------------------
(* The invariant implies the properties.                                   *)

LEMMA PayloadOpens ==
  ASSUME NEW payload, IsPayload(payload), NEW h
  PROVE  /\ ValidateBinding(ManifestOf(payload, h), payload)
         /\ OpenPayload(ManifestOf(payload, h), payload) = {<<payload.profile.run, payload.signer>>}
<1>1. PICK f \in ValidProfiles, s \in 1 .. 3, b \in BOOLEAN :
        payload = Payload(f, s, b) /\ (b => s = 1)
  BY Zenon DEF IsPayload
<1>2. /\ payload.profile = f /\ payload.signer = s /\ payload.personal = b
      /\ payload.package = Package(f, s)
  BY Zenon, <1>1 DEF Payload
<1>3. f.epoch # 0
  BY Zenon DEF ValidProfiles
<1>4. OpenPackage(Package(f, s), f) = {<<f.run, s>>}
  BY Zenon, <1>3 DEF OpenPackage, Package, ProfileIsValid
<1>5. Package(f, s).signer = s
  BY Zenon DEF Package
<1>6. ManifestOf(payload, h).profile = f /\ ManifestOf(payload, h).signer = s
  BY Zenon, <1>2 DEF ManifestOf
<1> QED BY Zenon, <1>1, <1>2, <1>3, <1>4, <1>5, <1>6 DEF ValidateBinding, OpenPayload

LEMMA RecordOpens ==
  ASSUME StoreInv, NEW m \in manifest, NEW x \in records, x.handle = m.handle,
         m = ManifestOf(x.payload, m.handle)
  PROVE  OpenSigner(m.profile.wallet, m.signer) = {<<x.payload.profile.run, x.payload.signer>>}
<1>1. IsPayload(x.payload)
  BY Zenon DEF StoreInv
<1>2. ValidateBinding(m, x.payload) /\ OpenPayload(m, x.payload) = {<<x.payload.profile.run, x.payload.signer>>}
  BY Zenon, <1>1, PayloadOpens
<1>3. {y \in records : y.handle = m.handle /\ ValidateBinding(m, y.payload)} = {x}
  BY <1>2 DEF StoreInv
<1>4. {n \in manifest : n.profile.wallet = m.profile.wallet /\ n.signer = m.signer} = {m}
  BY Zenon DEF StoreInv
<1> DEFINE Opened(n) == {y \in records : y.handle = n.handle /\ ValidateBinding(n, y.payload)}
           All(n) == UNION {OpenPayload(n, y.payload) : y \in Opened(n)}
<1>5. OpenSigner(m.profile.wallet, m.signer) = UNION {All(n) : n \in {m}}
  BY Zenon, <1>4 DEF OpenSigner
<1>6. All(m) = UNION {OpenPayload(m, y.payload) : y \in {x}}
  BY Zenon, <1>3
<1>7. UNION {OpenPayload(m, y.payload) : y \in {x}} = OpenPayload(m, x.payload)
  BY Zenon
<1> HIDE DEF All
<1>8. UNION {All(n) : n \in {m}} = All(m)
  BY Zenon
<1> QED BY Zenon, <1>2, <1>5, <1>6, <1>7, <1>8

LEMMA DeviceOpens ==
  ASSUME NEW f \in ValidProfiles, NEW config, config.key \in deviceKeys
  PROVE  LoadDesktopParticipant(DeviceFile(f, config.key, config.generation), config, f)
           = {<<f.run, 2>>}
<1>1. f.epoch # 0
  BY Zenon DEF ValidProfiles
<1>2. OpenPackage(Package(f, 2), f) = {<<f.run, 2>>}
  BY <1>1 DEF OpenPackage, Package, ProfileIsValid
<1>3. /\ DeviceFile(f, config.key, config.generation).package = Package(f, 2)
      /\ DeviceFile(f, config.key, config.generation).binding
           = DeviceBinding(config.key, f, config.generation)
      /\ Package(f, 2).signer = 2
  BY Zenon DEF DeviceFile, SealDevice, Package
<1> QED BY Zenon, <1>2, <1>3 DEF LoadDesktopParticipant

LEMMA RecoveryOpens ==
  ASSUME NEW f \in ValidProfiles, NEW k
  PROVE  OpenRecovery(RecoveryFile(f), k, f) = IF k = f.run THEN {<<f.run, 3>>} ELSE {}
<1>1. f.epoch # 0
  BY Zenon DEF ValidProfiles
<1>2. OpenPackage(Package(f, 3), f) = {<<f.run, 3>>}
  BY <1>1 DEF OpenPackage, Package, ProfileIsValid
<1>3. /\ RecoveryFile(f).package = Package(f, 3) /\ RecoveryFile(f).key = f.run
      /\ RecoveryFile(f).profile = f /\ Package(f, 3).signer = 3
  BY Zenon DEF RecoveryFile, SealRecovery, Package
<1> QED BY Zenon, <1>2, <1>3 DEF OpenRecovery

LEMMA InvOpens == Inv => SharesOpen
<1> SUFFICES ASSUME Inv PROVE SharesOpen
  BY Zenon
<1>1. ASSUME NEW r \in reported
      PROVE  LET f == r.profile
                 out == outDirs[r.out]
             IN  /\ out.profile = {f}
                 /\ {<<f.run, 2>>} = UNION {LoadDesktopParticipant(x, r.config, f) : x \in out.device}
                 /\ {<<f.run, 3>>} = UNION {UNION {OpenRecovery(x, k, f) : k \in delivered} : x \in out.bundle}
                 /\ losses = 0 /\ restoreState = "normal" =>
                      OpenSigner(f.wallet, 1) = {<<f.run, 1>>}
  <2> DEFINE f == r.profile
             out == outDirs[r.out]
             dev == DeviceFile(f, r.config.key, r.config.generation)
             rec == RecoveryFile(f)
  <2>0. /\ out.profile = {f} /\ out.device = {dev} /\ out.bundle = {rec}
        /\ f \in ValidProfiles /\ f.run \in delivered /\ r.config.key \in deviceKeys
    BY Zenon DEF Inv, ReportInv, Kept
  <2>1. {<<f.run, 2>>} = UNION {LoadDesktopParticipant(x, r.config, f) : x \in out.device}
    <3>1. LoadDesktopParticipant(dev, r.config, f) = {<<f.run, 2>>}
      BY Zenon, <2>0, DeviceOpens
    <3> HIDE DEF dev, f, out
    <3>2. UNION {LoadDesktopParticipant(x, r.config, f) : x \in out.device}
            = LoadDesktopParticipant(dev, r.config, f)
      BY Zenon, <2>0
    <3> QED BY Zenon, <3>1, <3>2
  <2>2. {<<f.run, 3>>} = UNION {UNION {OpenRecovery(x, k, f) : k \in delivered} : x \in out.bundle}
    <3>1. \A k : OpenRecovery(rec, k, f) = IF k = f.run THEN {<<f.run, 3>>} ELSE {}
      BY Zenon, <2>0, RecoveryOpens
    <3> DEFINE Opened(x) == UNION {OpenRecovery(x, k, f) : k \in delivered}
    <3> HIDE DEF rec, f, out
    <3>2. Opened(rec) = {<<f.run, 3>>}
      BY <2>0, <3>1
    <3> HIDE DEF Opened
    <3>3. UNION {Opened(x) : x \in out.bundle} = Opened(rec)
      BY Zenon, <2>0
    <3> QED BY Zenon, <3>2, <3>3 DEF Opened
  <2>3. ASSUME losses = 0, restoreState = "normal"
        PROVE  OpenSigner(f.wallet, 1) = {<<f.run, 1>>}
    <3>1. PICK h \in Nat : /\ manifest = {[profile |-> f, signer |-> 1, handle |-> h]}
                           /\ [handle |-> h, payload |-> Payload(f, 1, TRUE)] \in records
      BY Zenon, <2>3 DEF Inv, RestoreInv, Installed
    <3> DEFINE m == [profile |-> f, signer |-> 1, handle |-> h]
               x == [handle |-> h, payload |-> Payload(f, 1, TRUE)]
    <3>2. m = ManifestOf(x.payload, m.handle) /\ x.handle = m.handle
      BY Zenon DEF ManifestOf, Payload
    <3>3. m.profile = f /\ m.signer = 1 /\ x.payload.profile = f /\ x.payload.signer = 1
      BY Zenon DEF Payload
    <3>4. m \in manifest /\ x \in records /\ StoreInv
      BY Zenon, <3>1 DEF Inv
    <3> HIDE DEF m, x, f
    <3>5. OpenSigner(m.profile.wallet, m.signer) = {<<x.payload.profile.run, x.payload.signer>>}
      BY Zenon, <3>2, <3>4, RecordOpens
    <3> QED BY Zenon, <3>3, <3>5
  <2> HIDE DEF f, out
  <2>4. /\ out.profile = {f}
        /\ {<<f.run, 2>>} = UNION {LoadDesktopParticipant(x, r.config, f) : x \in out.device}
        /\ {<<f.run, 3>>} = UNION {UNION {OpenRecovery(x, k, f) : k \in delivered} : x \in out.bundle}
        /\ losses = 0 /\ restoreState = "normal" => OpenSigner(f.wallet, 1) = {<<f.run, 1>>}
    BY Zenon, <2>0, <2>1, <2>2, <2>3
  <2> QED BY Zenon, <2>4 DEF f, out
<1>2. ASSUME ~torn, NEW m \in manifest PROVE OpenSigner(m.profile.wallet, m.signer) # {}
  <2>1. PICK x \in records : x.handle = m.handle /\ m = ManifestOf(x.payload, m.handle)
    BY Zenon, <1>2 DEF Inv, StoreInv
  <2>2. OpenSigner(m.profile.wallet, m.signer) = {<<x.payload.profile.run, x.payload.signer>>}
    BY Zenon, <2>1, RecordOpens DEF Inv
  <2> QED BY Zenon, <2>2
<1> QED BY Zenon, <1>1, <1>2 DEF SharesOpen

-----------------------------------------------------------------------------
(* What most steps leave alone.                                            *)

LEMMA StageClasses ==
  /\ CreatingStages \subseteq OwnerStages /\ RestoringStages \subseteq DatabaseStages
  /\ {"manifest", "initPut", "initManifest", "restoreManifest", "attach"} \subseteq OwnerStages
  /\ {"export", "attach", "restoreManifest"} \subseteq DatabaseStages
  /\ OutStages \subseteq Stages /\ OwnerStages \subseteq Stages /\ DatabaseStages \subseteq Stages
  /\ "idle" \in Stages /\ "mkdir" \in Stages
  /\ "idle" \notin OutStages \cup OwnerStages \cup DatabaseStages
  /\ "mkdir" \notin OutStages \cup OwnerStages \cup DatabaseStages
BY Zenon DEF CreatingStages, RestoringStages, OwnerStages, DatabaseStages, OutStages, Stages

(* A command without a lock, or giving its locks up, disturbs nobody who   *)
(* works on the data directory or on a backup.                             *)
LEMMA Unlocked ==
  ASSUME Inv, NEW p \in Processes, NEW c, Becomes(p, c),
         c.at \notin OwnerStages \cup DatabaseStages,
         signerOwner' \in {signerOwner, signerOwner \ {p}},
         database' \in {database, database \ {p}},
         UNCHANGED <<manifest, records, torn, handles, restoreState, bundles, reported, losses>>
  PROVE  LockInv' /\ EmptyInv' /\ StoreInv' /\ PendingInv' /\ BundleInv' /\ RestoreInv'
<1>1. LockInv'
  BY Zenon, StageClasses DEF Inv, LockInv, Becomes
<1>2. EmptyInv'
  BY Zenon, StageClasses DEF Inv, EmptyInv, Becomes
<1>3. StoreInv'
  BY Zenon DEF Inv, StoreInv
<1>4. PendingInv'
  BY StageClasses DEF Inv, PendingInv, PendingOf, Pending, Becomes, WalletPayload, InitPayload, Attachment
<1>5. BundleInv'
  BY Zenon, StageClasses DEF Inv, BundleInv, Becomes
<1>6. RestoreInv'
  BY Zenon, StageClasses DEF Inv, RestoreInv, Installed, Becomes
<1> QED BY Zenon, <1>1, <1>2, <1>3, <1>4, <1>5, <1>6

(* A step that writes no output: it is of no bootstrap, or it takes one on *)
(* or to its clean-up.                                                     *)
SameBootstrap(c, d) ==
    /\ c.out = d.out /\ c.profile = d.profile /\ c.device = d.device
    /\ c.generation = d.generation

LEMMA OutputsKept ==
  ASSUME Inv, NEW p \in Processes, NEW c, Becomes(p, c),
         UNCHANGED <<outDirs, delivered, deviceKeys, reported>>,
         \/ c.at \notin OutStages \cup {"mkdir"}
         \/ /\ proc[p].at \in OutStages /\ SameBootstrap(c, proc[p])
            /\ \/ c.at = "cleanup"
               \/ proc[p].at = "install" /\ c.at = "put"
               \/ proc[p].at = "put" /\ c.at = "manifest"
  PROVE  OutInv' /\ ProgressInv' /\ ReportInv'
<1>1. OutInv'
  BY DEF Inv, OutInv, Becomes, SameBootstrap, OutStages
<1>2. ProgressInv'
  <2>1. ASSUME NEW q \in Processes, q # p PROVE Progress(proc[q])'
    BY Zenon, <2>1 DEF Inv, ProgressInv, Progress, Becomes
  <2>2. Progress(proc[p])'
    BY Zenon DEF Inv, ProgressInv, Progress, Becomes, SameBootstrap, OutStages
  <2> QED BY Zenon, <2>1, <2>2 DEF ProgressInv
<1>3. ReportInv'
  BY Zenon DEF Inv, ReportInv, Kept
<1> QED BY Zenon, <1>1, <1>2, <1>3

-----------------------------------------------------------------------------
(* The bootstrap up to its installation.                                   *)

LEMMA BootstrapStartStep ==
  ASSUME Inv, NEW p \in Processes, NEW o \in OutDirs, NEW w \in Wallets, NEW e \in Epochs,
         NEW d \in DeviceKeys, BootstrapStart(p, o, w, e, d, 1)
  PROVE  Inv'
<1> DEFINE f == Profile(w, e, generations + 1)
           c == [Idle EXCEPT !.at = "mkdir", !.out = o, !.device = d, !.generation = 1,
                             !.profile = f]
<1>1. generations \in Nat /\ TypeOK
  BY Zenon DEF Inv, TypeOK
<1>2. f \in Profiles /\ f \in ValidProfiles
  BY <1>1, CustodyAssumption DEF BootstrapStart, Profile, Profiles, ValidProfiles
<1> HIDE DEF f
<1>3. /\ c \in Command /\ c.at = "mkdir" /\ c.out = o /\ c.device = d /\ c.profile = f
  BY Zenon, <1>2, IdleCommand, StageClasses DEF Command
<1>4. proc' = [proc EXCEPT ![p] = c]
  BY Zenon DEF BootstrapStart, f
<1> HIDE DEF c
<1>5. Becomes(p, c)
  BY Zenon, <1>1, <1>3, <1>4, Replaced
<1>6. /\ UNCHANGED <<manifest, records, torn, handles, signerOwner, database, restoreState,
                     bundles, reported, losses, outDirs, delivered, faults>>
      /\ deviceKeys' = deviceKeys \cup {d} /\ generations' = generations + 1
  BY Zenon DEF BootstrapStart, dirVars, lockVars, backupVars
<1>7. LockInv' /\ EmptyInv' /\ StoreInv' /\ PendingInv' /\ BundleInv' /\ RestoreInv'
  BY Zenon, <1>3, <1>5, <1>6, StageClasses, Unlocked
<1>8. TypeOK'
  BY <1>1, <1>5, <1>6 DEF TypeOK, Becomes
<1>9. OutInv'
  BY <1>3, <1>5, <1>6, StageClasses DEF Inv, OutInv, Becomes
<1>10. ProgressInv'
  <2>1. ASSUME NEW q \in Processes, q # p PROVE Progress(proc[q])'
    BY Zenon, <2>1, <1>5, <1>6 DEF Inv, ProgressInv, Progress, Becomes
  <2>2. Progress(proc[p])'
    BY Zenon, <1>2, <1>3, <1>5, <1>6 DEF Progress, Becomes
  <2> QED BY Zenon, <2>1, <2>2 DEF ProgressInv
<1>11. ReportInv'
  BY Zenon, <1>6 DEF Inv, ReportInv, Kept
<1> QED BY Zenon, <1>7, <1>8, <1>9, <1>10, <1>11 DEF Inv

LEMMA MakeOutputStep ==
  ASSUME Inv, NEW p \in Processes, MakeOutput(p)
  PROVE  Inv'
<1> DEFINE o == proc[p].out
<1>0. TypeOK /\ proc[p].at = "mkdir" /\ o \in OutDirs
  BY Zenon DEF Inv, MakeOutput, OutInv
<1>1. UNCHANGED <<manifest, records, torn, handles, signerOwner, database, restoreState,
                  bundles, reported, losses, delivered, deviceKeys, generations, faults>>
  BY Zenon DEF MakeOutput, dirVars, lockVars, backupVars, boundVars
<1>2. CASE proc' = [proc EXCEPT ![p] = Idle] /\ UNCHANGED outDirs
  <2>1. Becomes(p, Idle)
    BY Zenon, <1>0, <1>2, Ended
  <2>2. LockInv' /\ EmptyInv' /\ StoreInv' /\ PendingInv' /\ BundleInv' /\ RestoreInv'
    BY Zenon, <1>1, <2>1, IdleCommand, StageClasses, Unlocked
  <2>3. OutInv' /\ ProgressInv' /\ ReportInv'
    BY Zenon, <1>1, <1>2, <2>1, IdleCommand, StageClasses, OutputsKept
  <2>4. TypeOK'
    BY Zenon, <1>0, <1>1, <1>2, <2>1 DEF TypeOK, Becomes
  <2> QED BY Zenon, <2>2, <2>3, <2>4 DEF Inv
<1>3. CASE /\ ~outDirs[o].there /\ outDirs' = [outDirs EXCEPT ![o].there = TRUE]
           /\ Jump(p, "profile")
  <2> DEFINE c == [proc[p] EXCEPT !.at = "profile"]
  <2>1. Becomes(p, c)
    BY Zenon, <1>0, <1>3, Jumped DEF Stages, OutStages
  <2>2. c.at = "profile" /\ SameBootstrap(c, proc[p])
    BY Zenon, <1>0 DEF TypeOK, Command, SameBootstrap
  <2> HIDE DEF c
  <2>3. /\ outDirs'[o].there = TRUE /\ \A x \in OutDirs \ {o} : outDirs'[x] = outDirs[x]
        /\ outDirs' \in [OutDirs -> Output]
    BY <1>0, <1>3 DEF TypeOK, Output
  <2>4. LockInv' /\ EmptyInv' /\ StoreInv' /\ PendingInv' /\ BundleInv' /\ RestoreInv'
    BY Zenon, <1>1, <2>1, <2>2, Unlocked DEF OwnerStages, DatabaseStages
  <2>5. TypeOK'
    BY Zenon, <1>0, <1>1, <2>1, <2>3 DEF TypeOK, Becomes
  <2>6. ReportInv'
    BY Zenon, <1>1, <1>3, <2>3 DEF Inv, ReportInv, Kept
  <2>7. OutInv'
    BY <1>0, <1>1, <1>3, <2>1, <2>2, <2>3, StageClasses
       DEF Inv, OutInv, ReportInv, Kept, Becomes, SameBootstrap
  <2>8. ProgressInv'
    <3>1. ASSUME NEW q \in Processes, q # p PROVE Progress(proc[q])'
      <4>1. proc[q].at \in OutStages => proc[q].out # o
        BY Zenon, <1>3 DEF Inv, OutInv
      <4>2. /\ proc[q].at \in OutStages => proc[q].out \in OutDirs \ {o}
            /\ proc'[q] = proc[q]
        BY Zenon, <3>1, <4>1, <2>1 DEF Inv, OutInv, Becomes
      <4>3. proc[q].at \in OutStages => outDirs'[proc[q].out] = outDirs[proc[q].out]
        BY Zenon, <4>2, <2>3
      <4> QED BY <4>2, <4>3, <1>1 DEF Inv, ProgressInv, Progress, OutStages
    <3>2. Progress(proc[p])'
      BY Zenon, <1>0, <1>1, <2>1, <2>2 DEF Inv, ProgressInv, Progress, Becomes, SameBootstrap, OutStages
    <3> QED BY Zenon, <3>1, <3>2 DEF ProgressInv
  <2> QED BY Zenon, <2>4, <2>5, <2>6, <2>7, <2>8 DEF Inv
<1> QED BY Zenon, <1>2, <1>3 DEF MakeOutput

(* A bootstrap that works on its own output directory.                     *)
LEMMA OwnOutput ==
  ASSUME Inv, NEW p \in Processes, proc[p].at \in OutStages \ OwnerStages, NEW c, Becomes(p, c),
         c.at \in (OutStages \cup {"idle"}) \ (OwnerStages \cup DatabaseStages),
         c.at \in OutStages => SameBootstrap(c, proc[p]) /\ outDirs'[proc[p].out].there,
         outDirs' \in [OutDirs -> Output],
         \A x \in OutDirs \ {proc[p].out} : outDirs'[x] = outDirs[x],
         delivered \subseteq delivered', faults' \in Nat,
         UNCHANGED <<manifest, records, torn, handles, signerOwner, database, restoreState,
                     bundles, reported, losses, deviceKeys, generations>>,
         Progress(proc[p])'
  PROVE  Inv'
<1> DEFINE o == proc[p].out
<1>1. LockInv' /\ EmptyInv' /\ StoreInv' /\ PendingInv' /\ BundleInv' /\ RestoreInv'
  BY Zenon, Unlocked
<1>2. TypeOK'
  BY Zenon DEF Inv, TypeOK, Becomes
<1>3. o \in OutDirs /\ \A r \in reported : r.out # o
  BY Zenon DEF Inv, OutInv
<1>4. ASSUME NEW q \in Processes, q # p, proc[q].at \in OutStages
      PROVE  proc[q].out # o
  BY Zenon, <1>4 DEF Inv, OutInv
<1>5. ReportInv'
  BY <1>3 DEF Inv, ReportInv, Kept
<1>6. OutInv'
  BY <1>3, <1>4, StageClasses DEF Inv, OutInv, Becomes, SameBootstrap
<1>7. ASSUME NEW q \in Processes, q # p PROVE Progress(proc[q])'
  <2>1. /\ proc[q].at \in OutStages => proc[q].out \in OutDirs \ {o}
        /\ proc'[q] = proc[q]
    BY Zenon, <1>4, <1>7 DEF Inv, OutInv, Becomes
  <2>2. proc[q].at \in OutStages => outDirs'[proc[q].out] = outDirs[proc[q].out]
    BY Zenon, <2>1
  <2> QED BY <2>1, <2>2 DEF Inv, ProgressInv, Progress, OutStages
<1>8. ProgressInv'
  BY Zenon, <1>7 DEF ProgressInv
<1> QED BY Zenon, <1>1, <1>2, <1>5, <1>6, <1>8 DEF Inv

LEMMA OutcomeCases ==
  ASSUME TypeOK, NEW outcome \in Outcomes, Count(outcome)
  PROVE  outcome \in {"ok", "before", "after"} /\ faults' \in Nat
BY DEF TypeOK, Outcomes, Count

LEMMA FilesTyped ==
  ASSUME NEW f \in Profiles, NEW d \in DeviceKeys \cup {NoKey}, NEW g \in Nat
  PROVE  /\ DeviceFile(f, d, g) \in [binding : Bindings, package : Packages]
         /\ RecoveryFile(f) \in [profile : Profiles, key : Nat, package : Packages]
<1>1. f.run \in Nat /\ f.epoch \in Nat
  BY Zenon DEF Profiles
<1>2. Package(f, 2) \in Packages /\ Package(f, 3) \in Packages
  BY <1>1 DEF Package, Packages
<1>3. DeviceBinding(d, f, g) \in Bindings
  BY Zenon, <1>1 DEF DeviceBinding, Bindings
<1> QED BY Zenon, <1>1, <1>2, <1>3 DEF DeviceFile, RecoveryFile, SealDevice, SealRecovery

LEMMA DeliverKeyStep ==
  ASSUME Inv, NEW p \in Processes, NEW outcome \in Outcomes, DeliverKey(p, outcome)
  PROVE  Inv'
<1> DEFINE next == IF outcome = "ok" THEN "install" ELSE "cleanup"
           c == [proc[p] EXCEPT !.at = next]
<1>0. TypeOK /\ proc[p].at = "key" /\ Count(outcome) /\ Jump(p, next)
  BY Zenon DEF Inv, DeliverKey
<1>1. outcome \in {"ok", "before", "after"} /\ faults' \in Nat
  BY Zenon, <1>0, OutcomeCases
<1>2. next \in Stages /\ next \in OutStages /\ next \notin OwnerStages \cup DatabaseStages
  BY Zenon DEF Stages, OutStages, OwnerStages, DatabaseStages
<1>3. Becomes(p, c)
  BY Zenon, <1>0, <1>2, Jumped
<1>4. c.at = next /\ SameBootstrap(c, proc[p])
  BY Zenon, <1>0 DEF TypeOK, Command, SameBootstrap
<1> HIDE DEF c
<1>5. /\ UNCHANGED <<manifest, records, torn, handles, signerOwner, database, restoreState,
                     bundles, reported, losses, deviceKeys, generations, outDirs>>
      /\ delivered \subseteq delivered'
      /\ outcome = "ok" => proc[p].profile.run \in delivered'
  BY Zenon DEF DeliverKey, dirVars, lockVars, backupVars, boundVars
<1>6. Progress(proc[p])'
  BY Zenon, <1>0, <1>3, <1>4, <1>5 DEF Inv, ProgressInv, Progress, Becomes, SameBootstrap, OutStages
<1>7. outDirs'[proc[p].out].there /\ proc[p].at \in OutStages \ OwnerStages
  BY Zenon, <1>0, <1>5 DEF Inv, OutInv, OutStages, OwnerStages
<1> HIDE DEF next
<1> QED BY Zenon, <1>0, <1>1, <1>2, <1>3, <1>4, <1>5, <1>6, <1>7, OwnOutput DEF TypeOK

LEMMA WriteOutputStep ==
  ASSUME Inv, NEW p \in Processes, NEW outcome \in Outcomes, WriteOutput(p, outcome)
  PROVE  Inv'
<1> DEFINE at == proc[p].at
           o == proc[p].out
           f == proc[p].profile
           next == IF outcome = "ok" THEN NextOutput(at) ELSE "cleanup"
           c == [proc[p] EXCEPT !.at = next]
<1>0. /\ TypeOK /\ at \in {"profile", "device", "bundle"} /\ Count(outcome) /\ Jump(p, next)
      /\ o \in OutDirs /\ outDirs[o] \in Output /\ outDirs[o].there
  BY Zenon DEF Inv, TypeOK, WriteOutput, OutInv, OutStages
<1>t. f \in Profiles /\ proc[p].device \in DeviceKeys \cup {NoKey} /\ proc[p].generation \in Nat
  BY Zenon, <1>0 DEF TypeOK, Command
<1>v. /\ at = "profile" => OutputValue(p) = f /\ NextOutput(at) = "device"
      /\ at = "device" => /\ OutputValue(p) = DeviceFile(f, proc[p].device, proc[p].generation)
                          /\ NextOutput(at) = "bundle"
      /\ at = "bundle" => OutputValue(p) = RecoveryFile(f) /\ NextOutput(at) = "key"
  BY DEF OutputValue, NextOutput, DeviceFile, RecoveryFile
<1>1. outcome \in {"ok", "before", "after"} /\ faults' \in Nat
  BY Zenon, <1>0, OutcomeCases
<1>2. next \in Stages /\ next \in OutStages /\ next \notin OwnerStages \cup DatabaseStages
  BY Zenon, <1>0, <1>v DEF Stages, OutStages, OwnerStages, DatabaseStages
<1>3. Becomes(p, c)
  BY Zenon, <1>0, <1>2, Jumped
<1>4. c.at = next /\ SameBootstrap(c, proc[p])
  BY <1>0 DEF TypeOK, Command, SameBootstrap
<1>5. /\ UNCHANGED <<manifest, records, torn, handles, signerOwner, database, restoreState,
                     bundles, reported, losses, deviceKeys, generations, delivered>>
      /\ outDirs' = IF outcome = "before" THEN outDirs
                    ELSE [outDirs EXCEPT ![o][at] = {OutputValue(p)}]
  BY Zenon DEF WriteOutput, dirVars, lockVars, backupVars, boundVars
<1>6. /\ outDirs' \in [OutDirs -> Output] /\ outDirs'[o].there
      /\ \A x \in OutDirs \ {o} : outDirs'[x] = outDirs[x]
      /\ outcome # "before" => outDirs'[o] = [outDirs[o] EXCEPT ![at] = {OutputValue(p)}]
  <2>1. CASE outcome = "before"
    BY Zenon, <1>0, <1>5, <2>1 DEF TypeOK
  <2>2. CASE outcome # "before"
    <3> DEFINE new == [outDirs[o] EXCEPT ![at] = {OutputValue(p)}]
    <3>1. new \in Output /\ new.there
      BY <1>0, <1>t, <1>v, FilesTyped DEF Output
    <3>2. outDirs' = [outDirs EXCEPT ![o] = new]
      BY Zenon, <1>0, <1>5, <2>2 DEF TypeOK
    <3> QED BY Zenon, <1>0, <3>1, <3>2 DEF TypeOK
  <2> QED BY Zenon, <2>1, <2>2
<1>7. Progress(proc[p])'
  <2>1. CASE outcome # "ok"
    BY <1>3, <1>4, <1>5, <2>1, <1>0 DEF Inv, ProgressInv, Progress, Becomes, SameBootstrap, OutStages
  <2>2. CASE outcome = "ok"
    <3>1. /\ outDirs'[o].profile = IF at = "profile" THEN {f} ELSE outDirs[o].profile
          /\ outDirs'[o].device = IF at = "device"
                THEN {DeviceFile(f, proc[p].device, proc[p].generation)} ELSE outDirs[o].device
          /\ outDirs'[o].bundle = IF at = "bundle" THEN {RecoveryFile(f)} ELSE outDirs[o].bundle
      <4>1. CASE at = "profile"
        <5>1. outDirs'[o] = [outDirs[o] EXCEPT !.profile = {f}]
          BY Zenon, <1>v, <1>6, <2>2, <4>1
        <5> QED BY ONLY <1>0, <4>1, <5>1 DEF Output
      <4>2. CASE at = "device"
        <5>1. outDirs'[o] = [outDirs[o] EXCEPT
                               !.device = {DeviceFile(f, proc[p].device, proc[p].generation)}]
          BY Zenon, <1>v, <1>6, <2>2, <4>2
        <5> QED BY ONLY <1>0, <4>2, <5>1 DEF Output
      <4>3. CASE at = "bundle"
        <5>1. outDirs'[o] = [outDirs[o] EXCEPT !.bundle = {RecoveryFile(f)}]
          BY Zenon, <1>v, <1>6, <2>2, <4>3
        <5> QED BY ONLY <1>0, <4>3, <5>1 DEF Output
      <4> QED BY Zenon, <1>0, <4>1, <4>2, <4>3
    <3>2. /\ f \in ValidProfiles /\ proc[p].device \in deviceKeys'
          /\ at \in {"device", "bundle"} => outDirs[o].profile = {f}
          /\ at = "bundle" =>
               outDirs[o].device = {DeviceFile(f, proc[p].device, proc[p].generation)}
      BY Zenon, <1>0, <1>5 DEF Inv, ProgressInv, Progress, OutStages
    <3>3. /\ proc'[p].out = o /\ proc'[p].profile = f /\ proc'[p].device = proc[p].device
          /\ proc'[p].generation = proc[p].generation /\ proc'[p].at = NextOutput(at)
      BY Zenon, <1>3, <1>4, <2>2 DEF Becomes, SameBootstrap
    <3>4. CASE at = "profile"
      BY Zenon, <1>v, <3>1, <3>2, <3>3, <3>4 DEF Progress
    <3>5. CASE at = "device"
      BY Zenon, <1>v, <3>1, <3>2, <3>3, <3>5 DEF Progress
    <3>6. CASE at = "bundle"
      BY Zenon, <1>v, <3>1, <3>2, <3>3, <3>6 DEF Progress
    <3> QED BY Zenon, <1>0, <3>4, <3>5, <3>6
  <2> QED BY Zenon, <2>1, <2>2
<1>8. proc[p].at \in OutStages \ OwnerStages
  BY Zenon, <1>0 DEF OutStages, OwnerStages
<1> HIDE DEF c, next, at, f
<1> QED BY Zenon, <1>1, <1>2, <1>3, <1>4, <1>5, <1>6, <1>7, <1>8, OwnOutput

LEMMA CleanupOutputsStep ==
  ASSUME Inv, NEW p \in Processes, CleanupOutputs(p)
  PROVE  Inv'
<1> DEFINE o == proc[p].out
           left == {x \in {"profile", "device", "bundle"} : outDirs[o][x] # {}}
           first == CHOOSE x \in left : /\ "profile" \in left => x = "profile"
                                        /\ "profile" \notin left /\ "device" \in left => x = "device"
<1>0. /\ TypeOK /\ proc[p].at = "cleanup" /\ o \in OutDirs /\ outDirs[o].there
      /\ proc[p].at \in OutStages \ OwnerStages /\ proc[p].at \notin DatabaseStages
      /\ proc[p].at # "idle"
  BY Zenon DEF Inv, CleanupOutputs, OutInv, OutStages, OwnerStages, DatabaseStages
<1>1. /\ UNCHANGED <<manifest, records, torn, handles, signerOwner, database, restoreState,
                     bundles, reported, losses, deviceKeys, generations, delivered, faults>>
      /\ IF left = {}
         THEN outDirs' = [outDirs EXCEPT ![o] = NoOutput] /\ proc' = [proc EXCEPT ![p] = Idle]
         ELSE outDirs' = [outDirs EXCEPT ![o][first] = {}] /\ UNCHANGED proc
  BY Zenon DEF CleanupOutputs, dirVars, lockVars, backupVars, boundVars
<1>t. faults' \in Nat /\ outDirs \in [OutDirs -> Output] /\ outDirs[o] \in Output
  BY Zenon, <1>0, <1>1 DEF TypeOK
<1>2. CASE left = {}
  <2>1. Becomes(p, Idle)
    BY Zenon, <1>0, <1>1, <1>2, Ended
  <2>2. /\ outDirs' \in [OutDirs -> Output]
        /\ \A x \in OutDirs \ {o} : outDirs'[x] = outDirs[x]
    <3>1. NoOutput \in Output
      BY Zenon DEF NoOutput, Output
    <3> QED BY Zenon, <1>0, <1>t, <1>1, <1>2, <3>1
  <2>3. Progress(proc[p])'
    BY Zenon, <2>1, IdleCommand DEF Progress, Becomes, OutStages
  <2> HIDE DEF left, first
  <2> QED BY Zenon, <1>0, <1>1, <1>t, <2>1, <2>2, <2>3, IdleCommand, StageClasses, OwnOutput
<1>3. CASE left # {}
  <2>1. Becomes(p, proc[p])
    BY Zenon, <1>0, <1>1, <1>3 DEF TypeOK, Becomes
  <2>2. first \in {"profile", "device", "bundle"}
    <3> DEFINE Q(x) == /\ "profile" \in left => x = "profile"
                       /\ "profile" \notin left /\ "device" \in left => x = "device"
    <3>1. \E x \in left : Q(x)
      BY Zenon, <1>3
    <3>2. first \in left
      <4> HIDE DEF left
      <4> QED BY Zenon, <3>1
    <3> QED BY Zenon, <3>2
  <2> HIDE DEF first
  <2>3. /\ outDirs' \in [OutDirs -> Output] /\ outDirs'[o].there
        /\ \A x \in OutDirs \ {o} : outDirs'[x] = outDirs[x]
    <3> DEFINE new == [outDirs[o] EXCEPT ![first] = {}]
    <3>1. new \in Output /\ new.there
      <4>1. CASE first = "profile"
        BY Zenon, <1>0, <1>t, <4>1 DEF Output
      <4>2. CASE first = "device"
        BY Zenon, <1>0, <1>t, <4>2 DEF Output
      <4>3. CASE first = "bundle"
        BY Zenon, <1>0, <1>t, <4>3 DEF Output
      <4> QED BY Zenon, <2>2, <4>1, <4>2, <4>3
    <3>2. outDirs' = [outDirs EXCEPT ![o] = new]
      BY Zenon, <1>1, <1>3, <1>t
    <3> QED BY Zenon, <1>0, <1>t, <3>1, <3>2
  <2>4. Progress(proc[p])'
    BY Zenon, <1>0, <1>1, <2>1 DEF Inv, ProgressInv, Progress, Becomes, OutStages
  <2>5. SameBootstrap(proc[p], proc[p])
    BY Zenon DEF SameBootstrap
  <2> HIDE DEF left
  <2> QED BY Zenon, <1>0, <1>1, <1>t, <2>1, <2>3, <2>4, <2>5, OwnOutput
<1> QED BY Zenon, <1>2, <1>3
-----------------------------------------------------------------------------
(* The data directory.                                                     *)

(* A command that has or takes the owner lock of the signer works alone on *)
(* the data directory.                                                     *)
LEMMA Exclusive ==
  ASSUME Inv, NEW p \in Processes, NEW c, Becomes(p, c),
         signerOwner \in {{}, {p}},
         c.at \in OwnerStages => signerOwner' = {p},
         c.at \in DatabaseStages => database' = {p},
         database' = database \/ database \in {{}, {p}},
         c.at \in CreatingStages => manifest' = {},
         PendingOf(p)'
  PROVE  LockInv' /\ EmptyInv' /\ PendingInv'
<1>1. ASSUME NEW q \in Processes, q # p
      PROVE  /\ proc'[q] = proc[q] /\ proc[q].at \notin OwnerStages
             /\ proc[q].at \in DatabaseStages => database' = {q}
  BY Zenon, <1>1 DEF Inv, LockInv, Becomes
<1>2. LockInv'
  BY Zenon, <1>1 DEF LockInv, Becomes
<1>3. EmptyInv'
  BY Zenon, <1>1, StageClasses DEF EmptyInv, Becomes
<1>4. ASSUME NEW q \in Processes PROVE PendingOf(q)'
  BY <1>1, StageClasses DEF PendingOf
<1> QED BY Zenon, <1>2, <1>3, <1>4 DEF PendingInv

LEMMA BundlesKept ==
  ASSUME Inv, NEW p \in Processes, NEW c, Becomes(p, c), UNCHANGED bundles,
         c.at \in RestoringStages \cup {"export", "attach"} => c.backup \in Backups
  PROVE  BundleInv'
BY Zenon DEF Inv, BundleInv, Becomes

(* The reported signer stays as long as the directory keeps its manifest   *)
(* and every record.                                                       *)
LEMMA SignerKept ==
  ASSUME Inv, NEW p \in Processes, NEW c, Becomes(p, c),
         UNCHANGED <<manifest, torn, reported, losses, restoreState>>, records \subseteq records',
         c.at \in RestoringStages => proc[p].at \in RestoringStages
  PROVE  RestoreInv'
BY Zenon DEF Inv, RestoreInv, Installed, Becomes

(* No signer was reported where there is none, unless it was lost.         *)
LEMMA NothingReported ==
  ASSUME Inv, manifest = {}, losses = 0, restoreState = "normal"
  PROVE  reported = {}
BY Zenon DEF Inv, RestoreInv, Installed

(* A record is stored under a fresh handle.                                *)
LEMMA PutStored ==
  ASSUME Inv, NEW p \in Processes, NEW payload, IsPayload(payload),
         NEW outcome \in Outcomes, PutRecord(p, payload, outcome),
         UNCHANGED <<manifest, torn>>
  PROVE  /\ StoreInv' /\ records \subseteq records' /\ handles' \in Nat /\ handles' = handles + 1
         /\ faults' \in Nat
         /\ outcome = "ok" => /\ [handle |-> handles + 1, payload |-> payload] \in records'
                              /\ \A m \in manifest' : m.handle # handles + 1
<1>1. handles \in Nat /\ TypeOK /\ StoreInv
  BY Zenon DEF Inv, TypeOK
<1>2. outcome \in {"ok", "before", "after"} /\ faults' \in Nat
  BY Zenon, <1>1, OutcomeCases DEF PutRecord
<1> DEFINE new == [handle |-> handles + 1, payload |-> payload]
<1>3. /\ handles' = handles + 1
      /\ records' = IF outcome = "before" THEN records ELSE records \cup {new}
  BY Zenon DEF PutRecord
<1>4. new.handle = handles + 1 /\ new.payload = payload
  BY Zenon
<1>5. \A m \in manifest' : m.handle # handles + 1
  BY <1>1 DEF StoreInv
<1>6. \A x \in records : x.handle \in Nat /\ x.handle <= handles
  BY Zenon, <1>1 DEF StoreInv
<1>7. \A x \in records' : /\ x = [handle |-> x.handle, payload |-> x.payload]
                           /\ x.handle \in Nat /\ x.handle <= handles'
                           /\ IsPayload(x.payload)
  BY <1>1, <1>3 DEF StoreInv
<1>8. \A x, y \in records' : x.handle = y.handle => x = y
  <2> HIDE DEF new
  <2>1. \A x \in records : x.handle # new.handle
    BY <1>1, <1>4, <1>6
  <2> QED BY Zenon, <1>1, <1>3, <2>1 DEF StoreInv
<1> HIDE DEF new
<1>9. /\ \A m, n \in manifest' : m = n
      /\ \A m \in manifest' : m.handle \in Nat /\ m.handle <= handles'
      /\ ~torn' => \A m \in manifest' : \E x \in records' :
                  x.handle = m.handle /\ m = ManifestOf(x.payload, m.handle)
  BY <1>1, <1>3 DEF StoreInv
<1>10. StoreInv'
  BY Zenon, <1>7, <1>8, <1>9 DEF StoreInv
<1> QED BY <1>1, <1>2, <1>3, <1>5, <1>10 DEF new

(* A manifest is written for a record that is there; when the write fails  *)
(* only that record goes.                                                  *)
LEMMA ManifestWritten ==
  ASSUME Inv, NEW p \in Processes, NEW payload, Pending(proc[p], payload),
         NEW outcome \in Outcomes, WriteManifest(p, payload, outcome), UNCHANGED handles
  PROVE  /\ StoreInv' /\ faults' \in Nat /\ outcome \in {"ok", "before", "after"}
         /\ outcome = "ok" => /\ records' = records /\ torn' = FALSE
                              /\ manifest' = {ManifestOf(payload, proc[p].handle)}
<1> DEFINE h == proc[p].handle
           x0 == [handle |-> h, payload |-> payload]
           m0 == ManifestOf(payload, h)
<1>1. TypeOK /\ StoreInv
  BY Zenon DEF Inv
<1>2. outcome \in {"ok", "before", "after"} /\ faults' \in Nat
  BY Zenon, <1>1, OutcomeCases DEF WriteManifest
<1>3. /\ manifest' = IF outcome = "before" THEN manifest ELSE {m0}
      /\ records' = IF outcome = "ok" THEN records ELSE {r \in records : r.handle # h}
      /\ torn' = IF outcome = "before" THEN torn ELSE outcome = "after"
  BY Zenon DEF WriteManifest, DropRecord
<1>4. /\ m0.handle = h /\ h \in Nat /\ h <= handles /\ \A m \in manifest : m.handle # h
      /\ x0 \in records /\ x0.handle = h /\ x0.payload = payload
  BY Zenon DEF Pending, ManifestOf
<1>5. /\ \A x \in records' : /\ x = [handle |-> x.handle, payload |-> x.payload]
                             /\ x.handle \in Nat /\ x.handle <= handles'
                             /\ IsPayload(x.payload)
      /\ \A x, y \in records' : x.handle = y.handle => x = y
  BY Zenon, <1>1, <1>3 DEF StoreInv
<1> HIDE DEF x0
<1>6. ~torn' => \A m \in manifest' : \E x \in records' :
                  x.handle = m.handle /\ m = ManifestOf(x.payload, m.handle)
  <2>1. CASE outcome = "before"
    BY Zenon, <1>1, <1>3, <1>4, <2>1 DEF StoreInv
  <2>2. CASE outcome # "before"
    BY Zenon, <1>2, <1>3, <1>4, <2>2
  <2> QED BY Zenon, <2>1, <2>2
<1>7. /\ \A m, n \in manifest' : m = n
      /\ \A m \in manifest' : m.handle \in Nat /\ m.handle <= handles'
  <2> HIDE DEF m0
  <2> QED BY Zenon, <1>1, <1>3, <1>4 DEF StoreInv
<1>8. StoreInv'
  BY Zenon, <1>5, <1>6, <1>7 DEF StoreInv
<1> QED BY Zenon, <1>2, <1>3, <1>8

LEMMA InstallStep ==
  ASSUME Inv, NEW p \in Processes, Install(p)
  PROVE  Inv'
<1>0. TypeOK /\ proc[p].at = "install"
  BY Zenon DEF Inv, Install
<1>1. UNCHANGED <<manifest, records, torn, handles, database, restoreState, outDirs, delivered,
                  deviceKeys, reported, bundles, generations, losses, faults>>
  BY Zenon DEF Install, outVars, backupVars, boundVars
<1>2. CASE Jump(p, "cleanup") /\ UNCHANGED signerOwner
  <2> DEFINE c == [proc[p] EXCEPT !.at = "cleanup"]
  <2>1. Becomes(p, c)
    BY Zenon, <1>0, <1>2, Jumped DEF Stages, OutStages
  <2>2. c.at = "cleanup" /\ SameBootstrap(c, proc[p])
    BY Zenon, <1>0 DEF TypeOK, Command, SameBootstrap
  <2> HIDE DEF c
  <2>3. LockInv' /\ EmptyInv' /\ StoreInv' /\ PendingInv' /\ BundleInv' /\ RestoreInv'
    BY Zenon, <1>1, <1>2, <2>1, <2>2, Unlocked DEF OwnerStages, DatabaseStages
  <2>4. OutInv' /\ ProgressInv' /\ ReportInv'
    BY Zenon, <1>0, <1>1, <2>1, <2>2, OutputsKept DEF OutStages
  <2>5. TypeOK'
    BY Zenon, <1>0, <1>1, <2>1 DEF TypeOK, Becomes
  <2> QED BY <2>3, <2>4, <2>5 DEF Inv
<1>3. CASE signerOwner = {} /\ manifest = {} /\ Jump(p, "put") /\ signerOwner' = {p}
  <2> DEFINE c == [proc[p] EXCEPT !.at = "put"]
  <2>1. Becomes(p, c)
    BY Zenon, <1>0, <1>3, Jumped DEF Stages, OutStages
  <2>2. c.at = "put" /\ SameBootstrap(c, proc[p])
    BY Zenon, <1>0 DEF TypeOK, Command, SameBootstrap
  <2> HIDE DEF c
  <2>3. PendingOf(p)'
    BY Zenon, <2>1, <2>2 DEF PendingOf, Becomes
  <2>4. LockInv' /\ EmptyInv' /\ PendingInv'
    BY Zenon, <1>1, <1>3, <2>1, <2>2, <2>3, Exclusive DEF DatabaseStages
  <2>5. BundleInv' /\ RestoreInv'
    BY Zenon, <1>1, <2>1, <2>2, BundlesKept, SignerKept DEF RestoringStages
  <2>6. OutInv' /\ ProgressInv' /\ ReportInv'
    BY Zenon, <1>0, <1>1, <2>1, <2>2, OutputsKept DEF OutStages
  <2>7. TypeOK' /\ StoreInv'
    BY Zenon, <1>0, <1>1, <2>1 DEF Inv, TypeOK, StoreInv, Becomes
  <2> QED BY Zenon, <2>4, <2>5, <2>6, <2>7 DEF Inv
<1> QED BY Zenon, <1>2, <1>3 DEF Install
LEMMA PayloadShape ==
  /\ \A f \in ValidProfiles : IsPayload(Payload(f, 1, TRUE))
  /\ \A f \in ValidProfiles, s \in 1 .. 3 : IsPayload(Payload(f, s, FALSE))
<1>1. ASSUME NEW f \in ValidProfiles PROVE IsPayload(Payload(f, 1, TRUE))
  <2>1. 1 \in 1 .. 3 /\ TRUE \in BOOLEAN
    OBVIOUS
  <2> QED BY Zenon, <2>1 DEF IsPayload
<1>2. ASSUME NEW f \in ValidProfiles, NEW s \in 1 .. 3 PROVE IsPayload(Payload(f, s, FALSE))
  BY Zenon DEF IsPayload
<1> QED BY Zenon, <1>1, <1>2

LEMMA InstallPutStep ==
  ASSUME Inv, NEW p \in Processes, NEW outcome \in Outcomes, InstallPut(p, outcome)
  PROVE  Inv'
<1>0. TypeOK /\ proc[p].at = "put" /\ handles \in Nat /\ signerOwner = {p} /\ manifest = {}
  BY Zenon DEF Inv, TypeOK, InstallPut, LockInv, EmptyInv, OwnerStages, CreatingStages
<1>1. /\ UNCHANGED <<manifest, torn, database, restoreState, outDirs, delivered, deviceKeys,
                     reported, bundles, generations, losses>>
      /\ PutRecord(p, WalletPayload(p), outcome)
  BY Zenon DEF InstallPut, outVars, backupVars, boundVars
<1>2. IsPayload(WalletPayload(p))
  <2>1. proc[p].profile \in ValidProfiles
    BY Zenon, <1>0 DEF Inv, ProgressInv, Progress, OutStages
  <2> QED BY Zenon, <2>1, PayloadShape DEF WalletPayload
<1>3. /\ StoreInv' /\ records \subseteq records' /\ handles' \in Nat /\ handles' = handles + 1
      /\ faults' \in Nat
      /\ outcome = "ok" => /\ [handle |-> handles + 1, payload |-> WalletPayload(p)] \in records'
                           /\ \A m \in manifest' : m.handle # handles + 1
  BY Zenon, <1>1, <1>2, PutStored
<1> DEFINE c == IF outcome = "ok" THEN [proc[p] EXCEPT !.at = "manifest", !.handle = handles + 1]
                                  ELSE [proc[p] EXCEPT !.at = "cleanup"]
<1>4. Becomes(p, c) /\ signerOwner' = IF outcome = "ok" THEN {p} ELSE {}
  <2>1. CASE outcome = "ok"
    <3>1. Becomes(p, [proc[p] EXCEPT !.at = "manifest", !.handle = handles + 1])
      <4>1. proc' = [proc EXCEPT ![p].at = "manifest", ![p].handle = handles + 1]
        BY Zenon, <2>1 DEF InstallPut
      <4>2. "manifest" \in Stages /\ handles + 1 \in Nat
        BY <1>0 DEF Stages, OutStages
      <4> QED BY Zenon, <1>0, <4>1, <4>2, Stored
    <3> QED BY Zenon, <1>0, <2>1, <3>1 DEF InstallPut
  <2>2. CASE outcome # "ok"
    <3>1. Becomes(p, [proc[p] EXCEPT !.at = "cleanup"])
      BY Zenon, <1>0, <2>2, Jumped DEF InstallPut, Stages, OutStages
    <3> QED BY Zenon, <2>2, <3>1 DEF InstallPut
  <2> QED BY Zenon, <2>1, <2>2
<1>5. /\ c.at = IF outcome = "ok" THEN "manifest" ELSE "cleanup"
      /\ SameBootstrap(c, proc[p])
      /\ outcome = "ok" => c.handle = handles + 1
  BY Zenon, <1>0 DEF TypeOK, Command, SameBootstrap
<1> HIDE DEF c
<1>6. PendingOf(p)'
  <2>1. proc'[p] = c /\ WalletPayload(p)' = WalletPayload(p)
    BY Zenon, <1>4, <1>5 DEF Becomes, SameBootstrap, WalletPayload
  <2>2. outcome = "ok" => Pending(proc[p], WalletPayload(p))'
    BY <1>0, <1>3, <1>5, <2>1 DEF Pending
  <2> QED BY Zenon, <1>5, <2>1, <2>2 DEF PendingOf
<1>7. LockInv' /\ EmptyInv' /\ PendingInv'
  BY Zenon, <1>0, <1>1, <1>4, <1>5, <1>6, Exclusive DEF DatabaseStages, OwnerStages
<1>8. BundleInv' /\ RestoreInv'
  BY Zenon, <1>1, <1>3, <1>4, <1>5, BundlesKept, SignerKept DEF RestoringStages
<1>9. OutInv' /\ ProgressInv' /\ ReportInv'
  BY Zenon, <1>0, <1>1, <1>4, <1>5, OutputsKept DEF OutStages
<1>10. TypeOK'
  BY Zenon, <1>0, <1>1, <1>3, <1>4 DEF TypeOK, Becomes
<1> QED BY Zenon, <1>3, <1>7, <1>8, <1>9, <1>10 DEF Inv

LEMMA InstallManifestStep ==
  ASSUME Inv, NEW p \in Processes, NEW outcome \in Outcomes, InstallManifest(p, outcome)
  PROVE  Inv'
<1> DEFINE h == proc[p].handle
           c == IF outcome = "ok" THEN Idle ELSE [proc[p] EXCEPT !.at = "cleanup"]
<1>f. PICK f, report :
        /\ f = proc[p].profile
        /\ report = [profile |-> proc[p].profile, out |-> proc[p].out,
                     config |-> [key |-> proc[p].device, generation |-> proc[p].generation]]
  BY Zenon
<1>0. TypeOK /\ proc[p].at = "manifest" /\ signerOwner = {p} /\ manifest = {}
  BY Zenon DEF Inv, InstallManifest, LockInv, EmptyInv, OwnerStages, CreatingStages
<1>1. /\ UNCHANGED <<handles, database, restoreState, outDirs, delivered, deviceKeys, bundles,
                     generations, losses>>
      /\ WriteManifest(p, WalletPayload(p), outcome) /\ signerOwner' = {}
      /\ reported' = IF outcome = "ok" THEN reported \cup {report} ELSE reported
  BY Zenon, <1>f DEF InstallManifest, backupVars, boundVars
<1>2. Pending(proc[p], WalletPayload(p))
  BY Zenon, <1>0 DEF Inv, PendingInv, PendingOf
<1>3. /\ StoreInv' /\ faults' \in Nat
      /\ outcome = "ok" => /\ records' = records /\ torn' = FALSE
                           /\ manifest' = {ManifestOf(WalletPayload(p), h)}
  BY Zenon, <1>1, <1>2, ManifestWritten
<1>4. Becomes(p, c)
  <2>1. CASE outcome = "ok"
    BY Zenon, <1>0, <2>1, Ended DEF InstallManifest
  <2>2. CASE outcome # "ok"
    BY Zenon, <1>0, <2>2, Jumped DEF InstallManifest, Stages, OutStages
  <2> QED BY Zenon, <2>1, <2>2
<1>5. /\ c.at = IF outcome = "ok" THEN "idle" ELSE "cleanup"
      /\ outcome # "ok" => SameBootstrap(c, proc[p])
  BY Zenon, <1>0, IdleCommand DEF TypeOK, Command, SameBootstrap
<1> HIDE DEF c
<1>6. PendingOf(p)'
  BY Zenon, <1>4, <1>5 DEF PendingOf, Becomes
<1>7. LockInv' /\ EmptyInv' /\ PendingInv'
  BY Zenon, <1>0, <1>1, <1>4, <1>5, <1>6, Exclusive DEF DatabaseStages, OwnerStages, CreatingStages
<1>8. BundleInv'
  BY Zenon, <1>1, <1>4, <1>5, BundlesKept DEF RestoringStages
<1>r. /\ report.profile = f /\ report.out = proc[p].out /\ report.config.key = proc[p].device
      /\ report.config.generation = proc[p].generation
  BY Zenon, <1>f
<1>i. outcome = "ok" => Installed(f)'
  <2>1. ManifestOf(WalletPayload(p), h) = [profile |-> f, signer |-> 1, handle |-> h]
    BY Zenon, <1>f DEF ManifestOf, WalletPayload, Payload
  <2>2. /\ h \in Nat
        /\ outcome = "ok" => [handle |-> h, payload |-> Payload(f, 1, TRUE)] \in records'
    BY Zenon, <1>f, <1>2, <1>3 DEF Pending, WalletPayload
  <2>3. outcome = "ok" => \E k \in Nat :
          /\ manifest' = {[profile |-> f, signer |-> 1, handle |-> k]}
          /\ [handle |-> k, payload |-> Payload(f, 1, TRUE)] \in records'
    BY Zenon, <1>3, <2>1, <2>2
  <2> QED BY Zenon, <1>3, <2>3 DEF Installed
<1>9. RestoreInv'
  <2>1. \A q \in Processes : proc'[q].at \in RestoringStages => restoreState' = "recovering"
    BY Zenon, <1>1, <1>4, <1>5 DEF Inv, RestoreInv, RestoringStages, Becomes
  <2>2. ASSUME losses' = 0, restoreState' = "normal", NEW r \in reported'
        PROVE  Installed(r.profile)'
    <3>1. reported = {}
      BY Zenon, <1>0, <1>1, <2>2, NothingReported
    <3>2. outcome = "ok" /\ r = report
      BY Zenon, <1>1, <2>2, <3>1
    <3> QED BY Zenon, <1>i, <1>r, <3>2
  <2> QED BY Zenon, <2>1, <2>2 DEF RestoreInv
<1>10. ReportInv'
  <2>1. Kept(report)
    BY Zenon, <1>0, <1>f, <1>r DEF Inv, ProgressInv, Progress, OutInv, OutStages, Kept
  <2>2. \A r \in reported : Kept(r)'
    BY Zenon, <1>1 DEF Inv, ReportInv, Kept
  <2>3. Kept(report)'
    BY Zenon, <1>1, <2>1 DEF Kept
  <2> QED BY Zenon, <1>1, <2>2, <2>3 DEF ReportInv
<1>11. ProgressInv'
  <2>1. ASSUME NEW q \in Processes, q # p PROVE Progress(proc[q])'
    BY Zenon, <2>1, <1>1, <1>4 DEF Inv, ProgressInv, Progress, Becomes
  <2>2. Progress(proc[p])'
    BY Zenon, <1>0, <1>1, <1>4, <1>5 DEF Inv, ProgressInv, Progress, Becomes, SameBootstrap, OutStages
  <2> QED BY Zenon, <2>1, <2>2 DEF ProgressInv
<1>13. OutInv'
  <2>1. CASE outcome = "ok"
    <3>1. ASSUME NEW q \in Processes, q # p, proc[q].at \in OutStages
          PROVE  proc[q].out # report.out
      BY Zenon, <1>0, <1>r, <3>1 DEF Inv, OutInv, OutStages
    <3>2. proc'[p].at = "idle" /\ \A q \in Processes \ {p} : proc'[q] = proc[q]
      BY Zenon, <1>4, <1>5, <2>1 DEF Becomes
    <3>3. reported' = reported \cup {report}
      BY Zenon, <1>1, <2>1
    <3> QED BY <1>1, <3>1, <3>2, <3>3, StageClasses DEF Inv, OutInv
  <2>2. CASE outcome # "ok"
    BY <1>0, <1>1, <1>4, <1>5, <2>2 DEF Inv, OutInv, Becomes, SameBootstrap, OutStages
  <2> QED BY Zenon, <2>1, <2>2
<1>12. TypeOK'
  BY Zenon, <1>0, <1>1, <1>3, <1>4 DEF TypeOK, Becomes
<1> QED BY Zenon, <1>3, <1>7, <1>8, <1>9, <1>10, <1>11, <1>12, <1>13 DEF Inv
-----------------------------------------------------------------------------
LEMMA InvStutters ==
  ASSUME Inv, UNCHANGED <<manifest, records, torn, handles, signerOwner, database, restoreState,
                          outDirs, delivered, deviceKeys, reported, bundles, proc, generations,
                          losses, faults>>
  PROVE  Inv'
<1>1. TypeOK' /\ LockInv' /\ EmptyInv' /\ OutInv' /\ StoreInv' /\ BundleInv'
  BY Zenon DEF Inv, TypeOK, LockInv, EmptyInv, OutInv, StoreInv, BundleInv
<1>2. ProgressInv'
  BY Zenon DEF Inv, ProgressInv, Progress
<1>3. ReportInv'
  BY Zenon DEF Inv, ReportInv, Kept
<1>4. PendingInv'
  BY DEF Inv, PendingInv, PendingOf, Pending, WalletPayload, InitPayload, Attachment
<1>5. RestoreInv'
  BY Zenon DEF Inv, RestoreInv, Installed
<1> QED BY Zenon, <1>1, <1>2, <1>3, <1>4, <1>5 DEF Inv

(* A command ends, by itself or by a crash, and gives up its locks.        *)

LEMMA ReleaseStep ==
  ASSUME Inv, NEW p \in Processes, proc' = [proc EXCEPT ![p] = Idle], Release(p), faults' \in Nat,
         UNCHANGED <<dirVars, restoreState, outVars, backupVars, boundVars>>
  PROVE  Inv'
<1>0. TypeOK
  BY Zenon DEF Inv
<1>1. /\ UNCHANGED <<manifest, records, torn, handles, restoreState, outDirs, delivered,
                     deviceKeys, reported, bundles, generations, losses>>
      /\ signerOwner' = signerOwner \ {p} /\ database' = database \ {p}
  BY Zenon DEF dirVars, outVars, backupVars, boundVars, Release
<1>2. Becomes(p, Idle)
  BY Zenon, <1>0, Ended
<1>3. LockInv' /\ EmptyInv' /\ StoreInv' /\ PendingInv' /\ BundleInv' /\ RestoreInv'
  BY Zenon, <1>1, <1>2, IdleCommand, StageClasses, Unlocked
<1>4. OutInv' /\ ProgressInv' /\ ReportInv'
  BY Zenon, <1>1, <1>2, IdleCommand, StageClasses, OutputsKept
<1>5. TypeOK'
  BY Zenon, <1>0, <1>1, <1>2 DEF TypeOK, Becomes
<1> QED BY Zenon, <1>3, <1>4, <1>5 DEF Inv

LEMMA StopSignerStep ==
  ASSUME Inv, NEW p \in Processes, StopSigner(p)
  PROVE  Inv'
BY Zenon, ReleaseStep DEF StopSigner, Inv, TypeOK

LEMMA CustodyCrashStep ==
  ASSUME Inv, NEW p \in Processes, CustodyCrash(p)
  PROVE  Inv'
<1>1. faults \in Nat /\ faults' = faults + 1
  BY Zenon DEF CustodyCrash, Inv, TypeOK
<1>2. faults' \in Nat
  BY <1>1
<1> QED BY Zenon, <1>2, ReleaseStep DEF CustodyCrash

(* A new data directory takes the place of a lost one.                     *)
LEMMA LoseDataDirectoryStep ==
  ASSUME Inv, LoseDataDirectory
  PROVE  Inv'
<1>1. /\ \A p \in Processes : proc[p].at = "idle"
      /\ losses' = 1 /\ manifest' = {} /\ records' = {} /\ torn' = FALSE
      /\ UNCHANGED <<signerOwner, database, outDirs, delivered, deviceKeys, reported, bundles,
                     proc, generations, handles, faults>>
  BY Zenon DEF LoseDataDirectory, outVars, backupVars
<1>2. TypeOK' /\ StoreInv'
  BY Zenon, <1>1 DEF Inv, TypeOK, StoreInv
<1>3. LockInv' /\ EmptyInv' /\ OutInv'
  BY Zenon, <1>1 DEF Inv, LockInv, EmptyInv, OutInv
<1>4. ProgressInv'
  BY Zenon, <1>1 DEF Inv, ProgressInv, Progress
<1>5. ReportInv'
  BY Zenon, <1>1 DEF Inv, ReportInv, Kept
<1>6. PendingInv' /\ RestoreInv'
  BY <1>1 DEF PendingInv, PendingOf, RestoreInv, RestoringStages
<1>7. BundleInv'
  BY Zenon, <1>1 DEF Inv, BundleInv
<1> QED BY Zenon, <1>2, <1>3, <1>4, <1>5, <1>6, <1>7 DEF Inv

-----------------------------------------------------------------------------
(* wallet serve and wallet signer init.                                    *)

LEMMA OpenDurableSignerStep ==
  ASSUME Inv, NEW p \in Processes, NEW kind, NEW s \in 1 .. 3, OpenDurableSigner(p, kind, s)
  PROVE  Inv'
<1>0. TypeOK /\ proc[p].at = "idle" /\ signerOwner = {} /\ database = {} /\ generations \in Nat
  BY Zenon DEF Inv, TypeOK, OpenDurableSigner
<1>1. UNCHANGED <<manifest, records, torn, handles, restoreState, outDirs, delivered, deviceKeys,
                  reported, bundles, losses, faults>>
  BY Zenon DEF OpenDurableSigner, outVars, backupVars
<1>2. CASE UNCHANGED <<signerOwner, database, proc, generations>>
  BY Zenon, <1>1, <1>2, InvStutters
<1>3. ASSUME NEW c \in Command, proc' = [proc EXCEPT ![p] = c], generations' \in Nat,
             signerOwner' = {p}, database' = {p},
             \/ c.at = "serving"
             \/ /\ c.at = "initPut" /\ manifest = {}
                /\ c.profile \in ValidProfiles /\ c.signer \in 1 .. 3
      PROVE  Inv'
  <2>1. Becomes(p, c)
    BY Zenon, <1>0, <1>3, Replaced
  <2>2. PendingOf(p)'
    BY Zenon, <1>3, <2>1 DEF PendingOf, Becomes
  <2>3. LockInv' /\ EmptyInv' /\ PendingInv'
    BY Zenon, <1>0, <1>1, <1>3, <2>1, <2>2, Exclusive DEF CreatingStages
  <2>4. BundleInv' /\ RestoreInv'
    BY Zenon, <1>1, <1>3, <2>1, BundlesKept, SignerKept DEF RestoringStages
  <2>5. OutInv' /\ ProgressInv' /\ ReportInv'
    BY Zenon, <1>1, <1>3, <2>1, OutputsKept DEF OutStages
  <2>6. TypeOK' /\ StoreInv'
    BY Zenon, <1>0, <1>1, <1>3, <2>1 DEF Inv, TypeOK, StoreInv, Becomes
  <2> QED BY Zenon, <2>3, <2>4, <2>5, <2>6 DEF Inv
<1>4. CASE /\ signerOwner' = {p} /\ database' = {p} /\ UNCHANGED generations
           /\ proc' = [proc EXCEPT ![p] = [Idle EXCEPT !.at = "serving", !.signer = s]]
  <2> DEFINE c == [Idle EXCEPT !.at = "serving", !.signer = s]
  <2>1. c \in Command /\ c.at = "serving"
    <3>1. "serving" \in Stages /\ s \in 0 .. 3
      BY DEF Stages, OwnerStages
    <3> QED BY Zenon, <3>1, IdleCommand DEF Command
  <2>2. proc' = [proc EXCEPT ![p] = c]
    BY Zenon, <1>4
  <2> HIDE DEF c
  <2> QED BY Zenon, <1>0, <1>3, <1>4, <2>1, <2>2
<1>5. CASE /\ signerOwner' = {p} /\ database' = {p} /\ generations' = generations + 1
           /\ manifest = {}
           /\ proc' = [proc EXCEPT ![p] = [Idle EXCEPT !.at = "initPut", !.signer = s,
                                    !.profile = Profile(Authority, 1, generations + 1)]]
  <2> DEFINE f == Profile(Authority, 1, generations + 1)
             c == [Idle EXCEPT !.at = "initPut", !.signer = s, !.profile = f]
  <2>1. f \in Profiles /\ f \in ValidProfiles
    BY <1>0, CustodyAssumption DEF Profile, Profiles, ValidProfiles
  <2>2. c \in Command /\ c.at = "initPut" /\ c.profile = f /\ c.signer = s
    <3>1. "initPut" \in Stages /\ s \in 0 .. 3
      BY DEF Stages, OwnerStages
    <3> HIDE DEF f
    <3> QED BY Zenon, <2>1, <3>1, IdleCommand DEF Command
  <2>3. proc' = [proc EXCEPT ![p] = c]
    BY Zenon, <1>5
  <2>4. generations' \in Nat
    BY <1>0, <1>5
  <2> HIDE DEF c, f
  <2>5. c.profile \in ValidProfiles /\ c.signer \in 1 .. 3
    BY Zenon, <2>1, <2>2
  <2> QED BY Zenon, <1>3, <1>5, <2>2, <2>3, <2>4, <2>5
<1> QED BY Zenon, <1>2, <1>4, <1>5 DEF OpenDurableSigner

LEMMA InitializePutStep ==
  ASSUME Inv, NEW p \in Processes, NEW outcome \in Outcomes, InitializePut(p, outcome)
  PROVE  Inv'
<1>0. /\ TypeOK /\ proc[p].at = "initPut" /\ handles \in Nat /\ signerOwner = {p}
      /\ database = {p} /\ manifest = {}
      /\ proc[p].profile \in ValidProfiles /\ proc[p].signer \in 1 .. 3
  BY Zenon DEF Inv, TypeOK, InitializePut, LockInv, EmptyInv, OwnerStages, DatabaseStages, CreatingStages,
         PendingInv, PendingOf
<1>1. /\ UNCHANGED <<manifest, torn, restoreState, outDirs, delivered, deviceKeys, reported,
                     bundles, generations, losses>>
      /\ PutRecord(p, InitPayload(p), outcome)
  BY Zenon DEF InitializePut, outVars, backupVars, boundVars
<1>2. IsPayload(InitPayload(p))
  BY Zenon, <1>0, PayloadShape DEF InitPayload
<1>3. /\ StoreInv' /\ records \subseteq records' /\ handles' \in Nat /\ handles' = handles + 1
      /\ faults' \in Nat
      /\ outcome = "ok" => /\ [handle |-> handles + 1, payload |-> InitPayload(p)] \in records'
                           /\ \A m \in manifest' : m.handle # handles + 1
  BY Zenon, <1>1, <1>2, PutStored
<1> DEFINE c == IF outcome = "ok"
                THEN [proc[p] EXCEPT !.at = "initManifest", !.handle = handles + 1] ELSE Idle
<1>4. /\ Becomes(p, c)
      /\ signerOwner' = IF outcome = "ok" THEN {p} ELSE {}
      /\ database' = IF outcome = "ok" THEN {p} ELSE {}
  <2>1. CASE outcome = "ok"
    <3>1. proc' = [proc EXCEPT ![p].at = "initManifest", ![p].handle = handles + 1]
      BY Zenon, <2>1 DEF InitializePut
    <3>2. "initManifest" \in Stages /\ handles + 1 \in Nat
      BY <1>0 DEF Stages, OwnerStages
    <3>3. Becomes(p, [proc[p] EXCEPT !.at = "initManifest", !.handle = handles + 1])
      BY Zenon, <1>0, <3>1, <3>2, Stored
    <3> QED BY Zenon, <1>0, <2>1, <3>3 DEF InitializePut
  <2>2. CASE outcome # "ok"
    BY Zenon, <1>0, <2>2, Ended DEF InitializePut, Release
  <2> QED BY Zenon, <2>1, <2>2
<1>5. /\ c.at = IF outcome = "ok" THEN "initManifest" ELSE "idle"
      /\ outcome = "ok" => /\ c.profile = proc[p].profile /\ c.signer = proc[p].signer
                           /\ c.handle = handles + 1
  BY Zenon, <1>0, IdleCommand DEF TypeOK, Command
<1> HIDE DEF c
<1>6. PendingOf(p)'
  <2>1. proc'[p] = c /\ (outcome = "ok" => InitPayload(p)' = InitPayload(p))
    BY Zenon, <1>4, <1>5 DEF Becomes, InitPayload
  <2>2. outcome = "ok" => Pending(proc[p], InitPayload(p))'
    BY <1>0, <1>3, <1>5, <2>1 DEF Pending
  <2> QED BY Zenon, <1>0, <1>5, <2>1, <2>2 DEF PendingOf
<1>7. LockInv' /\ EmptyInv' /\ PendingInv'
  BY Zenon, <1>0, <1>1, <1>4, <1>5, <1>6, Exclusive DEF DatabaseStages, OwnerStages
<1>8. BundleInv' /\ RestoreInv'
  BY Zenon, <1>1, <1>3, <1>4, <1>5, BundlesKept, SignerKept DEF RestoringStages
<1>9. OutInv' /\ ProgressInv' /\ ReportInv'
  BY Zenon, <1>0, <1>1, <1>4, <1>5, OutputsKept DEF OutStages
<1>10. TypeOK'
  BY Zenon, <1>0, <1>1, <1>3, <1>4 DEF TypeOK, Becomes
<1> QED BY <1>3, <1>7, <1>8, <1>9, <1>10 DEF Inv

LEMMA InitializeManifestStep ==
  ASSUME Inv, NEW p \in Processes, NEW outcome \in Outcomes, InitializeManifest(p, outcome)
  PROVE  Inv'
<1> DEFINE c == IF outcome = "ok"
                THEN [Idle EXCEPT !.at = "serving", !.signer = proc[p].signer] ELSE Idle
<1>0. TypeOK /\ proc[p].at = "initManifest" /\ signerOwner = {p} /\ database = {p} /\ manifest = {}
  BY Zenon DEF Inv, InitializeManifest, LockInv, EmptyInv, OwnerStages, DatabaseStages, CreatingStages
<1>1. /\ UNCHANGED <<handles, restoreState, outDirs, delivered, deviceKeys, reported, bundles,
                     generations, losses>>
      /\ WriteManifest(p, InitPayload(p), outcome)
  BY Zenon DEF InitializeManifest, outVars, backupVars, boundVars
<1>2. Pending(proc[p], InitPayload(p))
  BY Zenon, <1>0 DEF Inv, PendingInv, PendingOf
<1>3. StoreInv' /\ faults' \in Nat
  BY Zenon, <1>1, <1>2, ManifestWritten
<1>4. /\ Becomes(p, c) /\ c.at = IF outcome = "ok" THEN "serving" ELSE "idle"
      /\ signerOwner' = IF outcome = "ok" THEN {p} ELSE {}
      /\ database' = IF outcome = "ok" THEN {p} ELSE {}
  <2>1. c \in Command /\ c.at = IF outcome = "ok" THEN "serving" ELSE "idle"
    BY Zenon, <1>0, IdleCommand DEF TypeOK, Command, Stages, OwnerStages
  <2>2. proc' = [proc EXCEPT ![p] = c]
    BY Zenon DEF InitializeManifest
  <2>3. /\ signerOwner' = IF outcome = "ok" THEN {p} ELSE {}
        /\ database' = IF outcome = "ok" THEN {p} ELSE {}
    BY Zenon, <1>0 DEF InitializeManifest, Release
  <2> HIDE DEF c
  <2> QED BY Zenon, <1>0, <2>1, <2>2, <2>3, Replaced
<1> HIDE DEF c
<1>6. PendingOf(p)'
  BY Zenon, <1>4 DEF PendingOf, Becomes
<1>7. LockInv' /\ EmptyInv' /\ PendingInv'
  BY Zenon, <1>0, <1>1, <1>4, <1>6, Exclusive DEF DatabaseStages, OwnerStages, CreatingStages
<1>8. BundleInv'
  BY Zenon, <1>1, <1>4, BundlesKept DEF RestoringStages
<1>9. RestoreInv'
  <2>1. \A q \in Processes : proc'[q].at \in RestoringStages => restoreState' = "recovering"
    BY Zenon, <1>1, <1>4 DEF Inv, RestoreInv, RestoringStages, Becomes
  <2>2. losses' = 0 /\ restoreState' = "normal" => reported' = {}
    BY Zenon, <1>0, <1>1, NothingReported
  <2> QED BY Zenon, <2>1, <2>2 DEF RestoreInv
<1>10. OutInv' /\ ProgressInv' /\ ReportInv'
  BY Zenon, <1>1, <1>4, OutputsKept DEF OutStages
<1>11. TypeOK'
  BY Zenon, <1>0, <1>1, <1>3, <1>4 DEF TypeOK, Becomes
<1> QED BY Zenon, <1>3, <1>7, <1>8, <1>9, <1>10, <1>11 DEF Inv
-----------------------------------------------------------------------------
(* backup export and backup restore.                                       *)

(* A command that has or takes the owner lock of the database alone.       *)
LEMMA DatabaseOnly ==
  ASSUME Inv, NEW p \in Processes, NEW c, Becomes(p, c),
         database \in {{}, {p}}, c.at \notin OwnerStages,
         c.at \in DatabaseStages => database' = {p},
         UNCHANGED <<signerOwner, manifest, records>>, handles' \in Nat, handles <= handles'
  PROVE  LockInv' /\ EmptyInv' /\ PendingInv' /\ (UNCHANGED torn => StoreInv')
<1>0. handles \in Nat
  BY Zenon DEF Inv, TypeOK
<1>1. ASSUME NEW q \in Processes, q # p
      PROVE  proc'[q] = proc[q] /\ proc[q].at \notin DatabaseStages
  BY Zenon, <1>1 DEF Inv, LockInv, Becomes
<1>2. LockInv'
  BY Zenon, <1>1 DEF Inv, LockInv, Becomes
<1>3. EmptyInv'
  BY Zenon, <1>1, StageClasses DEF Inv, EmptyInv, Becomes
<1>4. ASSUME NEW q \in Processes PROVE PendingOf(q)'
  <2>1. CASE q = p
    BY Zenon, <2>1, StageClasses DEF PendingOf, Becomes
  <2>2. CASE q # p
    <3>1. /\ proc'[q] = proc[q]
          /\ proc[q].at \notin {"initPut", "initManifest", "restoreManifest", "attach"}
      BY Zenon, <1>1, <2>2 DEF DatabaseStages
    <3>2. WalletPayload(q)' = WalletPayload(q)
      BY Zenon, <3>1 DEF WalletPayload
    <3>3. proc[q].at = "manifest" => Pending(proc[q], WalletPayload(q))
      BY Zenon DEF Inv, PendingInv, PendingOf
    <3>4. proc[q].handle \in Nat
      BY Zenon DEF Inv, TypeOK, Command
    <3> QED BY <1>0, <3>1, <3>2, <3>3, <3>4 DEF PendingOf, Pending
  <2> QED BY Zenon, <2>1, <2>2
<1>5. UNCHANGED torn => StoreInv'
  BY <1>0 DEF Inv, StoreInv
<1> QED BY Zenon, <1>2, <1>3, <1>4, <1>5 DEF PendingInv

LEMMA BundleReplaced ==
  ASSUME Inv, NEW p \in Processes, NEW c, Becomes(p, c), NEW b \in Backups, NEW new \in Bundle,
         bundles' = [bundles EXCEPT ![b] = new],
         \A a \in new.signer : IsPayload(a.payload),
         \A a1, a2 \in new.signer : a1 = a2,
         c.at \in RestoringStages \cup {"export", "attach"} => c.backup \in Backups
  PROVE  BundleInv' /\ bundles' \in [Backups -> Bundle]
<1>1. bundles \in [Backups -> Bundle]
  BY Zenon DEF Inv, TypeOK
<1>2. bundles' \in [Backups -> Bundle] /\ \A x \in Backups : bundles'[x] = IF x = b THEN new ELSE bundles[x]
  BY Zenon, <1>1
<1>3. BundleInv'
  BY <1>2 DEF Inv, BundleInv, Becomes
<1> QED BY Zenon, <1>2, <1>3

LEMMA NoBundleTyped == NoBundle \in Bundle /\ NoBundle.signer = {}
BY Zenon DEF NoBundle, Bundle

LEMMA ExportStep ==
  ASSUME Inv, NEW p \in Processes, NEW b \in Backups, Export(p, b)
  PROVE  Inv'
<1> DEFINE c == [Idle EXCEPT !.at = "export", !.backup = b]
           new == [bundles[b] EXCEPT !.there = TRUE]
<1>0. TypeOK /\ proc[p].at = "idle" /\ database = {} /\ handles \in Nat
  BY Zenon DEF Inv, TypeOK, Export
<1>1. /\ UNCHANGED <<manifest, records, torn, handles, signerOwner, restoreState, outDirs,
                     delivered, deviceKeys, reported, generations, losses, faults>>
      /\ database' = {p} /\ bundles' = [bundles EXCEPT ![b] = new]
      /\ proc' = [proc EXCEPT ![p] = c]
  <2>1. bundles \in [Backups -> Bundle]
    BY Zenon, <1>0 DEF TypeOK
  <2> QED BY Zenon, <2>1 DEF Export, dirVars, outVars, boundVars
<1>2. c \in Command /\ c.at = "export" /\ c.backup = b
  BY Zenon, IdleCommand DEF Command, Stages, DatabaseStages
<1>3. bundles[b] \in Bundle
  BY Zenon, <1>0 DEF TypeOK
<1>4. new \in Bundle /\ new.signer = bundles[b].signer
  BY Zenon, <1>3 DEF Bundle
<1> HIDE DEF c, new
<1>5. Becomes(p, c)
  BY Zenon, <1>0, <1>1, <1>2, Replaced
<1>6. LockInv' /\ EmptyInv' /\ PendingInv' /\ StoreInv'
  BY <1>0, <1>1, <1>2, <1>5, DatabaseOnly DEF OwnerStages
<1>7. BundleInv' /\ bundles' \in [Backups -> Bundle]
  <2>1. /\ \A a \in new.signer : IsPayload(a.payload)
        /\ \A a1, a2 \in new.signer : a1 = a2
    BY Zenon, <1>4 DEF Inv, BundleInv
  <2> QED BY Zenon, <1>1, <1>2, <1>4, <1>5, <2>1, BundleReplaced
<1>8. RestoreInv'
  BY Zenon, <1>1, <1>2, <1>5, SignerKept DEF RestoringStages
<1>9. OutInv' /\ ProgressInv' /\ ReportInv'
  BY Zenon, <1>1, <1>2, <1>5, OutputsKept DEF OutStages
<1>10. TypeOK'
  BY Zenon, <1>0, <1>1, <1>5, <1>7 DEF TypeOK, Becomes
<1> QED BY Zenon, <1>6, <1>7, <1>8, <1>9, <1>10 DEF Inv

LEMMA ExportSignerStep ==
  ASSUME Inv, NEW p \in Processes, NEW outcome \in Outcomes, ExportSigner(p, outcome)
  PROVE  Inv'
<1> DEFINE opened == signerOwner = {} /\ \E m \in manifest : OpenSigner(m.profile.wallet, m.signer) # {}
<1>0. /\ TypeOK /\ proc[p].at = "export" /\ database = {p} /\ handles \in Nat /\ faults \in Nat
      /\ proc[p].backup \in Backups
  BY Zenon DEF Inv, TypeOK, ExportSigner, LockInv, DatabaseStages, BundleInv
<1>1. UNCHANGED <<manifest, records, torn, restoreState, outDirs, delivered, deviceKeys, reported,
                  generations, losses>>
  BY Zenon DEF ExportSigner, outVars, boundVars
<1>2. handles' \in Nat /\ handles <= handles' /\ faults' \in Nat
  <2>1. CASE opened
    <3>1. handles' = handles + 1 /\ Count(outcome)
      BY Zenon, <2>1 DEF ExportSigner
    <3>2. faults' \in Nat
      BY Zenon, <1>0, <3>1, OutcomeCases
    <3> HIDE DEF opened
    <3> QED BY <1>0, <3>1, <3>2
  <2>2. CASE ~opened
    BY <1>0, <2>2 DEF ExportSigner
  <2> QED BY Zenon, <2>1, <2>2
<1>3. CASE opened /\ outcome = "ok"
  <2> DEFINE c == [proc[p] EXCEPT !.at = "attach", !.handle = handles + 1]
  <2>1. /\ proc' = [proc EXCEPT ![p].at = "attach", ![p].handle = handles + 1]
        /\ signerOwner' = {p} /\ UNCHANGED <<bundles, database>>
    BY Zenon, <1>3 DEF ExportSigner
  <2>2. "attach" \in Stages /\ handles + 1 \in Nat
    BY <1>0 DEF Stages, OwnerStages
  <2>3. Becomes(p, c)
    BY Zenon, <1>0, <2>1, <2>2, Stored
  <2>4. c.at = "attach" /\ c.backup = proc[p].backup
    BY Zenon, <1>0 DEF TypeOK, Command
  <2> HIDE DEF c
  <2>5. \E x \in records, m \in manifest : m.handle = x.handle
    <3>1. PICK m \in manifest : OpenSigner(m.profile.wallet, m.signer) # {}
      BY Zenon, <1>3
    <3> QED BY <3>1 DEF OpenSigner
  <2>6. PendingOf(p)'
    BY Zenon, <1>1, <2>3, <2>4, <2>5 DEF PendingOf, Becomes
  <2>7. LockInv' /\ EmptyInv' /\ PendingInv'
    BY Zenon, <1>0, <1>1, <1>3, <2>1, <2>3, <2>4, <2>6, Exclusive DEF CreatingStages
  <2>8. BundleInv' /\ RestoreInv'
    BY Zenon, <1>0, <1>1, <2>1, <2>3, <2>4, BundlesKept, SignerKept DEF RestoringStages
  <2>9. OutInv' /\ ProgressInv' /\ ReportInv'
    BY Zenon, <1>1, <2>3, <2>4, OutputsKept DEF OutStages
  <2>10. TypeOK'
    BY Zenon, <1>0, <1>1, <1>2, <2>1, <2>3 DEF TypeOK, Becomes
  <2>11. StoreInv'
    BY <1>0, <1>1, <1>2 DEF Inv, StoreInv
  <2> QED BY Zenon, <2>7, <2>8, <2>9, <2>10, <2>11 DEF Inv
<1>4. CASE ~(opened /\ outcome = "ok")
  <2>1. /\ bundles' = IF manifest = {} THEN bundles
                      ELSE [bundles EXCEPT ![proc[p].backup] = NoBundle]
        /\ proc' = [proc EXCEPT ![p] = Idle] /\ database' = {} /\ UNCHANGED signerOwner
    BY Zenon, <1>4 DEF ExportSigner
  <2>2. Becomes(p, Idle)
    BY Zenon, <1>0, <2>1, Ended
  <2>3. LockInv' /\ EmptyInv' /\ PendingInv' /\ StoreInv'
    BY Zenon, <1>0, <1>1, <1>2, <2>1, <2>2, IdleCommand, StageClasses, DatabaseOnly
  <2>4. BundleInv' /\ bundles' \in [Backups -> Bundle]
    <3>0. "idle" \notin RestoringStages \cup {"export", "attach"}
      BY Zenon DEF RestoringStages
    <3>1. CASE manifest = {}
      BY Zenon, <1>0, <2>1, <2>2, <3>0, <3>1, IdleCommand, BundlesKept DEF TypeOK
    <3>2. CASE manifest # {}
      BY Zenon, <1>0, <2>1, <2>2, <3>0, <3>2, IdleCommand, NoBundleTyped, BundleReplaced
    <3> QED BY Zenon, <3>1, <3>2
  <2>5. RestoreInv'
    BY Zenon, <1>1, <2>2, IdleCommand, SignerKept DEF RestoringStages
  <2>6. OutInv' /\ ProgressInv' /\ ReportInv'
    BY Zenon, <1>1, <2>2, IdleCommand, StageClasses, OutputsKept
  <2>7. TypeOK'
    BY Zenon, <1>0, <1>1, <1>2, <2>2, <2>4 DEF TypeOK, Becomes
  <2> QED BY Zenon, <2>3, <2>4, <2>5, <2>6, <2>7 DEF Inv
<1> QED BY Zenon, <1>3, <1>4
LEMMA PayloadTyped ==
  ASSUME NEW payload, IsPayload(payload)
  PROVE  payload \in PayloadRecords /\ payload.profile \in Profiles
<1>1. PICK f \in ValidProfiles, s \in 1 .. 3, b \in BOOLEAN : payload = Payload(f, s, b)
  BY Zenon DEF IsPayload
<1>2. f \in Profiles /\ f.run \in Nat
  BY Zenon DEF ValidProfiles, Profiles
<1>3. Package(f, s) \in Packages
  BY Zenon, <1>2 DEF Package, Packages
<1> QED BY Zenon, <1>1, <1>2, <1>3 DEF Payload, PayloadRecords

LEMMA ExportAttachStep ==
  ASSUME Inv, NEW p \in Processes, NEW outcome \in Outcomes, ExportAttach(p, outcome)
  PROVE  Inv'
<1> DEFINE payloads == {r.payload : r \in {r \in records : \E m \in manifest : m.handle = r.handle}}
           payload == CHOOSE x \in payloads : TRUE
           b == proc[p].backup
           a0 == [audit |-> payload.profile, payload |-> payload, dek |-> proc[p].handle]
           new == IF outcome = "ok" THEN [bundles[b] EXCEPT !.signer = {a0}] ELSE NoBundle
<1>0. /\ TypeOK /\ proc[p].at = "attach" /\ signerOwner = {p} /\ database = {p} /\ b \in Backups
      /\ bundles \in [Backups -> Bundle] /\ proc[p].handle \in Nat
  BY Zenon DEF Inv, TypeOK, Command, ExportAttach, LockInv, OwnerStages, DatabaseStages, BundleInv
<1>1. /\ UNCHANGED <<manifest, records, torn, handles, restoreState, outDirs, delivered, deviceKeys,
                     reported, generations, losses>>
      /\ bundles' = [bundles EXCEPT ![b] = new]
      /\ Count(outcome) /\ signerOwner' = {} /\ database' = {}
      /\ proc' = [proc EXCEPT ![p] = Idle]
  BY Zenon, <1>0 DEF ExportAttach, Release, dirVars, outVars, boundVars
<1>2. faults' \in Nat
  BY Zenon, <1>0, <1>1, OutcomeCases
<1>3. IsPayload(payload)
  <2>1. \E x \in payloads : TRUE
    BY Zenon, <1>0 DEF Inv, PendingInv, PendingOf
  <2>2. payload \in payloads
    <3> HIDE DEF payloads
    <3> QED BY Zenon, <2>1
  <2> HIDE DEF payload
  <2> QED BY <2>2 DEF Inv, StoreInv
<1>4. payload \in PayloadRecords /\ payload.profile \in Profiles
  BY Zenon, <1>3, PayloadTyped
<1> HIDE DEF payload
<1>5. /\ new \in Bundle /\ (\A a \in new.signer : IsPayload(a.payload))
      /\ \A a1, a2 \in new.signer : a1 = a2
  <2>1. CASE outcome = "ok"
    <3>1. bundles[b] \in Bundle
      BY Zenon, <1>0
    <3>2. /\ a0 \in [audit : Profiles, payload : PayloadRecords, dek : Nat]
          /\ a0.payload = payload
      BY Zenon, <1>0, <1>4
    <3> HIDE DEF a0
    <3>3. new \in Bundle /\ new.signer = {a0}
      BY Zenon, <2>1, <3>1, <3>2 DEF Bundle
    <3> QED BY Zenon, <1>3, <3>2, <3>3
  <2>2. CASE outcome # "ok"
    BY Zenon, <2>2, NoBundleTyped
  <2> QED BY Zenon, <2>1, <2>2
<1> HIDE DEF new
<1>6. Becomes(p, Idle)
  BY Zenon, <1>0, <1>1, Ended
<1>7. BundleInv' /\ bundles' \in [Backups -> Bundle]
  <2>1. "idle" \notin RestoringStages \cup {"export", "attach"}
    BY DEF RestoringStages
  <2> HIDE DEF b
  <2> QED BY <1>0, <1>1, <1>5, <1>6, <2>1, IdleCommand, BundleReplaced
<1>8. PendingOf(p)'
  BY Zenon, <1>6, IdleCommand DEF PendingOf, Becomes
<1>9. LockInv' /\ EmptyInv' /\ PendingInv'
  BY Zenon, <1>0, <1>1, <1>6, <1>8, IdleCommand, StageClasses, Exclusive
<1>10. RestoreInv'
  BY Zenon, <1>1, <1>6, IdleCommand, SignerKept DEF RestoringStages
<1>11. OutInv' /\ ProgressInv' /\ ReportInv'
  BY Zenon, <1>1, <1>6, IdleCommand, StageClasses, OutputsKept
<1>12. TypeOK' /\ StoreInv'
  BY Zenon, <1>0, <1>1, <1>2, <1>6, <1>7 DEF Inv, TypeOK, StoreInv, Becomes
<1> QED BY Zenon, <1>7, <1>9, <1>10, <1>11, <1>12 DEF Inv

LEMMA RestoreStep ==
  ASSUME Inv, NEW p \in Processes, NEW b \in Backups, Restore(p, b)
  PROVE  Inv'
<1> DEFINE c == [Idle EXCEPT !.at = "restore", !.backup = b]
<1>0. TypeOK /\ proc[p].at = "idle" /\ database = {} /\ handles \in Nat
  BY Zenon DEF Inv, TypeOK, Restore
<1>1. /\ UNCHANGED <<manifest, records, torn, handles, signerOwner, outDirs, delivered,
                     deviceKeys, reported, bundles, generations, losses, faults>>
      /\ database' = {p} /\ restoreState' = "recovering" /\ proc' = [proc EXCEPT ![p] = c]
  BY Zenon DEF Restore, dirVars, outVars, backupVars, boundVars
<1>2. c \in Command /\ c.at = "restore" /\ c.backup = b
  BY Zenon, IdleCommand DEF Command, Stages, DatabaseStages
<1> HIDE DEF c
<1>3. Becomes(p, c)
  BY Zenon, <1>0, <1>1, <1>2, Replaced
<1>4. LockInv' /\ EmptyInv' /\ PendingInv' /\ StoreInv'
  BY <1>0, <1>1, <1>2, <1>3, DatabaseOnly DEF OwnerStages
<1>5. BundleInv'
  BY Zenon, <1>1, <1>2, <1>3, BundlesKept
<1>6. RestoreInv'
  BY Zenon, <1>1 DEF RestoreInv
<1>7. OutInv' /\ ProgressInv' /\ ReportInv'
  BY Zenon, <1>1, <1>2, <1>3, OutputsKept DEF OutStages
<1>8. TypeOK'
  BY Zenon, <1>0, <1>1, <1>3 DEF TypeOK, Becomes
<1> QED BY Zenon, <1>4, <1>5, <1>6, <1>7, <1>8 DEF Inv

LEMMA RestoreSignerStep ==
  ASSUME Inv, NEW p \in Processes, RestoreSigner(p)
  PROVE  Inv'
<1>0. /\ TypeOK /\ proc[p].at = "restore" /\ database = {p} /\ handles \in Nat
      /\ proc[p].backup \in Backups
  BY Zenon DEF Inv, TypeOK, RestoreSigner, LockInv, DatabaseStages, BundleInv, RestoringStages
<1>1. UNCHANGED <<manifest, records, torn, handles, restoreState, outDirs, delivered, deviceKeys,
                  reported, bundles, generations, losses, faults>>
  BY Zenon DEF RestoreSigner, outVars, backupVars, boundVars
<1>2. CASE signerOwner = {} /\ signerOwner' = {p} /\ Jump(p, "restorePut") /\ UNCHANGED database
  <2> DEFINE c == [proc[p] EXCEPT !.at = "restorePut"]
  <2>1. Becomes(p, c)
    BY Zenon, <1>0, <1>2, Jumped DEF Stages, OwnerStages
  <2>2. c.at = "restorePut" /\ c.backup = proc[p].backup
    BY Zenon, <1>0 DEF TypeOK, Command
  <2> HIDE DEF c
  <2>3. PendingOf(p)'
    BY Zenon, <2>1, <2>2 DEF PendingOf, Becomes
  <2>4. LockInv' /\ EmptyInv' /\ PendingInv'
    BY Zenon, <1>0, <1>2, <2>1, <2>2, <2>3, Exclusive DEF CreatingStages
  <2>5. BundleInv' /\ RestoreInv'
    BY Zenon, <1>0, <1>1, <2>1, <2>2, BundlesKept, SignerKept DEF RestoringStages
  <2>6. OutInv' /\ ProgressInv' /\ ReportInv'
    BY Zenon, <1>1, <2>1, <2>2, OutputsKept DEF OutStages
  <2>7. TypeOK' /\ StoreInv'
    BY Zenon, <1>0, <1>1, <2>1 DEF Inv, TypeOK, StoreInv, Becomes
  <2> QED BY <2>4, <2>5, <2>6, <2>7 DEF Inv
<1>3. CASE proc' = [proc EXCEPT ![p] = Idle] /\ database' = {} /\ UNCHANGED signerOwner
  <2>1. Becomes(p, Idle)
    BY Zenon, <1>0, <1>3, Ended
  <2>2. LockInv' /\ EmptyInv' /\ StoreInv' /\ PendingInv' /\ BundleInv' /\ RestoreInv'
    BY Zenon, <1>0, <1>1, <1>3, <2>1, IdleCommand, StageClasses, Unlocked
  <2>3. OutInv' /\ ProgressInv' /\ ReportInv'
    BY Zenon, <1>1, <2>1, IdleCommand, StageClasses, OutputsKept
  <2>4. TypeOK'
    BY Zenon, <1>0, <1>1, <2>1 DEF TypeOK, Becomes
  <2> QED BY <2>2, <2>3, <2>4 DEF Inv
<1> QED BY Zenon, <1>2, <1>3 DEF RestoreSigner

LEMMA RestorePutStep ==
  ASSUME Inv, NEW p \in Processes, NEW outcome \in Outcomes, RestorePut(p, outcome)
  PROVE  Inv'
<1>0. /\ TypeOK /\ proc[p].at = "restorePut" /\ handles \in Nat /\ signerOwner = {p}
      /\ database = {p} /\ proc[p].backup \in Backups
  BY Zenon DEF Inv, TypeOK, RestorePut, LockInv, OwnerStages, DatabaseStages, BundleInv, RestoringStages
<1>a. PICK a \in bundles[proc[p].backup].signer : PutRecord(p, a.payload, outcome)
  BY Zenon DEF RestorePut, Attachment
<1>1. UNCHANGED <<manifest, torn, restoreState, outDirs, delivered, deviceKeys, reported,
                  bundles, generations, losses>>
  BY Zenon DEF RestorePut, outVars, backupVars, boundVars
<1>2. IsPayload(a.payload) /\ \A x \in bundles[proc[p].backup].signer : x = a
  BY Zenon, <1>0 DEF Inv, BundleInv
<1>3. /\ StoreInv' /\ records \subseteq records' /\ handles' \in Nat /\ handles' = handles + 1
      /\ faults' \in Nat
      /\ outcome = "ok" => /\ [handle |-> handles + 1, payload |-> a.payload] \in records'
                           /\ \A m \in manifest' : m.handle # handles + 1
  BY Zenon, <1>a, <1>1, <1>2, PutStored
<1> DEFINE c == IF outcome = "ok"
                THEN [proc[p] EXCEPT !.at = "restoreManifest", !.handle = handles + 1] ELSE Idle
<1>4. /\ Becomes(p, c)
      /\ signerOwner' = IF outcome = "ok" THEN {p} ELSE {}
      /\ database' = IF outcome = "ok" THEN {p} ELSE {}
  <2>1. CASE outcome = "ok"
    <3>1. proc' = [proc EXCEPT ![p].at = "restoreManifest", ![p].handle = handles + 1]
      BY Zenon, <2>1 DEF RestorePut
    <3>2. "restoreManifest" \in Stages /\ handles + 1 \in Nat
      BY <1>0 DEF Stages, OwnerStages
    <3>3. Becomes(p, [proc[p] EXCEPT !.at = "restoreManifest", !.handle = handles + 1])
      BY Zenon, <1>0, <3>1, <3>2, Stored
    <3> QED BY Zenon, <1>0, <2>1, <3>3 DEF RestorePut
  <2>2. CASE outcome # "ok"
    BY Zenon, <1>0, <2>2, Ended DEF RestorePut, Release
  <2> QED BY Zenon, <2>1, <2>2
<1>5. /\ c.at = IF outcome = "ok" THEN "restoreManifest" ELSE "idle"
      /\ outcome = "ok" => c.backup = proc[p].backup /\ c.handle = handles + 1
  BY Zenon, <1>0, IdleCommand DEF TypeOK, Command
<1> HIDE DEF c
<1>6. PendingOf(p)'
  <2>1. proc'[p] = c /\ (outcome = "ok" => Attachment(p)' = Attachment(p))
    BY Zenon, <1>1, <1>4, <1>5 DEF Becomes, Attachment
  <2>2. outcome = "ok" => Pending(proc[p], a.payload)'
    BY <1>0, <1>3, <1>5, <2>1 DEF Pending
  <2>3. \A x \in Attachment(p) : x = a
    BY Zenon, <1>2 DEF Attachment
  <2>4. outcome = "ok" => \A x \in Attachment(p)' : Pending(proc[p], x.payload)'
    BY Zenon, <2>1, <2>2, <2>3
  <2> QED BY Zenon, <1>0, <1>5, <2>1, <2>4 DEF PendingOf
<1>7. LockInv' /\ EmptyInv' /\ PendingInv'
  BY Zenon, <1>0, <1>1, <1>4, <1>5, <1>6, Exclusive DEF DatabaseStages, OwnerStages, CreatingStages
<1>8. BundleInv' /\ RestoreInv'
  BY Zenon, <1>0, <1>1, <1>3, <1>4, <1>5, BundlesKept, SignerKept DEF RestoringStages
<1>9. OutInv' /\ ProgressInv' /\ ReportInv'
  BY Zenon, <1>0, <1>1, <1>4, <1>5, OutputsKept DEF OutStages
<1>10. TypeOK'
  BY Zenon, <1>0, <1>1, <1>3, <1>4 DEF TypeOK, Becomes
<1> QED BY Zenon, <1>3, <1>7, <1>8, <1>9, <1>10 DEF Inv

LEMMA RestoreManifestStep ==
  ASSUME Inv, NEW p \in Processes, NEW outcome \in Outcomes, RestoreManifest(p, outcome)
  PROVE  Inv'
<1>0. /\ TypeOK /\ proc[p].at = "restoreManifest" /\ signerOwner = {p} /\ database = {p}
      /\ restoreState = "recovering"
  BY Zenon DEF Inv, RestoreManifest, LockInv, OwnerStages, DatabaseStages, RestoreInv, RestoringStages
<1>a. PICK a \in Attachment(p) : WriteManifest(p, a.payload, outcome)
  BY Zenon DEF RestoreManifest
<1>1. /\ UNCHANGED <<handles, restoreState, outDirs, delivered, deviceKeys, reported, bundles,
                     generations, losses>>
      /\ signerOwner' = {} /\ database' = {} /\ proc' = [proc EXCEPT ![p] = Idle]
  BY Zenon, <1>0 DEF RestoreManifest, Release, outVars, backupVars, boundVars
<1>2. Pending(proc[p], a.payload)
  BY Zenon, <1>0 DEF Inv, PendingInv, PendingOf
<1>3. StoreInv' /\ faults' \in Nat
  BY Zenon, <1>a, <1>1, <1>2, ManifestWritten
<1>4. Becomes(p, Idle)
  BY Zenon, <1>0, <1>1, Ended
<1>5. PendingOf(p)'
  BY Zenon, <1>4, IdleCommand DEF PendingOf, Becomes
<1>6. LockInv' /\ EmptyInv' /\ PendingInv'
  BY Zenon, <1>0, <1>1, <1>4, <1>5, IdleCommand, StageClasses, Exclusive
<1>7. BundleInv'
  BY Zenon, <1>1, <1>4, IdleCommand, BundlesKept DEF RestoringStages
<1>8. RestoreInv'
  BY Zenon, <1>0, <1>1 DEF RestoreInv
<1>9. OutInv' /\ ProgressInv' /\ ReportInv'
  BY Zenon, <1>1, <1>4, IdleCommand, StageClasses, OutputsKept
<1>10. TypeOK'
  BY Zenon, <1>0, <1>1, <1>3, <1>4 DEF TypeOK, Becomes
<1> QED BY Zenon, <1>3, <1>6, <1>7, <1>8, <1>9, <1>10 DEF Inv

-----------------------------------------------------------------------------
(* The theorems.                                                           *)

LEMMA InvInit == CustodyInit => Inv
<1> SUFFICES ASSUME CustodyInit PROVE Inv
  BY Zenon
<1>1. \A p \in Processes : proc[p] = Idle /\ proc[p].at = "idle"
  BY Zenon, IdleCommand DEF CustodyInit
<1>2. TypeOK
  <2>1. NoOutput \in Output
    BY Zenon DEF NoOutput, Output
  <2> QED BY Zenon, <2>1, NoBundleTyped, IdleCommand DEF CustodyInit, TypeOK
<1>3. LockInv /\ EmptyInv /\ OutInv
  BY Zenon, <1>1, StageClasses DEF LockInv, EmptyInv, OutInv, CreatingStages, CustodyInit
<1>4. ProgressInv
  BY Zenon, <1>1, StageClasses DEF ProgressInv, Progress
<1>5. ReportInv /\ StoreInv /\ RestoreInv
  BY Zenon, <1>1 DEF CustodyInit, ReportInv, StoreInv, RestoreInv, RestoringStages
<1>6. PendingInv
  BY Zenon, <1>1 DEF PendingInv, PendingOf
<1>7. BundleInv
  BY Zenon, <1>1, NoBundleTyped DEF CustodyInit, BundleInv, RestoringStages
<1> QED BY Zenon, <1>2, <1>3, <1>4, <1>5, <1>6, <1>7 DEF Inv

LEMMA InvStep == Inv /\ [CustodyNext]_custodyVars => Inv'
<1> SUFFICES ASSUME Inv, [CustodyNext]_custodyVars PROVE Inv'
  BY Zenon
<1>1. CASE UNCHANGED custodyVars
  BY Zenon, <1>1, InvStutters DEF custodyVars
<1>2. ASSUME NEW p \in Processes, NEW o \in OutDirs, NEW w \in Wallets, NEW e \in Epochs,
             NEW d \in DeviceKeys, BootstrapStart(p, o, w, e, d, 1)
      PROVE  Inv'
  BY Zenon, <1>2, BootstrapStartStep
<1>3. ASSUME NEW p \in Processes, MakeOutput(p) \/ Install(p) \/ CleanupOutputs(p)
      PROVE  Inv'
  BY Zenon, <1>3, MakeOutputStep, InstallStep, CleanupOutputsStep
<1>4. ASSUME NEW p \in Processes, NEW kind \in {"serve", "init"}, NEW s \in 1 .. 3,
             OpenDurableSigner(p, kind, s)
      PROVE  Inv'
  BY Zenon, <1>4, OpenDurableSignerStep
<1>5. ASSUME NEW p \in Processes, StopSigner(p) \/ RestoreSigner(p) \/ CustodyCrash(p)
      PROVE  Inv'
  BY <1>5, StopSignerStep, RestoreSignerStep, CustodyCrashStep
<1>6. ASSUME NEW p \in Processes, NEW b \in Backups, Export(p, b) \/ Restore(p, b)
      PROVE  Inv'
  BY Zenon, <1>6, ExportStep, RestoreStep
<1>7. ASSUME NEW p \in Processes, NEW outcome \in Outcomes,
             \/ WriteOutput(p, outcome) \/ DeliverKey(p, outcome)
             \/ InstallPut(p, outcome) \/ InstallManifest(p, outcome)
             \/ InitializePut(p, outcome) \/ InitializeManifest(p, outcome)
             \/ ExportSigner(p, outcome) \/ ExportAttach(p, outcome)
             \/ RestorePut(p, outcome) \/ RestoreManifest(p, outcome)
      PROVE  Inv'
  BY Zenon, <1>7, WriteOutputStep, DeliverKeyStep, InstallPutStep, InstallManifestStep, InitializePutStep,
     InitializeManifestStep, ExportSignerStep, ExportAttachStep, RestorePutStep, RestoreManifestStep
<1>8. CASE LoseDataDirectory
  BY Zenon, <1>8, LoseDataDirectoryStep
<1> QED BY Zenon, <1>1, <1>2, <1>3, <1>4, <1>5, <1>6, <1>7, <1>8 DEF CustodyNext

LEMMA InvHolds == CustodySpec => []Inv
BY InvInit, InvStep, PTL DEF CustodySpec

\* The shares of a bootstrap that reported success open from then on, and the manifest
\* on disk names a record that opens, whatever commands run, fail or crash beside it
\* (bootstrap_personal_signer_with_protector, PersistentSigner::open).
THEOREM SharesStayOpen == CustodySpec => []SharesOpen
BY InvHolds, InvOpens, PTL

\* A step replaces a manifest by another only as the last step of a restore
\* (install_personal_wallet_share, write_manifest_atomic).
THEOREM SignerStays == CustodySpec => SignerNeverReplaced
<1> DEFINE Allowed == manifest # {} /\ manifest' # {} /\ manifest' # manifest
                        => \E p \in Processes : proc[p].at = "restoreManifest" /\ proc'[p].at = "idle"
<1>1. Inv /\ [CustodyNext]_custodyVars => [Allowed]_custodyVars
  <2> SUFFICES ASSUME Inv, [CustodyNext]_custodyVars, manifest # {}, manifest' # {},
                      manifest' # manifest
               PROVE  \E p \in Processes : proc[p].at = "restoreManifest" /\ proc'[p].at = "idle"
    BY Zenon
  <2>1. ASSUME NEW p \in Processes, NEW outcome \in Outcomes,
               InstallManifest(p, outcome) \/ InitializeManifest(p, outcome)
        PROVE  FALSE
    BY Zenon, <2>1 DEF Inv, EmptyInv, CreatingStages, InstallManifest, InitializeManifest
  <2>2. ASSUME NEW p \in Processes, NEW outcome \in Outcomes, RestoreManifest(p, outcome)
        PROVE  proc[p].at = "restoreManifest" /\ proc'[p].at = "idle"
    BY Zenon, <2>2, IdleCommand DEF Inv, TypeOK, RestoreManifest
  <2>3. ~ UNCHANGED manifest /\ ~ LoseDataDirectory
    BY Zenon DEF LoseDataDirectory
  <2>4. CASE \E p \in Processes, outcome \in Outcomes :
               \/ InstallManifest(p, outcome) \/ InitializeManifest(p, outcome)
               \/ RestoreManifest(p, outcome)
    BY Zenon, <2>1, <2>2, <2>4
  <2>5. CASE ~ \E p \in Processes, outcome \in Outcomes :
                 \/ InstallManifest(p, outcome) \/ InitializeManifest(p, outcome)
                 \/ RestoreManifest(p, outcome)
    <3>1. UNCHANGED custodyVars \/ CustodyNext
      BY Zenon
    <3>2. CustodyNext => UNCHANGED manifest
      <4>1. ASSUME NEW p \in Processes
            PROVE  /\ \A o \in OutDirs, w \in Wallets, e \in Epochs, d \in DeviceKeys :
                        BootstrapStart(p, o, w, e, d, 1) => UNCHANGED manifest
                   /\ MakeOutput(p) \/ Install(p) \/ CleanupOutputs(p) => UNCHANGED manifest
                   /\ \A kind \in {"serve", "init"}, s \in 1 .. 3 :
                        OpenDurableSigner(p, kind, s) => UNCHANGED manifest
                   /\ StopSigner(p) \/ RestoreSigner(p) \/ CustodyCrash(p) => UNCHANGED manifest
                   /\ \A b \in Backups : Export(p, b) \/ Restore(p, b) => UNCHANGED manifest
        <5>1. \A o \in OutDirs, w \in Wallets, e \in Epochs, d \in DeviceKeys :
                BootstrapStart(p, o, w, e, d, 1) => UNCHANGED manifest
          BY Zenon DEF BootstrapStart, dirVars
        <5>2. MakeOutput(p) \/ Install(p) \/ CleanupOutputs(p) => UNCHANGED manifest
          BY Zenon DEF MakeOutput, Install, CleanupOutputs, dirVars
        <5>3. \A kind \in {"serve", "init"}, s \in 1 .. 3 :
                OpenDurableSigner(p, kind, s) => UNCHANGED manifest
          BY Zenon DEF OpenDurableSigner
        <5>4. StopSigner(p) \/ RestoreSigner(p) \/ CustodyCrash(p) => UNCHANGED manifest
          BY Zenon DEF StopSigner, RestoreSigner, CustodyCrash, dirVars
        <5>5. \A b \in Backups : Export(p, b) \/ Restore(p, b) => UNCHANGED manifest
          BY Zenon DEF Export, Restore, dirVars
        <5> QED BY Zenon, <5>1, <5>2, <5>3, <5>4, <5>5
      <4>2. ASSUME NEW p \in Processes, NEW outcome \in Outcomes,
                   \/ WriteOutput(p, outcome) \/ DeliverKey(p, outcome)
                   \/ InstallPut(p, outcome) \/ InitializePut(p, outcome)
                   \/ ExportSigner(p, outcome) \/ ExportAttach(p, outcome)
                   \/ RestorePut(p, outcome)
            PROVE  UNCHANGED manifest
        BY Zenon, <4>2 DEF WriteOutput, DeliverKey, InstallPut, InitializePut, ExportSigner, ExportAttach,
           RestorePut, dirVars
      <4> QED BY Zenon, <2>3, <2>5, <4>1, <4>2 DEF CustodyNext
    <3> QED BY Zenon, <2>3, <3>1, <3>2 DEF custodyVars
  <2> QED BY Zenon, <2>4, <2>5
<1> QED BY <1>1, InvHolds, PTL DEF CustodySpec, SignerNeverReplaced

\* The owner locks exclude: two commands never work on the signer of a data directory
\* or on its database at the same time, wherever their predecessors crashed
\* (acquire_owner_lock of persistent_signer.rs and of sqlite.rs).
THEOREM OwnersExclude == CustodySpec => []LockInv
BY InvHolds, PTL DEF Inv
=============================================================================
