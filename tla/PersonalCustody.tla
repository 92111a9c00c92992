-------------------------- MODULE PersonalCustody --------------------------
(***************************************************************************)
(* Where the three shares of a personal 2-of-3 signer live, and the        *)
(* commands that put them there.  `wallet signer personal bootstrap` runs  *)
(* the key generation once, seals share 3 for offline recovery, wraps      *)
(* share 2 for the desktop, writes both with the public profile into a     *)
(* fresh output directory, hands the recovery key to the caller and        *)
(* installs share 1 in the wallet's data directory.  `wallet serve` and    *)
(* `wallet signer init` open that share, or generate a signer when there   *)
(* is none; `backup export` and `backup restore` copy it.                  *)
(*                                                                         *)
(* A key generation is a number: it stands for the fresh profile id,       *)
(* signer set id and group key drawn with it.  A digest, a seal or a wrap  *)
(* is the value it binds.  A write is a temporary file, a rename and a     *)
(* sync of the directory, so it fails before or after it takes effect.     *)
(***************************************************************************)
EXTENDS Naturals, FiniteSets

CONSTANTS
    Processes,      \* the commands that may run at the same time
    Wallets,        \* wallet ids a command line may name
    Authority,      \* the wallet id of the data directory's authority database
    OutDirs,        \* output directories a bootstrap may name
    DeviceKeys,     \* ids of device keys (Secure Enclave)
    Backups,        \* backup bundles
    Epochs,         \* signer epochs a bootstrap may name
    MaxGenerations,        \* bound on key generations
    MaxFaults,      \* bound on crashes and failed writes
    MaxHandles,     \* no restore starts once this many handles were drawn
    NoDir, NoKey, NoBackup

ASSUME CustodyAssumption ==
    /\ Authority \in Wallets
    /\ Epochs \subseteq Nat
    /\ MaxGenerations \in Nat /\ MaxFaults \in Nat /\ MaxHandles \in Nat

VARIABLES
    manifest,       \* signer.json: at most one manifest
    records,        \* signer-secrets/records: the stored secrets
    secretsDir,     \* does the directory signer-secrets exist
    signerOwner,          \* process holding the signer's owner lock
    database,       \* process holding the authority database's owner lock
    restoreState,   \* the authority's restore state
    outDirs,        \* the provisioning output directories
    delivered,      \* recovery keys written to the caller's descriptor
    deviceKeys,     \* device keys that exist
    bundles,        \* the backup bundles
    deks,           \* data keys in the backup backend
    reported,       \* what successful bootstraps reported
    proc,           \* where each process is
    generations, handles, faults, losses,
    torn            \* a manifest's directory could not be synced after its rename

custodyVars == <<manifest, records, secretsDir, signerOwner, database, restoreState,
                 outDirs, delivered, deviceKeys, bundles, deks, reported, proc,
                 generations, handles, faults, losses, torn>>

----------------------------------------------------------------------------
(* Profiles, packages and the checks on them.                              *)

Profile(w, e, k) == [wallet |-> w, epoch |-> e, run |-> k]

NoProfile == Profile(Authority, 0, 0)

ProfileIsValid(f) == f.epoch # 0

Package(f, s) == [profile |-> f, signer |-> s, share |-> <<f.run, s>>]

\* The share a package yields under a profile: none unless every field binds it.
OpenPackage(pkg, f) ==
    {x \in {pkg.share} : /\ ProfileIsValid(f)
                         /\ pkg.profile = f
                         /\ pkg.signer \in 1..3
                         /\ pkg.share = <<f.run, pkg.signer>>}

SealRecovery(pkg, f) == [profile |-> f, key |-> f.run, package |-> pkg]

OpenRecovery(bundle, key, f) ==
    {x \in OpenPackage(bundle.package, f) :
        bundle.profile = f /\ bundle.key = key /\ bundle.package.signer = 3}

DeviceBinding(d, f, generation) ==
    [key |-> d, profile |-> f, signer |-> 2, epoch |-> f.epoch, generation |-> generation]

SealDevice(pkg, binding) == [binding |-> binding, package |-> pkg]

LoadDesktopParticipant(wrapped, config, f) ==
    {x \in OpenPackage(wrapped.package, f) :
        /\ wrapped.binding = DeviceBinding(config.key, f, config.generation)
        /\ config.key \in deviceKeys
        /\ wrapped.package.signer = 2}

----------------------------------------------------------------------------
(* The durable signer of the data directory.                               *)

Payload(f, s, personal) ==
    [profile |-> f, signer |-> s, personal |-> personal, package |-> Package(f, s)]

ManifestOf(payload, h) == [profile |-> payload.profile, signer |-> payload.signer, handle |-> h]

ValidateBinding(m, payload) ==
    /\ m.profile = payload.profile /\ m.signer = payload.signer
    /\ m.profile.epoch # 0

\* A locally generated signer may hold any share, a personal one only share 1.
OpenPayload(m, payload) ==
    {x \in OpenPackage(payload.package, m.profile) :
        payload.package.signer = (IF payload.personal THEN 1 ELSE m.signer)}

\* The share PersistentSigner::open finds for wallet w and signer s.
OpenSigner(w, s) ==
    UNION {UNION {OpenPayload(m, r.payload) :
                    r \in {r \in records : r.handle = m.handle /\ ValidateBinding(m, r.payload)}} :
           m \in {m \in manifest : m.profile.wallet = w /\ m.signer = s}}

ValidRecovery(attachment) ==
    LET m == ManifestOf(attachment.payload, 0)
    IN  /\ attachment.dek \in deks
        /\ attachment.audit = attachment.payload.profile
        /\ ValidateBinding(m, attachment.payload)
        /\ OpenPayload(m, attachment.payload) # {}

----------------------------------------------------------------------------
Idle == [at |-> "idle", out |-> NoDir, profile |-> NoProfile, device |-> NoKey,
         generation |-> 0, handle |-> 0, backup |-> NoBackup, signer |-> 0]

NoOutput == [there |-> FALSE, profile |-> {}, device |-> {}, bundle |-> {}]

NoBundle == [there |-> FALSE, signer |-> {}]

CustodyInit ==
    /\ manifest = {} /\ records = {} /\ secretsDir = FALSE
    /\ signerOwner = {} /\ database = {}
    /\ restoreState = "normal"
    /\ outDirs = [o \in OutDirs |-> NoOutput]
    /\ delivered = {} /\ deviceKeys = {}
    /\ bundles = [b \in Backups |-> NoBundle]
    /\ deks = {} /\ reported = {}
    /\ proc = [p \in Processes |-> Idle]
    /\ generations = 0 /\ handles = 0 /\ faults = 0 /\ losses = 0
    /\ torn = FALSE

Jump(p, at) == proc' = [proc EXCEPT ![p].at = at]

\* A write succeeds, fails before its rename, or fails after it.
Outcomes == {"ok"} \cup IF faults < MaxFaults THEN {"before", "after"} ELSE {}

Count(outcome) == faults' = IF outcome = "ok" THEN faults ELSE faults + 1

Release(p) == signerOwner' = signerOwner \ {p} /\ database' = database \ {p}

dirVars == <<manifest, records, secretsDir, torn, handles>>
lockVars == <<signerOwner, database, restoreState>>
outVars == <<outDirs, delivered, deviceKeys, reported>>
backupVars == <<bundles, deks>>
boundVars == <<generations, losses>>

----------------------------------------------------------------------------
(* bootstrap_personal_signer_with_protector                                *)

\* Paths are checked, the device key is created (an id that exists is refused),
\* the key generation runs and shares 3 and 2 are sealed, all in memory.
BootstrapStart(p, o, w, e, d, g) ==
    /\ proc[p].at = "idle"
    /\ ~outDirs[o].there
    /\ manifest = {} /\ ~secretsDir
    /\ d \notin deviceKeys
    /\ e # 0 /\ g # 0
    /\ generations < MaxGenerations
    /\ generations' = generations + 1
    /\ deviceKeys' = deviceKeys \cup {d}
    /\ proc' = [proc EXCEPT ![p] = [Idle EXCEPT !.at = "mkdir", !.out = o, !.device = d,
                    !.generation = g, !.profile = Profile(w, e, generations + 1)]]
    /\ UNCHANGED <<dirVars, lockVars, outDirs, delivered, reported, backupVars, faults, losses>>

\* As MakeOutput, but the failure runs the clean-up of the later steps.
MakeOutputCleaning(p) ==
    /\ proc[p].at = "mkdir"
    /\ IF outDirs[proc[p].out].there
       THEN Jump(p, "cleanup") /\ UNCHANGED outDirs
       ELSE /\ outDirs' = [outDirs EXCEPT ![proc[p].out].there = TRUE]
            /\ Jump(p, "profile")
    /\ UNCHANGED <<dirVars, lockVars, delivered, deviceKeys, reported, backupVars,
                   boundVars, faults>>

\* create_private_output_directory fails when the directory appeared meanwhile.
MakeOutput(p) ==
    /\ proc[p].at = "mkdir"
    /\ IF outDirs[proc[p].out].there
       THEN proc' = [proc EXCEPT ![p] = Idle] /\ UNCHANGED outDirs
       ELSE /\ outDirs' = [outDirs EXCEPT ![proc[p].out].there = TRUE]
            /\ Jump(p, "profile")
    /\ UNCHANGED <<dirVars, lockVars, delivered, deviceKeys, reported, backupVars,
                   boundVars, faults>>

\* The step after the one at `at`, and the file that one writes.
NextOutput(at) == [profile |-> "device", device |-> "bundle", bundle |-> "key"][at]

OutputValue(p) ==
    LET f == proc[p].profile
    IN  [profile |-> f,
         device  |-> SealDevice(Package(f, 2),
                                DeviceBinding(proc[p].device, f, proc[p].generation)),
         bundle  |-> SealRecovery(Package(f, 3), f)][proc[p].at]

WriteOutput(p, outcome) ==
    /\ proc[p].at \in {"profile", "device", "bundle"}
    /\ outDirs' = IF outcome = "before" THEN outDirs
                  ELSE [outDirs EXCEPT ![proc[p].out][proc[p].at] = {OutputValue(p)}]
    /\ Jump(p, IF outcome = "ok" THEN NextOutput(proc[p].at) ELSE "cleanup")
    /\ Count(outcome)
    /\ UNCHANGED <<dirVars, lockVars, delivered, deviceKeys, reported, backupVars, boundVars>>

\* A pipe that fails may already have carried the whole key.
DeliverKey(p, outcome) ==
    /\ proc[p].at = "key"
    /\ delivered' = IF outcome = "before" THEN delivered
                    ELSE delivered \cup {proc[p].profile.run}
    /\ Jump(p, IF outcome = "ok" THEN "install" ELSE "cleanup")
    /\ Count(outcome)
    /\ UNCHANGED <<dirVars, lockVars, outDirs, deviceKeys, reported, backupVars, boundVars>>

\* As Install, but trusting the checks made before the key generation.
InstallUnchecked(p) ==
    /\ proc[p].at = "install"
    /\ IF signerOwner # {}
       THEN Jump(p, "cleanup") /\ UNCHANGED <<signerOwner, secretsDir>>
       ELSE /\ secretsDir' = TRUE
            /\ Jump(p, "put")
            /\ signerOwner' = {p}
    /\ UNCHANGED <<manifest, records, torn, handles, database, restoreState, outVars,
                   backupVars, boundVars, faults>>

\* install_personal_wallet_share, from the owner lock to the check of the records.
Install(p) ==
    /\ proc[p].at = "install"
    /\ IF signerOwner # {} \/ manifest # {}
       THEN Jump(p, "cleanup") /\ UNCHANGED <<signerOwner, secretsDir>>
       ELSE /\ secretsDir' = TRUE
            /\ IF records # {} THEN Jump(p, "cleanup") /\ UNCHANGED signerOwner
               ELSE Jump(p, "put") /\ signerOwner' = {p}
    /\ UNCHANGED <<manifest, records, torn, handles, database, restoreState, outVars,
                   backupVars, boundVars, faults>>

\* FileSecretBackend::put_raw: a failure after the rename leaves the record behind.
PutRecord(p, payload, outcome) ==
    /\ handles' = handles + 1
    /\ records' = IF outcome = "before" THEN records
                  ELSE records \cup {[handle |-> handles + 1, payload |-> payload]}
    /\ Count(outcome)

DropRecord(h) == records' = {r \in records : r.handle # h}

\* write_manifest_atomic: on any failure the caller deletes the new record, also
\* when the manifest that names it was already renamed into place.
WriteManifest(p, payload, outcome) ==
    /\ manifest' = IF outcome = "before" THEN manifest ELSE {ManifestOf(payload, proc[p].handle)}
    /\ IF outcome = "ok" THEN UNCHANGED records ELSE DropRecord(proc[p].handle)
    /\ torn' = IF outcome = "before" THEN torn ELSE outcome = "after"
    /\ Count(outcome)

WalletPayload(p) == Payload(proc[p].profile, 1, TRUE)

InstallPut(p, outcome) ==
    /\ proc[p].at = "put"
    /\ PutRecord(p, WalletPayload(p), outcome)
    /\ IF outcome = "ok"
       THEN /\ proc' = [proc EXCEPT ![p].at = "manifest", ![p].handle = handles + 1]
            /\ UNCHANGED signerOwner
       ELSE Jump(p, "cleanup") /\ signerOwner' = {}
    /\ UNCHANGED <<manifest, secretsDir, torn, database, restoreState, outVars, backupVars,
                   boundVars>>

\* A successful install ends the bootstrap, which then reports its artifacts.
InstallManifest(p, outcome) ==
    /\ proc[p].at = "manifest"
    /\ WriteManifest(p, WalletPayload(p), outcome)
    /\ signerOwner' = {}
    /\ IF outcome = "ok"
       THEN /\ proc' = [proc EXCEPT ![p] = Idle]
            /\ reported' = reported \cup {[profile |-> proc[p].profile, out |-> proc[p].out,
                    config |-> [key |-> proc[p].device, generation |-> proc[p].generation]]}
       ELSE Jump(p, "cleanup") /\ UNCHANGED reported
    /\ UNCHANGED <<secretsDir, handles, database, restoreState, outDirs, delivered, deviceKeys,
                   backupVars, boundVars>>

\* cleanup_private_outputs removes the files one by one, then the directory.
CleanupOutputs(p) ==
    LET o == proc[p].out
        left == {x \in {"profile", "device", "bundle"} : outDirs[o][x] # {}}
        first == CHOOSE x \in left : /\ "profile" \in left => x = "profile"
                                     /\ "profile" \notin left /\ "device" \in left => x = "device"
    IN  /\ proc[p].at = "cleanup"
        /\ IF left = {}
           THEN /\ outDirs' = [outDirs EXCEPT ![o] = NoOutput]
                /\ proc' = [proc EXCEPT ![p] = Idle]
           ELSE outDirs' = [outDirs EXCEPT ![o][first] = {}] /\ UNCHANGED proc
        /\ UNCHANGED <<dirVars, lockVars, delivered, deviceKeys, reported, backupVars,
                       boundVars, faults>>

----------------------------------------------------------------------------
(* wallet serve (open_durable_signer) and wallet signer init: both hold the *)
(* authority database; only `serve` refuses to generate a signer while the  *)
(* authority is recovering.                                                 *)

OpenedShare(s) == OpenSigner(Authority, s)

MayInitialize(kind) == kind = "init" \/ restoreState = "normal"

OpenDurableSigner(p, kind, s) ==
    /\ proc[p].at = "idle"
    /\ database = {} /\ signerOwner = {}
    /\ manifest = {} => MayInitialize(kind) /\ generations < MaxGenerations
    /\ secretsDir' = TRUE
    /\ IF manifest # {} /\ OpenedShare(s) = {}
       THEN UNCHANGED <<signerOwner, database, proc, generations>>
       ELSE /\ signerOwner' = {p} /\ database' = {p}
            /\ IF manifest # {}
               THEN proc' = [proc EXCEPT ![p] = [Idle EXCEPT !.at = "serving", !.signer = s]]
                    /\ UNCHANGED generations
               ELSE /\ generations' = generations + 1
                    /\ proc' = [proc EXCEPT ![p] = [Idle EXCEPT !.at = "initPut", !.signer = s,
                                    !.profile = Profile(Authority, 1, generations + 1)]]
    /\ UNCHANGED <<manifest, records, torn, handles, restoreState, outVars, backupVars,
                   faults, losses>>

InitPayload(p) == Payload(proc[p].profile, proc[p].signer, FALSE)

InitializePut(p, outcome) ==
    /\ proc[p].at = "initPut"
    /\ PutRecord(p, InitPayload(p), outcome)
    /\ IF outcome = "ok"
       THEN /\ proc' = [proc EXCEPT ![p].at = "initManifest", ![p].handle = handles + 1]
            /\ UNCHANGED <<signerOwner, database>>
       ELSE proc' = [proc EXCEPT ![p] = Idle] /\ Release(p)
    /\ UNCHANGED <<manifest, secretsDir, torn, restoreState, outVars, backupVars, boundVars>>

InitializeManifest(p, outcome) ==
    /\ proc[p].at = "initManifest"
    /\ WriteManifest(p, InitPayload(p), outcome)
    /\ IF outcome = "ok"
       THEN /\ proc' = [proc EXCEPT ![p] = [Idle EXCEPT !.at = "serving", !.signer = proc[p].signer]]
            /\ UNCHANGED <<signerOwner, database>>
       ELSE proc' = [proc EXCEPT ![p] = Idle] /\ Release(p)
    /\ UNCHANGED <<secretsDir, handles, restoreState, outVars, backupVars, boundVars>>

StopSigner(p) ==
    /\ proc[p].at = "serving"
    /\ proc' = [proc EXCEPT ![p] = Idle]
    /\ Release(p)
    /\ UNCHANGED <<dirVars, restoreState, outVars, backupVars, boundVars, faults>>

----------------------------------------------------------------------------
(* backup export: the database first, then the signer's share.             *)

Export(p, b) ==
    /\ proc[p].at = "idle"
    /\ database = {} /\ ~bundles[b].there
    /\ bundles' = [bundles EXCEPT ![b].there = TRUE]
    /\ database' = {p}
    /\ proc' = [proc EXCEPT ![p] = [Idle EXCEPT !.at = "export", !.backup = b]]
    /\ UNCHANGED <<dirVars, signerOwner, restoreState, outVars, deks, boundVars, faults>>

\* Without a manifest there is nothing to attach.  The signer is opened under the
\* identity its own manifest names.
ExportSigner(p, outcome) ==
    LET opened == signerOwner = {} /\ \E m \in manifest : OpenSigner(m.profile.wallet, m.signer) # {}
        dek == handles + 1
    IN  /\ proc[p].at = "export"
        /\ IF opened
           THEN /\ handles' = dek
                /\ deks' = IF outcome = "before" THEN deks ELSE deks \cup {dek}
                /\ Count(outcome)
           ELSE outcome = "ok" /\ UNCHANGED <<handles, deks, faults>>
        /\ IF opened /\ outcome = "ok"
           THEN /\ proc' = [proc EXCEPT ![p].at = "attach", ![p].handle = dek]
                /\ signerOwner' = {p}
                /\ UNCHANGED <<bundles, database>>
           ELSE /\ bundles' = IF manifest = {} THEN bundles
                              ELSE [bundles EXCEPT ![proc[p].backup] = NoBundle]
                /\ proc' = [proc EXCEPT ![p] = Idle] /\ database' = {}
                /\ UNCHANGED signerOwner
        /\ UNCHANGED <<manifest, records, secretsDir, torn, restoreState, outVars, boundVars>>

ExportAttach(p, outcome) ==
    LET payload == CHOOSE x \in {r.payload : r \in {r \in records :
                        \E m \in manifest : m.handle = r.handle}} : TRUE
    IN  /\ proc[p].at = "attach"
        /\ IF outcome = "ok"
           THEN /\ bundles' = [bundles EXCEPT ![proc[p].backup].signer =
                        {[audit |-> payload.profile, payload |-> payload, dek |-> proc[p].handle]}]
                /\ UNCHANGED deks
           ELSE /\ bundles' = [bundles EXCEPT ![proc[p].backup] = NoBundle]
                /\ deks' = deks \ {proc[p].handle}
        /\ proc' = [proc EXCEPT ![p] = Idle]
        /\ Release(p)
        /\ Count(outcome)
        /\ UNCHANGED <<dirVars, restoreState, outVars, boundVars>>

----------------------------------------------------------------------------
(* backup restore: the attachment is checked, the database is cut over into *)
(* its recovering state, and the share replaces the signer of the directory.*)

Restore(p, b) ==
    /\ proc[p].at = "idle"
    /\ bundles[b].there /\ handles < MaxHandles
    /\ \A a \in bundles[b].signer : ValidRecovery(a)
    /\ database = {}
    /\ database' = {p}
    /\ restoreState' = "recovering"
    /\ proc' = [proc EXCEPT ![p] = [Idle EXCEPT !.at = "restore", !.backup = b]]
    /\ UNCHANGED <<dirVars, signerOwner, outVars, backupVars, boundVars, faults>>

Attachment(p) == bundles[proc[p].backup].signer

RestoreSigner(p) ==
    /\ proc[p].at = "restore"
    /\ IF \E a \in Attachment(p) : signerOwner = {} /\ ValidRecovery(a) /\ a.audit.wallet = Authority
       THEN /\ signerOwner' = {p} /\ secretsDir' = TRUE
            /\ Jump(p, "restorePut")
            /\ UNCHANGED database
       ELSE /\ proc' = [proc EXCEPT ![p] = Idle] /\ database' = {}
            /\ UNCHANGED <<signerOwner, secretsDir>>
    /\ UNCHANGED <<manifest, records, torn, handles, restoreState, outVars, backupVars,
                   boundVars, faults>>

RestorePut(p, outcome) ==
    /\ proc[p].at = "restorePut"
    /\ \E a \in Attachment(p) : PutRecord(p, a.payload, outcome)
    /\ IF outcome = "ok"
       THEN /\ proc' = [proc EXCEPT ![p].at = "restoreManifest", ![p].handle = handles + 1]
            /\ UNCHANGED <<signerOwner, database>>
       ELSE proc' = [proc EXCEPT ![p] = Idle] /\ Release(p)
    /\ UNCHANGED <<manifest, secretsDir, torn, restoreState, outVars, backupVars, boundVars>>

RestoreManifest(p, outcome) ==
    /\ proc[p].at = "restoreManifest"
    /\ \E a \in Attachment(p) : WriteManifest(p, a.payload, outcome)
    /\ proc' = [proc EXCEPT ![p] = Idle]
    /\ Release(p)
    /\ UNCHANGED <<secretsDir, handles, restoreState, outVars, backupVars, boundVars>>

----------------------------------------------------------------------------
\* A process dies wherever it is: its locks are released, its files stay.
CustodyCrash(p) ==
    /\ proc[p].at # "idle" /\ faults < MaxFaults
    /\ faults' = faults + 1
    /\ proc' = [proc EXCEPT ![p] = Idle]
    /\ Release(p)
    /\ UNCHANGED <<dirVars, restoreState, outVars, backupVars, boundVars>>

\* The wallet node's disk is lost; a new data directory takes its place.
LoseDataDirectory ==
    /\ \A p \in Processes : proc[p].at = "idle"
    /\ losses = 0 /\ manifest # {}
    /\ losses' = 1
    /\ manifest' = {} /\ records' = {} /\ secretsDir' = FALSE /\ torn' = FALSE
    /\ restoreState' = "normal"
    /\ UNCHANGED <<signerOwner, database, outVars, backupVars, proc, generations, handles, faults>>

CustodyNext ==
    \/ \E p \in Processes :
         \/ \E o \in OutDirs, w \in Wallets, e \in Epochs, d \in DeviceKeys :
                BootstrapStart(p, o, w, e, d, 1)
         \/ MakeOutput(p) \/ Install(p) \/ CleanupOutputs(p)
         \/ \E kind \in {"serve", "init"}, s \in 1..3 : OpenDurableSigner(p, kind, s)
         \/ StopSigner(p)
         \/ \E b \in Backups : Export(p, b) \/ Restore(p, b)
         \/ RestoreSigner(p) \/ CustodyCrash(p)
         \/ \E outcome \in Outcomes :
                \/ WriteOutput(p, outcome) \/ DeliverKey(p, outcome)
                \/ InstallPut(p, outcome) \/ InstallManifest(p, outcome)
                \/ InitializePut(p, outcome) \/ InitializeManifest(p, outcome)
                \/ ExportSigner(p, outcome) \/ ExportAttach(p, outcome)
                \/ RestorePut(p, outcome) \/ RestoreManifest(p, outcome)
    \/ LoseDataDirectory

CustodySpec == CustodyInit /\ [][CustodyNext]_custodyVars

----------------------------------------------------------------------------
(* Properties.                                                             *)

\* A bootstrap that reported success can be relied on from then on: under its
\* profile, the device package of its output directory opens with the reported
\* device key, the recovery bundle opens with a key that was delivered, and, until
\* the data directory is lost or restored over, the wallet opens share 1.  No
\* other bootstrap, failed, crashed or concurrent, takes one of them away
\* (bootstrap_personal_signer_with_protector and cleanup_private_outputs).  And
\* wherever a command crashes or fails, the manifest on disk names a stored record
\* that opens to its share: the secret is stored before its manifest and an old one
\* outlives a restore.  The exception is a directory sync that fails after the
\* manifest's rename (write_manifest_atomic).
SharesOpen ==
    /\ \A r \in reported :
        LET f == r.profile
            out == outDirs[r.out]
        IN  /\ out.profile = {f}
            /\ {<<f.run, 2>>} = UNION {LoadDesktopParticipant(x, r.config, f) : x \in out.device}
            /\ {<<f.run, 3>>} = UNION {UNION {OpenRecovery(x, k, f) : k \in delivered} :
                                       x \in out.bundle}
            /\ losses = 0 /\ restoreState = "normal" => OpenSigner(f.wallet, 1) = {<<f.run, 1>>}
    /\ ~torn => \A m \in manifest : OpenSigner(m.profile.wallet, m.signer) # {}

\* Only a restore replaces the signer of a data directory: a bootstrap that checked
\* an empty directory before a concurrent `wallet serve` generated a signer there
\* does not install over it, and opening never generates a second signer
\* (install_personal_wallet_share, PersistentSigner::open).
SignerNeverReplaced ==
    [][manifest # {} /\ manifest' # {} /\ manifest' # manifest
        => \E p \in Processes : proc[p].at = "restoreManifest" /\ proc'[p].at = "idle"]_custodyVars
============================================================================
