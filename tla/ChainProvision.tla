--------------------------- MODULE ChainProvision ---------------------------
(***************************************************************************)
(* Chain signer provisioning and start-up.                                 *)
(*                                                                         *)
(* `catomicals wallet chains provision` generates one signer set per       *)
(* chain, writes its artifacts below two managed directories (plain FROST  *)
(* manifests in executor-manifests, everything else as encrypted records   *)
(* in executor-secrets), proves that every executor can be built from what *)
(* it wrote, and installs the seven profiles in the wallet database in one *)
(* transaction.  Whatever fails before that transaction is undone by the   *)
(* destructor of StagedSecrets.  `wallet serve` later builds an executor   *)
(* for each profile of the catalog and reports on a per-chain surface      *)
(* which chains can sign.                                                  *)
(*                                                                         *)
(* All of them open the database through WalletStorage::open, which takes  *)
(* an exclusive owner lock for the life of the handle: lockHolder.         *)
(* Secrets, keys and addresses are the identity <<chain, generation>> of   *)
(* the key generation that made them; the parts of a signer set that are   *)
(* written and read together are one part.                                 *)
(***************************************************************************)
EXTENDS Integers, Sequences, FiniteSets, Functions

CONSTANTS
    Chains,        \* the chains of the product catalog that are modelled
    Provisioners,  \* invocations of the provision command
    MaxRuns,       \* bound on provisioning attempts
    MaxEdits,      \* bound on catalog edits through the storage interface
    MaxDamage,     \* bound on operator changes to the managed directories
    Configurable   \* the chains reconfigured over HTTP

\* resolve_builtin_suite: each suite's chain and backend, and whether it can
\* be executed or is only declared.
Suite(id, chain, backend, executable) ==
    [id |-> id, chain |-> chain, backend |-> backend, executable |-> executable]

BuiltinSuites ==
    {Suite("bip340-frost", "bitcoin", "frost", TRUE),
     Suite("bip340-isolated", "bitcoin", "isolated", FALSE),
     Suite("fractal-frost", "fractal", "frost", TRUE),
     Suite("bch-schnorr", "bch", "isolated", FALSE),
     Suite("bch-ecdsa", "bch", "isolated", FALSE),
     Suite("bch-cbmpc", "bch", "cbmpc", TRUE),
     Suite("bsv-ecdsa", "bsv", "isolated", FALSE),
     Suite("bsv-cbmpc", "bsv", "cbmpc", TRUE),
     Suite("kaspa-frost", "kaspa", "frost-kaspa", FALSE),
     Suite("kaspa-ecdsa", "kaspa", "isolated", FALSE),
     Suite("kaspa-cbmpc", "kaspa", "cbmpc", TRUE),
     Suite("chia-native", "chia", "native", FALSE),
     Suite("chia-threshold", "chia", "chia", TRUE),
     Suite("ergo-native", "ergo", "native", FALSE),
     Suite("ergo-isolated", "ergo", "isolated", TRUE),
     Suite("ergo-threshold", "ergo", "ergo", TRUE)}

\* expected_profiles: the chains in the order they are provisioned, and the
\* suite of each.
Catalog == SelectSeq(<<"bitcoin", "bch", "bsv", "fractal", "kaspa", "chia", "ergo">>,
                     LAMBDA c : c \in Chains)

FixedSuite(c) ==
    CHOOSE s \in BuiltinSuites :
        s.chain = c /\ s.backend \in {"frost", "cbmpc", "chia", "ergo"}

Backend == [c \in Chains |-> FixedSuite(c).backend]

Server == "server"
Free == "free"
NoKek == 0
TornKek == -1

ASSUME ChainsAssumption ==
    /\ Chains # {} /\ Chains \subseteq {s.chain : s \in BuiltinSuites}
    /\ Configurable \subseteq Chains
    /\ Server \notin Provisioners /\ Free \notin Provisioners

VARIABLES
    rows,        \* signer_profiles joined with their address bindings
    secretRefs,  \* secret_refs: id -> handle of the profile's manifest
    suspended,   \* the wallet's state forbids mutations (backup, restore)
    lockHolder,  \* holder of the database's owner lock
    pc,          \* provisioner -> its control point
    gen,         \* provisioner -> the key generation of its attempt
    staged,      \* provisioner -> how many artifacts it has written
    runs,        \* attempts so far
    files,       \* artifact id -> content, both managed directories
    roots,       \* which of the two managed directories exist
    kek,         \* development.kek: absent, torn, or its identity
    executors,   \* executors registered with the serving wallet
    surface,     \* chain -> what the multi-chain surface reports
    report,      \* outcome of the last command that ended
    edits, damage, crashed

provisionVars == <<rows, secretRefs, suspended, lockHolder, pc, gen, staged, runs, files,
          roots, kek, executors, surface, report, edits, damage, crashed>>

catalogVars == <<rows, secretRefs, suspended, edits>>
diskVars == <<files, roots, kek, damage>>
procVars == <<pc, gen, staged, runs, report>>
serveVars == <<executors, surface>>

----------------------------------------------------------------------------
(* Artifacts.                                                              *)

\* The provider shares and then the manifest file of a FROST signer set.
FrostParts == <<"share1", "share2", "share3", "manifest">>

\* A cb-mpc signer set: the TLS identities of its parties, the keys that
\* protect the shares of the two active signers and of the recovery signer,
\* the sealed shares, the manifest.
CbMpcParts == <<"tls", "protector1", "protector2", "protector3",
                "sealed1", "sealed2", "sealed3", "manifest">>

\* The Chia and Ergo dealer sets: three shares, then the manifest.
ChiaParts == <<"share1", "share2", "share3", "manifest">>
ErgoParts == <<"share1", "share2", "share3", "manifest">>

Parts(c) == CASE Backend[c] = "frost" -> FrostParts
              [] Backend[c] = "cbmpc" -> CbMpcParts
              [] Backend[c] = "chia" -> ChiaParts
              [] Backend[c] = "ergo" -> ErgoParts

Artifact(c, g, part) == [chain |-> c, gen |-> g, part |-> part]
Manifest(c, g) == Artifact(c, g, "manifest")
ArtifactsOf(c, g) == {Artifact(c, g, part) : part \in Range(Parts(c))}

\* Everything one attempt writes, in order: chain by chain, part by part.
PartsUpTo[n \in 0..Len(Catalog)] ==
    IF n = 0 THEN <<>>
    ELSE PartsUpTo[n - 1]
           \o [j \in DOMAIN Parts(Catalog[n]) |-> <<Catalog[n], Parts(Catalog[n])[j]>>]

PlannedParts == PartsUpTo[Len(Catalog)]

Plan(g) ==
    [k \in DOMAIN PlannedParts |-> Artifact(PlannedParts[k][1], g, PlannedParts[k][2])]

InManifestRoot(a) == Backend[a.chain] = "frost" /\ a.part = "manifest"

\* put_raw seals a record under the KEK, bound to its own reference; a FROST
\* manifest is a plain file that names its recovery signer (version 2).
Content(a) == [as |-> a, kek |-> IF InManifestRoot(a) THEN NoKek ELSE kek,
               recovery |-> TRUE]

\* get_raw: the record exists, opens under the current KEK and is bound to
\* the reference it was read through.
Readable(a) ==
    /\ ~InManifestRoot(a)
    /\ kek > NoKek
    /\ a \in DOMAIN files
    /\ files[a].as = a
    /\ files[a].kek = kek

\* The manifest source of the FROST builder reads only its own directory;
\* the other builders read records only.
ManifestLoads(c, a) ==
    IF Backend[c] = "frost" THEN InManifestRoot(a) /\ a \in DOMAIN files
                            ELSE Readable(a)

----------------------------------------------------------------------------
(* The signer catalog in the wallet database.                              *)

HandleOf(r) == secretRefs[r.secret]

\* checked_snapshot: the profile made by generation g for chain c.
NewSnapshot(c, g) ==
    [profile |-> <<c, g>>, chain |-> c, suite |-> FixedSuite(c),
     set |-> <<c, g>>, key |-> <<c, g>>, epoch |-> 1, secret |-> <<c, g>>, addresses |-> {"a1"}]

\* snapshots_to_catalog: one secret reference and one profile per chain.
CatalogRows(g) == {NewSnapshot(c, g) : c \in Chains}
CatalogRefs(g) ==
    [id \in {<<c, g>> : c \in Chains} |-> Manifest(id[1], id[2])]

\* ensure_mutations_allowed.
MutationsAllowed == ~suspended

\* install_signer_catalog: only into a database that holds no profile and no
\* stray secret reference.
CatalogInstallable ==
    /\ Cardinality(DOMAIN secretRefs) = Cardinality(rows)
    /\ rows = {}
    /\ MutationsAllowed

\* put_secret_ref: inserts a reference, or repoints an existing one.
PutSecretRef(id, handle) ==
    /\ lockHolder = Free
    /\ edits < MaxEdits
    /\ MutationsAllowed
    /\ secretRefs' = [x \in DOMAIN secretRefs \cup {id} |->
                        IF x = id THEN handle ELSE secretRefs[x]]
    /\ edits' = edits + 1
    /\ UNCHANGED <<rows, suspended, lockHolder, crashed, procVars, diskVars, serveVars>>

\* validate_new_signer_profile: an executable suite of the profile's chain.
ValidNewProfile(r) == r.suite.chain = r.chain /\ r.suite.executable

\* register_signer_profile: profiles are immutable, one per identity and one
\* per (chain, signer set, epoch), and name an existing reference.
RegisterSignerProfile(r) ==
    /\ lockHolder = Free
    /\ edits < MaxEdits
    /\ MutationsAllowed
    /\ r.secret \in DOMAIN secretRefs
    /\ ValidNewProfile(r)
    /\ \A q \in rows : q.profile # r.profile
                       /\ <<q.chain, q.set, q.epoch>> # <<r.chain, r.set, r.epoch>>
    /\ rows' = rows \cup {r}
    /\ edits' = edits + 1
    /\ UNCHANGED <<secretRefs, suspended, lockHolder, crashed, procVars, diskVars, serveVars>>

\* bind_signer_address.
BindSignerAddress(r) ==
    /\ lockHolder = Free
    /\ edits < MaxEdits
    /\ MutationsAllowed
    /\ r \in rows
    /\ "a2" \notin r.addresses
    /\ rows' = (rows \ {r}) \cup {[r EXCEPT !.addresses = @ \cup {"a2"}]}
    /\ edits' = edits + 1
    /\ UNCHANGED <<secretRefs, suspended, lockHolder, crashed, procVars, diskVars, serveVars>>

\* A backup or restore suspends mutations, and its end resumes them.
Suspend ==
    /\ lockHolder = Free
    /\ edits < MaxEdits
    /\ suspended' = ~suspended
    /\ edits' = edits + 1
    /\ UNCHANGED <<rows, secretRefs, lockHolder, crashed, procVars, diskVars, serveVars>>

----------------------------------------------------------------------------
(* The executor builders.                                                  *)

\* The key generation a manifest belongs to: it names the profile, the chain,
\* the signer set and the group key of that generation, at epoch 1.
Made(m) == <<m.as.chain, m.as.gen>>

\* The records a manifest refers to; a version 1 FROST manifest has no
\* recovery signer.
Referenced(m) ==
    LET all == ArtifactsOf(m.as.chain, m.as.gen) \ {m.as}
    IN IF m.recovery THEN all
                     ELSE all \ {Artifact(m.as.chain, m.as.gen, "share3")}

PartOf(m, part) == Artifact(m.as.chain, m.as.gen, part)

\* FrostStartupExecutorBuilder::validate, the checks of the manifest itself.
FrostManifestBound(r, m) ==
    /\ m.as.part = "manifest"
    /\ r.profile = Made(m) /\ r.chain = m.as.chain /\ r.set = Made(m)
    /\ r.suite = FixedSuite(m.as.chain)
    /\ r.epoch = 1 /\ r.key = Made(m)

\* The provider loader resolves a sealed share, and checks it against the
\* public key package of the manifest.
FrostProviderLoads(m, part) == Readable(PartOf(m, part))

\* Recovery share included, every provider must load.
FrostValidate(r, handle) ==
    /\ ManifestLoads(r.chain, handle)
    /\ FrostManifestBound(r, files[handle])
    /\ \A a \in Referenced(files[handle]) : FrostProviderLoads(files[handle], a.part)

\* Only Bitcoin and Fractal have a FROST executor.
FrostBuild(r, handle) ==
    r.chain \in {"bitcoin", "fractal"} /\ FrostValidate(r, handle)

\* CbMpcExecutorManifestV1::validate_for: everything but the group key.
CbMpcManifestBound(r, m) ==
    /\ m.as.part = "manifest"
    /\ r.profile = Made(m) /\ r.chain = m.as.chain /\ r.set = Made(m)
    /\ r.suite = FixedSuite(m.as.chain)
    /\ r.epoch = 1

\* A sealed share opens with its own protector key, under associated data
\* naming the profile, and belongs to the profile's group key.
CbMpcShareOpens(r, m, sealed, protector) ==
    /\ Readable(PartOf(m, sealed))
    /\ Readable(PartOf(m, protector))
    /\ r.key = Made(m)

CbMpcProvidersLoad(r, m) ==
    /\ CbMpcShareOpens(r, m, "sealed1", "protector1")
    /\ CbMpcShareOpens(r, m, "sealed2", "protector2")

CbMpcRecoveryValid(r, m) == CbMpcShareOpens(r, m, "sealed3", "protector3")

\* The mutually authenticated connection between the two active parties.
MtlsPairOpens(m) == Readable(PartOf(m, "tls"))

CbMpcBuild(r, handle) ==
    LET m == files[handle]
    IN /\ ManifestLoads(r.chain, handle)
       /\ CbMpcManifestBound(r, m)
       /\ CbMpcProvidersLoad(r, m)
       /\ m.recovery => CbMpcRecoveryValid(r, m)
       /\ MtlsPairOpens(m)

\* manifest_binding: the Chia and Ergo manifests also commit to the addresses
\* bound when they were written.
ManifestAddresses == {"a1"}

\* load_manifest.
DealerManifestBound(r, m) ==
    /\ m.as.part = "manifest"
    /\ r.profile = Made(m) /\ r.chain = m.as.chain /\ r.set = Made(m)
    /\ r.suite = FixedSuite(m.as.chain)
    /\ r.epoch = 1 /\ r.key = Made(m)
    /\ r.addresses = ManifestAddresses

DealerShareImports(m, part) == Readable(PartOf(m, part))

ChiaBuild(r, handle) ==
    /\ ManifestLoads(r.chain, handle)
    /\ DealerManifestBound(r, files[handle])
    /\ \A part \in {"share1", "share2", "share3"} :
            DealerShareImports(files[handle], part)

ErgoBuild(r, handle) ==
    /\ ManifestLoads(r.chain, handle)
    /\ DealerManifestBound(r, files[handle])
    /\ \A part \in {"share1", "share2", "share3"} :
            DealerShareImports(files[handle], part)

\* build_validated_executor: an executable suite, and the factory of the
\* profile's backend; the isolated backend has none.
Builds(r, handle) ==
    /\ r.suite.executable
    /\ CASE r.suite.backend = "frost" -> FrostBuild(r, handle)
         [] r.suite.backend = "cbmpc" -> CbMpcBuild(r, handle)
         [] r.suite.backend = "chia" -> ChiaBuild(r, handle)
         [] r.suite.backend = "ergo" -> ErgoBuild(r, handle)
         [] OTHER -> FALSE

----------------------------------------------------------------------------
(* Checks of an existing catalog.                                          *)

\* validate_existing_catalog: exactly the fixed profiles, all independent.
ValidExistingCatalog ==
    /\ Cardinality(rows) = Len(Catalog)
    /\ \A q, r \in rows : q # r =>
          q.set # r.set /\ HandleOf(q) # HandleOf(r) /\ q.key # r.key
    /\ {r.chain : r \in rows} = Chains
    /\ \A r \in rows : /\ r.suite = FixedSuite(r.chain)
                       /\ r.epoch = 1
                       /\ Cardinality(r.addresses) = 1

\* Only what the catalog refers to is checked, not what else is there.
InventoryWithoutExtras ==
    LET manifests == {HandleOf(r) : r \in rows}
        loadable == \A r \in rows : ManifestLoads(r.chain, HandleOf(r))
        reachable == manifests \cup UNION {Referenced(files[a]) : a \in manifests}
    IN /\ roots = {"manifests", "secrets"}
       /\ loadable
       /\ \A a \in reachable : InManifestRoot(a) \/ Readable(a)
       /\ reachable \subseteq DOMAIN files

\* validate_managed_artifact_inventory: the files are exactly those reachable
\* from the catalog, and every record opens.
ExactInventory ==
    LET manifests == {HandleOf(r) : r \in rows}
        loadable == \A r \in rows : ManifestLoads(r.chain, HandleOf(r))
        reachable == manifests \cup UNION {Referenced(files[a]) : a \in manifests}
    IN /\ roots = {"manifests", "secrets"}
       /\ loadable
       /\ \A a \in reachable : InManifestRoot(a) \/ Readable(a)
       /\ DOMAIN files = reachable

\* validate_startup_builders, on the catalog and on the staged profiles.
AllBuild == \A r \in rows : Builds(r, HandleOf(r))
StagedBuild(g) == \A c \in Chains : Builds(NewSnapshot(c, g), Manifest(c, g))

\* FileSecretBackend::open on an existing or missing directory: a missing KEK
\* is replaced by a new one.
OpenedKek == IF kek = NoKek THEN MaxRuns + damage ELSE kek

----------------------------------------------------------------------------
(* The provision command.                                                  *)

Goto(p, label) == pc' = [pc EXCEPT ![p] = label]

\* The command ends: its handle on the database, and so the lock, goes last.
Return(p, outcome) ==
    /\ Goto(p, "idle")
    /\ gen' = [gen EXCEPT ![p] = 0]
    /\ staged' = [staged EXCEPT ![p] = 0]
    /\ report' = outcome
    /\ lockHolder' = Free

\* Opening the durable wallet; while another process owns it the command ends
\* with an error and changes nothing.
OpenWallet(p) ==
    /\ pc[p] = "idle"
    /\ runs < MaxRuns
    /\ lockHolder = Free
    /\ lockHolder' = p
    /\ runs' = runs + 1
    /\ gen' = [gen EXCEPT ![p] = runs + 1]
    /\ Goto(p, "opened")
    /\ UNCHANGED <<staged, report, crashed, catalogVars, diskVars, serveVars>>

\* A catalog exists: it is validated and nothing is generated.
CheckExisting(p) ==
    /\ pc[p] = "opened"
    /\ rows # {}
    /\ Return(p, IF ValidExistingCatalog /\ ExactInventory /\ AllBuild
                 THEN "already_present" ELSE "refused")
    /\ kek' = IF ValidExistingCatalog /\ roots = {"manifests", "secrets"}
              THEN OpenedKek ELSE kek
    /\ UNCHANGED <<runs, files, roots, damage, crashed,
                   catalogVars, serveVars>>

\* prepare_empty_managed_roots: each directory must be absent or empty, and an
\* empty one is removed, the manifests directory first.
ManifestRootEmpty == \A a \in DOMAIN files : ~InManifestRoot(a)
SecretRootEmpty == kek = NoKek /\ \A a \in DOMAIN files : InManifestRoot(a)

PrepareEmptyRoots(p) ==
    /\ pc[p] = "opened"
    /\ rows = {}
    /\ roots' = IF ~ManifestRootEmpty THEN roots
                ELSE IF ~SecretRootEmpty THEN roots \ {"manifests"}
                ELSE {}
    /\ IF ManifestRootEmpty /\ SecretRootEmpty
       THEN Goto(p, "prepared") /\ UNCHANGED <<report, lockHolder, gen, staged>>
       ELSE Return(p, "refused")
    /\ UNCHANGED <<runs, files, kek, damage, crashed,
                   catalogVars, serveVars>>

\* SecretBackendFactory::resolve makes the directory and an empty KEK file,
\* and then writes the KEK.
CreateSecretRoot(p) ==
    /\ pc[p] = "prepared"
    /\ roots' = roots \cup {"secrets"}
    /\ kek' = TornKek
    /\ Goto(p, "root")
    /\ UNCHANGED <<gen, staged, runs, report, lockHolder, files, damage, crashed,
                   catalogVars, serveVars>>

WriteKek(p) ==
    /\ pc[p] = "root"
    /\ kek' = gen[p]
    /\ roots' = roots \cup {"manifests"}
    /\ Goto(p, "staging")
    /\ UNCHANGED <<gen, staged, runs, report, lockHolder, files, damage, crashed,
                   catalogVars, serveVars>>

\* The backend, or the manifests directory after it, cannot be made: the
\* secrets directory is removed.
BackendFails(p) ==
    /\ pc[p] = "root"
    /\ roots' = roots \ {"secrets"}
    /\ kek' = NoKek
    /\ Return(p, "failed")
    /\ UNCHANGED <<runs, files, damage, crashed,
                   catalogVars, serveVars>>

\* StagedSecrets::put and write_manifest, over provision_all_profiles.
Stage(p) ==
    /\ pc[p] = "staging"
    /\ staged[p] + 1 \in DOMAIN Plan(gen[p])
    /\ LET a == Plan(gen[p])[staged[p] + 1]
       IN files' = [x \in DOMAIN files \cup {a} |->
                      IF x = a THEN Content(a) ELSE files[x]]
    /\ staged' = [staged EXCEPT ![p] = @ + 1]
    /\ UNCHANGED <<pc, gen, runs, report, lockHolder, roots, kek, damage, crashed,
                   catalogVars, serveVars>>

\* Every staged executor must start before the catalog names it.
ValidateStaged(p) ==
    /\ pc[p] = "staging"
    /\ staged[p] = Len(Plan(gen[p]))
    /\ StagedBuild(gen[p])
    /\ Goto(p, "validated")
    /\ UNCHANGED <<gen, staged, runs, report, lockHolder, crashed,
                   catalogVars, diskVars, serveVars>>

\* The installing transaction.
InstallCatalog(p) ==
    /\ pc[p] = "validated"
    /\ CatalogInstallable
    /\ rows' = CatalogRows(gen[p])
    /\ secretRefs' = CatalogRefs(gen[p])
    /\ Goto(p, "installed")
    /\ UNCHANGED <<gen, staged, runs, report, lockHolder, suspended, edits, crashed,
                   diskVars, serveVars>>

\* committed = true, the summary, and the end of the command.
Committed(p) ==
    /\ pc[p] = "installed"
    /\ Return(p, "installed")
    /\ UNCHANGED <<runs, crashed, catalogVars, diskVars, serveVars>>

\* The database handle is dropped before the staged secrets.
UnwindUnlocked(p) ==
    /\ pc[p] \in {"staging", "validated"}
    /\ Goto(p, "drop")
    /\ lockHolder' = Free
    /\ UNCHANGED <<gen, staged, runs, report, crashed,
                   catalogVars, diskVars, serveVars>>

\* A put, a validation or the install fails: the stack unwinds and the staged
\* secrets are dropped, while the database is still open.
Unwind(p) ==
    /\ pc[p] \in {"staging", "validated"}
    /\ Goto(p, "drop")
    /\ UNCHANGED <<gen, staged, runs, report, lockHolder, crashed,
                   catalogVars, diskVars, serveVars>>

\* StagedSecrets::drop removes the records and manifests it wrote, then both
\* directories, the secrets directory first.
DropSecrets(p) ==
    /\ pc[p] = "drop"
    /\ files' = [a \in {x \in DOMAIN files : InManifestRoot(x)
                                 /\ x \notin Range(Plan(gen[p]))} |-> files[a]]
    /\ kek' = NoKek
    /\ roots' = roots \ {"secrets"}
    /\ Goto(p, "dropped")
    /\ UNCHANGED <<gen, staged, runs, report, lockHolder, damage, crashed,
                   catalogVars, serveVars>>

DropManifests(p) ==
    /\ pc[p] = "dropped"
    /\ files' = [a \in {x \in DOMAIN files : ~InManifestRoot(x)} |-> files[a]]
    /\ roots' = roots \ {"manifests"}
    /\ Return(p, "failed")
    /\ UNCHANGED <<runs, kek, damage, crashed,
                   catalogVars, serveVars>>

\* The process dies: no destructor runs, the kernel releases the lock.
Crash(p) ==
    /\ pc[p] # "idle"
    /\ Goto(p, "idle")
    /\ report' = "crashed"
    /\ lockHolder' = IF lockHolder = p THEN Free ELSE lockHolder
    /\ gen' = [gen EXCEPT ![p] = 0]
    /\ staged' = [staged EXCEPT ![p] = 0]
    /\ crashed' = TRUE
    /\ UNCHANGED <<runs, catalogVars, diskVars, serveVars>>

----------------------------------------------------------------------------
(* wallet serve.                                                           *)

NotReady == [state |-> "unavailable", profile |-> <<>>]

\* bootstrap_wallet_executors: the profiles in the order of chain and epoch,
\* each built and recorded on its chain's surface, so that the last profile of
\* a chain is the one reported.
LastProfile(c) ==
    CHOOSE r \in rows : r.chain = c /\ \A q \in rows : q.chain = c => q.epoch <= r.epoch

\* A chain with any executor is reported ready, whichever profile is shown.
BootstrappedByAny(c) ==
    IF \E r \in rows : r.chain = c
    THEN [state |-> IF \E r \in rows : r.chain = c /\ Builds(r, HandleOf(r))
                    THEN "ready" ELSE "failed",
          profile |-> LastProfile(c).profile]
    ELSE NotReady

Bootstrapped(c) ==
    IF \E r \in rows : r.chain = c
    THEN [state |-> IF Builds(LastProfile(c), HandleOf(LastProfile(c))) THEN "ready" ELSE "failed",
          profile |-> LastProfile(c).profile]
    ELSE NotReady

\* What an executor signs with: the key of its profile, the shares its
\* manifest refers to.
ExecutorOf(r) ==
    [profile |-> r.profile, key |-> r.key,
     shares |-> {<<a.chain, a.gen>> : a \in Referenced(files[HandleOf(r)])}]

\* startup_executor_builders, with the development secret backend allowed: the
\* directories are made when there is a catalog to start.
StartupRoots == IF rows = {} THEN roots ELSE {"manifests", "secrets"}

\* serve, up to its first request.
Serve ==
    /\ lockHolder = Free
    /\ lockHolder' = Server
    /\ roots' = StartupRoots
    /\ kek' = IF rows = {} THEN kek ELSE OpenedKek
    /\ executors' = {ExecutorOf(r) : r \in {q \in rows : Builds(q, HandleOf(q))}}
    /\ surface' = [c \in Chains |-> Bootstrapped(c)]
    /\ UNCHANGED <<files, damage, crashed, procVars, catalogVars>>

\* POST of a chain configuration with an executable suite: the chain's surface
\* starts over while its executor stays registered.
Configure(c) ==
    /\ lockHolder = Server
    /\ \E s \in BuiltinSuites : s.chain = c /\ s.executable
    /\ surface' = [surface EXCEPT ![c] = NotReady]
    /\ UNCHANGED <<executors, lockHolder, crashed, procVars, catalogVars, diskVars>>

StopServing ==
    /\ lockHolder = Server
    /\ lockHolder' = Free
    /\ executors' = {}
    /\ surface' = [c \in Chains |-> NotReady]
    /\ UNCHANGED <<crashed, procVars, catalogVars, diskVars>>

----------------------------------------------------------------------------
(* The operator's hands on the managed directories.                        *)

Damage(newFiles, newKek, newRoots) ==
    /\ lockHolder = Free
    /\ damage < MaxDamage
    /\ damage' = damage + 1
    /\ files' = newFiles
    /\ kek' = newKek
    /\ roots' = newRoots
    /\ UNCHANGED <<lockHolder, crashed, procVars, catalogVars, serveVars>>

RemoveFile(a) ==
    Damage([x \in DOMAIN files \ {a} |-> files[x]], kek, roots)

SwapManifests(a, b) ==
    Damage([files EXCEPT ![a] = files[b], ![b] = files[a]], kek, roots)

\* A version 1 manifest, without the recovery signer, in place of a FROST one.
StripRecovery(a) ==
    Damage([files EXCEPT ![a].recovery = FALSE], kek, roots)

RemoveSecretRoot ==
    Damage([x \in {y \in DOMAIN files : InManifestRoot(y)} |-> files[x]],
           NoKek, roots \ {"secrets"})

ClearManagedRoots == Damage(<<>>, NoKek, {})

----------------------------------------------------------------------------
ProvisionInit ==
    /\ rows = {} /\ secretRefs = <<>> /\ suspended = FALSE
    /\ lockHolder = Free
    /\ pc = [p \in Provisioners |-> "idle"]
    /\ gen = [p \in Provisioners |-> 0]
    /\ staged = [p \in Provisioners |-> 0]
    /\ report = "none"
    /\ runs = 0
    /\ files = <<>> /\ roots = {} /\ kek = NoKek
    /\ executors = {} /\ surface = [c \in Chains |-> NotReady]
    /\ edits = 0 /\ damage = 0 /\ crashed = FALSE

Provision(p) ==
    \/ OpenWallet(p) \/ CheckExisting(p) \/ PrepareEmptyRoots(p)
    \/ CreateSecretRoot(p) \/ WriteKek(p) \/ BackendFails(p)
    \/ Stage(p) \/ ValidateStaged(p) \/ InstallCatalog(p) \/ Committed(p)
    \/ Unwind(p) \/ DropSecrets(p) \/ DropManifests(p) \/ Crash(p)

ManifestsOnDisk == {a \in DOMAIN files : a.part = "manifest"}

\* Callers of the storage interface: a new epoch of a chain's signer set that
\* names some stored reference, or a repointed reference.
NewEpochRow(r, s, x) ==
    [profile |-> <<r.chain, 0>>, chain |-> r.chain, suite |-> s, set |-> r.set,
     key |-> r.key, epoch |-> 2, secret |-> x, addresses |-> {"a1"}]

EditCatalog ==
    \/ \E id \in DOMAIN secretRefs \cup {<<"new", 0>>}, a \in ManifestsOnDisk :
            PutSecretRef(id, a)
    \/ \E r \in rows, s \in BuiltinSuites, x \in DOMAIN secretRefs :
            RegisterSignerProfile(NewEpochRow(r, s, x))
    \/ \E r \in rows : BindSignerAddress(r)
    \/ Suspend

Operator ==
    \/ \E a \in DOMAIN files : RemoveFile(a)
    \/ \E a, b \in DOMAIN files :
            a # b /\ InManifestRoot(a) /\ InManifestRoot(b) /\ SwapManifests(a, b)
    \/ \E a \in DOMAIN files : InManifestRoot(a) /\ StripRecovery(a)
    \/ RemoveSecretRoot
    \/ ClearManagedRoots

ProvisionNext ==
    \/ \E p \in Provisioners : Provision(p)
    \/ EditCatalog
    \/ Serve \/ StopServing \/ \E c \in Configurable : Configure(c)
    \/ Operator

ProvisionSpec == ProvisionInit /\ [][ProvisionNext]_provisionVars

----------------------------------------------------------------------------
(* Properties.                                                             *)

\* The managed directories agree with the catalog for as long as nobody touches
\* them by hand.  A provisioned profile keeps every artifact it was generated
\* with, readable: no failing, crashing or concurrent provision command and no
\* server removes or reseals them (StagedSecrets::drop removes whole
\* directories).  And whenever nobody has the wallet open, its catalog is empty
\* and no process was killed, the directories are gone, so that provisioning can
\* be tried again (prepare_empty_managed_roots refuses leftovers).
ArtifactsMatchCatalog ==
    damage = 0 =>
        /\ \A r \in rows : r.profile[2] > 0 =>
              \A a \in ArtifactsOf(r.profile[1], r.profile[2]) :
                  a \in DOMAIN files /\ (InManifestRoot(a) \/ Readable(a))
        /\ lockHolder = Free /\ rows = {} /\ ~crashed =>
              DOMAIN files = {} /\ roots = {} /\ kek = NoKek

\* Each chain has one profile, its reference leads to the manifest of that
\* very profile, everything the manifests refer to opens, and the managed
\* directories hold nothing else.
Referable == UNION {Referenced(files[HandleOf(r)]) \cup {HandleOf(r)} : r \in rows}

InventoryComplete ==
    /\ {r.chain : r \in rows} = Chains
    /\ \A q, r \in rows : q.chain = r.chain => q = r
    /\ \A r \in rows : r.profile = <<files[HandleOf(r)].as.chain, files[HandleOf(r)].as.gen>>
    /\ \A a \in Referable : InManifestRoot(a) \/ Readable(a)
    /\ DOMAIN files = Referable

\* When the command reports "installed" or "already_present", the inventory it
\* leaves is complete.
ReportIsComplete ==
    [][\A p \in Provisioners :
         pc[p] # "idle" /\ pc'[p] = "idle"
           /\ report' \in {"installed", "already_present"} => InventoryComplete]_provisionVars

\* A chain is reported ready only for a profile whose executor is registered,
\* and that executor signs with the shares of its own profile's key.
ReadyIsBound ==
    \A c \in Chains : surface[c].state = "ready" =>
        \E e \in executors :
            e.profile = surface[c].profile /\ e.shares = {e.key}
=============================================================================
