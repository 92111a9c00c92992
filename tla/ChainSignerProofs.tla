-------------------------- MODULE ChainSignerProofs ---------------------------
(***************************************************************************)
(* Proofs about the signers of the chains.  Their provisioning and the start *)
(* of their executors, for any set of chains and provisioners; and the      *)
(* reviews they sign, for any accounts, materials and nodes: a signature is *)
(* accepted, and a spend is broadcast, only as an approved review says.     *)
(***************************************************************************)
EXTENDS ChainProvision, ReviewedSigning, TLAPS

----------------------------------------------------------------------------
(***************************************************************************)
(* Chain signer provisioning: the catalog of suites                         *)
(***************************************************************************)
Factories == {"frost", "cbmpc", "chia", "ergo"}

\* The fixed suite of a provisioned chain is a built-in suite of that chain
\* with an executor factory (expected_profiles against
\* resolve_builtin_suite), so its parts are known.
LEMMA FixedSuiteKnown ==
    ASSUME NEW c \in Chains
    PROVE  /\ FixedSuite(c) \in BuiltinSuites
           /\ FixedSuite(c).chain = c
           /\ FixedSuite(c).backend \in Factories
           /\ Backend[c] = FixedSuite(c).backend
<1>1. PICK t \in BuiltinSuites : t.chain = c
  BY Zenon, ChainsAssumption
<1>2. t.chain \in {"bitcoin", "fractal", "bch", "bsv", "kaspa", "chia", "ergo"}
  BY DEF BuiltinSuites, Suite
<1>3. \E s \in BuiltinSuites : s.chain = c /\ s.backend \in Factories
  <2> DEFINE known == {Suite("bip340-frost", "bitcoin", "frost", TRUE),
                       Suite("fractal-frost", "fractal", "frost", TRUE),
                       Suite("bch-cbmpc", "bch", "cbmpc", TRUE),
                       Suite("bsv-cbmpc", "bsv", "cbmpc", TRUE),
                       Suite("kaspa-cbmpc", "kaspa", "cbmpc", TRUE),
                       Suite("chia-threshold", "chia", "chia", TRUE),
                       Suite("ergo-threshold", "ergo", "ergo", TRUE)}
  <2>1. known \subseteq BuiltinSuites
    BY Zenon DEF BuiltinSuites
  <2>2. \E s \in known : s.chain = c /\ s.backend \in Factories
    BY Zenon, <1>1, <1>2 DEF Suite, Factories
  <2> QED BY Zenon, <2>1, <2>2
<1>4. /\ FixedSuite(c) \in BuiltinSuites
      /\ FixedSuite(c).chain = c
      /\ FixedSuite(c).backend \in Factories
  BY Zenon, <1>3 DEF FixedSuite, Factories
<1> QED BY Zenon, <1>4 DEF Backend

\* Every signer set has a first part that is neither its manifest nor the
\* share of its recovery signer.
LEMMA SetHasAPart ==
    ASSUME NEW c \in Chains
    PROVE  \E part \in Range(Parts(c)) : part \notin {"manifest", "share3"}
<1>1. CASE Backend[c] = "cbmpc"
  <2>1. Range(Parts(c)) = Range(CbMpcParts)
    BY Zenon, <1>1 DEF Parts
  <2>2. "tls" \in Range(CbMpcParts)
    BY DEF Range, CbMpcParts
  <2> QED BY <2>1, <2>2
<1>2. CASE Backend[c] \in {"frost", "chia", "ergo"}
  <2>1. Parts(c) = <<"share1", "share2", "share3", "manifest">>
    BY Zenon, <1>2 DEF Parts, FrostParts, ChiaParts, ErgoParts
  <2>2. "share1" \in Range(Parts(c))
    BY <2>1 DEF Range
  <2> QED BY Zenon, <2>2
<1> QED BY Zenon, <1>1, <1>2, FixedSuiteKnown DEF Factories

(***************************************************************************)
(* What a successful build shows                                            *)
(***************************************************************************)
\* Whichever factory builds an executor, the manifest it read is the one of
\* the profile's own key (the manifest checks of the builders; cb-mpc compares
\* the key only when it opens a share).
LEMMA BuiltIsBound ==
    ASSUME NEW r, NEW h, Builds(r, h)
    PROVE  /\ h \in DOMAIN files
           /\ files[h].as.part = "manifest"
           /\ files[h].as.chain = r.chain
           /\ r.profile = Made(files[h]) /\ r.key = Made(files[h])
<1>1. CASE r.suite.backend = "frost"
  BY Zenon, <1>1 DEF Builds, FrostBuild, FrostValidate, FrostManifestBound, ManifestLoads, Readable
<1>2. CASE r.suite.backend = "cbmpc"
  BY Zenon, <1>2 DEF Builds, CbMpcBuild, CbMpcManifestBound, CbMpcProvidersLoad, CbMpcShareOpens,
              ManifestLoads, Readable
<1>3. CASE r.suite.backend = "chia"
  BY Zenon, <1>3 DEF Builds, ChiaBuild, DealerManifestBound, ManifestLoads, Readable
<1>4. CASE r.suite.backend = "ergo"
  BY Zenon, <1>4 DEF Builds, ErgoBuild, DealerManifestBound, ManifestLoads, Readable
<1> QED BY Zenon, <1>1, <1>2, <1>3, <1>4 DEF Builds

\* A builder answers the same as long as the directories are the same.
LEMMA BuildsAgain ==
    ASSUME NEW r, NEW h, Builds(r, h), files' = files, kek' = kek
    PROVE  Builds(r, h)'
<1>1. \A a : Readable(a) => Readable(a)'
  BY Zenon DEF Readable
<1>2. ManifestLoads(r.chain, h) => ManifestLoads(r.chain, h)'
  BY Zenon, <1>1 DEF ManifestLoads
<1>3. CASE r.suite.backend = "frost"
  BY Zenon, <1>1, <1>2, <1>3 DEF Builds, FrostBuild, FrostValidate, FrostProviderLoads
<1>4. CASE r.suite.backend = "cbmpc"
  BY Zenon, <1>1, <1>2, <1>4 DEF Builds, CbMpcBuild, CbMpcProvidersLoad, CbMpcRecoveryValid,
                          CbMpcShareOpens, MtlsPairOpens
<1>5. CASE r.suite.backend = "chia"
  BY Zenon, <1>1, <1>2, <1>5 DEF Builds, ChiaBuild, DealerShareImports
<1>6. CASE r.suite.backend = "ergo"
  BY Zenon, <1>1, <1>2, <1>6 DEF Builds, ErgoBuild, DealerShareImports
<1> QED BY Zenon, <1>3, <1>4, <1>5, <1>6 DEF Builds

\* The shares a manifest refers to are all of its own key generation, and
\* there is one.
LEMMA SharesOfOneKey ==
    ASSUME NEW m, m.as.chain \in Chains, m.as.part = "manifest"
    PROVE  {<<a.chain, a.gen>> : a \in Referenced(m)} = {Made(m)}
<1> DEFINE c == m.as.chain
           g == m.as.gen
<1>1. PICK part \in Range(Parts(c)) : part \notin {"manifest", "share3"}
  BY Zenon, SetHasAPart
<1>2. Artifact(c, g, part).part = part /\ Artifact(c, g, "share3").part = "share3"
  BY Zenon DEF Artifact
<1>3. Artifact(c, g, part) \in Referenced(m)
  BY Zenon, <1>1, <1>2 DEF Referenced, ArtifactsOf
<1>4. \A a \in Referenced(m) : a.chain = c /\ a.gen = g
  BY DEF Referenced, ArtifactsOf, Artifact
<1> QED BY Zenon, <1>3, <1>4 DEF Made

\* A generation whose executors all build from manifests that name their
\* recovery signer has every artifact of its plan on disk, readable
\* (validate_startup_builders before the catalog is installed).
LEMMA StagedReadable ==
    ASSUME NEW g, NEW c \in Chains, StagedBuild(g),
           \A x \in DOMAIN files : files[x].recovery,
           NEW a \in ArtifactsOf(c, g)
    PROVE  a \in DOMAIN files /\ (InManifestRoot(a) \/ Readable(a))
<1> DEFINE r == NewSnapshot(c, g)
           h == Manifest(c, g)
<1>1. Builds(r, h)
  BY Zenon DEF StagedBuild
<1>2. r.suite = FixedSuite(c) /\ r.chain = c /\ r.profile = <<c, g>>
  BY Zenon DEF NewSnapshot
<1>3. r.suite.backend = Backend[c] /\ Backend[c] \in Factories
  BY Zenon, <1>2, FixedSuiteKnown
<1>4. PICK part \in Range(Parts(c)) : a = Artifact(c, g, part)
  BY Zenon DEF ArtifactsOf
<1>5. /\ h \in DOMAIN files /\ files[h].recovery
      /\ files[h].as.chain = c /\ files[h].as.gen = g
      /\ files[h].as.part = "manifest"
  BY <1>1, <1>2, BuiltIsBound DEF Made
<1>6. PartOf(files[h], part) = a /\ a.part = part
  BY Zenon, <1>4, <1>5 DEF PartOf, Artifact
<1> HIDE DEF r, h
<1>7. CASE part = "manifest"
  <2>1. a = h
    BY Zenon, <1>4, <1>7 DEF h, Manifest
  <2>2. ManifestLoads(c, h)
    BY Zenon, <1>1, <1>2, <1>3 DEF Builds, FrostBuild, FrostValidate, CbMpcBuild, ChiaBuild, ErgoBuild, Factories
  <2> QED BY Zenon, <2>1, <2>2 DEF ManifestLoads, Readable
<1>8. CASE part # "manifest" /\ Backend[c] = "frost"
  <2>1. a \in Referenced(files[h])
    BY Zenon, <1>4, <1>5, <1>6, <1>8 DEF Referenced, ArtifactsOf
  <2>2. \A x \in Referenced(files[h]) : FrostProviderLoads(files[h], x.part)
    BY Zenon, <1>1, <1>3, <1>8 DEF Builds, FrostBuild, FrostValidate
  <2> QED BY Zenon, <1>6, <2>1, <2>2 DEF FrostProviderLoads, Readable
<1>9. CASE part # "manifest" /\ Backend[c] = "cbmpc"
  <2>1. part \in {"tls", "protector1", "protector2", "protector3", "sealed1", "sealed2", "sealed3"}
    <3>1. Range(Parts(c)) = Range(CbMpcParts)
      BY Zenon, <1>9 DEF Parts
    <3>2. \A x \in Range(CbMpcParts) :
            x \in {"tls", "protector1", "protector2", "protector3", "sealed1", "sealed2", "sealed3", "manifest"}
      BY DEF Range, CbMpcParts
    <3> QED BY Zenon, <1>9, <3>1, <3>2
  <2>2. CbMpcBuild(r, h)
    BY Zenon, <1>1, <1>3, <1>9 DEF Builds
  <2>3. Readable(PartOf(files[h], part))
    BY Zenon, <1>5, <2>1, <2>2 DEF CbMpcBuild, CbMpcProvidersLoad, CbMpcRecoveryValid, CbMpcShareOpens, MtlsPairOpens
  <2> QED BY Zenon, <1>6, <2>3 DEF Readable
<1>10. CASE part # "manifest" /\ Backend[c] \in {"chia", "ergo"}
  <2>1. Parts(c) = <<"share1", "share2", "share3", "manifest">>
    BY Zenon, <1>10 DEF Parts, ChiaParts, ErgoParts
  <2>2. part \in {"share1", "share2", "share3"}
    BY <1>10, <2>1 DEF Range
  <2>3. Readable(PartOf(files[h], part))
    BY Zenon, <1>1, <1>3, <1>10, <2>2 DEF Builds, ChiaBuild, ErgoBuild, DealerShareImports
  <2> QED BY <1>6, <2>3 DEF Readable
<1> QED BY Zenon, <1>3, <1>7, <1>8, <1>9, <1>10 DEF Factories

(***************************************************************************)
(* The invariant of the commands.  The owner lock makes a command that is   *)
(* past its opening the only one; what it may find in the managed           *)
(* directories follows from its control point, since nobody else writes     *)
(* there.  An installed catalog keeps its artifacts because every command   *)
(* that removes or reseals has seen an empty catalog under the same lock.   *)
(***************************************************************************)
Staging == {"prepared", "root", "staging", "validated", "drop", "dropped"}
Labels == Staging \cup {"idle", "opened", "installed"}

Ids == (Chains \cup {"new"}) \X Nat

Profiles == [profile : Chains \X Nat, chain : Chains, suite : BuiltinSuites,
             set : Chains \X Nat, key : Chains \X Nat, epoch : {1, 2},
             secret : Ids, addresses : SUBSET {"a1", "a2"}]

ProvisionTypeOK ==
    /\ rows \subseteq Profiles
    /\ DOMAIN secretRefs \subseteq Ids
    /\ lockHolder \in Provisioners \cup {Server, Free}
    /\ pc \in [Provisioners -> Labels]
    /\ gen \in [Provisioners -> Nat]
    /\ staged \in [Provisioners -> Nat]
    /\ runs \in Nat /\ damage \in Nat
    /\ crashed \in BOOLEAN

HolderInv ==
    \A p \in Provisioners : pc[p] # "idle" => lockHolder = p /\ gen[p] > 0

StagingAt(p) ==
    /\ pc[p] \in Staging => rows = {}
    /\ pc[p] = "installed" => rows # {}
    /\ pc[p] = "prepared" => DOMAIN files = {} /\ kek = NoKek /\ roots = {}
    /\ pc[p] = "root" => DOMAIN files = {} /\ roots = {"secrets"}
    /\ pc[p] \in {"staging", "validated", "drop"} =>
          /\ DOMAIN files \subseteq Range(Plan(gen[p]))
          /\ \A a \in DOMAIN files : files[a].recovery
          /\ kek = gen[p]
          /\ roots = {"manifests", "secrets"}
    /\ pc[p] = "validated" => StagedBuild(gen[p])
    /\ pc[p] = "dropped" => DOMAIN files = {} /\ kek = NoKek /\ roots = {"manifests"}

StagingInv == \A p \in Provisioners : StagingAt(p)

\* A provisioned profile's artifacts.
Kept(r) ==
    r.profile[2] > 0 =>
       \A a \in ArtifactsOf(r.profile[1], r.profile[2]) :
          a \in DOMAIN files /\ (InManifestRoot(a) \/ Readable(a))

CatalogInv ==
    damage = 0 =>
       /\ rows # {} => kek > NoKek
       /\ \A r \in rows : Kept(r)

CleanInv ==
    /\ damage = 0
    /\ ~crashed
    /\ rows = {}
    /\ \A p \in Provisioners : pc[p] \in {"idle", "opened"}
    => DOMAIN files = {} /\ roots = {} /\ kek = NoKek

ProvisionInv ==
    /\ ProvisionTypeOK
    /\ HolderInv
    /\ StagingInv
    /\ CatalogInv
    /\ CleanInv
    /\ ReadyIsBound

\* Nothing is provisioned and nothing runs.
LEMMA ProvisionInvInit == ProvisionInit => ProvisionInv
<1> SUFFICES ASSUME ProvisionInit PROVE ProvisionInv
  BY Zenon
<1>1. ProvisionTypeOK
  <2>1. secretRefs = <<>> /\ DOMAIN <<>> = {}
    BY DEF ProvisionInit
  <2>2. DOMAIN secretRefs \subseteq Ids
    BY Zenon, <2>1
  <2> QED BY Zenon, <2>2 DEF ProvisionInit, ProvisionTypeOK, Labels
<1>2. HolderInv
  BY Zenon DEF ProvisionInit, HolderInv
<1>3. StagingInv
  BY Zenon DEF ProvisionInit, StagingInv, StagingAt, Staging
<1>4. CatalogInv /\ CleanInv
  BY DEF ProvisionInit, CatalogInv, CleanInv
<1>5. ReadyIsBound
  BY Zenon DEF ProvisionInit, ReadyIsBound, NotReady
<1> QED BY Zenon, <1>1, <1>2, <1>3, <1>4, <1>5 DEF ProvisionInv

\* While the lock is free or the server's, no provision command is past its
\* opening (WalletStorage::open).
LEMMA NobodyProvisions ==
    ASSUME ProvisionInv, lockHolder \in {Free, Server}
    PROVE  \A p \in Provisioners : pc[p] = "idle"
BY Zenon, ChainsAssumption DEF ProvisionInv, HolderInv

\* Of two provision commands one at most is past its opening.
LEMMA OneProvisions ==
    ASSUME ProvisionInv, NEW p \in Provisioners, pc[p] # "idle"
    PROVE  lockHolder = p /\ \A q \in Provisioners \ {p} : pc[q] = "idle"
BY Zenon DEF ProvisionInv, HolderInv

(***************************************************************************)
(* The steps of the provision command                                       *)
(***************************************************************************)
\* The catalog and the managed directories as they were, for a command that
\* only moves on.
LEMMA TypeMoves ==
    ASSUME ProvisionTypeOK, NEW p \in Provisioners, NEW l \in Labels, Goto(p, l)
    PROVE  pc' \in [Provisioners -> Labels] /\ pc'[p] = l
           /\ \A q \in Provisioners \ {p} : pc'[q] = pc[q]
BY Zenon DEF ProvisionTypeOK, Goto

\* A command that ends leaves no command past its opening.
LEMMA Returned ==
    ASSUME ProvisionInv, NEW p \in Provisioners, pc[p] # "idle", NEW o, Return(p, o)
    PROVE  /\ pc' \in [Provisioners -> Labels] /\ \A q \in Provisioners : pc'[q] = "idle"
           /\ gen' \in [Provisioners -> Nat] /\ staged' \in [Provisioners -> Nat]
           /\ lockHolder' = Free
           /\ HolderInv' /\ StagingInv'
<1>1. "idle" \in Labels
  BY Zenon DEF Labels
<1>2. pc' \in [Provisioners -> Labels] /\ \A q \in Provisioners : pc'[q] = "idle"
  BY Zenon, <1>1, OneProvisions DEF Return, Goto, ProvisionInv, ProvisionTypeOK
<1>3. gen' \in [Provisioners -> Nat] /\ staged' \in [Provisioners -> Nat]
  BY Zenon DEF Return, ProvisionInv, ProvisionTypeOK
<1>4. HolderInv'
  BY Zenon, <1>2 DEF HolderInv
<1>5. StagingInv'
  BY Zenon, <1>2 DEF StagingInv, StagingAt, Staging
<1> QED BY Zenon, <1>2, <1>3, <1>4, <1>5 DEF Return

\* A step that keeps the server's state keeps what it reports.
LEMMA NotServed == ASSUME ReadyIsBound, UNCHANGED serveVars PROVE ReadyIsBound'
BY Zenon DEF ReadyIsBound, serveVars

\* A step that changes neither the catalog nor what is on disk keeps the
\* artifacts of the catalog.
LEMMA CatalogKept ==
    ASSUME CatalogInv, rows' = rows, files' = files, kek' = kek, damage' = damage
    PROVE  CatalogInv'
BY Zenon DEF CatalogInv, Kept, Readable

\* A command between its opening and its end that moves on and keeps the lock.
LEMMA HolderMoves ==
    ASSUME ProvisionInv, NEW p \in Provisioners, pc[p] # "idle", NEW l \in Labels, Goto(p, l),
           gen' = gen, lockHolder' = lockHolder
    PROVE  /\ HolderInv'
           /\ pc' \in [Provisioners -> Labels] /\ pc'[p] = l
           /\ \A q \in Provisioners \ {p} : pc'[q] = "idle"
           /\ \A q \in Provisioners \ {p} : StagingAt(q)'
<1>1. /\ pc' \in [Provisioners -> Labels] /\ pc'[p] = l
      /\ \A q \in Provisioners \ {p} : pc'[q] = "idle"
  BY Zenon, TypeMoves, OneProvisions DEF ProvisionInv
<1>2. HolderInv'
  BY Zenon, <1>1 DEF ProvisionInv, HolderInv
<1>3. \A q \in Provisioners \ {p} : StagingAt(q)'
  BY Zenon, <1>1 DEF StagingAt, Staging
<1> QED BY Zenon, <1>1, <1>2, <1>3

\* Opening, and the two answers a command gives before it writes anything.
LEMMA OpeningSteps ==
    ASSUME ProvisionInv, NEW p \in Provisioners,
           OpenWallet(p) \/ CheckExisting(p) \/ PrepareEmptyRoots(p)
    PROVE  ProvisionInv'
<1>0. /\ ProvisionTypeOK /\ HolderInv /\ StagingInv /\ CatalogInv /\ CleanInv /\ ReadyIsBound
  BY Zenon DEF ProvisionInv
<1>1. CASE OpenWallet(p)
  <2>1. \A q \in Provisioners : pc[q] = "idle"
    BY Zenon, <1>1, NobodyProvisions DEF OpenWallet
  <2>2. /\ pc' \in [Provisioners -> Labels] /\ pc'[p] = "opened"
        /\ \A q \in Provisioners \ {p} : pc'[q] = "idle"
    BY Zenon, <1>0, <1>1, <2>1, TypeMoves DEF OpenWallet, Labels
  <2>3. /\ gen' \in [Provisioners -> Nat] /\ gen'[p] > 0
        /\ runs' \in Nat
        /\ UNCHANGED <<staged, crashed, damage, rows, secretRefs, files, kek, roots>>
        /\ UNCHANGED serveVars
        /\ lockHolder' = p
    BY <1>0, <1>1 DEF OpenWallet, ProvisionTypeOK, catalogVars, diskVars
  <2>4. ProvisionTypeOK'
    BY Zenon, <1>0, <2>2, <2>3 DEF ProvisionTypeOK
  <2>5. HolderInv'
    BY Zenon, <2>2, <2>3 DEF HolderInv
  <2>6. StagingInv'
    BY Zenon, <2>2 DEF StagingInv, StagingAt, Staging
  <2>7. CatalogInv' /\ ReadyIsBound'
    BY Zenon, <1>0, <2>3, CatalogKept, NotServed
  <2>8. CleanInv'
    BY Zenon, <1>0, <2>1, <2>3 DEF CleanInv
  <2> QED BY Zenon, <2>4, <2>5, <2>6, <2>7, <2>8 DEF ProvisionInv
<1>2. CASE CheckExisting(p)
  <2>1. PICK o : Return(p, o)
    BY Zenon, <1>2 DEF CheckExisting
  <2>2. /\ pc' \in [Provisioners -> Labels] /\ \A q \in Provisioners : pc'[q] = "idle"
        /\ gen' \in [Provisioners -> Nat] /\ staged' \in [Provisioners -> Nat]
        /\ lockHolder' = Free /\ HolderInv' /\ StagingInv'
    BY Zenon, <1>2, <2>1, Returned DEF CheckExisting
  <2>3. /\ rows # {}
        /\ UNCHANGED <<runs, crashed, damage, rows, secretRefs, files, roots>>
        /\ UNCHANGED serveVars
        /\ kek > NoKek => kek' = kek
    BY <1>2 DEF CheckExisting, catalogVars, OpenedKek, NoKek
  <2>4. ProvisionTypeOK'
    BY Zenon, <1>0, <2>2, <2>3 DEF ProvisionTypeOK
  <2>5. CatalogInv'
    <3>1. CASE damage = 0
      BY Zenon, <1>0, <2>3, <3>1, CatalogKept DEF CatalogInv
    <3>2. CASE damage # 0
      BY Zenon, <2>3, <3>2 DEF CatalogInv
    <3> QED BY Zenon, <3>1, <3>2
  <2>6. CleanInv'
    BY Zenon, <2>3 DEF CleanInv
  <2>7. ReadyIsBound'
    BY Zenon, <1>0, <2>3, NotServed
  <2> QED BY Zenon, <2>2, <2>4, <2>5, <2>6, <2>7 DEF ProvisionInv
<1>3. CASE PrepareEmptyRoots(p)
  <2>1. /\ pc[p] = "opened"
        /\ rows = {}
        /\ UNCHANGED <<runs, crashed, damage, rows, secretRefs, files, kek>>
        /\ UNCHANGED serveVars
    BY Zenon, <1>3 DEF PrepareEmptyRoots, catalogVars
  <2>2. CatalogInv' /\ ReadyIsBound'
    BY Zenon, <1>0, <2>1, CatalogKept, NotServed
  <2>3. CASE ManifestRootEmpty /\ SecretRootEmpty
    <3>1. /\ Goto(p, "prepared") /\ UNCHANGED <<lockHolder, gen, staged>>
          /\ roots' = {}
      BY Zenon, <1>3, <2>3 DEF PrepareEmptyRoots
    <3>2. /\ HolderInv'
          /\ pc' \in [Provisioners -> Labels] /\ pc'[p] = "prepared"
          /\ \A q \in Provisioners \ {p} : pc'[q] = "idle"
          /\ \A q \in Provisioners \ {p} : StagingAt(q)'
      <4>1. "prepared" \in Labels
        BY Zenon DEF Labels, Staging
      <4> QED BY Zenon, <2>1, <3>1, <4>1, HolderMoves
    <3>3. ProvisionTypeOK'
      BY Zenon, <1>0, <2>1, <3>1, <3>2 DEF ProvisionTypeOK
    <3>4. DOMAIN files = {} /\ kek = NoKek
      BY Zenon, <2>3 DEF ManifestRootEmpty, SecretRootEmpty
    <3>5. StagingAt(p)'
      BY Zenon, <2>1, <3>1, <3>2, <3>4 DEF StagingAt
    <3>6. CleanInv'
      BY Zenon, <3>2 DEF CleanInv
    <3> QED BY Zenon, <2>2, <3>2, <3>3, <3>5, <3>6 DEF ProvisionInv, StagingInv
  <2>4. CASE ~(ManifestRootEmpty /\ SecretRootEmpty)
    <3>1. Return(p, "refused")
      BY Zenon, <1>3, <2>4 DEF PrepareEmptyRoots
    <3>2. /\ pc' \in [Provisioners -> Labels] /\ \A q \in Provisioners : pc'[q] = "idle"
          /\ gen' \in [Provisioners -> Nat] /\ staged' \in [Provisioners -> Nat]
          /\ lockHolder' = Free /\ HolderInv' /\ StagingInv'
      BY Zenon, <2>1, <3>1, Returned
    <3>3. ProvisionTypeOK'
      BY Zenon, <1>0, <2>1, <3>2 DEF ProvisionTypeOK
    <3>4. CleanInv'
      <4>1. \A q \in Provisioners : pc[q] \in {"idle", "opened"}
        BY Zenon, <2>1, OneProvisions
      <4>2. DOMAIN files = {} /\ kek = NoKek => ManifestRootEmpty /\ SecretRootEmpty
        BY Zenon DEF ManifestRootEmpty, SecretRootEmpty
      <4>3. damage # 0 \/ crashed
        BY Zenon, <1>0, <2>1, <2>4, <4>1, <4>2 DEF CleanInv
      <4> QED BY Zenon, <2>1, <4>3 DEF CleanInv
    <3> QED BY Zenon, <2>2, <3>2, <3>3, <3>4 DEF ProvisionInv
  <2> QED BY Zenon, <2>3, <2>4
<1> QED BY Zenon, <1>1, <1>2, <1>3

\* From the empty directories to the last artifact.
LEMMA WritingSteps ==
    ASSUME ProvisionInv, NEW p \in Provisioners,
           CreateSecretRoot(p) \/ WriteKek(p) \/ Stage(p) \/ ValidateStaged(p) \/ Unwind(p)
    PROVE  ProvisionInv'
<1>0. /\ ProvisionTypeOK /\ HolderInv /\ StagingAt(p) /\ CatalogInv /\ CleanInv /\ ReadyIsBound
  BY Zenon DEF ProvisionInv, StagingInv
<1>1. /\ pc[p] \in Staging /\ pc[p] # "idle"
      /\ rows = {}
      /\ UNCHANGED <<gen, runs, lockHolder, damage, crashed, rows, secretRefs>>
      /\ UNCHANGED serveVars
  BY Zenon, <1>0 DEF CreateSecretRoot, WriteKek, Stage, ValidateStaged, Unwind, Staging, StagingAt,
              catalogVars, diskVars
<1>2. gen[p] \in Nat /\ gen[p] > 0
  BY Zenon, <1>0, <1>1 DEF HolderInv, ProvisionTypeOK
<1>3. CatalogInv' /\ ReadyIsBound'
  BY Zenon, <1>0, <1>1, NotServed DEF CatalogInv
<1>4. ASSUME NEW l \in Staging, Goto(p, l), staged' = staged, StagingAt(p)'
      PROVE  ProvisionInv'
  <2>1. /\ HolderInv'
        /\ pc' \in [Provisioners -> Labels] /\ pc'[p] = l
        /\ \A q \in Provisioners \ {p} : StagingAt(q)'
    <3>1. l \in Labels
      BY Zenon DEF Labels
    <3> QED BY Zenon, <1>1, <1>4, <3>1, HolderMoves
  <2>2. ProvisionTypeOK'
    BY Zenon, <1>0, <1>1, <1>4, <2>1 DEF ProvisionTypeOK
  <2>3. CleanInv'
    BY Zenon, <2>1 DEF CleanInv, Staging
  <2> QED BY Zenon, <1>3, <1>4, <2>1, <2>2, <2>3 DEF ProvisionInv, StagingInv
<1>5. ASSUME NEW l \in Staging, Goto(p, l) PROVE pc'[p] = l
  BY Zenon, <1>0, <1>5, TypeMoves DEF Labels
<1>6. CASE CreateSecretRoot(p)
  <2>1. Goto(p, "root") /\ staged' = staged /\ "root" \in Staging
    BY Zenon, <1>6 DEF CreateSecretRoot, Staging
  <2>2. StagingAt(p)'
    BY Zenon, <1>0, <1>1, <1>5, <1>6, <2>1 DEF CreateSecretRoot, StagingAt
  <2> QED BY Zenon, <1>4, <2>1, <2>2
<1>7. CASE WriteKek(p)
  <2>1. Goto(p, "staging") /\ staged' = staged /\ "staging" \in Staging
    BY Zenon, <1>7 DEF WriteKek, Staging
  <2>2. /\ DOMAIN files' = {} /\ roots' = {"manifests", "secrets"}
        /\ kek' = gen'[p]
    BY Zenon, <1>0, <1>1, <1>7 DEF WriteKek, StagingAt
  <2>3. StagingAt(p)'
    BY Zenon, <1>1, <1>5, <2>1, <2>2 DEF StagingAt
  <2> QED BY Zenon, <1>4, <2>1, <2>3
<1>8. CASE Stage(p)
  <2> DEFINE a == Plan(gen[p])[staged[p] + 1]
  <2>1. /\ pc' = pc /\ pc[p] = "staging" /\ kek' = kek /\ roots' = roots
        /\ staged' = [staged EXCEPT ![p] = @ + 1]
        /\ a \in Range(Plan(gen[p]))
        /\ files' = [x \in DOMAIN files \cup {a} |-> IF x = a THEN Content(a) ELSE files[x]]
    BY Zenon, <1>8 DEF Stage, Range
  <2>2. staged' \in [Provisioners -> Nat]
    BY SMTT(30), <1>0, <2>1 DEF ProvisionTypeOK
  <2>3. ProvisionTypeOK' /\ HolderInv'
    BY Zenon, <1>0, <1>1, <2>1, <2>2 DEF ProvisionTypeOK, HolderInv
  <2>4. /\ DOMAIN files' \subseteq Range(Plan(gen'[p]))
        /\ \A x \in DOMAIN files' : files'[x].recovery
    <3>1. Content(a).recovery = TRUE
      BY Zenon DEF Content
    <3> HIDE DEF a
    <3> QED BY Zenon, <1>0, <1>1, <2>1, <3>1 DEF StagingAt
  <2>5. StagingAt(p)'
    BY Zenon, <1>0, <1>1, <2>1, <2>4 DEF StagingAt, Staging
  <2>6. \A q \in Provisioners \ {p} : StagingAt(q)'
    BY Zenon, <1>1, <2>1, OneProvisions DEF StagingAt, Staging
  <2>7. CleanInv'
    BY Zenon, <2>1 DEF CleanInv
  <2> QED BY Zenon, <1>3, <2>3, <2>5, <2>6, <2>7 DEF ProvisionInv, StagingInv
<1>9. CASE ValidateStaged(p)
  <2>1. /\ Goto(p, "validated") /\ staged' = staged /\ "validated" \in Staging
        /\ pc[p] = "staging" /\ StagedBuild(gen[p])
        /\ files' = files /\ kek' = kek /\ roots' = roots
    BY Zenon, <1>9 DEF ValidateStaged, Staging, diskVars
  <2>2. StagedBuild(gen[p])'
    <3>1. PICK g : g = gen[p] /\ g = gen'[p]
      BY Zenon, <1>1
    <3>2. \A c \in Chains : Builds(NewSnapshot(c, g), Manifest(c, g))'
      BY Zenon, <2>1, <3>1, BuildsAgain DEF StagedBuild
    <3> QED BY Zenon, <3>1, <3>2 DEF StagedBuild
  <2>3. StagingAt(p)'
    BY Zenon, <1>0, <1>1, <1>5, <2>1, <2>2 DEF StagingAt
  <2> QED BY Zenon, <1>4, <2>1, <2>3
<1>10. CASE Unwind(p)
  <2>1. /\ Goto(p, "drop") /\ staged' = staged /\ "drop" \in Staging
        /\ pc[p] \in {"staging", "validated"}
        /\ files' = files /\ kek' = kek /\ roots' = roots
    BY Zenon, <1>10 DEF Unwind, Staging, diskVars
  <2>2. StagingAt(p)'
    BY Zenon, <1>0, <1>1, <1>5, <2>1 DEF StagingAt
  <2> QED BY Zenon, <1>4, <2>1, <2>2
<1> QED BY Zenon, <1>6, <1>7, <1>8, <1>9, <1>10

\* The installing transaction.
LEMMA InstallStep ==
    ASSUME ProvisionInv, NEW p \in Provisioners, InstallCatalog(p)
    PROVE  ProvisionInv'
<1>0. /\ ProvisionTypeOK /\ HolderInv /\ StagingAt(p) /\ ReadyIsBound
  BY Zenon DEF ProvisionInv, StagingInv
<1>1. PICK g \in Nat : g = gen[p] /\ g > 0
  BY Zenon, <1>0 DEF InstallCatalog, HolderInv, ProvisionTypeOK
<1>2. /\ pc[p] = "validated" /\ Goto(p, "installed")
      /\ rows' = CatalogRows(g) /\ secretRefs' = CatalogRefs(g)
      /\ UNCHANGED <<gen, staged, runs, lockHolder, damage, crashed, files, kek, roots>>
      /\ UNCHANGED serveVars
  BY Zenon, <1>1 DEF InstallCatalog, diskVars
<1>3. "installed" \in Labels
  BY Zenon DEF Labels
<1>4. /\ HolderInv'
      /\ pc' \in [Provisioners -> Labels] /\ pc'[p] = "installed"
      /\ \A q \in Provisioners \ {p} : StagingAt(q)'
  BY Zenon, <1>2, <1>3, HolderMoves
<1>5. StagingAt(p)'
  <2>1. CatalogRows(g) # {}
    BY Zenon, ChainsAssumption DEF CatalogRows
  <2> QED BY Zenon, <1>2, <1>4, <2>1 DEF StagingAt, Staging
<1>6. CatalogRows(g) \subseteq Profiles
  <2>1. ASSUME NEW c \in Chains PROVE NewSnapshot(c, g) \in Profiles
    <3>1. FixedSuite(c) \in BuiltinSuites /\ <<c, g>> \in Chains \X Nat /\ <<c, g>> \in Ids
      BY Zenon, FixedSuiteKnown DEF Ids
    <3> QED BY Zenon, <3>1 DEF NewSnapshot, Profiles
  <2> QED BY Zenon, <2>1 DEF CatalogRows
<1>7. DOMAIN CatalogRefs(g) \subseteq Ids
  BY DEF CatalogRefs, Ids
<1>8. ProvisionTypeOK'
  BY Zenon, <1>0, <1>2, <1>4, <1>6, <1>7 DEF ProvisionTypeOK
<1>9. CatalogInv'
  <2>1. kek' > NoKek
    BY Zenon, <1>0, <1>1, <1>2 DEF StagingAt, NoKek
  <2>2. ASSUME NEW r \in rows' PROVE Kept(r)'
    <3>1. PICK c \in Chains : r = NewSnapshot(c, g)
      BY Zenon, <1>2 DEF CatalogRows
    <3>2. r.profile[1] = c /\ r.profile[2] = g
      BY Zenon, <3>1 DEF NewSnapshot
    <3>3. \A a \in ArtifactsOf(c, g) : a \in DOMAIN files /\ (InManifestRoot(a) \/ Readable(a))
      BY Zenon, <1>0, <1>1, <1>2, StagedReadable DEF StagingAt
    <3>4. \A a \in ArtifactsOf(c, g) : (a \in DOMAIN files /\ (InManifestRoot(a) \/ Readable(a)))'
      BY Zenon, <1>2, <3>3 DEF Readable
    <3> QED BY Zenon, <3>2, <3>4 DEF Kept
  <2> QED BY Zenon, <2>1, <2>2 DEF CatalogInv
<1>10. CleanInv'
  BY Zenon, <1>4 DEF CleanInv
<1>11. ReadyIsBound'
  BY Zenon, <1>0, <1>2, NotServed
<1> QED BY Zenon, <1>4, <1>5, <1>8, <1>9, <1>10, <1>11 DEF ProvisionInv, StagingInv

\* The ends of a command: committed, given up before or after staging, killed.
LEMMA EndingSteps ==
    ASSUME ProvisionInv, NEW p \in Provisioners,
           BackendFails(p) \/ Committed(p) \/ DropSecrets(p) \/ DropManifests(p) \/ Crash(p)
    PROVE  ProvisionInv'
<1>0. /\ ProvisionTypeOK /\ HolderInv /\ StagingAt(p) /\ CatalogInv /\ CleanInv /\ ReadyIsBound
  BY DEF ProvisionInv, StagingInv
<1>1. /\ pc[p] # "idle"
      /\ UNCHANGED <<runs, damage, rows, secretRefs>>
      /\ UNCHANGED serveVars
  BY Zenon DEF BackendFails, Committed, DropSecrets, DropManifests, Crash, catalogVars, diskVars
<1>2. ReadyIsBound'
  BY Zenon, <1>0, <1>1, NotServed
<1>3. ASSUME NEW o, Return(p, o), crashed' = crashed, CatalogInv', CleanInv'
      PROVE  ProvisionInv'
  <2>1. /\ pc' \in [Provisioners -> Labels]
        /\ gen' \in [Provisioners -> Nat] /\ staged' \in [Provisioners -> Nat]
        /\ lockHolder' = Free /\ HolderInv' /\ StagingInv'
    BY Zenon, <1>1, <1>3, Returned
  <2>2. ProvisionTypeOK'
    BY Zenon, <1>0, <1>1, <1>3, <2>1 DEF ProvisionTypeOK
  <2> QED BY Zenon, <1>2, <1>3, <2>1, <2>2 DEF ProvisionInv
<1>4. CASE BackendFails(p)
  <2>1. rows' = {} /\ DOMAIN files' = {} /\ roots' = {} /\ kek' = NoKek
    BY Zenon, <1>0, <1>1, <1>4 DEF BackendFails, StagingAt, Staging
  <2>2. CatalogInv' /\ CleanInv'
    BY Zenon, <2>1 DEF CatalogInv, CleanInv
  <2> QED BY Zenon, <1>3, <1>4, <2>2 DEF BackendFails
<1>5. CASE Committed(p)
  <2>1. UNCHANGED <<files, kek, roots, crashed>>
    BY Zenon, <1>5 DEF Committed, diskVars
  <2>2. CatalogInv'
    BY Zenon, <1>0, <1>1, <2>1, CatalogKept
  <2>3. CleanInv'
    BY Zenon, <1>0, <1>1, <1>5 DEF Committed, StagingAt, CleanInv
  <2> QED BY Zenon, <1>3, <1>5, <2>2, <2>3 DEF Committed
<1>6. CASE DropSecrets(p)
  <2>1. /\ pc[p] = "drop" /\ Goto(p, "dropped") /\ rows = {}
        /\ UNCHANGED <<gen, staged, lockHolder, crashed>>
        /\ kek' = NoKek /\ roots' = {"manifests"}
        /\ DOMAIN files' = {}
    BY Zenon, <1>0, <1>6 DEF DropSecrets, StagingAt, Staging
  <2>2. "dropped" \in Labels
    BY Zenon DEF Labels, Staging
  <2>3. /\ HolderInv'
        /\ pc' \in [Provisioners -> Labels] /\ pc'[p] = "dropped"
        /\ \A q \in Provisioners \ {p} : StagingAt(q)'
    BY Zenon, <1>1, <2>1, <2>2, HolderMoves
  <2>4. StagingAt(p)'
    BY Zenon, <1>1, <2>1, <2>3 DEF StagingAt
  <2>5. ProvisionTypeOK'
    BY Zenon, <1>0, <1>1, <2>1, <2>3 DEF ProvisionTypeOK
  <2>6. CatalogInv' /\ CleanInv'
    BY Zenon, <1>1, <2>1, <2>3 DEF CatalogInv, CleanInv
  <2> QED BY Zenon, <1>2, <2>3, <2>4, <2>5, <2>6 DEF ProvisionInv, StagingInv
<1>7. CASE DropManifests(p)
  <2>1. rows' = {} /\ DOMAIN files' = {} /\ roots' = {} /\ kek' = NoKek
    BY Zenon, <1>0, <1>1, <1>7 DEF DropManifests, StagingAt, Staging
  <2>2. CatalogInv' /\ CleanInv'
    BY <2>1 DEF CatalogInv, CleanInv
  <2> QED BY Zenon, <1>3, <1>7, <2>2 DEF DropManifests
<1>8. CASE Crash(p)
  <2>1. /\ UNCHANGED <<files, kek, roots>>
        /\ crashed' = TRUE /\ lockHolder' = Free
        /\ pc' = [pc EXCEPT ![p] = "idle"]
        /\ gen' = [gen EXCEPT ![p] = 0] /\ staged' = [staged EXCEPT ![p] = 0]
    BY Zenon, <1>1, <1>8, OneProvisions DEF Crash, diskVars, Goto
  <2>2. pc' \in [Provisioners -> Labels] /\ \A q \in Provisioners : pc'[q] = "idle"
    BY Zenon, <1>0, <1>1, <2>1, OneProvisions DEF ProvisionTypeOK, Labels
  <2>3. gen' \in [Provisioners -> Nat] /\ staged' \in [Provisioners -> Nat]
    BY Zenon, <1>0, <2>1 DEF ProvisionTypeOK
  <2>4. ProvisionTypeOK'
    BY Zenon, <1>0, <1>1, <2>1, <2>2, <2>3 DEF ProvisionTypeOK
  <2>5. HolderInv' /\ StagingInv'
    BY Zenon, <2>2 DEF HolderInv, StagingInv, StagingAt, Staging
  <2>6. CatalogInv'
    BY Zenon, <1>0, <1>1, <2>1, CatalogKept
  <2>7. CleanInv'
    BY Zenon, <2>1 DEF CleanInv
  <2> QED BY Zenon, <1>2, <2>4, <2>5, <2>6, <2>7 DEF ProvisionInv
<1> QED BY <1>4, <1>5, <1>6, <1>7, <1>8

(***************************************************************************)
(* Catalog edits, the server and the operator                               *)
(***************************************************************************)
\* Every step taken while no command is past its opening.
LEMMA QuietStep ==
    ASSUME ProvisionInv, lockHolder \in {Free, Server}, UNCHANGED procVars, crashed' = crashed,
           lockHolder' \in {Free, Server},
           rows' \subseteq Profiles, DOMAIN secretRefs' \subseteq Ids, damage' \in Nat,
           CatalogInv', ReadyIsBound',
           damage' = 0 /\ rows' = {} => damage = 0 /\ rows = {} /\ UNCHANGED <<files, roots, kek>>
    PROVE  ProvisionInv'
<1>1. pc' = pc /\ gen' = gen /\ staged' = staged /\ runs' = runs
  BY Zenon DEF procVars
<1>2. \A p \in Provisioners : pc[p] = "idle"
  BY Zenon, NobodyProvisions
<1>3. ProvisionTypeOK'
  BY Zenon, <1>1 DEF ProvisionInv, ProvisionTypeOK
<1>4. HolderInv' /\ StagingInv'
  BY Zenon, <1>1, <1>2 DEF HolderInv, StagingInv, StagingAt, Staging
<1>5. CleanInv'
  BY Zenon, <1>1, <1>2 DEF ProvisionInv, CleanInv
<1> QED BY Zenon, <1>3, <1>4, <1>5 DEF ProvisionInv

\* An edit of the catalog.
LEMMA EditSteps == ASSUME ProvisionInv, EditCatalog PROVE ProvisionInv'
<1>0. ProvisionTypeOK /\ CatalogInv /\ ReadyIsBound
  BY Zenon DEF ProvisionInv
<1>1. lockHolder = Free /\ lockHolder' = lockHolder /\ UNCHANGED procVars /\ crashed' = crashed
      /\ UNCHANGED <<files, roots, kek, damage>> /\ UNCHANGED serveVars
  BY Zenon DEF EditCatalog, PutSecretRef, RegisterSignerProfile, BindSignerAddress, Suspend, diskVars
<1>2. ReadyIsBound'
  BY Zenon, <1>0, <1>1, NotServed
<1>3. ASSUME rows' \subseteq Profiles, DOMAIN secretRefs' \subseteq Ids, rows # {} \/ rows' = rows,
             rows' # {} \/ rows' = rows,
             \A r \in rows' : r.profile[2] > 0 => \E q \in rows : q.profile = r.profile
      PROVE  ProvisionInv'
  <2>1. \A r \in rows : Kept(r) => Kept(r)'
    BY Zenon, <1>1 DEF Kept, Readable
  <2>2. CatalogInv'
    <3>1. SUFFICES ASSUME damage = 0 PROVE (rows' # {} => kek' > NoKek) /\ \A r \in rows' : Kept(r)'
      BY Zenon, <1>1 DEF CatalogInv
    <3>2. ASSUME NEW r \in rows', r.profile[2] > 0 PROVE Kept(r)'
      <4>1. PICK q \in rows : q.profile = r.profile
        BY Zenon, <1>3, <3>2
      <4>2. Kept(q)'
        BY Zenon, <1>0, <2>1, <3>1 DEF CatalogInv
      <4> QED BY Zenon, <4>1, <4>2 DEF Kept
    <3>3. \A r \in rows' : Kept(r)'
      BY Zenon, <3>2 DEF Kept
    <3> QED BY Zenon, <1>0, <1>1, <1>3, <3>1, <3>3 DEF CatalogInv
  <2> QED BY Zenon, <1>0, <1>1, <1>2, <1>3, <2>2, QuietStep DEF ProvisionTypeOK
<1>4. ASSUME NEW id \in DOMAIN secretRefs \cup {<<"new", 0>>}, NEW a, PutSecretRef(id, a)
      PROVE  ProvisionInv'
  <2>1. rows' = rows /\ DOMAIN secretRefs' = DOMAIN secretRefs \cup {id}
    BY Zenon, <1>4 DEF PutSecretRef
  <2>2. id \in Ids
    BY <1>0 DEF ProvisionTypeOK, Ids
  <2> QED BY Zenon, <1>0, <1>3, <2>1, <2>2 DEF ProvisionTypeOK
<1>5. ASSUME NEW r \in rows, NEW s \in BuiltinSuites, NEW x \in DOMAIN secretRefs,
             RegisterSignerProfile(NewEpochRow(r, s, x))
      PROVE  ProvisionInv'
  <2> DEFINE n == NewEpochRow(r, s, x)
  <2>1. r \in Profiles /\ x \in Ids
    BY Zenon, <1>0 DEF ProvisionTypeOK
  <2>2. n \in Profiles /\ n.profile[2] = 0
    <3>1. r.chain \in Chains /\ r.set \in Chains \X Nat /\ r.key \in Chains \X Nat
      BY Zenon, <2>1 DEF Profiles
    <3>2. <<r.chain, 0>> \in Chains \X Nat
      BY Zenon, <3>1
    <3> QED BY Zenon, <2>1, <3>1, <3>2 DEF NewEpochRow, Profiles
  <2>3. rows' = rows \cup {n} /\ secretRefs' = secretRefs
    BY Zenon, <1>5 DEF RegisterSignerProfile
  <2> HIDE DEF n
  <2> QED BY <1>0, <1>3, <2>2, <2>3 DEF ProvisionTypeOK
<1>6. ASSUME NEW r \in rows, BindSignerAddress(r)
      PROVE  ProvisionInv'
  <2> DEFINE n == [r EXCEPT !.addresses = @ \cup {"a2"}]
  <2>1. r \in Profiles
    BY Zenon, <1>0 DEF ProvisionTypeOK
  <2>2. n \in Profiles /\ n.profile = r.profile
    BY Zenon, <2>1 DEF Profiles
  <2>3. rows' = (rows \ {r}) \cup {n} /\ secretRefs' = secretRefs
    BY Zenon, <1>6 DEF BindSignerAddress
  <2> HIDE DEF n
  <2> QED BY Zenon, <1>0, <1>3, <2>2, <2>3 DEF ProvisionTypeOK
<1>7. CASE Suspend
  BY Zenon, <1>0, <1>3, <1>7 DEF Suspend, ProvisionTypeOK
<1> QED BY Zenon, <1>4, <1>5, <1>6, <1>7 DEF EditCatalog

\* A chain that has a profile has a last one (bootstrap_wallet_executors goes
\* through the profiles in the order of chain and epoch).
LEMMA LastProfileExists ==
    ASSUME ProvisionTypeOK, NEW c \in Chains, \E r \in rows : r.chain = c
    PROVE  LastProfile(c) \in rows /\ LastProfile(c).chain = c
<1>1. \A r \in rows : r.epoch \in {1, 2}
  BY Zenon DEF ProvisionTypeOK, Profiles
<1>2. \E r \in rows : r.chain = c /\ \A q \in rows : q.chain = c => q.epoch <= r.epoch
  <2>1. CASE \E r \in rows : r.chain = c /\ r.epoch = 2
    BY <1>1, <2>1
  <2>2. CASE ~\E r \in rows : r.chain = c /\ r.epoch = 2
    BY <1>1, <2>2
  <2> QED BY Zenon, <2>1, <2>2
<1> QED BY Zenon, <1>2 DEF LastProfile

\* Starting, stopping and configuring the server.
LEMMA ServeSteps ==
    ASSUME ProvisionInv, Serve \/ StopServing \/ \E c \in Configurable : Configure(c)
    PROVE  ProvisionInv'
<1>0. ProvisionTypeOK /\ CatalogInv /\ ReadyIsBound
  BY Zenon DEF ProvisionInv
<1>1. CASE Serve
  <2>1. /\ lockHolder = Free /\ lockHolder' = Server /\ UNCHANGED procVars /\ crashed' = crashed
        /\ UNCHANGED <<rows, secretRefs, files, damage>>
        /\ executors' = {ExecutorOf(r) : r \in {q \in rows : Builds(q, HandleOf(q))}}
        /\ surface' = [c \in Chains |-> Bootstrapped(c)]
    BY Zenon, <1>1 DEF Serve, catalogVars
  <2>2. rows = {} => UNCHANGED <<roots, kek>>
    BY Zenon, <1>1 DEF Serve, StartupRoots
  <2>3. kek > NoKek => kek' = kek
    BY <1>1 DEF Serve, OpenedKek, NoKek
  <2>4. CatalogInv'
    <3>1. CASE damage = 0
      BY Zenon, <1>0, <2>1, <2>2, <2>3, <3>1, CatalogKept DEF CatalogInv
    <3>2. CASE damage # 0
      BY Zenon, <2>1, <3>2 DEF CatalogInv
    <3> QED BY Zenon, <3>1, <3>2
  <2>5. ReadyIsBound'
    <3> SUFFICES ASSUME NEW c \in Chains, surface'[c].state = "ready"
                 PROVE  \E e \in executors' : e.profile = surface'[c].profile /\ e.shares = {e.key}
      BY Zenon DEF ReadyIsBound
    <3>1. surface'[c] = Bootstrapped(c)
      BY Zenon, <2>1
    <3>2. \E r \in rows : r.chain = c
      BY <3>1 DEF Bootstrapped, NotReady
    <3>3. PICK r \in rows : r = LastProfile(c) /\ r.chain = c
      BY Zenon, <1>0, <3>2, LastProfileExists
    <3>4. Builds(r, HandleOf(r)) /\ surface'[c].profile = r.profile
      BY <3>1, <3>2, <3>3 DEF Bootstrapped
    <3>5. PICK m : m = files[HandleOf(r)]
      BY Zenon
    <3>6. m.as.part = "manifest" /\ m.as.chain = c /\ r.key = Made(m)
      BY <3>3, <3>4, <3>5, BuiltIsBound
    <3>7. {<<a.chain, a.gen>> : a \in Referenced(m)} = {r.key}
      BY Zenon, <3>6, SharesOfOneKey
    <3>8. /\ ExecutorOf(r).profile = r.profile /\ ExecutorOf(r).key = r.key
          /\ ExecutorOf(r).shares = {r.key}
      BY Zenon, <3>5, <3>7 DEF ExecutorOf
    <3>9. ExecutorOf(r) \in executors'
      BY Zenon, <2>1, <3>4
    <3> QED BY Zenon, <3>4, <3>8, <3>9
  <2> QED BY Zenon, <1>0, <2>1, <2>2, <2>4, <2>5, QuietStep DEF ProvisionTypeOK
<1>2. CASE StopServing
  <2>1. /\ lockHolder = Server /\ lockHolder' = Free /\ UNCHANGED procVars /\ crashed' = crashed
        /\ UNCHANGED <<rows, secretRefs, files, damage, roots, kek>>
        /\ surface' = [c \in Chains |-> NotReady]
    BY Zenon, <1>2 DEF StopServing, catalogVars, diskVars
  <2>2. ReadyIsBound'
    BY Zenon, <2>1 DEF ReadyIsBound, NotReady
  <2>3. CatalogInv'
    BY Zenon, <1>0, <2>1, CatalogKept
  <2> QED BY Zenon, <1>0, <2>1, <2>2, <2>3, QuietStep DEF ProvisionTypeOK
<1>3. ASSUME NEW c \in Configurable, Configure(c) PROVE ProvisionInv'
  <2>1. /\ lockHolder = Server /\ lockHolder' = Server /\ UNCHANGED procVars /\ crashed' = crashed
        /\ UNCHANGED <<rows, secretRefs, files, damage, roots, kek>>
        /\ executors' = executors
        /\ surface' = [surface EXCEPT ![c] = NotReady]
    BY Zenon, <1>3 DEF Configure, catalogVars, diskVars
  <2>2. ReadyIsBound'
    BY <1>0, <2>1 DEF ReadyIsBound, NotReady
  <2>3. CatalogInv'
    BY Zenon, <1>0, <2>1, CatalogKept
  <2> QED BY Zenon, <1>0, <2>1, <2>2, <2>3, QuietStep DEF ProvisionTypeOK
<1> QED BY Zenon, <1>1, <1>2, <1>3

\* What an operator does by hand ends the promise about the directories, not
\* the one about a serving wallet.
LEMMA OperatorSteps == ASSUME ProvisionInv, Operator PROVE ProvisionInv'
<1>0. ProvisionTypeOK /\ ReadyIsBound
  BY Zenon DEF ProvisionInv
<1>1. PICK f, k, d : Damage(f, k, d)
  BY Zenon DEF Operator, RemoveFile, SwapManifests, StripRecovery, RemoveSecretRoot, ClearManagedRoots
<1>2. /\ lockHolder = Free /\ lockHolder' = lockHolder /\ UNCHANGED procVars /\ crashed' = crashed
      /\ UNCHANGED <<rows, secretRefs>> /\ UNCHANGED serveVars
      /\ damage' = damage + 1
  BY Zenon, <1>1 DEF Damage, catalogVars
<1>3. damage' \in Nat /\ damage' # 0
  BY <1>0, <1>2 DEF ProvisionTypeOK
<1>4. CatalogInv' /\ ReadyIsBound'
  BY Zenon, <1>0, <1>2, <1>3, NotServed DEF CatalogInv
<1> QED BY Zenon, <1>0, <1>2, <1>3, <1>4, QuietStep DEF ProvisionTypeOK

\* Every step keeps the invariant.
LEMMA ProvisionInvNext == ProvisionInv /\ [ProvisionNext]_provisionVars => ProvisionInv'
<1> SUFFICES ASSUME ProvisionInv, [ProvisionNext]_provisionVars PROVE ProvisionInv'
  BY Zenon
<1>1. ASSUME NEW p \in Provisioners, Provision(p) PROVE ProvisionInv'
  BY Zenon, <1>1, OpeningSteps, WritingSteps, InstallStep, EndingSteps DEF Provision
<1>2. CASE UNCHANGED provisionVars
  <2>1. ProvisionTypeOK' /\ HolderInv' /\ CatalogInv' /\ CleanInv' /\ ReadyIsBound'
    BY Zenon, <1>2, CatalogKept, NotServed
       DEF ProvisionInv, provisionVars, ProvisionTypeOK, HolderInv, CleanInv, serveVars
  <2>2. ASSUME NEW p \in Provisioners PROVE StagingAt(p)'
    <3>1. pc'[p] = "validated" => StagedBuild(gen[p])'
      <4>1. PICK g : g = gen[p] /\ g = gen'[p]
        BY Zenon, <1>2 DEF provisionVars
      <4>2. ASSUME StagedBuild(g) PROVE \A c \in Chains : Builds(NewSnapshot(c, g), Manifest(c, g))'
        BY Zenon, <1>2, <4>2, BuildsAgain DEF StagedBuild, provisionVars
      <4> QED BY Zenon, <1>2, <4>1, <4>2 DEF StagedBuild, ProvisionInv, StagingInv, StagingAt, provisionVars
    <3> QED BY Zenon, <1>2, <3>1 DEF ProvisionInv, StagingInv, StagingAt, provisionVars
  <2> QED BY Zenon, <2>1, <2>2 DEF ProvisionInv, StagingInv
<1> QED BY Zenon, <1>1, <1>2, EditSteps, ServeSteps, OperatorSteps DEF ProvisionNext

\* The invariant holds of every behaviour.
LEMMA ProvisionHolds == ProvisionSpec => []ProvisionInv
BY ProvisionInvInit, ProvisionInvNext, PTL DEF ProvisionSpec

\* As long as nobody touches the managed directories by hand, every artifact a
\* provisioned profile was generated with stays there and readable, and a
\* wallet whose provisioning failed short of a crash has directories that the
\* next attempt accepts (StagedSecrets::drop, prepare_empty_managed_roots,
\* install_signer_catalog, under the owner lock).
THEOREM ArtifactsStay == ProvisionSpec => []ArtifactsMatchCatalog
<1>1. ProvisionInv => ArtifactsMatchCatalog
  <2> SUFFICES ASSUME ProvisionInv, damage = 0
               PROVE  /\ \A r \in rows : Kept(r)
                      /\ lockHolder = Free /\ rows = {} /\ ~crashed =>
                            DOMAIN files = {} /\ roots = {} /\ kek = NoKek
    BY Zenon DEF ArtifactsMatchCatalog, Kept
  <2>1. \A r \in rows : Kept(r)
    BY Zenon DEF ProvisionInv, CatalogInv
  <2>2. ASSUME lockHolder = Free /\ rows = {} /\ ~crashed
        PROVE  DOMAIN files = {} /\ roots = {} /\ kek = NoKek
    BY Zenon, <2>2, NobodyProvisions DEF ProvisionInv, CleanInv
  <2> QED BY Zenon, <2>1, <2>2
<1> QED BY <1>1, ProvisionHolds, PTL

\* Whatever was edited in the catalog or done to the directories before the
\* wallet was served, a chain reported ready has an executor registered for
\* the profile that is shown, and the shares it signs with belong to that
\* profile's key (build_validated_executor, bootstrap_wallet_executors).
THEOREM ReadyStaysBound == ProvisionSpec => []ReadyIsBound
<1>1. ProvisionInv => ReadyIsBound
  BY Zenon DEF ProvisionInv
<1> QED BY <1>1, ProvisionHolds, PTL

\* The owner lock admits one provision command at a time past its opening.
ProvisionersExclude ==
    \A p, q \in Provisioners : pc[p] # "idle" /\ pc[q] # "idle" => p = q

\* WalletStorage::open serialises whole provision commands, to the end of the
\* destructor that clears what a failed one staged.
THEOREM CommandsExclude == ProvisionSpec => []ProvisionersExclude
<1>1. ProvisionInv => ProvisionersExclude
  BY Zenon DEF ProvisionInv, HolderInv, ProvisionersExclude
<1> QED BY <1>1, ProvisionHolds, PTL

----------------------------------------------------------------------------
(***************************************************************************)
(* Reviewed signing                                                         *)
(*                                                                         *)
(* The message of a review names the family of its digest, its hash type    *)
(* and what that type fixes, so two reviews with one message are of spends  *)
(* that do the same.  A suite reviews the material again before it accepts, *)
(* so what it accepts is a signature of a message it would show itself.     *)
(***************************************************************************)
\* d is the message that the suite s shows when it reviews material m.
Shows(s, m, d) ==
    /\ m.index \in DOMAIN m.tx.inputs
    /\ \/ /\ s.scope[1] \in {"bitcoin", "fractal-bitcoin"}
          /\ m.format = "taproot" /\ m.type \in TapTypes /\ d \in TapSighash(m)
       \/ /\ s.scope[1] \in {"bitcoin-cash", "bsv"}
          /\ m.format \in {"bchr", "bsv"} /\ m.type = 65 /\ d = ForkPreimage(m, m.tx.outputs)
       \/ /\ s.scope[1] = "kaspa"
          /\ m.format = "kaspa" /\ m.type \in KaspaTypes
          /\ \E alg : d = KaspaSighash(m, alg)

\* Material that TLA+ values of the constant Materials are like.
Proper(m) ==
    /\ m.index \in Nat /\ Len(m.tx.outputs) \in Nat
    /\ \A i, l \in DOMAIN m.tx.inputs : m.tx.inputs[i].prev = m.tx.inputs[l].prev => i = l

\* The parts of a hash type.
LEMMA HashTypes ==
  /\ AnyoneCanPay(0) = FALSE /\ AnyoneCanPay(65) = FALSE
  /\ \A t \in TapTypes : t % 4 \in {0, 1, 2, 3}
  /\ \A t \in KaspaTypes : t % 128 \in {1, 2, 4}
  /\ ForkBase(65) = 1 /\ 65 % 32 = 1 /\ 0 % 4 = 0
BY DEF AnyoneCanPay, TapTypes, KaspaTypes, ForkBase

\* An artifact holds its material and the message it was made with.
LEMMA ArtifactKeeps ==
  ASSUME NEW scope, NEW digest, NEW d, NEW m, NEW a \in ReviewArtifact(scope, digest, d, m)
  PROVE  a.material = m /\ a.message = d /\ "material" \in DOMAIN a
BY DEF ReviewArtifact

\* A network belongs to one of the chains.
LEMMA ChainOf ==
  ASSUME NEW x \in ChainNetworks
  PROVE  x[1] \in {"bitcoin", "fractal-bitcoin", "bitcoin-cash", "bsv", "kaspa"}
BY Zenon DEF ChainNetworks

\* A review shows the message of the material it was given.
LEMMA ReviewShows ==
  ASSUME NEW s, s.scope \in ChainNetworks, SuiteOpens(s), NEW m,
         NEW a \in ReviewTransaction(s, m)
  PROVE  a.material = m /\ "material" \in DOMAIN a /\ Shows(s, m, a.message)
<1>1. CASE s.scope[1] \in {"bitcoin", "fractal-bitcoin"}
  <2>1. a \in BitcoinReview(s, m)
    BY Zenon, <1>1 DEF ReviewTransaction
  <2>2. DecodeTaproot(m) /\ ToRequest(m)
    BY Zenon, <2>1 DEF BitcoinReview
  <2>3. PICK d \in TaprootPayload(m) : a \in ReviewArtifact(s.scope, <<"sha256", m>>, d, m)
    BY Zenon, <2>1 DEF BitcoinReview
  <2>4. a.material = m /\ "material" \in DOMAIN a /\ a.message = d
    BY <2>3, ArtifactKeeps
  <2>5. d \in TapSighash(m)
    BY Zenon, <2>3 DEF TaprootPayload
  <2>6. m.format = "taproot" /\ m.type \in TapTypes /\ m.index \in DOMAIN m.tx.inputs
    BY Zenon, <2>2 DEF DecodeTaproot, Wellformed, ToRequest, TaprootKeySpendRequest, Inputs
  <2> QED BY Zenon, <1>1, <2>4, <2>5, <2>6 DEF Shows
<1>2. CASE s.scope[1] = "bitcoin-cash"
  <2>1. a \in BchReview(s, m)
    BY Zenon, <1>2 DEF ReviewTransaction
  <2>2. BchDecode(m) /\ m.type = s.type
    BY Zenon, <2>1 DEF BchReview
  <2>3. PICK d \in BchSighash(m) : a \in ReviewArtifact(s.scope, BchReviewDigest(s, d, m), d, m)
    BY Zenon, <2>1 DEF BchReview
  <2>4. a.material = m /\ "material" \in DOMAIN a /\ a.message = d
    BY <2>3, ArtifactKeeps
  <2>5. m.type = 65
    BY Zenon, <1>2, <2>2 DEF SuiteOpens, BchChainSuite
  <2>6. m.index \in DOMAIN m.tx.inputs /\ d = ForkPreimage(m, m.tx.outputs)
    BY <2>3, <2>5, HashTypes DEF BchSighash, Inputs, Outputs
  <2>7. m.format = "bchr"
    BY Zenon, <2>2 DEF BchDecode, Wellformed
  <2> QED BY Zenon, <1>2, <2>4, <2>5, <2>6, <2>7 DEF Shows
<1>3. CASE s.scope[1] = "bsv"
  <2>1. a \in BsvReview(s, m)
    BY Zenon, <1>3 DEF ReviewTransaction
  <2>2. BsvDecode(m) /\ m.type = 65
    BY Zenon, <2>1 DEF BsvReview
  <2>3. PICK d \in BsvSighash(m) : a \in ReviewArtifact(s.scope, BsvReviewDigest(s, d, m), d, m)
    BY Zenon, <2>1 DEF BsvReview
  <2>4. a.material = m /\ "material" \in DOMAIN a /\ a.message = d
    BY <2>3, ArtifactKeeps
  <2>5. m.index \in DOMAIN m.tx.inputs /\ d = ForkPreimage(m, m.tx.outputs)
    BY <2>2, <2>3, HashTypes DEF BsvSighash, Inputs, Outputs
  <2>6. m.format = "bsv"
    BY Zenon, <2>2 DEF BsvDecode, Wellformed
  <2> QED BY Zenon, <1>3, <2>2, <2>4, <2>5, <2>6 DEF Shows
<1>4. CASE s.scope[1] = "kaspa"
  <2> DEFINE alg == IF SchnorrVerifier(s) THEN "schnorr" ELSE "ecdsa"
             d == KaspaSighash(m, alg)
  <2>1. a \in KaspaReview(s, m)
    BY Zenon, <1>4 DEF ReviewTransaction
  <2>2. KaspaDecode(m) /\ a \in ReviewArtifact(s.scope, KaspaReviewDigest(s, d, m), d, m)
    BY Zenon, <2>1 DEF KaspaReview
  <2> HIDE DEF alg
  <2>3. a.material = m /\ "material" \in DOMAIN a /\ a.message = KaspaSighash(m, alg)
    BY <2>2, ArtifactKeeps
  <2>4. m.format = "kaspa" /\ m.type \in KaspaTypes /\ m.index \in DOMAIN m.tx.inputs
    BY Zenon, <2>2 DEF KaspaDecode, KaspaValidate, Wellformed, Inputs
  <2> QED BY Zenon, <1>4, <2>3, <2>4 DEF Shows
<1> QED BY Zenon, <1>1, <1>2, <1>3, <1>4, ChainOf

\* Two key spends with the same Taproot message have the same hash type and
\* fix the same parts; under the default type they do the same.
LEMMA SameTaproot ==
  ASSUME NEW m, NEW n, m.format = "taproot", n.format = "taproot",
         m.index \in DOMAIN m.tx.inputs, n.index \in DOMAIN n.tx.inputs,
         m.type \in TapTypes, n.type \in TapTypes,
         NEW d \in TapSighash(m), d \in TapSighash(n)
  PROVE  /\ m.type = n.type /\ Fixed(m) = Fixed(n)
         /\ m.type = 0 => Effects(m) = Effects(n)
<1> DEFINE own(x) == <<x.tx.inputs[x.index].prev, x.tx.inputs[x.index].sequence,
                       x.prevouts[x.index]>>
           all(x) == [i \in DOMAIN x.tx.inputs |->
                         <<x.tx.inputs[i].prev, x.tx.inputs[i].sequence>>]
           ins(x) == IF AnyoneCanPay(x.type) THEN <<own(x)>>
                     ELSE <<all(x), x.prevouts, x.index>>
           base(x) == x.type % 4
           outs(x) == CASE base(x) \in {0, 1} -> x.tx.outputs
                        [] base(x) = 2 -> <<>>
                        [] base(x) = 3 -> <<x.tx.outputs[x.index]>>
           none(x) == base(x) = 3 /\ x.index > Len(x.tx.outputs)
<1>1. ASSUME NEW x, d \in TapSighash(x)
      PROVE  d = <<"bip341", x.type, x.tx.lock, ins(x), outs(x)>> /\ ~none(x)
  <2>1. TapSighash(x) = IF none(x) THEN {}
                        ELSE {<<"bip341", x.type, x.tx.lock, ins(x), outs(x)>>}
    BY Zenon DEF TapSighash, Inputs, Outputs
  <2> HIDE DEF ins, outs, none
  <2> QED BY Zenon, <1>1, <2>1
<1>2. /\ m.type = n.type /\ m.tx.lock = n.tx.lock /\ ins(m) = ins(n) /\ outs(m) = outs(n)
      /\ ~none(m) /\ ~none(n)
  <2> HIDE DEF ins, outs, none
  <2>1. d = <<"bip341", m.type, m.tx.lock, ins(m), outs(m)>> /\ ~none(m)
    BY Zenon, <1>1
  <2>2. d = <<"bip341", n.type, n.tx.lock, ins(n), outs(n)>> /\ ~none(n)
    BY Zenon, <1>1
  <2> QED BY <2>1, <2>2
<1>3. FixedOutputs(m) = FixedOutputs(n)
  <2>1. ASSUME NEW x, x.format = "taproot", x.type \in TapTypes, ~none(x)
        PROVE  FixedOutputs(x) = outs(x)
    <3>1. base(x) \in {0, 1, 2, 3}
      BY Zenon, <2>1, HashTypes
    <3> HIDE DEF base
    <3>2. FixedOutputs(x) =
            CASE base(x) \in {0, 1} -> x.tx.outputs
              [] base(x) = 2 -> <<>>
              [] OTHER -> IF x.index > Len(x.tx.outputs) THEN <<>> ELSE <<x.tx.outputs[x.index]>>
      BY Zenon, <2>1 DEF FixedOutputs, base
    <3> QED BY <2>1, <3>1, <3>2
  <2> HIDE DEF outs, none
  <2> QED BY Zenon, <1>2, <2>1
<1>4. CASE AnyoneCanPay(m.type)
  <2>1. own(m) = own(n)
    <3> HIDE DEF own
    <3>1. <<own(m)>> = <<own(n)>>
      BY Zenon, <1>2, <1>4
    <3> QED BY Zenon, <3>1
  <2>2. m.tx.inputs[m.index].prev = n.tx.inputs[n.index].prev
    BY Zenon, <2>1
  <2>3. m.type # 0
    BY Zenon, <1>4, HashTypes
  <2> QED BY Zenon, <1>2, <1>3, <1>4, <2>2, <2>3 DEF Fixed
<1>5. CASE ~AnyoneCanPay(m.type)
  <2>1. all(m) = all(n) /\ m.index = n.index
    <3> HIDE DEF all
    <3>1. <<all(m), m.prevouts, m.index>> = <<all(n), n.prevouts, n.index>>
      BY Zenon, <1>2, <1>5
    <3> QED BY Zenon, <3>1
  <2>2. DOMAIN m.tx.inputs = DOMAIN n.tx.inputs
    BY Zenon, <2>1
  <2>3. \A i \in DOMAIN m.tx.inputs : m.tx.inputs[i].prev = n.tx.inputs[i].prev
    <3> TAKE i \in DOMAIN m.tx.inputs
    <3>1. all(m)[i] = all(n)[i]
      BY Zenon, <2>1
    <3>2. <<m.tx.inputs[i].prev, m.tx.inputs[i].sequence>> = <<n.tx.inputs[i].prev, n.tx.inputs[i].sequence>>
      BY Zenon, <2>2, <3>1
    <3> QED BY Zenon, <3>2
  <2>4. m.tx.inputs[m.index].prev = n.tx.inputs[n.index].prev
    BY Zenon, <2>1, <2>3
  <2>5. {m.tx.inputs[i].prev : i \in DOMAIN m.tx.inputs} = {n.tx.inputs[i].prev : i \in DOMAIN n.tx.inputs}
    BY <2>2, <2>3
  <2>6. Fixed(m) = Fixed(n)
    BY Zenon, <1>2, <1>3, <1>5, <2>4, <2>5 DEF Fixed
  <2>7. m.type = 0 => Effects(m) = Effects(n)
    <3> HAVE m.type = 0
    <3>1. base(m) = 0 /\ base(n) = 0
      BY Zenon, <1>2, HashTypes
    <3>2. m.tx.outputs = n.tx.outputs
      BY <1>2, <3>1
    <3> HIDE DEF base, outs, ins, own
    <3> QED BY Zenon, <1>2, <2>1, <3>2 DEF Effects
  <2> QED BY Zenon, <1>2, <2>6, <2>7
<1> QED BY Zenon, <1>4, <1>5

\* Two spends with the same message of the fork digest, which signs everything,
\* do the same.
LEMMA SameFork ==
  ASSUME NEW m, NEW n, m.format \in {"bchr", "bsv"}, n.format \in {"bchr", "bsv"},
         m.index \in DOMAIN m.tx.inputs, n.index \in DOMAIN n.tx.inputs, Proper(n),
         m.type = 65, n.type = 65,
         ForkPreimage(m, m.tx.outputs) = ForkPreimage(n, n.tx.outputs)
  PROVE  Fixed(m) = Fixed(n) /\ Effects(m) = Effects(n)
<1> DEFINE prevs(x) == [i \in DOMAIN x.tx.inputs |-> x.tx.inputs[i].prev]
           seqs(x) == [i \in DOMAIN x.tx.inputs |-> x.tx.inputs[i].sequence]
           image(x) == <<"forkid", x.type, x.tx.lock, prevs(x), seqs(x), x.tx.inputs[x.index].prev,
                         x.tx.inputs[x.index].sequence, x.prevouts[1], x.tx.outputs>>
<1>1. ASSUME NEW x, x.type = 65 PROVE ForkPreimage(x, x.tx.outputs) = image(x)
  <2>1. ForkBase(x.type) \notin {2, 3} /\ ~AnyoneCanPay(x.type)
    BY <1>1, HashTypes
  <2> QED BY Zenon, <2>1 DEF ForkPreimage, Inputs
<1>2. image(m) = image(n)
  <2> HIDE DEF image
  <2> QED BY Zenon, <1>1
<1>3. /\ m.tx.lock = n.tx.lock /\ prevs(m) = prevs(n) /\ seqs(m) = seqs(n)
      /\ m.tx.inputs[m.index].prev = n.tx.inputs[n.index].prev /\ m.tx.outputs = n.tx.outputs
  <2> HIDE DEF prevs, seqs
  <2> QED BY Zenon, <1>2
<1>4. DOMAIN m.tx.inputs = DOMAIN n.tx.inputs
  BY Zenon, <1>3
<1>5. ASSUME NEW i \in DOMAIN m.tx.inputs
      PROVE  /\ m.tx.inputs[i].prev = n.tx.inputs[i].prev
             /\ m.tx.inputs[i].sequence = n.tx.inputs[i].sequence
  <2>1. prevs(m)[i] = prevs(n)[i] /\ seqs(m)[i] = seqs(n)[i]
    BY Zenon, <1>3
  <2> QED BY Zenon, <1>4, <2>1
<1>6. m.index = n.index
  <2>1. n.tx.inputs[m.index].prev = n.tx.inputs[n.index].prev
    BY Zenon, <1>3, <1>5
  <2> QED BY Zenon, <1>4, <2>1 DEF Proper
<1>7. {m.tx.inputs[i].prev : i \in DOMAIN m.tx.inputs} = {n.tx.inputs[i].prev : i \in DOMAIN n.tx.inputs}
  <2> HIDE DEF prevs, seqs, image
  <2> QED BY ONLY <1>4, <1>5
<1>8. FixedOutputs(m) = m.tx.outputs /\ FixedOutputs(n) = n.tx.outputs
  <2> HIDE DEF prevs, seqs, image
  <2> QED BY HashTypes DEF FixedOutputs
<1>9. Fixed(m) = Fixed(n)
  <2> HIDE DEF prevs, seqs, image
  <2> QED BY Zenon, <1>3, <1>7, <1>8 DEF Fixed
<1>10. [i \in DOMAIN m.tx.inputs |-> <<m.tx.inputs[i].prev, m.tx.inputs[i].sequence>>] =
       [i \in DOMAIN n.tx.inputs |-> <<n.tx.inputs[i].prev, n.tx.inputs[i].sequence>>]
  <2> HIDE DEF prevs, seqs, image
  <2> QED BY Zenon, <1>4, <1>5
<1> QED BY Zenon, <1>3, <1>6, <1>9, <1>10 DEF Effects

\* Two spends with the same Kaspa message fix the same parts.
LEMMA SameKaspa ==
  ASSUME NEW m, NEW n, m.format = "kaspa", n.format = "kaspa",
         m.index \in DOMAIN m.tx.inputs, n.index \in DOMAIN n.tx.inputs, Proper(m), Proper(n),
         m.type \in KaspaTypes, n.type \in KaspaTypes,
         NEW a, NEW b, KaspaSighash(m, a) = KaspaSighash(n, b)
  PROVE  Fixed(m) = Fixed(n)
<1> DEFINE base(x) == x.type % 128
           own(x) == <<x.tx.inputs[x.index].prev, x.tx.inputs[x.index].sequence,
                       x.prevouts[x.index]>>
           prevs(x) == IF AnyoneCanPay(x.type) THEN <<>>
                       ELSE [i \in DOMAIN x.tx.inputs |-> x.tx.inputs[i].prev]
           seqs(x) == IF AnyoneCanPay(x.type) \/ base(x) # 1 THEN <<>>
                      ELSE [i \in DOMAIN x.tx.inputs |-> x.tx.inputs[i].sequence]
           outs(x) == CASE base(x) = 1 -> x.tx.outputs
                        [] base(x) = 4 /\ x.index <= Len(x.tx.outputs) -> <<x.tx.outputs[x.index]>>
                        [] OTHER -> <<>>
<1>1. ASSUME NEW x, NEW alg
      PROVE  KaspaSighash(x, alg) =
               <<"kaspa", alg, x.type, x.tx.lock, own(x), prevs(x), seqs(x), outs(x)>>
  BY Zenon DEF KaspaSighash, Inputs, Outputs
<1>2. /\ m.type = n.type /\ m.tx.lock = n.tx.lock /\ own(m) = own(n) /\ prevs(m) = prevs(n)
      /\ outs(m) = outs(n)
  <2> HIDE DEF own, prevs, seqs, outs
  <2>1. <<"kaspa", a, m.type, m.tx.lock, own(m), prevs(m), seqs(m), outs(m)>> =
        <<"kaspa", b, n.type, n.tx.lock, own(n), prevs(n), seqs(n), outs(n)>>
    BY Zenon, <1>1
  <2> QED BY Zenon, <2>1
<1>3. FixedOutputs(m) = FixedOutputs(n)
  <2>1. ASSUME NEW x, x.format = "kaspa", x.type \in KaspaTypes, Proper(x)
        PROVE  FixedOutputs(x) = outs(x)
    <3>1. base(x) \in {1, 2, 4}
      BY Zenon, <2>1, HashTypes
    <3> HIDE DEF base
    <3>2. FixedOutputs(x) =
            CASE base(x) \in {0, 1} -> x.tx.outputs
              [] base(x) = 2 -> <<>>
              [] OTHER -> IF x.index > Len(x.tx.outputs) THEN <<>> ELSE <<x.tx.outputs[x.index]>>
      BY Zenon, <2>1 DEF FixedOutputs, base
    <3>3. x.index > Len(x.tx.outputs) <=> ~(x.index <= Len(x.tx.outputs))
      BY <2>1 DEF Proper
    <3> QED BY ONLY <3>1, <3>2, <3>3
  <2> HIDE DEF outs
  <2> QED BY Zenon, <1>2, <2>1
<1>4. m.tx.inputs[m.index].prev = n.tx.inputs[n.index].prev
  <2> HIDE DEF prevs, seqs, outs
  <2> QED BY Zenon, <1>2
<1>5. CASE AnyoneCanPay(m.type)
  BY Zenon, <1>2, <1>3, <1>4, <1>5 DEF Fixed
<1>6. CASE ~AnyoneCanPay(m.type)
  <2> DEFINE all(x) == [i \in DOMAIN x.tx.inputs |-> x.tx.inputs[i].prev]
  <2>1. all(m) = all(n)
    BY Zenon, <1>2, <1>6
  <2>2. DOMAIN m.tx.inputs = DOMAIN n.tx.inputs
    BY Zenon, <2>1
  <2>3. \A i \in DOMAIN m.tx.inputs : m.tx.inputs[i].prev = n.tx.inputs[i].prev
    <3> TAKE i \in DOMAIN m.tx.inputs
    <3>1. all(m)[i] = all(n)[i]
      BY Zenon, <2>1
    <3> QED BY Zenon, <2>2, <3>1
  <2>4. {m.tx.inputs[i].prev : i \in DOMAIN m.tx.inputs} = {n.tx.inputs[i].prev : i \in DOMAIN n.tx.inputs}
    BY ONLY <2>2, <2>3
  <2> QED BY Zenon, <1>2, <1>3, <1>4, <1>6, <2>4 DEF Fixed
<1> QED BY Zenon, <1>5, <1>6

\* The first member of a message names the family of its digest.
LEMMA Families ==
  ASSUME NEW s, NEW m, NEW d, Shows(s, m, d)
  PROVE  \/ d[1] = "bip341" /\ s.scope[1] \in {"bitcoin", "fractal-bitcoin"}
         \/ d[1] = "forkid" /\ s.scope[1] \in {"bitcoin-cash", "bsv"}
         \/ d[1] = "kaspa" /\ s.scope[1] = "kaspa"
<1>1. d \in TapSighash(m) => d[1] = "bip341"
  BY DEF TapSighash
<1>2. d = ForkPreimage(m, m.tx.outputs) => d[1] = "forkid"
  BY DEF ForkPreimage
<1>3. \A alg : d = KaspaSighash(m, alg) => d[1] = "kaspa"
  BY DEF KaspaSighash
<1> QED BY Zenon, <1>1, <1>2, <1>3 DEF Shows

\* Reviews that show the same message are of spends that do the same.
LEMMA SameSpend ==
  ASSUME NEW s, NEW m, NEW r, NEW n, NEW d, Proper(m), Proper(n),
         Shows(s, m, d), Shows(r, n, d)
  PROVE  /\ Fixed(m) = Fixed(n)
         /\ SignsAll(s) => Effects(m) = Effects(n)
         /\ m.format = "taproot" /\ m.type = 0 => n.type = 0 /\ Effects(m) = Effects(n)
<1>1. CASE d[1] = "bip341"
  <2>1. /\ m.format = "taproot" /\ m.type \in TapTypes /\ d \in TapSighash(m)
        /\ n.format = "taproot" /\ n.type \in TapTypes /\ d \in TapSighash(n)
        /\ ~SignsAll(s)
    BY <1>1, Families DEF Shows, SignsAll
  <2> QED BY Zenon, <2>1, SameTaproot DEF Shows
<1>2. CASE d[1] = "forkid"
  <2>1. /\ m.format \in {"bchr", "bsv"} /\ m.type = 65 /\ d = ForkPreimage(m, m.tx.outputs)
        /\ n.format \in {"bchr", "bsv"} /\ n.type = 65 /\ d = ForkPreimage(n, n.tx.outputs)
    BY <1>2, Families DEF Shows
  <2>2. m.format # "taproot"
    BY Zenon, <2>1
  <2>3. ForkPreimage(m, m.tx.outputs) = ForkPreimage(n, n.tx.outputs)
    BY Zenon, <2>1
  <2>4. m.index \in DOMAIN m.tx.inputs /\ n.index \in DOMAIN n.tx.inputs
    BY Zenon DEF Shows
  <2>5. Fixed(m) = Fixed(n) /\ Effects(m) = Effects(n)
    BY ONLY Proper(n), <2>1, <2>3, <2>4, SameFork
  <2> QED BY Zenon, <2>2, <2>5
<1>3. CASE d[1] = "kaspa"
  <2>1. /\ m.format = "kaspa" /\ m.type \in KaspaTypes /\ \E a : d = KaspaSighash(m, a)
        /\ n.format = "kaspa" /\ n.type \in KaspaTypes /\ \E a : d = KaspaSighash(n, a)
        /\ ~SignsAll(s)
    BY Zenon, <1>3, Families DEF Shows, SignsAll
  <2>2. PICK a : d = KaspaSighash(m, a)
    BY Zenon, <2>1
  <2>3. PICK b : d = KaspaSighash(n, b)
    BY Zenon, <2>1
  <2>4. Fixed(m) = Fixed(n)
    BY Zenon, <2>1, <2>2, <2>3, SameKaspa DEF Shows
  <2> QED BY Zenon, <2>1, <2>4
<1> QED BY Zenon, <1>1, <1>2, <1>3, Families

\* What can be approved was reviewed by a suite that opens.
LEMMA ReviewableFacts ==
  ASSUME NEW j \in Reviewable
  PROVE  /\ j[1] \in DOMAIN Accounts /\ j[2] \in DOMAIN Materials /\ j = <<j[1], j[2]>>
         /\ Accounts[j[1]].scope \in ChainNetworks /\ SuiteOpens(Accounts[j[1]])
         /\ Review(j[1], j[2]) # {} /\ Proper(Materials[j[2]])
         /\ ArtifactOf(j[1], j[2]) \in Review(j[1], j[2])
         /\ ArtifactOf(j[1], j[2]).material = Materials[j[2]]
         /\ Shows(Accounts[j[1]], Materials[j[2]], ArtifactOf(j[1], j[2]).message)
<1>1. /\ j \in Jobs /\ SuiteOpens(Accounts[j[1]]) /\ Review(j[1], j[2]) # {}
  <2>1. j # <<>> /\ \E k \in Jobs :
          j \in {IF SuiteOpens(Accounts[k[1]]) /\ Review(k[1], k[2]) # {} THEN k ELSE <<>>}
    BY Zenon DEF Reviewable
  <2>2. PICK k \in Jobs :
          j = IF SuiteOpens(Accounts[k[1]]) /\ Review(k[1], k[2]) # {} THEN k ELSE <<>>
    BY Zenon, <2>1
  <2> QED BY Zenon, <2>1, <2>2
<1>2. j[1] \in DOMAIN Accounts /\ j[2] \in DOMAIN Materials /\ j = <<j[1], j[2]>>
  BY <1>1 DEF Jobs
<1>3. Proper(Materials[j[2]]) /\ Accounts[j[1]].scope \in ChainNetworks
  BY Zenon, <1>2, ReviewAssumption DEF Proper
<1>4. ArtifactOf(j[1], j[2]) \in Review(j[1], j[2])
  BY Zenon, <1>1 DEF ArtifactOf
<1>5. /\ ArtifactOf(j[1], j[2]).material = Materials[j[2]]
      /\ Shows(Accounts[j[1]], Materials[j[2]], ArtifactOf(j[1], j[2]).message)
  <2> DEFINE a == ArtifactOf(j[1], j[2])
             s == Accounts[j[1]]
             m == Materials[j[2]]
  <2>1. a \in ReviewTransaction(s, m) /\ s.scope \in ChainNetworks /\ SuiteOpens(s)
    BY Zenon, <1>1, <1>3, <1>4 DEF Review
  <2> HIDE DEF a, s, m
  <2>2. a.material = m /\ Shows(s, m, a.message)
    BY Zenon, <2>1, ReviewShows
  <2> QED BY Zenon, <2>2 DEF a, s, m
<1> QED BY Zenon, <1>1, <1>2, <1>3, <1>4, <1>5

\* A signature keeps its key and its message however it is presented.
LEMMA PresentedKeeps ==
  ASSUME NEW j \in Reviewable, NEW f \in Presented(j)
  PROVE  f.key = Accounts[j[1]].key /\ f.message = ArtifactOf(j[1], j[2]).message
<1> DEFINE sig == SignatureOf(j)
           Keeps(g) == g.key = sig.key /\ g.message = sig.message
<1>1. /\ sig.key = Accounts[j[1]].key /\ sig.message = ArtifactOf(j[1], j[2]).message
      /\ DOMAIN sig = {"key", "alg", "message", "s", "tail"}
  BY Zenon DEF SignatureOf, ArtifactOf
<1> HIDE DEF sig
<1>2. \A x : Keeps([sig EXCEPT !.tail = x]) /\ DOMAIN [sig EXCEPT !.tail = x] = DOMAIN sig
  BY Zenon, <1>1
<1>3. ASSUME NEW g \in Assemble(Accounts[j[1]], Materials[j[2]], sig)
      PROVE  Keeps(g) /\ DOMAIN g = DOMAIN sig
  <2>1. Accounts[j[1]].scope[1] \in {"bitcoin", "fractal-bitcoin", "bitcoin-cash", "bsv", "kaspa"}
    BY Zenon, ReviewableFacts, ReviewAssumption, ChainOf
  <2>2. \E x : g = [sig EXCEPT !.tail = x]
    BY Zenon, <2>1 DEF Assemble, AssembleTaproot, AssembleBch, AssembleBsv, AssembleKaspa
  <2> QED BY Zenon, <1>2, <2>2
<1>4. PICK g \in Assemble(Accounts[j[1]], Materials[j[2]], sig) :
        f \in {g, [g EXCEPT !.s = "high"], [g EXCEPT !.tail = <<67>>]}
  BY Zenon DEF Presented, sig
<1>5. Keeps(f)
  BY Zenon, <1>1, <1>3, <1>4
<1> QED BY Zenon, <1>1, <1>5

\* A stored artifact is kept with the material it names.
LEMMA StoredMaterial ==
  ASSUME approved \subseteq Reviewable,
         NEW stored \in Genuine \cup UNION {Drifted(j) : j \in approved}
  PROVE  stored[1] \in DOMAIN Materials /\ stored[2].material = Materials[stored[1]]
<1>1. ASSUME NEW r, NEW a \in ReadArtifact(r)
      PROVE  a.material = r.material
  BY <1>1, ArtifactKeeps DEF ReadArtifact
<1>2. CASE stored \in Genuine
  <2>1. PICK j \in Reviewable : \E r \in Review(j[1], j[2]) : \E a \in ReadArtifact(r) :
          stored = <<j[2], a>>
    BY Zenon, <1>2 DEF Genuine
  <2>2. PICK r \in Review(j[1], j[2]) : \E a \in ReadArtifact(r) : stored = <<j[2], a>>
    BY Zenon, <2>1
  <2>3. r.material = Materials[j[2]]
    <3>1. /\ SuiteOpens(Accounts[j[1]]) /\ Accounts[j[1]].scope \in ChainNetworks
          /\ r \in ReviewTransaction(Accounts[j[1]], Materials[j[2]])
      BY Zenon, <2>2, ReviewableFacts DEF Review
    <3> QED BY <3>1, ReviewShows
  <2>4. PICK a \in ReadArtifact(r) : stored = <<j[2], a>>
    BY Zenon, <2>2
  <2>5. stored[1] = j[2] /\ stored[2] = a
    BY Zenon, <2>4
  <2> QED BY Zenon, <1>1, <2>3, <2>4, <2>5, ReviewableFacts
<1>3. CASE stored \notin Genuine
  <2>1. PICK j \in approved : stored \in Drifted(j)
    BY Zenon, <1>3
  <2>2. PICK m \in DOMAIN Materials, r \in Review(j[1], j[2]) :
          \E a \in ReadArtifact([r EXCEPT !.material = Materials[m]]) : stored = <<m, a>>
    <3>1. PICK m \in DOMAIN Materials :
            stored \in {<<m, a>> : a \in UNION {ReadArtifact([r EXCEPT !.material = Materials[m]]) :
                                                  r \in Review(j[1], j[2])}}
      BY Zenon, <2>1 DEF Drifted
    <3> QED BY Zenon, <3>1
  <2>3. PICK a \in ReadArtifact([r EXCEPT !.material = Materials[m]]) : stored = <<m, a>>
    BY Zenon, <2>2
  <2>4. "material" \in DOMAIN r
    <3>1. /\ SuiteOpens(Accounts[j[1]]) /\ Accounts[j[1]].scope \in ChainNetworks
          /\ r \in ReviewTransaction(Accounts[j[1]], Materials[j[2]])
      BY Zenon, <2>2, ReviewableFacts DEF Review
    <3> QED BY <3>1, ReviewShows
  <2>5. stored[1] = m /\ stored[2] = a
    BY Zenon, <2>3
  <2>6. [r EXCEPT !.material = Materials[m]].material = Materials[m]
    BY Zenon, <2>4
  <2> QED BY Zenon, <1>1, <2>3, <2>5, <2>6
<1> QED BY Zenon, <1>2, <1>3

----------------------------------------------------------------------------
(* Acceptance.                                                             *)

\* An accepted signature was made over the message that the accepting suite
\* shows for the stored material.
LEMMA VerifiedShows ==
  ASSUME NEW s, s.scope \in ChainNetworks, SuiteOpens(s), NEW a, NEW f,
         VerifyFinalizedSignature(s, a, f)
  PROVE  f.key = s.key /\ Shows(s, a.material, f.message)
<1>1. CASE s.scope[1] \in {"bitcoin", "fractal-bitcoin"}
  <2>1. BitcoinVerify(s, a, f)
    BY Zenon, <1>1 DEF VerifyFinalizedSignature
  <2>2. a \in BitcoinReview(s, a.material)
    BY Zenon, <2>1 DEF BitcoinVerify
  <2>3. PICK d \in TaprootPayload(a.material) : f.key = s.key /\ f.message = d
    BY Zenon, <2>1 DEF BitcoinVerify, VerifyTaproot
  <2>4. DecodeTaproot(a.material) /\ ToRequest(a.material)
    BY Zenon, <2>2 DEF BitcoinReview
  <2>5. d \in TapSighash(a.material)
    BY Zenon, <2>3 DEF TaprootPayload
  <2>6. /\ a.material.format = "taproot" /\ a.material.type \in TapTypes
        /\ a.material.index \in DOMAIN a.material.tx.inputs
    BY Zenon, <2>4 DEF DecodeTaproot, Wellformed, ToRequest, TaprootKeySpendRequest, Inputs
  <2> QED BY Zenon, <1>1, <2>3, <2>5, <2>6 DEF Shows
<1>2. CASE s.scope[1] = "bitcoin-cash"
  <2>1. BchVerify(s, a, f) /\ ReviewTransaction(s, a.material) = BchReview(s, a.material)
    BY Zenon, <1>2 DEF VerifyFinalizedSignature, ReviewTransaction
  <2>2. a \in ReviewTransaction(s, a.material) /\ f.key = s.key /\ f.message = a.message
    BY Zenon, <2>1 DEF BchVerify, BchVerifyEcdsa, BchVerifySchnorr, SchnorrHolds
  <2> QED BY Zenon, <2>2, ReviewShows
<1>3. CASE s.scope[1] = "bsv"
  <2>1. BsvVerify(s, a, f) /\ ReviewTransaction(s, a.material) = BsvReview(s, a.material)
    BY Zenon, <1>3 DEF VerifyFinalizedSignature, ReviewTransaction
  <2>2. a \in ReviewTransaction(s, a.material) /\ f.key = s.key /\ f.message = a.message
    BY Zenon, <2>1 DEF BsvVerify, BsvVerifySignature
  <2> QED BY Zenon, <2>2, ReviewShows
<1>4. CASE s.scope[1] = "kaspa"
  <2>1. KaspaVerify(s, a, f) /\ ReviewTransaction(s, a.material) = KaspaReview(s, a.material)
    BY Zenon, <1>4 DEF VerifyFinalizedSignature, ReviewTransaction
  <2>2. a \in ReviewTransaction(s, a.material) /\ f.key = s.key /\ f.message = a.message
    BY Zenon, <2>1 DEF KaspaVerify, KaspaVerifyDigest
  <2> QED BY Zenon, <2>2, ReviewShows
<1> QED BY Zenon, <1>1, <1>2, <1>3, <1>4, ChainOf

\* A signature of an approved job that is accepted with a stored artifact is
\* accepted for a spend like the approved one.
LEMMA AcceptedLike ==
  ASSUME approved \subseteq Reviewable, NEW j \in approved, NEW f \in Presented(j),
         NEW stored \in Genuine \cup UNION {Drifted(k) : k \in approved},
         NEW b \in DOMAIN Accounts, Verify(b, stored, f)
  PROVE  AcceptedWasApproved'
<1> DEFINE s == Accounts[b]
           m == Materials[stored[1]]
           n == Materials[j[2]]
           d == ArtifactOf(j[1], j[2]).message
<1>1. /\ SuiteOpens(s) /\ VerifyFinalizedSignature(s, stored[2], f)
      /\ accepted' = <<b, stored[1]>> /\ approved' = approved
  BY Zenon DEF Verify
<1>2. stored[1] \in DOMAIN Materials /\ stored[2].material = m
  BY Zenon, StoredMaterial
<1>3. s.scope \in ChainNetworks /\ Proper(m)
  BY Zenon, <1>2, ReviewAssumption DEF Proper
<1>4. j \in Reviewable /\ f.key = Accounts[j[1]].key /\ f.message = d
  BY Zenon, PresentedKeeps
<1>5. Proper(n) /\ Shows(Accounts[j[1]], n, d)
  BY Zenon, <1>4, ReviewableFacts
<1>6. f.key = s.key /\ Shows(s, m, d)
  <2> HIDE DEF s, m, d
  <2> QED BY Zenon, <1>1, <1>2, <1>3, <1>4, VerifiedShows
<1>7. Fixed(m) = Fixed(n) /\ (SignsAll(s) => Effects(m) = Effects(n))
  <2> DEFINE r == Accounts[j[1]]
  <2>1. Shows(r, n, d)
    BY Zenon, <1>5
  <2> HIDE DEF s, m, n, d, r
  <2> QED BY <1>3, <1>5, <1>6, <2>1, SameSpend
<1>8. accepted'[1] = b /\ accepted'[2] = stored[1]
  BY ONLY <1>1
<1> QED BY Zenon, <1>1, <1>4, <1>6, <1>7, <1>8 DEF AcceptedWasApproved

----------------------------------------------------------------------------
(* The Fractal adapter and node client.                                    *)

\* A request was prepared for a review that signs all of a transaction.
Prepared(q) == q \in Reviewable /\ Materials[q[2]].format = "taproot" /\ Materials[q[2]].type = 0

\* A finished spend: the adapter of an account, a prepared request and the
\* approved job whose signature is in it.
SpendMade(x, jobs) ==
    /\ Prepared(x[2]) /\ x[3] \in jobs /\ Fractal(x[3][1])
    /\ Spends(x[1], x[2], x[3]) # {}

\* The invariant: everything on the way to a node stems from approved jobs.
ReviewInv ==
    /\ approved \subseteq Reviewable
    /\ desk = "fractal" => \A j \in approved : Fractal(j[1])
    /\ request # <<>> => Prepared(request)
    /\ finalized # <<>> => SpendMade(finalized, approved)
    /\ preflight # <<>> => SpendMade(preflight, approved)
    /\ \A x \in sent : SpendMade(x[2], approved) /\ SpendOf(x[2]).scope = x[1]
    /\ AcceptedWasApproved

\* What was made of approved jobs is so whatever is approved later.
LEMMA SpendStays ==
  ASSUME NEW x, NEW jobs, NEW more, jobs \subseteq more, SpendMade(x, jobs)
  PROVE  SpendMade(x, more)
BY Zenon DEF SpendMade

\* The empty wallet.
LEMMA ReviewInvInit ==
  ASSUME ReviewInit
  PROVE  ReviewInv
BY Zenon DEF ReviewInit, ReviewInv, AcceptedWasApproved

\* One step of any part.
LEMMA ReviewInvStep ==
  ASSUME ReviewInv, [ReviewNext]_reviewVars
  PROVE  ReviewInv'
<1>1. ASSUME NEW j \in Reviewable, Approve(j)
      PROVE  ReviewInv'
  <2>1. /\ approved' = approved \cup {j} /\ (desk = "fractal" => Fractal(j[1]))
        /\ UNCHANGED <<desk, accepted, request, finalized, rpc, preflight, sent>>
    BY Zenon, <1>1 DEF Approve, fractalVars
  <2>2. approved \subseteq approved'
    BY Zenon, <2>1
  <2>3. /\ finalized # <<>> => SpendMade(finalized, approved')
        /\ preflight # <<>> => SpendMade(preflight, approved')
        /\ \A x \in sent : SpendMade(x[2], approved')
    BY Zenon, <2>2, SpendStays DEF ReviewInv
  <2>4. AcceptedWasApproved'
    BY Zenon, <2>1, <2>2 DEF ReviewInv, AcceptedWasApproved
  <2> QED BY Zenon, <2>1, <2>3, <2>4 DEF ReviewInv
<1>2. ASSUME NEW stored \in Genuine \cup UNION {Drifted(j) : j \in approved},
             NEW f \in UNION {Presented(j) : j \in approved},
             NEW b \in DOMAIN Accounts, Verify(b, stored, f)
      PROVE  ReviewInv'
  <2>1. UNCHANGED <<desk, approved, request, finalized, rpc, preflight, sent>>
    BY Zenon, <1>2 DEF Verify, fractalVars
  <2>2. AcceptedWasApproved'
    BY Zenon, <1>2, AcceptedLike DEF ReviewInv
  <2> QED BY Zenon, <2>1, <2>2 DEF ReviewInv
<1>3. ASSUME NEW a \in DOMAIN Accounts, NEW m \in DOMAIN Materials, NEW session,
             Prepare(a, m, session)
      PROVE  ReviewInv'
  <2>1. /\ request' = <<a, m>> /\ <<a, m>> \in Reviewable
        /\ Materials[m].format = "taproot" /\ Materials[m].type = 0
        /\ UNCHANGED <<desk, approved, accepted, finalized, rpc, preflight, sent>>
    BY Zenon, <1>3 DEF Prepare, DecodeTaproot, Wellformed
  <2>2. Prepared(request')
    BY Zenon, <2>1 DEF Prepared
  <2>3. AcceptedWasApproved'
    BY Zenon, <2>1 DEF ReviewInv, AcceptedWasApproved
  <2> QED BY Zenon, <2>1, <2>2, <2>3 DEF ReviewInv
<1>4. ASSUME NEW a \in DOMAIN Accounts, FinalizeWithSigner(a)
      PROVE  ReviewInv'
  <2>1. /\ request # <<>> /\ request' = <<>> /\ desk = "fractal"
        /\ UNCHANGED <<desk, approved, accepted, rpc, preflight, sent>>
        /\ \/ finalized' = finalized
           \/ \E j \in approved : Spends(a, request, j) # {} /\ finalized' = <<a, request, j>>
    BY Zenon, <1>4 DEF FinalizeWithSigner
  <2>2. finalized' # <<>> => SpendMade(finalized', approved)
    <3>1. ASSUME NEW j \in approved, Spends(a, request, j) # {}, finalized' = <<a, request, j>>
          PROVE  SpendMade(finalized', approved)
      <4>1. finalized'[1] = a /\ finalized'[2] = request /\ finalized'[3] = j
        BY ONLY <3>1
      <4> QED BY Zenon, <2>1, <3>1, <4>1 DEF SpendMade, ReviewInv
    <3> QED BY Zenon, <2>1, <3>1 DEF ReviewInv
  <2>3. AcceptedWasApproved'
    BY Zenon, <2>1 DEF ReviewInv, AcceptedWasApproved
  <2> QED BY Zenon, <2>1, <2>2, <2>3 DEF ReviewInv
<1>5. ASSUME NEW a \in DOMAIN Accounts, NEW n, Connect(Accounts[a].scope, n)
      PROVE  ReviewInv'
  BY Zenon, <1>5 DEF Connect, ReviewInv, AcceptedWasApproved
<1>6. ASSUME NEW e, TestMempoolAccept(e)
      PROVE  ReviewInv'
  BY Zenon, <1>6 DEF TestMempoolAccept, ReviewInv, AcceptedWasApproved
<1>7. ASSUME BroadcastAccepted
      PROVE  ReviewInv'
  <2>1. /\ preflight # <<>> /\ preflight' = <<>>
        /\ UNCHANGED <<desk, approved, accepted, request, finalized, rpc>>
        /\ \/ sent' = sent
           \/ SpendOf(preflight).scope = rpc /\ sent' = sent \cup {<<rpc, preflight>>}
    BY Zenon, <1>7 DEF BroadcastAccepted
  <2>2. ASSUME NEW x \in sent' PROVE SpendMade(x[2], approved) /\ SpendOf(x[2]).scope = x[1]
    <3>1. CASE x \in sent
      BY Zenon, <3>1 DEF ReviewInv
    <3>2. CASE x \notin sent
      <4>1. x = <<rpc, preflight>> /\ SpendOf(preflight).scope = rpc
        BY Zenon, <2>1, <3>2
      <4>2. x[1] = rpc /\ x[2] = preflight
        BY ONLY <4>1
      <4> QED BY Zenon, <2>1, <4>1, <4>2 DEF ReviewInv
    <3> QED BY Zenon, <3>1, <3>2
  <2>3. AcceptedWasApproved'
    BY Zenon, <2>1 DEF ReviewInv, AcceptedWasApproved
  <2> QED BY Zenon, <2>1, <2>2, <2>3 DEF ReviewInv
<1>8. CASE UNCHANGED reviewVars
  BY Zenon, <1>8 DEF reviewVars, ReviewInv, AcceptedWasApproved
<1> QED BY Zenon, <1>1, <1>2, <1>3, <1>4, <1>5, <1>6, <1>7, <1>8 DEF ReviewNext

\* The spend of a prepared request: the reviewed transaction with the
\* signature of the job in its input, which is a signature of its message.
LEMMA SpendFacts ==
  ASSUME NEW x, NEW jobs, jobs \subseteq Reviewable, SpendMade(x, jobs)
  PROVE  LET m == Materials[x[2][2]]
             spend == SpendOf(x)
         IN /\ spend.index = m.index /\ spend.ftx.tx = m.tx
            /\ spend.ftx.witness[m.index][1].key = Accounts[x[3][1]].key
            /\ Shows(Accounts[x[2][1]], m, ArtifactOf(x[3][1], x[3][2]).message)
<1> DEFINE q == x[2]
           j == x[3]
           m == Materials[q[2]]
           s == Accounts[x[1]]
           art == ArtifactOf(q[1], q[2])
           sig == SignatureOf(j)
           f == AssembleTaproot(sig, m.type)
           fin == [scope |-> s.scope, index |-> m.index,
                   ftx |-> [tx |-> m.tx,
                            witness |-> [i \in DOMAIN m.tx.inputs |->
                                            IF i = m.index THEN <<f>> ELSE <<>>]]]
<1>1. /\ q \in Reviewable /\ m.format = "taproot" /\ j \in Reviewable
      /\ Spends(x[1], q, j) # {}
  BY Zenon DEF SpendMade, Prepared
<1>2. art.material = m /\ Shows(Accounts[q[1]], m, art.message)
  BY Zenon, <1>1, ReviewableFacts
<1>3. Spends(x[1], q, j) = {fin} /\ BitcoinVerify(s, art, f)
  <2>1. Spends(x[1], q, j) = FinalizeReviewedKeySpend(s, art, sig)
    BY Zenon DEF Spends
  <2> HIDE DEF s, art, sig, m, q, j
  <2> QED BY Zenon, <1>1, <1>2, <2>1 DEF FinalizeReviewedKeySpend, Inputs
<1>4. SpendOf(x) = fin
  <2> HIDE DEF fin
  <2> QED BY Zenon, <1>3 DEF SpendOf
<1>5. f.key = Accounts[j[1]].key /\ f.message = ArtifactOf(j[1], j[2]).message
  BY Zenon DEF AssembleTaproot, SignatureOf, ArtifactOf
<1>6. f.message \in TapSighash(m)
  <2> HIDE DEF f, m, art, s
  <2>1. PICK d \in TaprootPayload(m) : f.message = d
    BY Zenon, <1>2, <1>3 DEF BitcoinVerify, VerifyTaproot
  <2> QED BY Zenon, <2>1 DEF TaprootPayload
<1>7. /\ m.index \in DOMAIN m.tx.inputs /\ m.type \in TapTypes
      /\ Accounts[q[1]].scope[1] \in {"bitcoin", "fractal-bitcoin"}
  <2> HIDE DEF m, q, art
  <2> QED BY Zenon, <1>1, <1>2 DEF Shows
<1>8. Shows(Accounts[q[1]], m, f.message)
  <2> HIDE DEF m, q, f
  <2> QED BY Zenon, <1>1, <1>6, <1>7 DEF Shows
<1>9. fin.index = m.index /\ fin.ftx.tx = m.tx /\ fin.ftx.witness[m.index][1] = f
  <2> HIDE DEF m, f, s
  <2>1. fin.index = m.index /\ fin.ftx.tx = m.tx /\ fin.ftx.witness[m.index] = <<f>>
    BY Zenon, <1>7
  <2> HIDE DEF fin
  <2> QED BY <2>1
<1> HIDE DEF fin, f
<1> QED BY Zenon, <1>4, <1>5, <1>8, <1>9

\* Everything a node was sent does what an approved review says.
LEMMA SentWasApproved ==
  ASSUME ReviewInv
  PROVE  BroadcastWasApproved
<1> SUFFICES ASSUME NEW x \in sent
             PROVE  LET spend == SpendOf(x[2])
                        witness == spend.ftx.witness[spend.index]
                    IN /\ spend.scope = x[1]
                       /\ \E j \in approved :
                             LET n == Materials[j[2]]
                             IN /\ Fractal(j[1])
                                /\ n.type = 0
                                /\ Effects(n) = Effects([tx |-> spend.ftx.tx, index |-> spend.index])
                                /\ witness[1].key = Accounts[j[1]].key
  BY Zenon DEF BroadcastWasApproved
<1> DEFINE y == x[2]
           q == y[2]
           j == y[3]
           m == Materials[q[2]]
           n == Materials[j[2]]
           d == ArtifactOf(j[1], j[2]).message
           spend == SpendOf(y)
           r == Accounts[q[1]]
           s == Accounts[j[1]]
<1>1. /\ SpendMade(y, approved) /\ approved \subseteq Reviewable /\ spend.scope = x[1]
  BY Zenon DEF ReviewInv
<1>2. /\ q \in Reviewable /\ m.format = "taproot" /\ m.type = 0 /\ j \in approved
      /\ j \in Reviewable /\ Fractal(j[1])
  BY Zenon, <1>1 DEF SpendMade, Prepared
<1>3. /\ spend.index = m.index /\ spend.ftx.tx = m.tx
      /\ spend.ftx.witness[m.index][1].key = s.key /\ Shows(r, m, d)
  BY Zenon, <1>1, SpendFacts
<1>4. Proper(m) /\ Proper(n) /\ Shows(s, n, d)
  BY Zenon, <1>2, ReviewableFacts
<1>5. n.type = 0 /\ Effects(m) = Effects(n)
  <2> HIDE DEF m, n, r, s, d
  <2> QED BY Zenon, <1>2, <1>3, <1>4, SameSpend
<1>6. Effects(m) = Effects([tx |-> m.tx, index |-> m.index])
  <2> HIDE DEF m
  <2> QED BY Zenon DEF Effects
<1> HIDE DEF m, n, spend, s
<1> QED BY Zenon, <1>1, <1>2, <1>3, <1>5, <1>6 DEF n, spend, s

\* The invariant holds of every behaviour.
LEMMA ReviewsTraced == ReviewSpec => []ReviewInv
BY ReviewInvInit, ReviewInvStep, PTL DEF ReviewSpec

\* A finished signature is accepted only for a spend like one that was approved
\* under the same key, for every set of accounts and materials: whichever
\* suite, drifted artifact or changed signature is presented
\* (verify_finalized_signature of the suites).
THEOREM AcceptedOnlyApproved == ReviewSpec => []AcceptedWasApproved
<1>1. ReviewInv => AcceptedWasApproved
  BY Zenon DEF ReviewInv
<1> QED BY <1>1, ReviewsTraced, PTL

\* Whatever the Fractal client sends to a node does what an approved review
\* says, through failing calls, other adapters and nodes that answer anything
\* (finalize_with_signer, preflight_and_broadcast).
THEOREM BroadcastOnlyApproved == ReviewSpec => []BroadcastWasApproved
BY SentWasApproved, ReviewsTraced, PTL
=============================================================================
