--------------------------- MODULE PolicyRegistry ---------------------------
(***************************************************************************)
(* The policy compiler (crates/policy-registry), its immutable tables in    *)
(* the wallet database (wallet-storage policy.rs) and the policy commands   *)
(* of the command line, across restores of the wallet and upgrades of the   *)
(* compiler.                                                                *)
(*                                                                         *)
(* Digests and canonical bytes are injective constructors: the digest of a  *)
(* value is the value.  A refusal is the empty set.  A name is a sequence   *)
(* of words, a size a small number.  A text field that does not decode has  *)
(* the value Undecodable.  The owner lock of the database makes every       *)
(* command one step.                                                        *)
(***************************************************************************)
EXTENDS Listing

CONSTANTS Sources,          \* sequence of policy files [len, strict, document]
          Forgeries(_),     \* bundle files that a compiler version did not write
          Undecodable,
          CompilerVersions, \* 1..n, in order of release
          MaxDocumentBytes, MaxNameLen, MaxMetadata, MaxArtifactSet,
          ActivationIds,    \* an activation and its binding are named together
          MaxEpoch, MaxClock

VARIABLES compiler,     \* version of the installed compiler
          epoch,        \* recovery epoch of the wallet
          recovering,   \* the restored wallet has not finished its recovery
          documents,    \* policy -> stored [bundle, epoch], at most one
          activations,  \* proposals in policy_activations, with their bindings
          backups,      \* the last backup, at most one
          clock,
          voided        \* history: proposals that a restore ended

policyVars == <<compiler, epoch, recovering, documents, activations, backups, clock, voided>>

(***************************************************************************)
(* Documents: [schema_version, canonicalization, profile, name, kind, input]*)
(***************************************************************************)
ValidProfile(d) ==
    /\ d.schema_version = 1 /\ d.canonicalization = "jcs-v1" /\ d.profile = "op-cat"
    /\ Len(d.name) \in 1..MaxNameLen

InvalidIssuanceSupply(d) ==
    {[d EXCEPT !.input.total_supply = 0] : k \in {d.kind} \cap {"issuance"}}

InvalidListingPrice(d) ==
    {[d EXCEPT !.input.price_sat = 0] : k \in {d.kind} \cap {"listing"}}

Renamed(d) == [d EXCEPT !.name = Append(@, "tampered")]

PolicyHash(d) == d

IssuanceTermsOf(input) ==
    IF /\ Undecodable \notin {input.item, input.salt, input.metadata}
       /\ input.metadata <= MaxMetadata
       /\ input.total_supply # 0
       /\ input.target_prefix <= 32
       /\ CASE input.successor_rule = Recursive -> input.lane_count = 1
            [] input.successor_rule = Sharded -> input.lane_count \in 2..input.total_supply
    THEN {input} ELSE {}

ListingTermsOf(input) ==
    {l \in {input} : /\ Undecodable \notin {l.seller_key, l.seller_payout_script,
                                           l.creator_fee_script, l.cancel_script}
                     /\ ValidListing(l)}

(***************************************************************************)
(* Artifacts.  flipped: the last hexadecimal digit was changed.             *)
(***************************************************************************)
NewArtifact(kind, lane, value, len) ==
    LET content == [value |-> value, len |-> len, flipped |-> FALSE]
        id == <<kind, lane, content>>
    IN  [kind |-> kind, lane |-> lane, content |-> content, digest |-> content,
         id |-> id, ref |-> <<"inline", id>>]

ArtifactValid(a) ==
    /\ a.digest = a.content
    /\ a.id = <<a.kind, a.lane, a.digest>>
    /\ a.ref = <<"inline", a.id>>

LaneArtifacts(terms, state) ==
    <<NewArtifact("issuance_terms", state.lane, terms, 1 + terms.metadata),
      NewArtifact("issuer_state", state.lane, state, 1),
      NewArtifact("issuer_tapscript", state.lane, IssuerScript(state), 1),
      NewArtifact("issuer_output_key", state.lane, IssuerOutputKey(state), 1)>>

\* A lane whose script does not parse back to its state is refused.
CompileIssuance(terms) ==
    LET initial(l) == CHOOSE s \in InitialState(terms, l) : TRUE
        lanes == 0..(MaterializedLanes(terms) - 1)
    IN  IF \A l \in lanes : /\ InitialState(terms, l) # {}
                           /\ ParseIssuerScript(IssuerScript(initial(l))) = {initial(l)}
        THEN {Concatenation([n \in 1..MaterializedLanes(terms) |->
                               LaneArtifacts(terms, initial(n - 1))])}
        ELSE {}

CompileListing(l) ==
    <<NewArtifact("listing_terms", "global", l, 2),
      NewArtifact("listing_commitment", "global", Commitment(l), 1),
      NewArtifact("buy_leaf", "global", BuyLeaf(l), 1),
      NewArtifact("cancel_leaf", "global", CancelLeaf(l), 1),
      NewArtifact("listing_output", "global", ListingOutputScript(l), 1),
      NewArtifact("order_txout", "global", OrderTxOut(l), 1)>>

CompileArtifacts(d) ==
    IF d.kind = "issuance" THEN UNION {CompileIssuance(t) : t \in IssuanceTermsOf(d.input)}
    ELSE {CompileListing(l) : l \in ListingTermsOf(d.input)}

ArtifactSetBytes(artifacts) ==
    LET sum[n \in 0..Len(artifacts)] ==
            IF n = 0 THEN 0 ELSE sum[n - 1] + artifacts[n].content.len
    IN  sum[Len(artifacts)]

(***************************************************************************)
(* Test vectors and their execution                                         *)
(***************************************************************************)
Vector(id, op, input, claim, accept) ==
    [vector_id |-> id, operation |-> op, input |-> input, claim |-> claim,
     expected_accept |-> accept]

Tampered(artifact) == [artifact EXCEPT !.content.flipped = ~@]

Vectors(d, artifacts) ==
    <<Vector("positive.compile", "compile", d, {}, TRUE),
      Vector("negative.document_tamper", "hash", Renamed(d), {PolicyHash(d)}, FALSE),
      Vector("negative.artifact_tamper", "artifact", Tampered(artifacts[1]), {}, FALSE)>>
    \o AsSeq({Vector("negative.zero_supply", "compile", x, {}, FALSE) : x \in InvalidIssuanceSupply(d)})
    \o AsSeq({Vector("negative.zero_price", "compile", x, {}, FALSE) : x \in InvalidListingPrice(d)})

RunVectorWith(v, Compiles(_)) ==
    LET actual == CASE v.operation = "compile" -> Compiles(v.input)
                    [] v.operation = "hash" -> v.claim = {PolicyHash(v.input)}
                    [] v.operation = "artifact" -> ArtifactValid(v.input)
    IN  [vector_id |-> v.vector_id, expected_accept |-> v.expected_accept,
         actual_accept |-> actual, passed |-> actual = v.expected_accept]

PrepareDocument(d) ==
    {[artifacts |-> a, vectors |-> Vectors(d, a)] :
        a \in {x \in CompileArtifacts(d) : ValidProfile(d) /\ ArtifactSetBytes(x) <= MaxArtifactSet}}

RunVectorTerminal(v) == RunVectorWith(v, LAMBDA d : PrepareDocument(d) # {})

ValidationRun(version, d, artifacts, vectors, results) ==
    LET passed == \A n \in DOMAIN results : results[n].passed
    IN  [compiler_version |-> version, policy_hash |-> d, artifact_set_digest |-> artifacts,
         vector_set_digest |-> vectors, results |-> results, all_passed |-> passed,
         run_digest |-> <<version, d, artifacts, vectors, results, passed>>]

CompileDocumentWith(version, d, Run(_)) ==
    LET built(p) ==
          [schema_version |-> 1, compiler_version |-> version, document |-> d,
           policy_hash |-> PolicyHash(d), artifacts |-> p.artifacts,
           artifact_set_digest |-> p.artifacts, test_vectors |-> p.vectors,
           vector_set_digest |-> p.vectors,
           validation_run |-> ValidationRun(version, PolicyHash(d), p.artifacts, p.vectors,
                                            <<>> \o [n \in DOMAIN p.vectors |-> Run(p.vectors[n])])]
    IN  {b \in {built(p) : p \in PrepareDocument(d)} : b.validation_run.all_passed}

CompileForVector(d) == CompileDocumentWith(1, d, RunVectorTerminal)

RunVector(v) == RunVectorWith(v, LAMBDA d : CompileForVector(d) # {})

CompileDocument(version, d) == CompileDocumentWith(version, d, RunVector)

CompilePolicyJson(version, source) ==
    IF source.len > MaxDocumentBytes \/ ~source.strict THEN {}
    ELSE CompileDocument(version, source.document)

(***************************************************************************)
(* Inspection of a bundle file [canonical, bundle]                          *)
(***************************************************************************)
RunValidates(version, run) ==
    /\ run.all_passed
    /\ run = ValidationRun(version, run.policy_hash, run.artifact_set_digest,
                           run.vector_set_digest, run.results)

\* Everything the file says about itself.
SelfConsistent(version, file) ==
    LET b == file.bundle
    IN  /\ file.canonical
        /\ ValidProfile(b.document)
        /\ b.schema_version = 1 /\ b.compiler_version = version
        /\ b.policy_hash = PolicyHash(b.document)
        /\ ArtifactSetBytes(b.artifacts) <= MaxArtifactSet
        /\ b.artifact_set_digest = b.artifacts
        /\ \A n \in DOMAIN b.artifacts : ArtifactValid(b.artifacts[n])
        /\ b.vector_set_digest = b.test_vectors
        /\ b.validation_run.results = [n \in DOMAIN b.test_vectors |-> RunVector(b.test_vectors[n])]
        /\ RunValidates(version, b.validation_run)
        /\ b.validation_run.policy_hash = b.policy_hash
        /\ b.validation_run.artifact_set_digest = b.artifact_set_digest
        /\ b.validation_run.vector_set_digest = b.vector_set_digest

\* Mutation: the file is believed once it is consistent and compiles.
InspectWithoutRecompiling(version, file) ==
    /\ SelfConsistent(version, file)
    /\ CompileDocument(version, file.bundle.document) # {}

InspectBundle(version, file) ==
    /\ SelfConsistent(version, file)
    /\ \E expected \in CompileDocument(version, file.bundle.document) :
          /\ expected.artifacts = file.bundle.artifacts
          /\ expected.artifact_set_digest = file.bundle.artifact_set_digest
          /\ expected.test_vectors = file.bundle.test_vectors
          /\ expected.vector_set_digest = file.bundle.vector_set_digest
          /\ expected.validation_run = file.bundle.validation_run

(***************************************************************************)
(* The bundle files there are: what each compiler version writes, and the   *)
(* forgeries.  The state names a file by its number, and a policy by the    *)
(* first source with its document.                                          *)
(***************************************************************************)
Written ==
    Concatenation([v \in CompilerVersions |->
        Concatenation([n \in DOMAIN Sources |->
            AsSeq({[canonical |-> TRUE, bundle |-> b] : b \in CompilePolicyJson(v, Sources[n])})])])

Files == Written \o Forgeries(Written)

Policies ==
    DOMAIN Sources
      \ UNION {{m \in DOMAIN Sources : m > n /\ Sources[m].document = Sources[n].document} :
                 n \in DOMAIN Sources}

PolicyOf ==
    <<>> \o [f \in DOMAIN Files |->
               {n \in Policies : Sources[n].document = Files[f].bundle.policy_hash}]

Accepted ==
    <<>> \o [v \in CompilerVersions |->
               {IF InspectBundle(v, Files[f]) THEN f ELSE 0 : f \in DOMAIN Files} \ {0}]

\* What the installed compiler writes for a source (at most one file).
OutputOf ==
    <<>> \o [v \in CompilerVersions |->
       <<>> \o [n \in DOMAIN Sources |->
                  {f \in DOMAIN Written : {Written[f].bundle} = CompilePolicyJson(v, Sources[n])}]]

(***************************************************************************)
(* Storage                                                                  *)
(***************************************************************************)
\* store_policy_bundle_bytes: an existing policy is compared byte by byte
\* before the outcome of the inspection counts.
StorePolicyBundle(policy, file) ==
    /\ ~recovering
    /\ documents[policy] = {}
    /\ file \in Accepted[compiler] /\ PolicyOf[file] = {policy}
    /\ documents' = [documents EXCEPT ![policy] = {[bundle |-> file, epoch |-> epoch]}]
    /\ UNCHANGED <<compiler, epoch, recovering, activations, backups, clock, voided>>

ProposalVerifies(p) ==
    /\ p.wallet_epoch # 0 /\ p.signer_epoch # 0
    /\ p.expires_at > p.created_at

\* Mutation: a policy validated in any epoch is good enough.
ValidatedOnce(p) == \E row \in documents[p.policy] : row.bundle = p.bundle

\* The join of the document with its validation run; bundle stands for the
\* two digests, which determine it.
Validated(p) ==
    \E row \in documents[p.policy] : row.epoch = p.wallet_epoch /\ row.bundle = p.bundle

ProposePolicyActivation(p) ==
    /\ ProposalVerifies(p)
    /\ ~recovering
    /\ p.wallet_epoch = epoch
    /\ Validated(p)
    /\ \A a \in activations : a.activation_id # p.activation_id
    /\ activations' = activations \cup {p}
    /\ UNCHANGED <<compiler, epoch, recovering, documents, backups, clock, voided>>

ActivationStatusAt(p, now) ==
    IF p.wallet_epoch # epoch THEN "invalidated_by_recovery"
    ELSE IF now >= p.expires_at THEN "expired" ELSE "pending"

(***************************************************************************)
(* Commands                                                                 *)
(***************************************************************************)
CompileCommand(n) == \E f \in OutputOf[compiler][n] :
    \E policy \in PolicyOf[f] : StorePolicyBundle(policy, f)

Activate(policy, id, signer_epoch, expires_at) ==
    /\ \E row \in documents[policy] :
         /\ row.bundle \in Accepted[compiler]
         /\ Files[row.bundle].bundle.validation_run.all_passed
         /\ ProposePolicyActivation(
              [activation_id |-> id, policy |-> policy,
               wallet_epoch |-> epoch, signer_epoch |-> signer_epoch, bundle |-> row.bundle,
               expires_at |-> expires_at, created_at |-> clock])

\* A proposal made elsewhere, for any stored or unstored bundle and epoch.
ProposeElsewhere(policy, id, wallet_epoch, file) ==
    /\ ProposePolicyActivation(
          [activation_id |-> id, policy |-> policy,
           wallet_epoch |-> wallet_epoch, signer_epoch |-> 1, bundle |-> file,
           expires_at |-> MaxClock, created_at |-> clock])

(***************************************************************************)
(* The wallet around the registry                                           *)
(***************************************************************************)
ExportBackup ==
    /\ ~recovering
    /\ backups' = {[epoch |-> epoch, documents |-> documents, activations |-> activations]}
    /\ UNCHANGED <<compiler, epoch, recovering, documents, activations, clock, voided>>

RestoreBackup ==
    \E b \in backups :
      /\ b.epoch >= epoch /\ b.epoch < MaxEpoch
      /\ epoch' = b.epoch + 1 /\ recovering' = TRUE
      /\ documents' = b.documents /\ activations' = b.activations
      /\ voided' = voided \cup activations
      /\ UNCHANGED <<compiler, backups, clock>>

FinishRecovery ==
    /\ recovering
    /\ recovering' = FALSE
    /\ UNCHANGED <<compiler, epoch, documents, activations, backups, clock, voided>>

UpgradeCompiler ==
    /\ compiler + 1 \in CompilerVersions
    /\ compiler' = compiler + 1
    /\ UNCHANGED <<epoch, recovering, documents, activations, backups, clock, voided>>

TickPolicy ==
    /\ clock < MaxClock
    /\ clock' = clock + 1
    /\ UNCHANGED <<compiler, epoch, recovering, documents, activations, backups, voided>>

PolicyInit ==
    /\ compiler = 1 /\ epoch = 1 /\ recovering = FALSE /\ clock = 0
    /\ documents = [p \in Policies |-> {}]
    /\ activations = {} /\ backups = {} /\ voided = {}

PolicyNext ==
    \/ \E n \in DOMAIN Sources : CompileCommand(n)
    \/ \E p \in Policies, f \in DOMAIN Files : StorePolicyBundle(p, f)
    \/ \E p \in Policies, i \in ActivationIds, s \in 0..1, e \in 0..MaxClock : Activate(p, i, s, e)
    \/ \E p \in Policies, i \in ActivationIds, w \in 1..MaxEpoch, f \in DOMAIN Files :
          ProposeElsewhere(p, i, w, f)
    \/ ExportBackup \/ RestoreBackup \/ FinishRecovery
    \/ UpgradeCompiler \/ TickPolicy

PolicySpec == PolicyInit /\ [][PolicyNext]_policyVars

(***************************************************************************)
(* Properties                                                               *)
(***************************************************************************)
\* The canonical files whose bundle is what a version makes of its document.
Genuine ==
    <<>> \o [v \in CompilerVersions |->
       {IF Files[f].canonical /\ {Files[f].bundle} = CompileDocument(v, Files[f].bundle.document)
        THEN f ELSE 0 : f \in DOMAIN Files} \ {0}]

\* inspect_bundle accepts exactly what the installed compiler writes: no file
\* that recomputes its own digests, drops a failing vector, carries the
\* artifacts of another policy or comes from another compiler version.
InspectIsCompile == Accepted[compiler] = Genuine[compiler]

\* A proposal reported pending is one the current recovery epoch made, for a
\* policy compiled and validated in that epoch with exactly these artifacts
\* and vectors; a restore ends every proposal for good, whether the backup
\* holds it or not.
PendingIsValidated ==
    \A a \in activations :
       ActivationStatusAt(a, clock) = "pending" =>
          /\ a \notin voided
          /\ documents[a.policy] = {[bundle |-> a.bundle, epoch |-> epoch]}
          /\ PolicyOf[a.bundle] = {a.policy}
=============================================================================
