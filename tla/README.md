# Verification of the catomicals wallet

TLA+ models of the catomicals wallet node, its signers, its chain adapters and
the desktop shell's session store; TLC runs that check them on small instances;
and TLAPS proofs of the main safety properties for every value of the constants.
`PROJECT.json` lists the components, the runs, the theorems, the hazards each
property is aimed at, and for every definition the source lines it models.

    tlc -config MCRestoreCutover.cfg MCRestoreCutover     one run
    tlapm RestoreCutoverProofs.tla                        one proof module

## 1. The system and its models

A wallet is a data directory with one database, owned by one process at a time.
A person describes a spend to the wallet node (an *intent*), reviews it and
approves it with a Passkey. The approval mints a one-time authorization, which
one FROST signing or one chain signing job consumes. The signers are threshold
signers: a personal 2-of-3 group whose coordinator drives remote providers, and
per-chain executors for Bitcoin, Fractal, Bitcoin Cash, BSV, Kaspa, Chia and Ergo.
Around this core stand the backup and restore of the database, the provisioning
of signers, the policy registry, the block index and node gateway that tell the
wallet what the chain is, the trading rules, and the desktop shell with its
conversation logs and their search index.

| Module | Code | State | Actions |
|---|---|---|---|
| `RestoreCutover` | `wallet-storage/backup.rs`, restore states of `sqlite.rs` | the files of the data directory (live, prepared, rollback, journal, bundles), the process's next step, history of issued and used authorizations | one per file operation of export, restore, the two guards that unwind, and recovery at open; requests that issue or use an authorization; stop and crash |
| `AtomicRestore` | the promise of the above | the wallet as one value | a restore is one step |
| `WalletAuthority` | `wallet-core` `node.rs`, `api.rs`, `gate.rs`, `webauthn.rs`, `durable_store.rs`; tables of `sqlite.rs` | tables, latest backup, the service's in-memory maps, clock, histories | one per handler of `WalletNodeService`, run under its mutex; a chain signing job is three (claim, contact, complete), since the mutex is released between them; stop, start, backup, restore |
| `SignerProvider` | `threshold-signer` `provider.rs`, `participant.rs`, `session.rs`, `nonce_guard.rs`; `signer-transport` | replay store, reservations, pending nonces, guard, answers | a request admitted by a provider, also when refused after its nonce was claimed; signer restart; clock |
| `PersonalSigning` | `signing_operation.rs`, `orchestrator.rs`, the operation rows of `sqlite.rs` | rows and receipts, the session machine, contexts of both rounds, requests sent | each public coordinator method per outcome, with the write that fails after the machine moved; restart. It extends `SignerProvider` |
| `ThresholdExecution` | the five executors, the cb-mpc native session and its transport, the claim stores | one call per worker, claims in memory, files and log, nonce files, the transport's frames | steps of `execute` between lock, claim, rounds and verification; the two cb-mpc threads; cancellation; restart |
| `PersonalCustody` | `wallet signer personal bootstrap`, `signer init`, `persistent_signer.rs`, recovery bundle, device wrap, signer part of backups | manifest, secret records, output directories, delivered keys, bundles, one program counter per command | every write of every command, before or after its rename took effect; crash; loss of the directory |
| `ChainProvision` | `wallet chains provision`, the executor builders, inventory check, `wallet serve` readiness, catalog operations | catalog rows, secret references, managed directories, key-encryption key, the server's executors and surface | each staging write, validation, installation, the destructor; server start and configure; catalog edits; kills; an operator's damage |
| `Listing`, `PolicyRegistry` | `policy-registry`, `wallet-storage/policy.rs`, CLI commands | the immutable tables, proposals, backups, epoch, compiler version | compile, store, propose, backup, restore, finish recovery, compiler upgrade |
| `Issuance`, `BlockIndex` | `issuance`, `indexer` | the column families, unsynced batches, checkpoint copies, the running operation and a racing height query | attach, detach, each step of a reorganisation, checkpoint, reopen, power failure |
| `NodeGateway` | `node-client` | the node (external), the running operation, the caller's snapshot | every RPC of every operation is one step between which the node moves |
| `Trading` | `trading`, `wallet-core/transaction.rs`, the node's trade handlers | blocks, snapshot, intents, signatures, the competition tracker | create, approve, sign, finalise, mine, disconnect, restart, track; a request may arrive as its digest only |
| `ReviewedSuites`, `ReviewedSigning` | the suites of Bitcoin, Fractal, BCH, BSV and Kaspa, the Fractal adapter and node client | approved reviews, the adapter's request, the node client's stages | approve, present a signature with any artifact, prepare, finalise, connect, preflight, send |
| `PrimeField`, `ChiaThreshold` | Chia share arithmetic, spends, suite, adapter | shares, partials, bundle, push in progress | split, sign, finalise, verify, review, push call by call |
| `PrimeField`, `ErgoThreshold` | Ergo review material, suite, two-round Schnorr | reserved and pending nonces, consumed records, packages, answers, proofs | reserve, pack, answer, aggregate, assemble, verify, restart |
| `SessionStore` | `desktop/src/sessions` coordinator, JSONL store, format, manager, trash | complete lines and torn tail of the log, operation chain, live overlay, trash directories | each file operation of create, append, read, open, close, delete, restore, purge, shutdown; failing writes, rollbacks, publications, moves and tombstones; crash |
| `SessionSearch` | `desktop/src/sessions/search.ts` | logs and live overlay, indexed rows, generations, cursor, running query | the engine's observe, load, observe again, transaction; corpus changes between them; close and restart |

The `MC…` modules give the constants their values. `MCWalletDirectory`,
`MCChainData` and `MCChainSpends` check several components in one run: they own
different state, so a behaviour is about one of them and the others stand still.
`MCPersonalSigning` runs the same signers under two hosts: the coordinator, and a
host that lost its state and sends any request in any order.

### Abstractions

Hashes, commitments and canonical encodings are injective constructors; a
signature is the record of what it was made over and by whom. Key material is the
identity of the generation that drew it. Sealing and wrapping are the values they
bind. Encodings are reduced to whether they are canonical. An operation that may
refuse returns a set that is empty on refusal. The Chia share arithmetic is kept
digit by digit, with a small base, because its carries and reductions are the
code. The cryptographic libraries, the Bitcoin and Chia nodes, sigma-rust, CLVM,
SQLite and RocksDB are external and modelled by what the code relies on. Writes
followed by a directory sync are durable when made; the places where the code
does not sync (`durable_writes = false` of the indexer), or where a failed sync
leaves the rename in place (`write_manifest_atomic`), are modelled as such.

## 2. The runs

| Run | Distinct states | Checks |
|---|---|---|
| `restore` | 61,210 | `WalletNeverLost`, `RestoreIsAtomic`, `EventuallyOpens` |
| `restore_reopen` | violation | `ReopensAfterCrash` |
| `authority_lifecycle` | 1,375,893 | `UseNeedsConsent`, `ContactedOnce`, `ProjectionAgrees` |
| `authority_shared_session` | 211,311 | `NonceUsedOnce`, `JobSettles` |
| `authority_old_epoch` | violation | `NoOldEpochExecution` |
| `personal_signing` | 626,459 | `NonceSignsOnce`, `FinalizedByPair`, `RecoveryNeverRefused`, `MachineCoversReceipts` |
| `execution` | 362,178 | `KeptNoncesAreInUse`, `ExecutedOnce`, `ExecutionEnds` |
| `wallet_directory` | 232,498 | `SharesOpen`, `SignerNeverReplaced`, `ArtifactsMatchCatalog`, `ReportIsComplete`, `ReadyIsBound`, `InspectIsCompile`, `PendingIsValidated` |
| `chain_data` | 649,204 | `IndexIsReplay`, `AnswersAreCanonical`, `AnswerHoldsAtSnapshot`, `VerifiersAgree`, `OrderSpentByPolicy` |
| `suites` | 84,675 | `AcceptedWasApproved`, `BroadcastWasApproved`, `ChiaQuorumSigns`, `ChiaPushedWasAgreed`, `ErgoQuorumSigns`, `ErgoTransactionWasAgreed` |
| `sessions` | 567,858 | `AckedKept`, `RefusedLeavesNothing`, `TrashedIsForgotten`, `ChainRunsOut` |
| `search` | 987,444 | `AnswersAreFresh`, `PagesAgree`, `QueryEnds` |

What they show:

- **restore.** Wherever the process stops, some file still holds a complete
  database at least as new as any that was opened; seen from outside a restore
  either happened or did not; and a start ends with the wallet open or with
  recovery refusing the journal. `restore_reopen` shows when it refuses.
- **authority.** An authorization is spent no more often than a person approved
  it, through stops, restarts and the restore of a backup in which it was still
  unspent; the signers of a chain job are contacted once per epoch; what the
  service says of an intent is what the database holds. Two intents of one FROST
  session never make two shares from one nonce, and every claimed job ends.
- **personal_signing.** No nonce signs two packages, whatever a host sends. A
  finalized operation holds exactly the shares of its pair, verified, on the
  frozen package. An operation that collects shares can be rebuilt after a
  restart, and a running machine knows every answer that is stored.
- **execution.** The FROST participants of this process keep nonces only for the
  session that is in its rounds, whichever provider failed and wherever the
  process ended.
  An attempt with a durable claim passes it once, over restarts; with FROST's
  process-local claim, once per life of the process. Every call returns.
- **wallet_directory.** A reported bootstrap leaves shares that open and a
  signer that no later command replaces. A provisioned chain keeps its
  artifacts, and a chain reported ready signs with its own profile's key. The
  provision report names every chain. `policy inspect` accepts what `policy
  compile` writes. A pending policy activation belongs to the current epoch.
- **chain_data.** The index is what a replay of its chain from genesis gives,
  after any reorganisation and power failure. A gateway's answer holds of the
  chain whose snapshot it carries. Agent and wallet verify trades alike. An order
  output is only sold in full or cancelled after its expiry, except through the
  low-level route on which a user approves a bare digest: the wallet cannot tell
  what that digest spends (`docs/wallet-node.md:71`), and with this route in the
  model the exception is needed.
- **suites.** A signature is accepted only for a spend that agrees with an
  approved one in everything its hash type fixes. What the Fractal client
  broadcasts, the Chia adapter pushes and the Ergo adapter assembles is what the
  signers agreed to; two participants, and no single one, can sign.
- **sessions, search.** What was acknowledged stays readable, what was refused
  left nothing, and a session whose delete succeeded is forgotten until a log of
  it is at home again. A delete that throws after it moved the log (the rewrite
  of the tombstone fails, `trash.ts:59`) does not reach the calls that forget the
  session: its live overlay and cursor stay until the next restart, and
  `TrashedIsForgotten` excepts it. A search answer is neither stale nor
  resurrecting, the pages of one query come from one corpus, and a query ends
  although the corpus never comes to rest.

`PROJECT.json` gives, for every property of a passing run, a mutated definition
(a dropped guard, a swapped order, a missing reset) under which TLC finds it
violated.

### Bounds, and why they are enough

A bound caps how often something may happen; each is chosen so that the cases
the properties distinguish occur.

- `restore`: 2 authorizations, epochs up to 3, 2 bundles, one foreign epoch, 2
  crashes. Two crashes reach a crash inside the recovery from the first, and two
  bundles an old one restored after a newer one.
- `authority`: 2 intents, 2 ceremonies, epochs 1 and 2, 2 stops, clock up to 4
  with a lifetime of 1 (shared session: 1 epoch, 1 stop, 2 nonces, clock up to
  3). That is one restore with use before and after it, and every expiry both
  before and after the step it guards.
- `personal_signing`: 3 signers, 1 operation, 4 batches of requests, clock up to
  3; one signer with a durable replay store, one faulty. Three nonces in all
  under the coordinator: both of a pair and the one that a signer without the
  durable store draws when it restarted and is asked again. Two in all under the
  host without state, for two of the signers, so that a repeated first round
  there finds no further nonce.
- `execution`: 5 backends, 2 requests at a time, 6 jobs (shared session, drifted
  signers, drifted material), 2 inputs, 2 rounds, 3 frames in flight, 2 calls,
  1 restart.
- `wallet_directory`: 2 processes, 2 output directories, 2 device keys, 2
  generations, 2 faults (custody); 5 chains, 2 provisioners, 2 runs, 1 catalog
  edit, 1 removed file (provision); 2 compiler versions, 2 epochs (policy).
  Processes, directories and device keys are symmetric sets; no liveness is
  checked there.
- `chain_data`: a tree of blocks with one fork, 1 power failure, 1 unsynced
  batch; 2 gateway operations, clock up to 2; chain height up to 3, 1
  reorganisation, 1 restart and 3 intents in trading, where one request, a sale
  below its price, may also arrive as a bare digest (`Digests`).
- `suites`: 2 keys, 10 accounts, 5 chains, 2 approvals, 1 broadcast; scalars
  modulo 29 in base 4 with 3 digits, which meets every carry and both reductions
  of the Chia arithmetic; 3 partials, 1 push, 2 Ergo turns, 3 nonces, 2 packages.
- `sessions`: six uses of one session: appends and reads with failing writes;
  opening and closing with a first write that is published and reported as
  failed; deletes with failing writes; deletes with such a first write, and with
  failing trash steps; restores with failing trash steps; purges with them. 2
  queued operations, 2 crashes, 2 trash directories, 1 to 3 batches. Two
  combinations are modelled and in no use, because `AckedKept` does not hold of
  them (section 4): a rollback that fails too, and a first write published but
  reported as failed together with two deletes and a restore.
- `search`: four uses (two sessions; pages across a restart; shutdown; a session
  deleted and restored without end), 3 changes of the corpus in each of the first
  three. The endless use has no such cap, so a query is checked against a corpus
  that may change at every step of it; no query begins there once the engine's
  generation has reached 2, and one that began is never cut off.

### Fairness

Fairness is assumed only of what the program or its host repeats by itself. No
request, failure, cancellation or crash is ever forced.

- `RestoreCutover`: a command that started runs on, and a stopped wallet is
  started again (weak fairness of open, export and restore steps).
- `WalletAuthority`: the clock advances, the service is started again, its client
  repeats `execute` until the job ended, and a provider call returns.
- `SessionStore`, `SessionSearch`: the event loop runs the next step of a promise
  chain and of a query; a process that was told to stop exits.
- `ThresholdExecution`: every worker thread and both cb-mpc party threads are
  scheduled.

`PersonalSigning` has no fairness. The coordinator runs nothing by itself, and
whether an operation ends depends on a host that polls `expire` and calls
`recover_operation`, which is not in the repository; only safety is checked.

## 3. What is proved

The `…Proofs` modules hold theorems that TLAPS checks for every value of the
constants that satisfies the named assumptions of the module that declares them.
They need no bound: the caps (`MaxCrashes`, `MaxTime`, ...) are arbitrary
naturals there, the sets of intents, signers, chains, sessions and requests are
arbitrary. `PROJECT.json` lists all 46 results; those of them that a run also
checks are these.

| Module | Theorem | Property |
|---|---|---|
| `RestoreCutoverProofs` | `NeverLost`, `Refinement` | `WalletNeverLost`, `RestoreIsAtomic` |
| `WalletAuthorityProofs` | `Consented`, `SingleContact`, `NonceSharesOnce`, `ProjectionFollows` | `UseNeedsConsent`, `ContactedOnce`, `NonceUsedOnce`, `ProjectionAgrees` |
| `PersonalSigningProofs` | `NoncesSignOnce`, `PersonalNoncesSignOnce`, `FinalizedByItsPair`, `RecoveryIsPossible`, `MachinesCoverReceipts` | `NonceSignsOnce` (providers alone, and under the coordinator), `FinalizedByPair`, `RecoveryNeverRefused`, `MachineCoversReceipts` |
| `ThresholdExecutionProofs` | `AttemptsPassOnce`, `NoncesAreInUse` | `ExecutedOnce`, `KeptNoncesAreInUse` |
| `PersonalCustodyProofs` | `SharesStayOpen`, `SignerStays` | `SharesOpen`, `SignerNeverReplaced` |
| `ChainSignerProofs` | `ArtifactsStay`, `ReadyStaysBound`, `AcceptedOnlyApproved`, `BroadcastOnlyApproved` | `ArtifactsMatchCatalog`, `ReadyIsBound`, `AcceptedWasApproved`, `BroadcastWasApproved` |
| `ChainDataProofs` | `AnswersHold`, `PendingStaysValidated`, `VerifiersAlwaysAgree`, `OrdersFollowPolicy` | `AnswerHoldsAtSnapshot`, `PendingIsValidated`, `VerifiersAgree`, `OrderSpentByPolicy` |
| `SessionProofs` | `AnswersStayFresh`, `PagesStayInAgreement`, `TrashedStaysForgotten` | `AnswersAreFresh`, `PagesAgree`, `TrashedIsForgotten` |

### The arguments

None of these properties is inductive as it stands; each follows from an
invariant that also says what the intermediate states look like.

- **Restore.** `IInv` adds to the property what the directory looks like at each
  step (`DiskInv`, `RestoreInv`), how far each of the two unwinding guards has
  come (`UndoInv`), and what recovery has found (`RecoveryInv`); without them a
  crash in the middle says nothing about the files. The refinement maps the
  directory to the database the next open would choose.
- **Authority.** Spending needs a *budget*: per intent, approvals completed are
  at least the uses plus what is still available, in the live tables and in the
  backup that a restore would bring back (`Budget`, `NotYounger`). Jobs and their
  intents change together (`Tracks`), a contacted job was claimed and is still
  remembered (`Claimed`, `Remembered`). `NonceInv` follows a nonce from round one
  (`Rounds`) to the share (`Shared`) and to its claim (`ClaimedShares`).
- **Personal signing.** For the providers alone: reservations have distinct
  nonces, a pending nonce has signed nothing, a burned one never will. The
  coordinator with its signers implements the providers' specification
  (`PersonalImplementsProvider`), so this carries over. `Consistent` then ties
  rows to the requests sent for them (`Rows`, `Asks`) and the machine in memory
  to the receipts in the database (`Machinery`).
- **Execution.** `ClaimInv` (a call past its claim owns the claim), `LockInv` (who
  is inside the protected part) and `BegunInv` (the shares on the table belong to
  the call that holds the lock); `KeptInv` adds, for each nonce that is kept, the
  call in its rounds that will use or drop it.
- **Custody.** One conjunct per artifact: locks, empty directories, output
  directories, progress of each command, what was reported, records, pending
  installation, bundles, restore.
- **Provisioning.** `HolderInv` (who owns the lock), `StagingInv` (what an attempt
  has written so far), `CatalogInv` (rows and artifacts), `CleanInv` (what a
  finished attempt left).
- **Reviewed spends.** The reviews approved are reviewable, the adapter's request
  and the node client's stages are made from them (`ReviewInv`); the lemmas
  `SameTaproot`, `SameFork`, `SameKaspa` and `SameSpend` show for each suite that
  equal signed messages agree in all that the hash type fixes.
- **Gateway.** A running operation has read a tip with no more work than the
  node's current one (`Running`), and tips only move to more work: if the tip
  read last equals the one read first, the node stood on it all the while, and
  what was read between holds of it.
- **Policy, trading.** The tables fit each other in the live database and in each
  backup, and voided epochs are older than the wallet's; a signed or mined trade
  fits the policy of the listing it spends, or its digest was approved unseen
  (`Fits`, `Signs`).
- **Sessions and search.** The rows of the index, what the query observed and the
  history since are related generation by generation (`CorpusAt`, `HistoryAt`,
  `IndexAt`, `ObservedAt`). `TrashInv` says that a session that is in the trash only
  is forgotten unless some delete that moved a log has not forgotten it, and that
  a session never created is nowhere; it covers every combination of faults.

### The assumptions

They are what the source or the data it is given guarantees. Most only give
types. The ones with content: `TreeAssumption`, blocks are identified by their
hashes and a branch does not contain a transaction twice; `TradingAssumption`,
transactions are identified by their ids, the listing script is not the wallet's
own, and no request recreates an output of the base; `ReviewAssumption`, no
transaction spends a coin twice (the BCH and BSV digests do not name the input
index); `SessionAssumption`, a use in which writes fail and a first write may be
published and reported as failed has no restores (the rollback would cut another
log to the size of the first, which is not modelled); `SearchAssumption`, the
uses name finite sets of sessions.

### Only model-checked

- Liveness (`EventuallyOpens`, `JobSettles`, `ExecutionEnds`,
  `ChainRunsOut`, `QueryEnds`): fairness and `ENABLED` are beyond the prover.
- `IndexIsReplay`, `AnswersAreCanonical`: the replay is a fold over a chain, and
  its proof an induction over that chain.
- `InspectIsCompile`, `ReportIsComplete`: induction over concatenations, and a
  counting argument over them.
- `ChiaQuorumSigns`, `ErgoQuorumSigns`: modular arithmetic on recursively defined
  digits. `ChiaPushedWasAgreed`, `ErgoTransactionWasAgreed`: induction over a
  filtered sequence and over the transcripts of a package.
- `AckedKept`, `RefusedLeavesNothing`: they hold for the combinations of calls and
  faults the six uses list, not for arbitrary ones, so there is no general
  theorem to state.

## 4. Where the code and its documents disagree

Two disagreements are runs that TLC refutes:

- `restore_reopen`. A bundle whose epoch is newer than the live database is
  accepted and journalled with a recovery epoch that the pre-install recovery
  does not recognise (`backup.rs:978`), so after a crash at that stage every open
  fails. The test at `backup.rs:1610` says the original is restored on reopen.
- `authority_old_epoch`. `claim_chain_executor` (`sqlite.rs:1417`) checks neither
  the epoch nor the status of the job's intent, so a job that was signing and
  unclaimed in a backup can be executed again after the restore.

Others came up while modelling. The models follow the code; these are notes for
its maintainers.

- *Wallet.* After a restore, mutations stay blocked until `finish_recovery`, which
  has no production caller. Completing a personal operation never moves its
  intent out of `signing`. A late answer expires the session machine in memory,
  and `expire` then does nothing: the row ends only by `recover_operation`. A repeated device `revoke` is accepted by the registry
  and refused by the store. An interrupted backup or restore can leave the state
  `snapshotting` or `restore_precheck`.
- *Custody.* `signer init` opens the signer with `open_or_initialize` whatever the
  restore state (`wallet.rs:274`), `serve` does not. Bootstrap never opens the
  authority, so `--wallet-id` is not compared with it. A kill between writing the
  record and the manifest leaves an orphan that later commands refuse.
  `persistent_signer.rs:414` deletes the record its manifest names when the sync
  after the manifest's rename fails, unlike what the tests at :1173 and :1192
  describe. A killed export leaves a bundle without the signer attachment that
  verifies, and restores no signer.
- *Provisioning.* A kill while staging leaves artifacts that block later attempts
  until removed by hand; a torn key-encryption key stays corrupt. Binding a
  second address to a Chia or Ergo profile keeps its executor from starting.
  `configure` resets readiness while the executor stays registered.
- *Execution.* FROST claims are process-local (`frost_executor_factory.rs:958`),
  although the trait at `bitcoin_wallet.rs:19` asks that they survive a restart. The cb-mpc transport
  is reused between sessions, and a frame left unread goes to the next one. A
  torn append makes the claim log unreadable for good. At `now = expires_at`
  cb-mpc refuses and the others accept. Chia, Ergo and Fractal check their
  material only after claiming.
- *Policy.* The policy hash covers neither epoch nor compiler version
  (`wallet-storage/policy.rs:55`): after a restore or upgrade a stored policy can be neither
  proposed nor stored again. A stored binding is never usable for signing.
- *Trading.* The proposal is re-verified when the approval starts, not when it
  finishes or in the signer rounds. The cancellation check compares lock times as
  numbers (`trading/lib.rs:690`), so it accepts a time-based one that the script would not.
  The competition tracker does not follow reorganisations.
- *Index and gateway.* `gateway.rs:763` compares only the height of the
  transaction index, where `README.md:157` says it fails closed until the index is
  synchronised to the active tip: during a reorganisation a confirmed transaction
  may be reported missing. A broadcast may return an error although it was
  submitted. A slot may be minted again under a second issuance transaction
  (issuance `verify.rs:300` against :8).
- *Suites.* The Bitcoin and Kaspa suites accept hash types other than ALL; BCH and
  BSV sign the same message, so only scope and key keep them apart; the Fractal
  node's identity is checked when connecting only. Chia refuses amounts from 2^63
  on (`spend_bundle.rs:629`) that consensus accepts; conditions other than new
  coins are accepted and not listed in the review.
- *Sessions.* An append to an id without in-memory state adopts the log and does
  not keep the adopted state (`coordinator.ts:224`; the comment at :256 counts
  adopted ids in), so after a restart every append adopts again and closes the
  turn the one before it opened. When the rollback of a failed append fails too
  (`jsonl-store.ts:394`), the partial bytes stay that the comment at :371-374 says
  are removed. A first write that was published and reported as failed leaves the
  id without state: a delete moves its log away, and a next first write makes a
  second log of the same id; after a second delete and a restore, an append
  numbered for one of them can reach the other. A delete whose tombstone cannot
  be rewritten leaves the session's overlay and cursor in memory
  (`manager.ts:215`). Search memoises a failed open.

## 5. What is not modelled

Cryptographic primitives, byte formats and address texts; the TLS handshake and
framing of the signer transport; the platform key stores; database migrations
(each runs once, before anything else); the HTTP routing and JSON shapes of the
wallet server and the read-only endpoints; the device registry; the CovHub
bridge's formats; chat; the CLI and MCP front ends; and, of the desktop, process
supervision, agent executors, plugins, windows, the one-time runtime migration,
the balance adapters and the web interface. They hold no state that the
properties are about, or consist of pure computations over byte strings, or
belong to programs outside the repository. Disk faults during the cleanup that a
destructor performs are left out too. `PROJECT.json` gives the reason for each.
