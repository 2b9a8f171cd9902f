# Verification of SOW

SOW keeps RPM and DEB package repositories in a workspace on disk, builds their
metadata, and publishes a built tree to a filesystem or R2 target from which
package managers (dnf, apt) read. Its promises are about crashes and order: a
client must never fetch a pointer (`repomd.xml`, `Release`, ...) that names a
missing file, an interrupted command must be resumable or cleanly undone, and
nothing a client may still need is deleted.

This directory holds TLA+ models of that logic, TLC configurations and
TLAPS proofs. Every definition that models code is listed with its source lines
under `map` in `PROJECT.json`, and the places in the code that a test would hardly
reach under `hazards`, with the properties that are about it.

## 1. Inventory

| Component | State | Operations | Hard behaviour | Module |
|---|---|---|---|---|
| Publication (`managed/publication*.go`, `state/publication*.go`) | attempt row, view rows, checkpoints, grace records, reports, receipts, abandoned evidence (SQLite); files at the target; adjacent stage files | publish, its recovery, abandon, rebind | crash between any two writes, compare-and-set refusals after commit intent, evidence of abandoned attempts | `Publication` |
| Target gc (`managed/publication_gc_target.go`) | candidate reports, deletion receipts | `gc <target>` | deletion racing client caches, crash between deletion and receipt, changed TTL | `Publication` |
| R2 client and public verification (`internal/r2`, `managed/publication_r2.go`, `publication_http.go`) | requests under way, open uploads, a page's worker pool, deadlines | list, head, conditional put, multipart, verify | lost, late and repeated requests, foreign writers, caches, a killed sender | `ObjectTransport` |
| Mutation builds (`managed/ingest.go`, `remove.go`, `build*.go`, `state/objects.go`, `generations.go`) | operation row, manifest, staged, pending and pooled payloads, staged dists, Desired and Built memberships | `add`, `rm`, `build` | exchanges of several dists one after the other, each before the ledger knows; power loss; edits of `sow.yml` meanwhile | `MutationBuild` |
| Checks and status (`managed/check*.go`, `changes.go`, `status.go`, `repository.go`) | none; they read what others left | `check`, `changes`, `rm --check`, `repo show`, `dist show`, `status` | telling interrupted work from damage; reading without the lock | `RepositoryCheck`, `RepositoryStatus` |
| Dist lifecycle (`managed/dist.go`) | `sow.yml`, live and staged dist trees, recovery directory, operation row, dist rows, generations | `dist new`, `dist init`, `dist rm`, recovery | crash between configuration, rename and ledger transaction | `DistLifecycle` |
| Workspace lifecycle and locks (`managed/workspace.go`, `repository.go`, `journal.go`, `lock.go`) | workspace journal, `sow.yml`, repository files, lock inodes | `init`, `repo new`, `repo rm`, lock acquisition | concurrent processes, lock files that are replaced, crash between configuration and directories | `WorkspaceLifecycle` |
| Local gc and retained generations (`managed/gc.go`, `retained.go`, `state/gc.go`, `publication_gc.go`) | operation row, plan, quarantine, retained copies, tombs | `gc`, `retain add`, `retain rm` | crash between quarantine and finalisation, roots that appear while a plan is open | `LocalGC` |
| Layout migration (`managed/migrate.go`, `transition_journal.go`, `state/repository.go`) | ledger control row, transition journal with eight phases, stage, aliases | `repo migrate`, `--abort` | three places no transaction spans, a grace period across restarts | `Migration` |
| Plain mode (`v2/plain`) | one directory, retention list, marker | `create` | no journal: repair is running again | `PlainCreate` |
| Formats (`yumrepo`, `aptrepo`), configuration syntax, signing, command line | none of their own, or that of one call | parsing, rendering | pure functions | none |

How they meet. Every managed command takes the workspace lock and the
repository lock, recovers whatever an earlier process left (workspace journal,
dist operation, mutation, gc), and then runs alone; `status` alone takes no lock, and
`check`, `changes`, `show` and previews take it shared. `sow.yml` says which
repositories, dists and targets there are; the repository's SQLite database is the
authority on everything else. Builds, dist commands, migration and local gc append
*generations* (manifests of the whole public tree); publish takes the newest
generation as its source and holds builds off until it has ended; target gc only
touches files that no checkpoint's generation needs, local gc only payloads that no
membership, retained generation or publication refers to.

What makes the components correct:

* publication: readers always see a closed tree; before commit intent nothing
  visible changes; after it the attempt can only, and always can, end published;
  every file at the target is known to some record;
* target gc: only files of no served or in-grace generation are deleted, and
  only after the deadline; a resumed run deletes what was announced;
* transport: no request, however late, replaces what the plan did not expect; an
  accepted inventory is exact; a publication that is repeated succeeds;
* mutation, dist lifecycle, workspace journal, local gc, migration: whichever step a
  crash cuts off, recovery ends in the old or the new state, never in a mixture,
  and never refuses what a crash can leave;
* checks and status: damage is reported only where there is damage, and "ready to
  copy" only when it is true.

## 2. Modules

| Module | What it is |
|---|---|
| `Publication`, `ReaderContract`, `PublicationProofs` | one target of one repository; what a client is promised; theorems, and that the first implements the second |
| `DistLifecycle`, `DistContract`, `DistProofs` | dist commands with journal and recovery; what they promise; theorems |
| `MutationBuild`, `MutationContract`, `MutationProofs` | add, rm and build with journal, recovery and power loss; what a mutation promises; theorems, also about `RepositoryCheck` and `RepositoryStatus` |
| `RepositoryCheck` | extends `MutationBuild` with the commands that look at what it leaves |
| `RepositoryStatus` | extends `RepositoryCheck` with `status`, which runs concurrently with everything |
| `WorkspaceLifecycle`, `WorkspaceProofs` | processes that create, remove and use repositories, and their locks; theorems |
| `LocalGC`, `LocalGCProofs` | local gc and retained generations, beside builds and publications as far as they make roots; theorems |
| `Migration`, `MigrationContract`, `MigrationProofs` | the layout migration; what readers are promised meanwhile; theorems |
| `PlainCreate`, `PlainProofs` | plain mode; theorems |
| `ObjectTransport`, `TransportProofs` | an R2 publication on the wire, and the public cache; theorems |
| `MC*` | instances for TLC |

### 2.1 Publication: state and code

| Variable | Code |
|---|---|
| `generations` | `built_generations` with their manifests; the last one is the built tree |
| `remote`, `stages` | the files below the target prefix, and paths with a `.sow-publish-*` stage beside them |
| `attempt` | the write-active row of `publication_attempts` with its view rows |
| `checkpoints` | applied checkpoints: generation, inventory, views, times, maintenance phase, report and receipts |
| `abandoned` | evidence objects of abandoned attempts |
| `ttl`, `clock` | the bound `max_cache_ttl`, the repository clock |
| `pc`, `baseline`, `listed`, `started`, `todo`, `item` | locals of the running `Publish` or target gc; lost by `Stop` |

Files have one of four classes that the code derives from the path: payload
(`pool/`), checksum-addressed metadata (by-hash, `repodata/<sha>-`), stable APT
aliases, and pointers. `Closure` says which files the bytes of a pointer name.
`Catalogue` is the set of trees a build may render.

`Publish` is one action per durable effect, in the order of the code: new or
resumed attempt, payload writes, metadata writes, prepared pointers and views,
commit intent, alias writes, pointer writes with their recorded views,
listing, verification, checkpoint, grace record. Target gc likewise: entry,
skip, candidate report, conditional deletion, receipt, terminal report,
completion. `Stop` ends the running command anywhere (crash, cancellation, or a
check of the code that fails: a failed check is a guard that does not hold, and
then `Stop` is all the process can do).

Decisions that shape the model:

* One process. The workspace and repository locks serialise commands of a
  repository, so interleaving is that of commands cut short and started again,
  of the clock, and of clients.
* An object's identity is its bytes: true of the digest on the filesystem, and of
  the ETag on R2 as long as SOW is the only writer, which the exact inventory
  check of each publish demands. The public endpoint answers what storage has.
* Abandon and the start of an attempt are atomic: their effects outside one
  database transaction are idempotent removals of stage files.
* The commit-intent flag is part of `attempt.phase`; the attempt's row after
  its checkpoint is part of the checkpoint's `phase`.
* A build stands for any command that makes a generation. It rebuilds at least one
  dist; pool payloads are carried until local gc drops them, the metadata of other dists is
  kept, and a rebuilt dist keeps the metadata its previous pointer names for
  one more build (`Carried`). Pointer files contain their publication
  time, so their bytes never come back.
* Left out: the reconciliation of a plan made by an earlier binary, paths that
  differ in case only, the recovery of dist operations inside `Publish`.

### 2.2 ReaderContract

One variable, the store. Its steps: a file is added or changed only so that
every pointer stays closed; a payload or metadata file is never overwritten;
a file is removed only when no pointer at the target names it.
`ReaderContractKept` checks, and `ReaderContractHolds` proves, that every step
of `Publication` is such a step or leaves the store alone.

### 2.3 DistLifecycle: state and code

| Variable | Code |
|---|---|
| `config` | the dists of the repository in `sow.yml`; the configuration digests of a journal are such sets |
| `dists` | dist rows of the database |
| `live` | the trees under `<repo>/dists` |
| `generations` | manifests of the generations, dist by dist |
| `ops` | the operation ledger; an operation's id is its place in it |
| `stage`, `recovery` | `.sow/<repo>/stage/<id>` with the signer snapshot and the rendered tree, `.sow/<repo>/recovery/<id>` |
| `memberships`, `objects`, `pooled`, `pending` | package rows and the files in `.sow/<repo>/pending` |
| `pc` | where the running command is |

A command runs `recoverDistOperations` (`TakeUp`, then undo or redo),
`recoverDoneDistCleanup` (`TidyStage`, `RemoveDroppedPending`,
`CleanupDistRecovery`), the check of configuration and public tree (`Check`), and
then one operation. `executeDistAdd` and `executeDistRemove` are one action per
durable effect: the planned row, the stage directory, the signer snapshot, the
tree, its digest in the payload, the staged state, `sow.yml`, the applied
state, the rename, the built state, the final transaction, the cleanup. Recovery
that rolls forward takes the same actions with `pc = "redo"`.

* A rendered tree is known by the operation that rendered it: the publication time
  in its metadata makes its digest unique.
* A stage directory is removed part by part in any order, the directory last, as
  `removeOwnedDirectory` does; a signed dist has a signer snapshot in it that
  `validateDistPayloadForRecovery` needs.
* Two ways to end early: `Fail` is an error before anything was decided, after
  which `finalizePreApplyDistOperation` cleans up and records the failure; `Stop`
  is a crash, or any error that leaves the journal to recovery.
* `sow.yml` is edited by hand between commands, for dists without a row. With an
  operation pending such an edit makes recovery refuse the conflicting evidence
  until it is undone, by design, so the model leaves it out.
* Adding and building packages are single steps here: they exist so that
  removal meets shared, pending and pooled payloads and changing trees.
* Left out: forced removal of a damaged tree, payloads of version 1, the
  bootstrap of a legacy generation, file modes, and the refusal to withdraw a
  published pointer (part of `Publication`).

### 2.4 DistContract

Two variables: the dists decided and the dists clients see. `Decide` adds or
removes one when the two agree, `Realise` makes them agree again. `Intended` maps
the journal to the first: the rows, corrected by a pending operation that is
decided, i.e. applied, or staged with its configuration already written. A step
of recovery that undid a decided operation would be no step of the contract.

### 2.5 MutationBuild: state and code

| Variable | Code |
|---|---|
| `config` | `sow.yml`, one policy per dist |
| `memberships`, `revision`, `built`, `objects`, `generations` | Desired and Built memberships, the Desired revision, package rows with their storage, generations |
| `pending`, `pool`, `live` | `.sow/<repo>/pending`, the public pool, the public dist trees |
| `unsynced` | updates of the first two directories that no fsync has covered |
| `ops` | the operation ledger with payload, manifest and frozen plan |
| `stage`, `staged`, `trees` | `stage/<id>`: the directory and its manifests, copied inputs, rendered trees |
| `pc` | where the running command or its recovery is |

One action per durable effect, in the order of the code: journal row, staged inputs,
manifest and its binding, installation into the pending store (`LinkPendingObject`
and `InstallPendingObject` are the two halves of `renameRootedRegular`), the
Desired transaction, dropped bytes, rendering, the frozen plan, links, their barrier,
unlinks, exchanges, `FinalizeBuild`, cleanup. Recovery re-enters the same actions
(`TakeUp`, `Admit`), rolls back what was never staged (`TakeUpPlanned`) or
closes what can no longer be built (`Unbuildable`). `Fail` is an error before Desired
was applied, `Stop` a kill or any other error, `PowerLoss` a machine that stops and
loses any of the updates in `unsynced`. `EditConfig` changes `sow.yml` at any time.

* A tree is known by the operation that rendered it and the tree whose index files it
  retains; packages are versions of one name, numbered in version order, so that the
  policy "latest" means something.
* `Forgotten` clears the payload of an operation that is closed and whose directory is gone:
  no command reads it again, and the ledger's history would only multiply states.
* A command has one input. Left out: journals of prior versions, conflicts of pool
  paths and coordinates, details of signing keys, file modes, `log.prune`.

`MutationContract` has three variables (decided, shown, owed): a decision is taken only
when nothing is owed, a build commits to dists, each is shown in one step as decided.

### 2.6 RepositoryCheck and RepositoryStatus

`RepositoryCheck` has no actions: its operators are what `check` (layer by layer),
`changes`, `rm --check`, `dist show` and `repo show` answer in a state in which no command
runs. `CheckHonest` leaves two things out by name: a policy that was tightened after
the last build, which `check` reports as an error by design, and `UndoInterrupted`
(5.2). `RepositoryStatus` adds one variable, the observation under way, and one action
per transaction of `status`; everything else goes on between them. It assumes that
`sow.yml` is not changed and changed back within one observation.

### 2.7 WorkspaceLifecycle

State: `.sow` and its control entries, `sow.yml`, the workspace journal, the six parts
of each repository with the operation that made them, moved parts, and per process the
locks held (by inode) and where it is. Processes run `init`, `repo new`, `repo rm` or
work inside a repository. The rename of `sow.yml` decides an operation: recovery
compares it with the two configurations of the journal (`Undecided`, `Decided`).
Assumed: `sow.yml` is edited, and foreign directories appear, only while no process
holds the workspace lock exclusively and no journal is open; the code does not notice
an edit in that window (5.2).

### 2.8 LocalGC

State: package rows, memberships, generations with their payloads, the pool, the gc
operation with its plan file (absent, torn, whole) and quarantine, retained copies
entry by entry, tombs, the generations a publication needs. gc is one action per
effect: journal row, recovery directory, plan file, staged, link into the quarantine
and removal from the public tree (the two halves of the rename), applied, finalisation,
deletion of the quarantine. Builds and publications are single steps: they exist to
add and drop roots. `late` remembers generations that were retained while a gc was
pending (5.2).

### 2.9 Migration

State: the ledger's layout, generation, control row and receipt; the transition
journal; the metadata each view serves and the stage holds; the aliases; the clock. One
action per phase change or effect; `Bound` is `validateTransitionBinding` in five parts,
and every turn of the loop and every command requires it. `Abandonable` is
`validateMigrationAbandon`. The clock is read once per command. `MigrationContract`: no
view changes before one plan is committed, each then changes once, aliases go after the
committed deadline, nothing is taken back. Left out: a journal that says done while
the ledger is not committed, operations of v0.2 that are pending at the start, a clock
that goes backwards.

### 2.10 PlainCreate

State: the packages (absent, unsigned, signed), the pointer with the packages it
describes, the index files, the retention list, the DEB indexes, the marker. A run
scans, renders, and then moves one file per action, in the order of the code. Users
change packages, the marker and the retention list between runs. Left out: `--overwrite`,
packages with equal coordinates, lock contention, symbolic links, power loss.

### 2.11 ObjectTransport

State: the bucket, multipart uploads, write requests under way, cached copies, and the
command with its listing, its pool of HEAD workers and its public verification. A
request can be carried out, lost, carried out with its answer lost, carried out after its
sender gave up or died, and carried out twice. `Applies` is the bucket's side of a
condition. Time is counted in ticks; deadlines and cached copies count down. Left out:
response size limits, redirects, credentials, TLS and request signing, and the check
that a deleted object is absent, which shares the loop of `verify`.

## 3. Runs

| Run | Instance | Properties | Distinct states |
|---|---|---|---|
| `publish` | an RPM and a DEB dist, three catalogue versions | `PublicationSafe` (`ReaderClosure`, `HeadServed`, `RollForwardSource`), `ResumeAdmitted`, `RollForwardPossible` | 322 thousand |
| `maintenance` | one DEB dist, two packages, one by-hash index, four generations, TTL raised | `CandidatesUnserved`, `NothingUntracked`, `ReaderContractKept`, `GraceHonoured` | 1.2 million |
| `r2` | the same on R2, where files are reported and never deleted | `LiveInventoryExact` | 127 thousand |
| `liveness` | one dist whose index disappears, three generations, fairness | `AttemptEnds`, `GraceEnds` | 68 thousand |
| `dist_lifecycle` | two dists, one signed, one package, two operations, fairness | `DistSafe` (`Settled`, `PendingOwned`), `BuiltTreesKept`, `DecidedRecoverable`, `ContractKept`, `DistEnds` (`DecidedEnds`, `LeftoversRemoved`) | 49 thousand |
| `mutation` | two dists, two versions, one editable policy, two operations | `MutationSafe` (`ReaderClosure`, `PayloadOwned`, `Settled`), `RecoveryAdmitted`, `ReportsHonest` (`CheckHonest`, `ShownClean`), `ContractKept`, `PreviewExact` | 772 thousand |
| `status` | two dists, one package, one operation, `status` beside it, fairness | `StatusTrue`, `AppliedEnds` | 596 thousand |
| `workspace` | two processes, one repository, three journaled operations, fairness | `WorkspaceSafe` (`AllOrNothing`, `LockNeverLost`, `JournalRecoverable`), `WorkersExclusive`, `ClearedMeansDone`, `JournalEnds` | 243 thousand |
| `local_gc` | two payloads, three generations, one interruption, fairness | `GCSafe` (`RootsServed`, `LastCopyKept`, `TreeIsGeneration`), `Replayable` (`ReplayAdmitted`, `RemovalReplayable`), `Collected` | 719 thousand |
| `migration` | two views, two aliases, two grace periods, three interruptions, two aborts, fairness | `MigrationSafe` (`ResumeAdmitted`), `ContractKept`, `MigrationEnds` (`CommittedEnds`, `Converges`) | 61 thousand |
| `plain` | two RPMs (one dropped by `--pigsty`), a DEB, two index files, two edits, one stop, fairness | `PlainSafe` (`IndexesServed`, `MarkerTrue`), `PrunedUnindexed`, `Converges` | 665 thousand |
| `transport` | five keys in pages of three, two workers, one new object in parts and one replaced, one fault, one kill, one foreign write, fairness | `TransportSafe` (`PoolSound`, `UploadsClosed`), `NeverClobbers`, `InventoryExact`, `StaleRefused`, `Converges` | 904 thousand |

All pass. The names in parentheses are the parts of a conjunction, which has the module's
`TypeOK` as its first part. What each property says stands as a comment before it. In the runs of
`Publication` deadlock checking is off: the bounds on generations and on the clock make a
finished instance stop, and a repository in which nobody gives a command is a legal
final state. In the others it is on.

Every property of the table has a mutant in `PROJECT.json`: a definition of the model changed
the way a plausible mistake in the code would change it, for which TLC finds the property
violated.

### 3.1 Bounds

* Publication: four generations are the fewest in which a file is published, left out,
  its deletion reported while another checkpoint is still in grace, and a new
  attempt interrupted in between; two packages are the fewest in which one leaves while
  another stays. Grace constants are shrunk to one or two ticks, which keeps every order
  of events: before the floor, between floor and TTL-derived deadline, after both.
* Dist lifecycle: `MaxOps` bounds the ledger only; an interrupted operation is recovered as
  often as one likes. Two operations reach a removal after a creation, and leftovers of
  a closed operation beside an open one. Three, in which two dists come to hold the
  same package and one is removed, are covered by the proofs of section 4, which
  have no bound.
* Mutation: two operations on two dists reach a payload that is pending for one dist and
  wanted by another, a dist that is dirty beside one that is being built, and an open
  operation whose policy was edited away and back. The number of kills, recoveries,
  power losses and edits has no bound. The run also passes with both policies editable
  (5.2 million states), which takes longer than a routine run should. `status` has one operation, since it doubles
  every state by the reads of an observation.
* Workspace: three journaled operations are creation, removal and creation again under the
  same name, with a second process between opening a lock file and locking it.
* Local gc: two payloads tell one that goes from one that stays; three generations are
  before, with and after. One interruption suffices for every cut, since recovery
  starts from the state and not from the history; retained generations are one at a time.
* Migration: two views and two aliases make mixtures; three interruptions reach a
  commit, a roll-forward and a completion cut in one history.
* Plain: two edits make a third set of packages, so that the retention list overflows.
* Transport: three objects in a page with two workers make workers wait for work and results
  arrive out of order; the fifth key is on the second page. The run also passes with two
  faults (`MaxFaults = 2`), which takes longer than a routine run should.

### 3.2 Fairness

Weak fairness of the next step of a running command: it holds its locks, and nothing else
takes them away. Weak (in `PlainCreate` and `LocalGC` strong) fairness of commands being
given: the operator repeats a command that failed or was cut short, since nothing runs by
itself; strong where another command may be running at any moment the operator looks.
Weak fairness of the clock. `Undisturbed`, or a bound on interruptions, says that commands are
not interrupted for ever. Nothing is assumed about users, who may stop editing or not, except
where a property says so (`AppliedEnds`, `Migration!Converges`).

## 4. Proofs

Each `*Proofs` module extends the module it is about and has one inductive invariant, a
conjunction of named parts (`PublicationInv`, `DistInv`, `MutationInv`, `WorkspaceInv`, `GCInv`,
`MigrationInv`, `PlainInv`, `TransportInv`); the theorem `Invariance` (`DistInvariance`) says that
it always holds. One lemma per action shows that the action preserves it; the properties follow from
the invariant alone, and an action property from the invariant and one case per action.
Every inductive invariant was first checked by TLC on the instance of the run. None of the safety properties
is inductive alone; what each invariant adds, and why it must, is said below. The theorems hold for
every set of dists, packages, keys or processes and every bound, so what a run
cuts off (a third operation, a second fault, another stop) is covered by them.

### 4.1 Publication

`PublicationProofs` proves, for every value of the constants that satisfies
`ConstantsAssumption` and `CatalogueAssumption`: `TypeCorrect`, `Invariance`,
`ReaderClosureHolds`, `HeadServedHolds`, `RollForwardSourceHolds`,
`PublicationSafeHolds` (those three and `TypeCorrect`), `CandidatesUnservedHolds`,
`HistoryImmutableHolds`, `ReaderContractHolds`, `Tracking`, `ResumeAdmittedHolds`,
`NothingUntrackedHolds`, and under a hypothesis each `LiveInventoryExactHolds`,
`GraceHonouredHolds` and `RollForwardPossibleHolds`. `HistoryImmutable` needs no run
beside its proof; every other property stated here is checked by one too.
The assumptions say that the path classes are disjoint, that a pointer names only
pool and checksum-addressed files, that a rendered tree is closed, and that a
checksum-addressed path determines its bytes.

None of the safety invariants is inductive alone. `PublicationInv` adds

* `GenerationsSound`: every generation is closed, and metadata bytes are
  determined by path across generations (so writing a new generation's metadata
  never changes what an old pointer names);
* `CommandSound`: where the running command is determines which phase the
  attempt has and what is already in place;
* `AttemptSound`: base, head and generation of the attempt belong together, its
  plan was accepted, and no report is pending while it is active;
* `ReportsSound`: a pending report's candidates avoid the head and everything
  in grace;
* `ClaimsInPlace`: what the recorded phase claims to be written is at the target;
* `HeadInPlace`: the head generation is at the target, except for aliases and
  pointers the active attempt has rolled forward.

From these a pointer at the target is always the head's or the attempt's; each
of the two generations is closed, and its immutable files are in place: that is
`ReaderClosure`. Each action has its own preservation lemma.

`TrackInv` is a second invariant on top of the first, about the files that no manifest need
name. `EvidenceSound` says that evidence of an abandoned attempt is of immutable files of its
generation, whose bytes no later build changes (`PoolPathsFree` looks at evidence for that);
`ResumeSound`, that an attempt's base or target accounts for every file, and no file of
the base is missing; `ListedSound` and `AppliedExact`, that the inventory that becomes the
checkpoint is still what is there when it is written and until its grace record is;
`R2Exact`, that without deletions the live inventory and known orphans are all there is.
`ResumeAdmitted` and `NothingUntracked` follow for both providers, and `LiveInventoryExact`
for `Provider = "r2"`: on a filesystem it fails (5.2).

`GraceInv` is a third: checkpoints and their recorded deadlines are in the order of time
(`TimesInOrder`), they leave grace in that order (`GraceInOrder`) because a gc run takes up the
oldest one that is due (`RunInOrder`), and so everything published since a reported
checkpoint was still in grace, or the head, when its candidates were computed
(`CandidatesDropped`). A file that gc deletes was therefore dropped by the reported checkpoint or
before it, and the deadline of that checkpoint is over. The hypothesis of
`GraceHonouredHolds`, `TTLNeverLowered`, is about the operator and not about the code, which
lets max_cache_ttl be lowered; without it `GraceHonoured` fails (5.2).

`RollForwardPossibleHolds` has the hypothesis that `ArchitecturesStay` always: a dist may be removed
and come back, but not with fewer architectures than a generation before had. `build` and the
other commands see to that for a dist that stays (`ArchitecturesKept`), not for one that is
removed and created again, and then the property fails (5.2). Under it an alias at the target is
the head's or the running attempt's (`AliasesKnown`), and for any other path `ClaimsInPlace` and
`HeadInPlace` say that it is as the plan expects. Both hypotheses hold in the instances of
the runs, so neither theorem is empty.

### 4.2 Dist lifecycle

`DistProofs` proves, for all sets of dists and packages and every bound:
`DistInvariance`, `DistTypeCorrect`, `SettledHolds`, `BuiltTreesKeptHolds`,
`DecidedRecoverableHolds`, `PendingOwnedHolds`, `DistSafeHolds` (types, `Settled`,
`PendingOwned`) and `DistContractHolds`. The only assumption, `DistAssumption`, gives the constants their types. `DistInv` adds
to the properties

* `JournalSound`: only the last operation is pending; its record fits the rows, the
  generation and, by its state, the old or the new configuration;
* `PlaceSound`: the rows are those of the last generation, and only the pending
  operation's dist may differ from it, once applied;
* `CommandSound`: undo and failure run only for an operation that is not decided,
  redo only for one that is;
* `StageSound`: the tree and the signer snapshot of a `dist.new` stay staged until
  the tree is in place. It is here that `dist.init` is different, and that
  `JournalReplayable` fails (5.2);
* `PackagesSound`: `PendingOwned`, payloads pending or pooled but not both, and no
  leftovers when new work starts (without which a second removal could forget
  the first one's bytes).

For the contract, `WriteConfig` is the decision of a new or rm and `SetApplied`
that of an initialisation, the two renames realise it, and all other steps are
shown to be silent.

### 4.3 Mutation builds and checks

`MutationProofs`: `MutationSafeHolds`, `RecoveryAdmittedHolds`, `MutationContractHolds`,
`PreviewExactHolds`, `AgedHolds`, `ReportsHonestHolds` and, of `RepositoryStatus`, `StatusTrueHolds`. `MutationAssumption` says that packages are numbers
and only dists are editable. `MutationInv` adds to the types

* `PrivateSound`: only the last operation of the ledger has a directory;
* `RowsSound`: members have rows, pending rows have members and bytes, pooled rows
  are those of the last generation;
* `JournalSound`: which combinations of state, manifest and decision a row shows; before Desired
  is applied the new objects have bytes and no row (`Unapplied`), afterwards
  the memberships are those of the manifest (`Applied`);
* `PublicSound`: without a frozen plan the public tree is that of the last generation and everything
  is on disk; with one, each dist is the old tree with the new one in private, or the
  reverse (`Plan`), and the first exchange has had the barrier before it. This is what makes a power loss harmless:
  `unsynced` never holds an update that an index already shown depends on;
* `TracesSound`: pending bytes without a row belong to the last operation, which is still to drop
  them. Without it a later `add` could meet bytes nobody owns;
* `CommandSound`: what the running step may count on, the same whether it is reached by a command or by recovery.

For the contract, freezing a plan is `Commit`, the exchange of a dist is `Show`, the Desired
transaction is `Decide`, and all else is silent. `AgedHolds` (a tree of the last generation was never rendered by
an open operation) is the lemma by which `check` tells interrupted work from damage.

`status` reads without a lock, so no state of its own is stable. `StatusInv` says what it may rely on all the same:
as long as revision and generation are those of its summary (`Unmoved`), every dist is built as it is desired, since
`Counted` shows that memberships cannot change without a new revision, nor builds without a new generation; the
dists it has compared were built under the policies it read; and after its look at the open operations each open one
was begun under those policies (`NextBound`: an open row is never bound anew). Such an operation has nothing to
build, so its plan is never frozen (`NothingToBuild`) and the public tree is the last generation. The second reading
of the summary is what makes `Unmoved` known, and the last look at `sow.yml` (one edit at most, 2.6) that
nobody edited it. The repository lock, which status also probes, is not needed for `StatusTrue`: it only makes status
hold back its answer while a writer runs.

### 4.4 Workspace lifecycle

`WorkspaceProofs`, for any number of processes: `WorkspaceSafeHolds`, `WorkersExclusiveHolds` and
`ClearedMeansDoneHolds`. `NoneAssumption` says that the value for "no repository" is none. `WorkspaceInv` adds

* `Exclusion`: the exclusive lock excludes every other, and no two processes hold the same lock file,
  by its inode. Names may come to stand for another inode at any time, so the property that matters
  (`WorkersExclusive`) needs `LockNeverLost` with it;
* `FilesSound` and `JournalSound`: without a journal each repository is whole or not there; with one,
  its kind and whether `sow.yml` has decided it tell which parts are there;
* `Sound`, for each process: the locks its step implies (`Locked`), its arguments (`Placed`),
  what a worker counts on (`Working`) and what one that carries out a journal has done (`Carrying`).

Since only the holder of the exclusive lock changes journal or `sow.yml`, a step of one process keeps
`Sound` of the others; the proofs say so once for each kind of step.

### 4.5 Local gc

`LocalGCProofs`: `GCSafeHolds` and `ReplayableHolds`. `GCInv` adds to the types and `RemovalReplayable`: the
quarantine follows the operation's state (`QuarantineSound`); while a gc is pending the ledger
still has the generation it started from, and what the pool lacks is in quarantine
(`TreeSound`); what a publication or a retained generation needs is not among the
entries (`RootsKept`, which excepts the generations in `late`, 5.2).

### 4.6 Migration

`MigrationProofs`: `MigrationSafeHolds` and `MigrationContractHolds`. `MigrationAssumption` wants a grace of at least one tick
and a clock that can run; `NoneAssumption` that "none" is no record. `MigrationInv` divides by the
commit: before it nothing public has changed and an abort is admitted (`Untouched`); after it the
journal is bound until it is cleared, or an ordinary build has moved the generation on (`Decided`,
5.2). `DeadlineKept` is the reason why the contract's step that deletes aliases is admitted.

### 4.7 Plain mode

`PlainProofs`: `PlainSafeHolds` and `PrunedUnindexedHolds`. `PlainAssumption`: RPMs and DEBs are different packages, and
there is at least one index file. Without a journal all rests on the order of the steps: `PlanSound`
and `SwitchSound` say for each step of a run what is in place already and what it may still remove, and `WindowListed`
that the retention list names the pointer before the current one wherever a run stopped.

### 4.8 Transport

`TransportProofs`: `TransportSafeHolds`, `NeverClobbersHolds`, `InventoryExactHolds` and `StaleRefusedHolds`, from
`TransportAssumption` (keys are positive numbers in the order of the listing, finitely many; the limits are
numbers). `TransportInv` adds

* `NetSound`: every request under way, from whichever command, carries the condition the plan gives for its key.
  From it `NeverClobbers` follows, since the bucket applies a request only if its condition holds then;
* `UploadSound`: an upload that is open is the one the command still works on;
* `PoolOrdered`: jobs whose results are not taken are consecutive and no more than there are slots,
  so that two of them never share a slot (`SlotsDistinct`, by arithmetic modulo the size of the pool);
* `ObjectsOrdered` and `ListSound`: what is listed so far is in order, ends at the token, and is what storage has
  up to the writes meanwhile. That a page holds every object between two tokens (`PageHolds`)
  is an induction over positions; it is proved by taking a least counterexample (`LeastElement`),
  since an induction theorem with an operator as its parameter cannot be used;
* `DoneServed` and `VerifySound`: an old cached copy runs out before the deadline for it.

### 4.9 Only model-checked

Liveness of every module, which the prover does not reach. Every other property that a run lists is stated
by a theorem.

## 5. Limits

### 5.1 Not modelled

Parsing and rendering of RPM and APT files, configuration syntax, signing of metadata and
packages, and the command line: pure functions, or single calls without state that outlives
them. Schema migrations of the database and the pruning of its log. What each module leaves
out of its component is listed with the module above.

### 5.2 Where comments, documents and code differ

The models follow the code. Definitions named here state what a comment or document says;
TLC refutes them, and no run lists them, or the property that a run does list leaves the case
out by name.

* `LiveInventoryExact` on a filesystem target: a file that target gc deleted and a later
  attempt wrote again with the same bytes is missing from `PublicationLiveInventory`
  (`state/publication_read.go:591`; the comment at 588 says "the exact objects that still
  exist"), and the next publish or gc stops with an integrity error.
* `GraceHonoured` when max_cache_ttl was lowered, which `--rebind` allows while no report is pending
  (`state/publication.go:412`). A checkpoint recorded under the longer TTL is then due after newer
  ones are done. Its report protects the head and what is still in grace
  (`state/publication.go:1567`), so a file that a newer, finished generation had brought back, and
  the head has just dropped, is deleted without any grace; `state/publication_read.go:504`
  calls the candidates "the target-wide safe difference". TLC finds it with `InitialTTL = 2`,
  `Rebinds = {<<2, 0>>}` and six versions of which the first and the fourth share an index.
* `OrphansNeverDeleted`: evidence of an abandoned attempt joins the next checkpoint's inventory
  (`state/publication.go:1659`) and can become a deletion candidate there; `managed/doc.go:16`
  says gc "never treats abandoned evidence as a deletion candidate", `CHANGELOG.md:181` likewise.
* `ReportResumable`: publish says "resume with gc" (`managed/publication.go:119`). After the TTL
  was lowered and raised, gc meets an unreported checkpoint before a half-done report, and
  its exact check fails on the files that report has deleted.
* `NoPublishedPointerWithdrawn`: `rejectPublishedPointerWithdrawal`
  (`managed/publication.go:585`) looks only at the pointers the last attempt changed, so a dist
  published earlier can be removed; the comment at 583 says "every pointer".
* `RollForwardPossible` fails with a catalogue in which a dist disappears and comes back: a stable
  alias it left makes the create-only write of a later attempt fail after commit intent
  (`managed/publication_filesystem.go:356`), when abandoning is refused too
  (`managed/publication.go:428`; `managed/doc.go:13`, "After commit intent it is forward-only").
* `DistLifecycle!JournalReplayable`: the failure cleanup (`managed/dist.go:1045`) and the rollback
  (1147) of a dist operation remove its stage before its terminal state is recorded. For a
  signed dist whose tree digest is in the journal, a stop in between leaves an operation
  that every later command refuses (`managed/doc.go:6` says operations are replayable,
  `state/state.go:2275` that the terminal row comes first). With `Signed = {}` a staged
  `dist.init` is rolled forward without its tree. `DecidedEnds` speaks of new and rm only.
* `UndoInterrupted`: while the rollback of an operation that was never staged is cut short after its
  manifest is gone (`managed/ingest.go:1264`), `check` reports an integrity error; the next
  writing command heals it.
* `LocalGC!RetainedServed`: `retain add` runs no recovery (`managed/retained.go:368`). A generation
  retained after a gc was killed between its plan and its first move loses payloads when that
  gc is rolled forward.
* `LocalGC!Stuck`: a plan file torn by a stop between its creation and its write
  (`managed/path.go:325`, `managed/gc.go:465`), and a generation retained again while its removal
  was unfinished (`managed/retained.go:940`), are refused by every later command.
* `Migration!RepairPossible`: after a stop between the ledger's last transaction and the end of the
  journal, an ordinary build moves the generation on, and the binding then refuses the
  journal for ever (`managed/migrate.go:898`; the comment at 327 says the next run can advance
  it). The path that finds a terminal journal at the start also leaves `stage/c2-to-single-v1`
  behind (`managed/migrate.go:148`), which local gc refuses (`managed/gc.go:672`), and the
  deadline counts from the start of the command that commits (`managed/migrate.go:428`).
* Plain mode: with no package left, the pointer and its files are unlinked with one sync at the
  end (`plain/publish.go:286`), so a power loss can leave the pointer without its files; a
  package replaced by its user between verification and the rename of its signed copy is lost
  (`plain/publish.go:225`). Neither is in the model.
* Transport: a lost answer to CreateMultipartUpload leaves an upload nobody can name
  (`r2/client.go:273`); verification gives up right after its deadline without another read, and
  the window for transient errors counts from the start of the object's verification
  (`managed/publication_http.go:74`). `StaleRefused` and `UploadsClosed` say exactly what is left.
* `sow.yml` edited while a lifecycle command holds the workspace lock is overwritten without
  notice (`managed/repository.go:296`), and restored by hand after a killed `repo rm` it makes
  recovery take the removal for undecided (`managed/journal.go:210`).

## 6. Plan

1. A contract of local gc, as for the dists, mutations, the migration and publication: what a collection
   promises to whoever holds a root, refined by `LocalGC`, with its theorem in `LocalGCProofs`.
2. The same for plain mode: a client sees one pool after the other, each closed, refined by `PlainCreate`.
