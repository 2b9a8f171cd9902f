---------------------------- MODULE Publication ----------------------------
(***************************************************************************)
(* One publication target of one repository: `sow publish`, its abandon    *)
(* command and `sow gc <target>`, together with the SQLite records that    *)
(* make them restartable.  Commands of one repository are serialised by    *)
(* the workspace and repository file locks, so a single process runs at a  *)
(* time; it may stop (crash, cancellation, failed check) between any two   *)
(* steps, and then only the target's files and the records survive.        *)
(*                                                                         *)
(* A file's bytes are a Content; a manifest, an inventory and the target   *)
(* itself are functions from Path to the bytes there, None where there is  *)
(* no file.  The phase of a file (payload, checksum-addressed metadata,    *)
(* stable APT alias, commit pointer) is determined by its path.            *)
(***************************************************************************)
EXTENDS Naturals, Sequences, FiniteSets

CONSTANTS Payload,        \* pool/... paths
          Metadata,       \* checksum-addressed paths: by-hash, repodata/<sha>-...
          Alias,          \* stable APT names: dists/<dist>/.../Packages.gz
          Pointer,        \* repomd.xml(.asc), Release, Release.gpg, InRelease
          Content,        \* file bytes
          None,           \* no file
          DistOf,         \* the dist of a metadata file, an alias or a pointer
          ViewOf,         \* the commit unit of a pointer
          Order,          \* the order in which a plan lists its paths
          Closure,        \* Closure[p][c]: the files that pointer bytes c at p name
          Catalogue,      \* what local builds may produce for the dists
          Provider,       \* "filesystem" or "r2"
          InitialTTL,     \* the target's max_cache_ttl when first bound
          Rebinds,        \* the changes <<old, new>> of max_cache_ttl an operator makes
          GraceFloor,     \* thirty days
          GracePadding,   \* twenty-four hours
          MaxGeneration,  \* bound on local generations
          MaxTime         \* bound on the clock

Path == Payload \union Metadata \union Alias \union Pointer

Immutable == Payload \union Metadata

Object == Content \union {None}

Tree == [Path -> Object]

EmptyTree == [q \in Path |-> None]

\* The set of <<path, bytes>> pairs of a tree.
Files(t) == {<<q, t[q]>> : q \in {r \in Path : t[r] # None}}

\* Every pointer of a tree names only files the tree has, with those bytes.
Closed(t) ==
  \A p \in Pointer : t[p] # None =>
    \A f \in Closure[p][t[p]] : t[f[1]] = f[2]

ASSUME ConstantsAssumption ==
  /\ None \notin Content
  /\ Payload \intersect (Metadata \union Alias \union Pointer) = {}
  /\ Metadata \intersect (Alias \union Pointer) = {}
  /\ Alias \intersect Pointer = {}
  /\ Order \in [Path -> Nat]
  /\ Provider \in {"filesystem", "r2"}
  /\ GraceFloor \in Nat /\ GracePadding \in Nat
  /\ InitialTTL \in Nat /\ Rebinds \subseteq Nat \X Nat
  /\ MaxGeneration \in Nat /\ MaxTime \in Nat

\* A pointer names pool files and checksum-addressed metadata; a build always
\* writes them with it, and a checksum-addressed path determines its bytes.
ASSUME CatalogueAssumption ==
  /\ Catalogue \subseteq Tree
  /\ Closure \in [Pointer -> [Content -> SUBSET (Immutable \X Content)]]
  /\ \A m \in Catalogue : Closed(m)
  /\ \A m1, m2 \in Catalogue : \A q \in Metadata :
       m1[q] # None /\ m2[q] # None => m1[q] = m2[q]

VARIABLES generations,  \* the manifests of local generations; the last is Built
          remote,       \* the files at the target
          stages,       \* paths with an adjacent .sow-publish-* stage file
          attempt,      \* the write-active publication attempt
          checkpoints,  \* applied checkpoints with their maintenance records
          abandoned,    \* evidence of abandoned attempts
          ttl,          \* the bound max_cache_ttl
          clock,        \* the repository clock
          pc,           \* where the running command is; "idle" when none runs
          baseline,     \* the running publish's base inventory
          listed,       \* the running publish's final inventory
          started,      \* the time the running gc read at its start
          todo,         \* checkpoints the running gc still has to look at
          item          \* the checkpoint the running gc is deleting for

records == <<attempt, checkpoints, abandoned, ttl>>
process == <<pc, baseline, listed, started, todo, item>>
vars == <<generations, remote, stages, records, clock, process>>

-----------------------------------------------------------------------------
(* Records *)

AttemptPhase ==
  {"none", "planned", "payload", "immutable_metadata", "pointer_prepared",
   "commit_intent", "pointer_rollforward", "verified", "applied"}

PhaseRank ==
  [none |-> 0, planned |-> 1, payload |-> 2, immutable_metadata |-> 3,
   pointer_prepared |-> 4, commit_intent |-> 5, pointer_rollforward |-> 6,
   verified |-> 7, applied |-> 8]

ViewState == {"none", "pending", "prepared", "applied", "verified"}

ViewRank == [none |-> 0, pending |-> 0, prepared |-> 1, applied |-> 2, verified |-> 3]

NoAttempt ==
  [phase |-> "none", base |-> 0, generation |-> 0,
   views |-> [p \in Pointer |-> "none"]]

Active == attempt.phase # "none"

PreCommit == attempt.phase \in {"planned", "payload", "immutable_metadata", "pointer_prepared"}

\* Commit intent is durable; the attempt may only roll forward.
Committed == Active /\ ~PreCommit

TargetHead == Len(checkpoints)

Built == IF generations = <<>> THEN EmptyTree ELSE generations[Len(generations)]

\* The manifest and the raw inventory of the k-th checkpoint; 0 is "never published".
ManifestOf(k) == IF k = 0 THEN EmptyTree ELSE generations[checkpoints[k].generation]

InventoryOf(k) == IF k = 0 THEN EmptyTree ELSE checkpoints[k].inventory

HeadManifest == ManifestOf(TargetHead)

BaseManifest == ManifestOf(attempt.base)

TargetManifest == IF attempt.generation = 0 THEN EmptyTree ELSE generations[attempt.generation]

\* Objects with a deletion receipt of a report that reached its terminal phase.
Deleted ==
  UNION {checkpoints[k].receipts :
           k \in {j \in 1 .. TargetHead : checkpoints[j].phase \in {"deletion_verified", "done"}}}

PublicationLiveInventory(k) ==
  [q \in Path |-> IF <<q, InventoryOf(k)[q]>> \in Deleted THEN None ELSE InventoryOf(k)[q]]

AbandonedObjects == UNION {a.objects : a \in abandoned}

AbandonedAgree == \A x, y \in AbandonedObjects : x[1] = y[1] => x = y

\* Mutant: evidence of abandoned attempts is not looked up.
RecognizedNone(base) == base

\* recognizePublicationAbandonedObjects: orphans found at the target join the base.
Recognized(base) ==
  [q \in Path |-> IF base[q] = None /\ <<q, remote[q]>> \in AbandonedObjects
                  THEN remote[q] ELSE base[q]]

PendingReport == \E k \in 1 .. TargetHead : checkpoints[k].reported /\ checkpoints[k].phase # "done"

Larger(a, b) == IF a >= b THEN a ELSE b

GraceMinimum(t) == Larger(GraceFloor, t + GracePadding)

\* Mutant: a longer TTL bound later is ignored.
GraceDeadlineRecorded(k) == checkpoints[k].notBefore

\* The recorded deadline, or the one today's TTL asks for if that is later.
GraceDeadline(k) ==
  Larger(checkpoints[k].notBefore, checkpoints[k].appliedAt + GraceMinimum(ttl))

-----------------------------------------------------------------------------
(* The plan of an attempt *)

\* Paths the plan writes: "add" where the base manifest has none, else "update".
Writes(base, target) == {q \in Path : target[q] # None /\ target[q] # base[q]}

\* buildPublicationPlan: payload bytes never change under a path, a pointer is
\* never withdrawn, and the pointers of a commit unit change together.
PlanAccepted(base, target) ==
  /\ \A q \in Payload : base[q] # None /\ target[q] # None => target[q] = base[q]
  /\ \A p \in Pointer : base[p] # None => target[p] # None
  /\ \A p, r \in Pointer :
       /\ p \in Writes(base, target)
       /\ ViewOf[p] = ViewOf[r]
       /\ target[r] # None
       => r \in Writes(base, target)

PlanWrites == Writes(BaseManifest, TargetManifest)

PlanViews == PlanWrites \intersect Pointer

\* The writes of one class that are not yet in place.
Missing(class) == {q \in PlanWrites \intersect class : remote[q] # TargetManifest[q]}

\* q comes first in the plan's order among S.
FirstIn(q, S) == q \in S /\ \A r \in S : Order[q] <= Order[r]

\* Mutant: every write is create-only.
PutAllowedCreate(q) == remote[q] = None

\* The compare-and-set of a backend's Put.
PutAllowed(q) ==
  IF BaseManifest[q] = None
  THEN remote[q] = None
  ELSE q \notin Payload /\ remote[q] = BaseManifest[q]

-----------------------------------------------------------------------------
(* The local side: builds, dist commands and local gc *)

\* The dists a build renders anew.
Rebuilt(m) == {DistOf[x] : x \in {y \in Alias \union Pointer : m[y] # Built[y]}}

\* Files the new generation keeps although no new pointer names them: the pool,
\* the metadata of the other dists and, so that a client holding a rebuilt
\* dist's previous pointer can finish, the metadata that pointer names.
Carried(m, q) ==
  \/ q \in Payload
  \/ /\ q \in Metadata
     /\ \/ DistOf[q] \notin Rebuilt(m)
        \/ \E p \in Pointer :
             Built[p] # None /\ m[p] # None /\ <<q, Built[q]>> \in Closure[p][Built[p]]

\* Published pointers of a dist the build rewrites must stay, as far as the
\* head checkpoint lists them.
PointersKept(m) ==
  TargetHead # 0 =>
    \A p \in checkpoints[TargetHead].views : DistOf[p] \in Rebuilt(m) => m[p] # None

\* A built architecture cannot be dropped from a dist that stays.
ArchitecturesKept(m) ==
  \A a \in Alias :
    /\ Built[a] # None
    /\ \E p \in Pointer : DistOf[p] = DistOf[a] /\ Built[p] # None /\ m[p] # None
    => m[a] # None

\* A pool path keeps its bytes for as long as any record knows it.
PoolPathsFree(m) ==
  \A q \in Payload : m[q] # None =>
    /\ Built[q] \in {None, m[q]}
    /\ \A k \in 1 .. TargetHead : InventoryOf(k)[q] \in {None, m[q]}
    /\ \A x \in AbandonedObjects : x[1] = q => x[2] = m[q]

\* Pointer files carry their publication time, so their bytes never come back.
PointersFresh(m) ==
  \A p \in Pointer : m[p] # None /\ m[p] # Built[p] =>
    \A i \in 1 .. Len(generations) : generations[i][p] # m[p]

\* Any command that makes a new generation: ingest, rm, build, dist new, dist rm.
Build(m) ==
  /\ pc = "idle"
  /\ ~Active
  /\ Len(generations) < MaxGeneration
  /\ Rebuilt(m) # {}
  /\ PointersKept(m)
  /\ ArchitecturesKept(m)
  /\ PoolPathsFree(m)
  /\ PointersFresh(m)
  /\ generations' = Append(generations,
       [q \in Path |-> IF m[q] = None /\ Carried(m, q) THEN Built[q] ELSE m[q]])
  /\ UNCHANGED <<remote, stages, records, clock, process>>

\* Payloads that publication records keep in the local pool.
PublicationRoots ==
  {q \in Payload :
     \/ TargetManifest[q] # None
     \/ \E k \in 1 .. TargetHead :
          \/ checkpoints[k].phase # "done" /\ ManifestOf(k)[q] # None
          \/ checkpoints[k].phase \in {"applied", "grace"} /\ InventoryOf(k)[q] # None}

\* Pool files that the built dists refer to.
Referenced ==
  UNION {{f[1] : f \in Closure[p][Built[p]]} : p \in {r \in Pointer : Built[r] # None}}

\* Local gc makes a generation without the payloads nothing refers to; it does
\* not look whether a publication is active.
LocalGC ==
  LET unrooted == {q \in Payload \ (Referenced \union PublicationRoots) : Built[q] # None}
  IN /\ pc = "idle"
     /\ Len(generations) < MaxGeneration
     /\ unrooted # {}
     /\ generations' = Append(generations,
          [q \in Path |-> IF q \in unrooted THEN None ELSE Built[q]])
     /\ UNCHANGED <<remote, stages, records, clock, process>>

Tick ==
  /\ clock < MaxTime
  /\ clock' = clock + 1
  /\ UNCHANGED <<generations, remote, stages, records, process>>

\* publish --rebind with another max_cache_ttl.
Rebind(new) ==
  /\ pc = "idle"
  /\ <<ttl, new>> \in Rebinds
  /\ ~PendingReport
  /\ ttl' = new
  /\ UNCHANGED <<generations, remote, stages, attempt, checkpoints, abandoned, clock, process>>

-----------------------------------------------------------------------------
(* Publish *)

Idle ==
  /\ pc' = "idle"
  /\ baseline' = EmptyTree
  /\ listed' = EmptyTree
  /\ started' = 0
  /\ todo' = {}
  /\ item' = 0

\* Publish enters its loop over the plan with the base inventory it computed.
EnterPublish(base) ==
  /\ pc' = "payload"
  /\ baseline' = base
  /\ UNCHANGED <<listed, started, todo, item>>

NewAttempt ==
  [phase |-> "planned", base |-> TargetHead, generation |-> Len(generations),
   views |-> [p \in Pointer |-> IF p \in Writes(HeadManifest, Built) THEN "pending" ELSE "none"]]

\* Mutant: a new attempt clears all evidence.
KeptEvidenceNone == {}

\* The record of the same attempt abandoned earlier is revived, its evidence dropped.
KeptEvidence ==
  {a \in abandoned : ~(a.base = TargetHead /\ a.generation = Len(generations))}

\* Every check of a new attempt, then its durable record.
PublishNew ==
  LET base == Recognized(PublicationLiveInventory(TargetHead))
  IN /\ pc = "idle"
     /\ ~Active
     /\ ~PendingReport
     /\ generations # <<>>
     /\ PlanAccepted(HeadManifest, Built)
     /\ Built # HeadManifest
     /\ AbandonedAgree
     /\ stages = {}
     /\ remote = base
     /\ \A q \in Payload \intersect Writes(HeadManifest, Built) : base[q] \in {None, Built[q]}
     /\ attempt' = NewAttempt
     /\ abandoned' = KeptEvidence
     /\ EnterPublish(base)
     /\ UNCHANGED <<generations, remote, stages, checkpoints, ttl, clock>>

\* requireRecoverableRemoteInventory: every file is the base's or the target's,
\* and no base file is gone.
Recoverable(base) ==
  \A q \in Path :
    /\ remote[q] # None => remote[q] \in {base[q], TargetManifest[q]}
    /\ base[q] # None => remote[q] # None

\* A new process takes up an attempt that has no checkpoint yet.
PublishResume ==
  LET base == Recognized(PublicationLiveInventory(attempt.base))
  IN /\ pc = "idle"
     /\ Active /\ attempt.phase # "applied"
     /\ ~PendingReport
     /\ attempt.generation = Len(generations)
     /\ attempt.base = TargetHead
     /\ AbandonedAgree
     /\ stages \subseteq PlanWrites
     /\ Recoverable(base)
     /\ EnterPublish(base)
     /\ UNCHANGED <<generations, remote, stages, records, clock>>

\* A new process takes up an attempt whose checkpoint lacks its grace record.
PublishResumeApplied ==
  /\ pc = "idle"
  /\ attempt.phase = "applied"
  /\ ~PendingReport
  /\ stages = {}
  /\ remote = PublicationLiveInventory(TargetHead)
  /\ pc' = "grace"
  /\ UNCHANGED <<generations, remote, stages, records, clock, baseline, listed, started, todo, item>>

\* The filesystem backend writes a complete stage beside the target first.
Stage(q) ==
  /\ Provider = "filesystem"
  /\ PutAllowed(q)
  /\ q \notin stages
  /\ stages' = stages \union {q}
  /\ UNCHANGED <<generations, remote, records, clock, process>>

\* The stage is renamed into place; r2 writes the object with its condition.
Install(q) ==
  /\ PutAllowed(q)
  /\ Provider = "filesystem" => q \in stages
  /\ remote' = [remote EXCEPT ![q] = TargetManifest[q]]
  /\ stages' = stages \ {q}
  /\ UNCHANGED <<generations, records, clock, process>>

Put(q) == Stage(q) \/ Install(q)

PutPayload == pc = "payload" /\ \E q \in Payload : FirstIn(q, Missing(Payload)) /\ Put(q)

PutMetadata == pc = "metadata" /\ \E q \in Metadata : FirstIn(q, Missing(Metadata)) /\ Put(q)

PutAlias == pc = "aliases" /\ \E q \in Alias : FirstIn(q, Missing(Alias)) /\ Put(q)

\* Phases advance one at a time; repeating an earlier advance changes nothing.
Adjacent ==
  {<<"planned", "payload">>, <<"payload", "immutable_metadata">>,
   <<"immutable_metadata", "pointer_prepared">>,
   <<"commit_intent", "pointer_rollforward">>, <<"pointer_rollforward", "verified">>}

\* Mutant: a resumed publish may not repeat an advance.
AdvancePhaseOnce(next) ==
  /\ <<attempt.phase, next>> \in Adjacent
  /\ next = "verified" => \A p \in Pointer : attempt.views[p] \in {"none", "verified"}
  /\ attempt' = [attempt EXCEPT !.phase = next]

AdvancePhase(next) ==
  \/ /\ PhaseRank[attempt.phase] >= PhaseRank[next]
     /\ UNCHANGED attempt
  \/ /\ <<attempt.phase, next>> \in Adjacent
     /\ next = "verified" => \A p \in Pointer : attempt.views[p] \in {"none", "verified"}
     /\ attempt' = [attempt EXCEPT !.phase = next]

Goto(from, to) ==
  /\ pc = from
  /\ pc' = to
  /\ UNCHANGED <<generations, remote, stages, checkpoints, abandoned, ttl, clock,
                 baseline, started, todo, item>>

\* Mutant: the phase is advanced with payloads still missing.
PayloadDoneEarly ==
  /\ Goto("payload", "metadata")
  /\ AdvancePhase("payload")
  /\ UNCHANGED listed

PayloadDone ==
  /\ Goto("payload", "metadata")
  /\ Missing(Payload) = {}
  /\ AdvancePhase("payload")
  /\ UNCHANGED listed

\* Mutant: the phase is advanced with metadata still missing.
MetadataDoneEarly ==
  /\ Goto("metadata", "prepare")
  /\ AdvancePhase("immutable_metadata")
  /\ UNCHANGED listed

MetadataDone ==
  /\ Goto("metadata", "prepare")
  /\ Missing(Metadata) = {}
  /\ AdvancePhase("immutable_metadata")
  /\ UNCHANGED listed

PreparePointers ==
  /\ Goto("prepare", "views")
  /\ AdvancePhase("pointer_prepared")
  /\ UNCHANGED listed

\* SetPublicationAttemptViewState: one state up, in the phases that allow it.
SetViewState(p, next) ==
  /\ p \in Pointer /\ attempt.views[p] # "none"
  /\ ViewRank[next] = ViewRank[attempt.views[p]] + 1
  /\ next = "prepared" => attempt.phase = "pointer_prepared"
  /\ next \in {"applied", "verified"} => Committed
  /\ next = "verified" => PhaseRank[attempt.phase] >= PhaseRank["pointer_rollforward"]
  /\ attempt' = [attempt EXCEPT !.views[p] = next]
  /\ UNCHANGED <<generations, remote, stages, checkpoints, abandoned, ttl, clock, process>>

ViewsBelow(state) == {p \in PlanViews : ViewRank[attempt.views[p]] < ViewRank[state]}

PrepareView ==
  pc = "views" /\ \E p \in Pointer : FirstIn(p, ViewsBelow("prepared")) /\ SetViewState(p, "prepared")

SetCommitIntent ==
  /\ Goto("views", "aliases")
  /\ ViewsBelow("prepared") = {}
  /\ IF Committed
     THEN UNCHANGED attempt
     ELSE /\ attempt.phase = "pointer_prepared"
          /\ \A p \in Pointer : attempt.views[p] \in {"none", "prepared"}
          /\ attempt' = [attempt EXCEPT !.phase = "commit_intent"]
  /\ UNCHANGED listed

AliasesDone ==
  /\ Goto("aliases", "pointers")
  /\ Missing(Alias) = {}
  /\ UNCHANGED <<attempt, listed>>

\* The pointer loop looks at its pointers in order: write, then record.
PointersToDo == {p \in PlanViews : p \in Missing(Pointer) \/ p \in ViewsBelow("applied")}

PutPointer ==
  pc = "pointers" /\ \E p \in Pointer :
    FirstIn(p, PointersToDo) /\ p \in Missing(Pointer) /\ Put(p)

RecordPointer ==
  pc = "pointers" /\ \E p \in Pointer :
    FirstIn(p, PointersToDo) /\ p \notin Missing(Pointer) /\ SetViewState(p, "applied")

PointersDone ==
  /\ Goto("pointers", "list")
  /\ PointersToDo = {}
  /\ AdvancePhase("pointer_rollforward")
  /\ UNCHANGED listed

\* Mutant: the inventory is the manifest, superseded files are forgotten.
ListInventoryTarget ==
  /\ Goto("list", "verify")
  /\ stages = {}
  /\ \A q \in Path : TargetManifest[q] # None => remote[q] = TargetManifest[q]
  /\ listed' = TargetManifest
  /\ UNCHANGED attempt

\* publicationInventory: the target's files exactly, the rest as the base had it.
ListInventory ==
  /\ Goto("list", "verify")
  /\ stages = {}
  /\ \A q \in Path :
       IF TargetManifest[q] # None THEN remote[q] = TargetManifest[q]
                                   ELSE remote[q] \in {None, baseline[q]}
  /\ listed' = remote
  /\ UNCHANGED attempt

VerifyView ==
  pc = "verify" /\ \E p \in Pointer : FirstIn(p, ViewsBelow("verified")) /\ SetViewState(p, "verified")

ViewsVerified ==
  /\ Goto("verify", "apply")
  /\ ViewsBelow("verified") = {}
  /\ AdvancePhase("verified")
  /\ UNCHANGED listed

\* Pointer checks, public verification, then the checkpoint, the target head and
\* the attempt's phase in one transaction.
PutAppliedCheckpoint ==
  /\ pc = "apply"
  /\ attempt.phase = "verified"
  /\ attempt.base = TargetHead
  /\ \A q \in PlanWrites : remote[q] = TargetManifest[q]
  /\ Files(TargetManifest) \subseteq Files(listed)
  /\ checkpoints' = Append(checkpoints,
       [generation |-> attempt.generation, inventory |-> listed,
        views |-> {p \in Pointer : attempt.views[p] # "none"},
        appliedAt |-> clock, notBefore |-> 0, phase |-> "applied",
        reported |-> FALSE, candidates |-> {}, receipts |-> {}])
  /\ attempt' = [attempt EXCEPT !.phase = "applied"]
  /\ pc' = "grace"
  /\ UNCHANGED <<generations, remote, stages, abandoned, ttl, clock,
                 baseline, listed, started, todo, item>>

PutGraceRecord ==
  /\ pc = "grace"
  /\ attempt.phase = "applied"
  /\ checkpoints' = [checkpoints EXCEPT ![TargetHead] =
       [@ EXCEPT !.phase = "grace", !.notBefore = checkpoints[TargetHead].appliedAt + GraceMinimum(ttl)]]
  /\ attempt' = NoAttempt
  /\ Idle
  /\ UNCHANGED <<generations, remote, stages, abandoned, ttl, clock>>

\* The running command dies, is cancelled or returns an error; its locks and
\* its memory go, the target and the records stay.
Stop ==
  /\ pc # "idle"
  /\ Idle
  /\ UNCHANGED <<generations, remote, stages, records, clock>>

-----------------------------------------------------------------------------
(* Abandon *)

\* Paths the target has beyond the attempt's base.
AddedPaths ==
  {q \in Path : remote[q] # None
                /\ Recognized(PublicationLiveInventory(attempt.base))[q] = None}

\* The base is untouched; everything else is a create-only write of the plan
\* on a path the base checkpoint's recorded inventory does not list.
AbandonAllowed ==
  /\ stages \subseteq PlanWrites \intersect Immutable
  /\ AbandonedAgree
  /\ \A q \in Path :
       LET base == Recognized(PublicationLiveInventory(attempt.base))
       IN base[q] # None => remote[q] = base[q]
  /\ \A q \in AddedPaths :
       /\ q \in PlanWrites \intersect Immutable
       /\ BaseManifest[q] = None
       /\ remote[q] = TargetManifest[q]
       /\ InventoryOf(attempt.base)[q] = None

\* Pre-commit stages are removed, files beyond the base become evidence.
Abandon ==
  /\ pc = "idle"
  /\ Active /\ PreCommit
  /\ AbandonAllowed
  /\ stages' = {}
  /\ abandoned' = abandoned \union
       {[base |-> attempt.base, generation |-> attempt.generation,
         objects |-> {<<q, remote[q]>> : q \in AddedPaths}]}
  /\ attempt' = NoAttempt
  /\ UNCHANGED <<generations, remote, checkpoints, ttl, clock, process>>

-----------------------------------------------------------------------------
(* Target gc *)

\* Mutant: a checkpoint whose report is terminal but not closed is overlooked.
UnfinishedGrace == {k \in 1 .. TargetHead : checkpoints[k].phase = "grace"}

Unfinished == {k \in 1 .. TargetHead : checkpoints[k].phase # "done"}

TargetGC ==
  /\ pc = "idle"
  /\ ~Active
  /\ Unfinished # {}
  /\ pc' = "gc"
  /\ started' = clock
  /\ todo' = Unfinished
  /\ UNCHANGED <<generations, remote, stages, records, clock, baseline, listed, item>>

\* Checkpoints come in the order of their recorded deadline.
NextItem(k) ==
  /\ pc = "gc" /\ item = 0
  /\ k \in todo
  /\ \A j \in todo \ {k} :
       \/ checkpoints[k].notBefore < checkpoints[j].notBefore
       \/ checkpoints[k].notBefore = checkpoints[j].notBefore /\ k < j

Due(k) == checkpoints[k].phase = "grace" /\ started >= GraceDeadline(k)

\* verifyTargetMaintenanceInventory: only the given objects may be missing.
MaintenanceInventory(mayMiss) ==
  LET expected == Recognized(PublicationLiveInventory(TargetHead))
  IN /\ stages = {}
     /\ AbandonedAgree
     /\ \A p \in Pointer : HeadManifest[p] # None => remote[p] = HeadManifest[p]
     /\ \A q \in Path :
          \/ remote[q] = expected[q]
          \/ remote[q] = None /\ <<q, expected[q]>> \in mayMiss

\* Mutant: only the checkpoint's own paths are protected.
ProtectedPathsOwn(k) == {q \in Path : ManifestOf(k)[q] # None}

\* Paths of the head, of checkpoints in grace and of the checkpoint itself.
ProtectedPaths(k) ==
  {q \in Path : \E j \in 1 .. TargetHead :
     /\ j = k \/ j = TargetHead \/ checkpoints[j].phase = "grace"
     /\ ManifestOf(j)[q] # None}

ExactCandidates(k) ==
  {f \in Files(InventoryOf(k)) :
     /\ ManifestOf(k)[f[1]] # f[2]
     /\ f[1] \notin ProtectedPaths(k)
     /\ f \notin Deleted}

GCSkip(k) ==
  /\ NextItem(k)
  /\ checkpoints[k].phase = "grace" /\ ~Due(k)
  /\ todo' = todo \ {k}
  /\ UNCHANGED <<generations, remote, stages, records, clock, pc, baseline, listed, started, item>>

\* The immutable candidate report of an expired checkpoint.
PutCandidateReport(k) ==
  /\ NextItem(k)
  /\ Due(k) /\ ~checkpoints[k].reported
  /\ MaintenanceInventory({})
  /\ \A p \in Pointer : InventoryOf(k)[p] = ManifestOf(k)[p]
  /\ checkpoints' = [checkpoints EXCEPT ![k] =
       [@ EXCEPT !.reported = TRUE, !.candidates = ExactCandidates(k)]]
  /\ UNCHANGED <<generations, remote, stages, attempt, abandoned, ttl, clock, process>>

\* A reported checkpoint, new or left by an earlier run, is taken up.
OpenReport(k) ==
  /\ NextItem(k)
  /\ Due(k) /\ checkpoints[k].reported
  /\ MaintenanceInventory(checkpoints[k].candidates)
  /\ item' = k
  /\ UNCHANGED <<generations, remote, stages, records, clock, pc, baseline, listed, started, todo>>

Undeleted(k) == {f[1] : f \in checkpoints[k].candidates \ checkpoints[k].receipts}

\* DeleteConditional: only the reported bytes are ever removed.
DeleteConditional(q) ==
  /\ Provider = "filesystem"
  /\ item # 0
  /\ FirstIn(q, Undeleted(item))
  /\ remote[q] # None
  /\ <<q, remote[q]>> \in checkpoints[item].candidates
  /\ remote' = [remote EXCEPT ![q] = None]
  /\ UNCHANGED <<generations, stages, records, clock, process>>

\* Storage and public endpoint both answered "absent".
PutDeletionReceipt(q) ==
  /\ Provider = "filesystem"
  /\ item # 0
  /\ FirstIn(q, Undeleted(item))
  /\ remote[q] = None
  /\ Due(item)
  /\ checkpoints' = [checkpoints EXCEPT
       ![item].receipts = @ \union {f \in checkpoints[item].candidates : f[1] = q}]
  /\ UNCHANGED <<generations, remote, stages, attempt, abandoned, ttl, clock, process>>

\* filesystem: every candidate has its receipt; r2: candidates stay, reported.
MarkReportTerminal ==
  /\ item # 0
  /\ Due(item)
  /\ Provider = "filesystem" => checkpoints[item].receipts = checkpoints[item].candidates
  /\ checkpoints' = [checkpoints EXCEPT
       ![item].phase = IF Provider = "filesystem" THEN "deletion_verified"
                                                  ELSE "retained_reported"]
  /\ item' = 0
  /\ UNCHANGED <<generations, remote, stages, attempt, abandoned, ttl, clock,
                 pc, baseline, listed, started, todo>>

CompleteAttempt(k) ==
  /\ NextItem(k)
  /\ checkpoints[k].phase \in {"deletion_verified", "retained_reported"}
  /\ checkpoints' = [checkpoints EXCEPT ![k].phase = "done"]
  /\ todo' = todo \ {k}
  /\ UNCHANGED <<generations, remote, stages, attempt, abandoned, ttl, clock,
                 pc, baseline, listed, started, item>>

GCEnd ==
  /\ pc = "gc" /\ todo = {}
  /\ Idle
  /\ UNCHANGED <<generations, remote, stages, records, clock>>

-----------------------------------------------------------------------------
(* The specification *)

Init ==
  /\ generations = <<>>
  /\ remote = EmptyTree
  /\ stages = {}
  /\ attempt = NoAttempt
  /\ checkpoints = <<>>
  /\ abandoned = {}
  /\ ttl = InitialTTL
  /\ clock = 0
  /\ pc = "idle"
  /\ baseline = EmptyTree
  /\ listed = EmptyTree
  /\ started = 0
  /\ todo = {}
  /\ item = 0

Local ==
  \/ \E m \in Catalogue : Build(m)
  \/ LocalGC
  \/ \E t \in {r[2] : r \in Rebinds} : Rebind(t)

Publish ==
  \/ PublishNew \/ PublishResume \/ PublishResumeApplied
  \/ PutPayload \/ PayloadDone
  \/ PutMetadata \/ MetadataDone
  \/ PreparePointers \/ PrepareView \/ SetCommitIntent
  \/ PutAlias \/ AliasesDone
  \/ PutPointer \/ RecordPointer \/ PointersDone
  \/ ListInventory \/ VerifyView \/ ViewsVerified
  \/ PutAppliedCheckpoint \/ PutGraceRecord

Maintain ==
  \/ TargetGC
  \/ \E k \in todo : GCSkip(k) \/ PutCandidateReport(k) \/ OpenReport(k) \/ CompleteAttempt(k)
  \/ \E q \in Path : DeleteConditional(q) \/ PutDeletionReceipt(q)
  \/ MarkReportTerminal
  \/ GCEnd

Next == Local \/ Tick \/ Publish \/ Abandon \/ Maintain \/ Stop

Spec == Init /\ [][Next]_vars

-----------------------------------------------------------------------------
(* Properties *)

Checkpoint ==
  [generation : Nat, inventory : Tree, views : SUBSET Pointer,
   appliedAt : Nat, notBefore : Nat,
   phase : {"applied", "grace", "deletion_verified", "retained_reported", "done"},
   reported : BOOLEAN,
   candidates : SUBSET (Path \X Content), receipts : SUBSET (Path \X Content)]

Attempt == [phase : AttemptPhase, base : Nat, generation : Nat, views : [Pointer -> ViewState]]

\* Every variable has its type, and records refer to generations and
\* checkpoints that exist.
TypeOK ==
  /\ generations \in Seq(Tree)
  /\ remote \in Tree
  /\ stages \subseteq Path
  /\ attempt \in Attempt
  /\ attempt.base <= TargetHead
  /\ attempt.generation <= Len(generations)
  /\ Active => attempt.generation # 0
  /\ attempt.phase = "applied" => TargetHead # 0
  /\ checkpoints \in Seq(Checkpoint)
  /\ \A k \in 1 .. TargetHead : checkpoints[k].generation \in 1 .. Len(generations)
  /\ abandoned \subseteq [base : Nat, generation : Nat, objects : SUBSET (Path \X Content)]
  /\ ttl \in Nat
  /\ clock \in Nat
  /\ pc \in {"idle", "payload", "metadata", "prepare", "views", "aliases", "pointers",
             "list", "verify", "apply", "grace", "gc"}
  /\ baseline \in Tree
  /\ listed \in Tree
  /\ started \in Nat
  /\ todo \subseteq 1 .. TargetHead
  /\ item \in 0 .. TargetHead

\* At every moment, whatever step of a publish, an abandon or a gc has just
\* happened or been cut short, every pointer a client can fetch names only
\* files that are at the target with the named bytes.
ReaderClosure == Closed(remote)

\* Until commit intent is durable, and again once the checkpoint is written,
\* the target serves the head checkpoint's generation complete: an abandoned
\* or interrupted attempt has changed nothing a client can see.
HeadServed ==
  ~Committed \/ attempt.phase = "applied" =>
    Files(HeadManifest) \subseteq Files(remote)

\* An active attempt's source is still the local generation it was planned
\* for, and its base is still the target's head: neither builds nor local gc
\* take the only roll-forward source away.
RollForwardSource ==
  Active =>
    /\ attempt.generation = Len(generations)
    /\ attempt.base = IF attempt.phase = "applied" THEN TargetHead - 1 ELSE TargetHead

\* Wherever a publish, an abandon, a gc or a build was cut short, clients read
\* a closed tree, an undecided attempt has changed nothing they can see, and
\* the only source to roll a decided one forward from is still there.
PublicationSafe == TypeOK /\ ReaderClosure /\ HeadServed /\ RollForwardSource

\* Every file at the target is accounted for: by the head checkpoint's
\* inventory, by the evidence of an abandoned attempt, or by the target of the
\* active attempt.
NothingUntracked ==
  \A f \in Files(remote) :
    \/ f \in Files(InventoryOf(TargetHead))
    \/ f \in AbandonedObjects
    \/ Active /\ f \in Files(TargetManifest)

\* The recovery checks of Publish accept whatever state an interrupted attempt
\* left, stage files included.
ResumeAdmitted ==
  Active /\ attempt.phase # "applied" =>
    /\ stages \subseteq PlanWrites
    /\ AbandonedAgree
    /\ Recoverable(Recognized(PublicationLiveInventory(attempt.base)))

\* Once commit intent is durable, no write of the plan can be refused: every
\* one is in place or passes the backend's compare-and-set.
RollForwardPossible ==
  Committed /\ attempt.phase # "applied" =>
    \A q \in PlanWrites : remote[q] = TargetManifest[q] \/ PutAllowed(q)

\* While a deletion report is pending, none of its candidates belongs to the
\* generation being served or to one still in grace.
CandidatesUnserved ==
  \A k \in 1 .. TargetHead :
    checkpoints[k].reported /\ checkpoints[k].phase = "grace" =>
      \A f \in checkpoints[k].candidates : \A j \in 1 .. TargetHead :
        j = TargetHead \/ checkpoints[j].phase = "grace" => ManifestOf(j)[f[1]] = None

\* A file that some superseded checkpoint published stays for the full grace
\* period, counted from the checkpoint that superseded it, so that a client
\* holding the older pointer from a cache still finds what it names.
GraceHonoured ==
  [][\A q \in Path : remote[q] # None /\ remote'[q] = None =>
       \A k \in 1 .. (TargetHead - 1) :
         ManifestOf(k)[q] = remote[q] =>
           clock >= checkpoints[k + 1].appliedAt + GraceMinimum(ttl)]_vars

\* What one step may do to the checkpoint history.
HistoryStep ==
  /\ TargetHead <= TargetHead'
  /\ \A k \in 1 .. TargetHead :
       /\ checkpoints'[k].inventory = checkpoints[k].inventory
       /\ checkpoints[k].reported => checkpoints'[k].candidates = checkpoints[k].candidates
       /\ checkpoints[k].receipts \subseteq checkpoints'[k].receipts
  /\ TargetHead' > TargetHead /\ TargetHead > 0 =>
       checkpoints'[TargetHead'].generation > checkpoints[TargetHead].generation

\* Checkpoints are only ever appended, each for a newer generation; the
\* inventory and the report of an existing one never change once written, so
\* that a gc resumed after a crash deletes what the first run announced.
HistoryImmutable == [][HistoryStep]_vars

-----------------------------------------------------------------------------
(* What readers are promised *)

Contract == INSTANCE ReaderContract WITH store <- remote

\* Seen by a client, publishing, abandoning, collecting and every crash in
\* between only ever make the steps of ReaderContract.
ReaderContractKept == Contract!Spec

-----------------------------------------------------------------------------
(* Progress *)

\* A command that runs goes on to its next step; the operator runs an
\* interrupted publish again, and gc from time to time; time passes.
Fairness ==
  /\ WF_vars(pc # "idle" /\ (Publish \/ Maintain))
  /\ WF_vars(PublishResume \/ PublishResumeApplied)
  /\ WF_vars(TargetGC)
  /\ WF_vars(Tick)

FairSpec == Spec /\ Fairness

\* Commands are not cut short for ever.
Undisturbed == <>[][~Stop]_vars

\* From commit intent on, an attempt ends published, wherever and however
\* often it is interrupted.
AttemptEnds ==
  Undisturbed =>
    \A g \in 1 .. MaxGeneration :
      Committed /\ attempt.generation = g ~>
        ~Active /\ \E k \in 1 .. TargetHead : checkpoints[k].generation = g

\* The maintenance phase of the k-th checkpoint, if there is one.
MaintenancePhase(k) == IF k \in 1 .. TargetHead THEN checkpoints[k].phase ELSE "none"

\* Every checkpoint's maintenance is eventually done, if its grace deadline
\* lies within the clock's range.
GraceEnds ==
  Undisturbed =>
    \A k \in 1 .. MaxGeneration :
      (MaintenancePhase(k) = "grace" /\ (k \in 1 .. TargetHead => GraceDeadline(k) <= MaxTime))
        ~> MaintenancePhase(k) = "done"

-----------------------------------------------------------------------------
(* What comments and messages of the code say, and the code does not do *)

\* PublicationLiveInventory is said to project "the exact objects that still
\* exist": with nothing running and nothing pending, the target holds exactly
\* the head's live inventory and known orphans.
LiveInventoryExact ==
  pc = "idle" /\ ~Active /\ ~PendingReport =>
    remote = Recognized(PublicationLiveInventory(TargetHead))

\* Target gc is said never to treat abandoned evidence as a deletion candidate.
OrphansNeverDeleted ==
  [][\A f \in AbandonedObjects :
       remote[f[1]] = f[2] /\ ~Active => remote'[f[1]] = f[2]]_vars

\* While a target is configured, a local mutation is said to keep every pointer
\* the target's applied checkpoint has published.
NoPublishedPointerWithdrawn ==
  ~Active => \A p \in Pointer : HeadManifest[p] # None => Built[p] # None

\* A pending report is said to be resumable with gc: once its deadline has
\* passed, a gc run that starts now gets as far as that report.
ReportResumable ==
  pc = "idle" /\ ~Active =>
    \A k \in 1 .. TargetHead :
      checkpoints[k].reported /\ checkpoints[k].phase = "grace" =>
        \A j \in 1 .. TargetHead :
          /\ checkpoints[j].phase = "grace" /\ ~checkpoints[j].reported
          /\ checkpoints[j].notBefore < checkpoints[k].notBefore
          /\ clock >= GraceDeadline(j)
          => MaintenanceInventory({})

=============================================================================
