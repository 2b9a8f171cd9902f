------------------------- MODULE PublicationProofs -------------------------
(***************************************************************************)
(* What Publication guarantees for every set of paths, every catalogue of  *)
(* builds, every provider and every bound.                                 *)
(***************************************************************************)
EXTENDS Publication, TLAPS

-----------------------------------------------------------------------------
(* Facts about trees *)

\* The files of a tree are pairs of a path and its bytes.
LEMMA FilesType ==
  ASSUME NEW t \in Tree
  PROVE  Files(t) \in SUBSET (Path \X Content)
BY DEF Files, Tree, Object

\* Inventories, manifests and what Publish makes of them are trees.
LEMMA TreeTypes ==
  ASSUME TypeOK
  PROVE  /\ EmptyTree \in Tree
         /\ Built \in Tree
         /\ TargetManifest \in Tree
         /\ \A k \in 0 .. TargetHead : ManifestOf(k) \in Tree /\ InventoryOf(k) \in Tree
<1>1. EmptyTree \in Tree
  BY DEF EmptyTree, Tree, Object
<1>2. Built \in Tree
  BY <1>1 DEF Built, TypeOK
<1>3. TargetManifest \in Tree
  BY <1>1 DEF TargetManifest, TypeOK, Attempt
<1>4. ASSUME NEW k \in 0 .. TargetHead
      PROVE  ManifestOf(k) \in Tree /\ InventoryOf(k) \in Tree
  <2>1. CASE k = 0
    BY <2>1, <1>1 DEF ManifestOf, InventoryOf
  <2>2. CASE k # 0
    <3>1. k \in 1 .. TargetHead /\ TargetHead = Len(checkpoints)
      BY <2>2 DEF TargetHead, TypeOK
    <3>2. checkpoints[k] \in Checkpoint /\ checkpoints[k].generation \in 1 .. Len(generations)
      BY <3>1 DEF TypeOK
    <3> QED
      BY <2>2, <3>2 DEF ManifestOf, InventoryOf, TypeOK, Checkpoint
  <2> QED
    BY <2>1, <2>2
<1> QED
  BY <1>1, <1>2, <1>3, <1>4

\* The base inventory of a publish or a gc is a tree.
LEMMA RecognizedType ==
  ASSUME TypeOK, NEW k \in 0 .. TargetHead
  PROVE  Recognized(PublicationLiveInventory(k)) \in Tree
<1>1. InventoryOf(k) \in Tree /\ remote \in Tree
  BY TreeTypes DEF TypeOK
<1>2. PublicationLiveInventory(k) \in Tree
  BY <1>1 DEF PublicationLiveInventory, Tree, Object
<1> QED
  BY <1>1, <1>2 DEF Recognized, Tree, Object

-----------------------------------------------------------------------------
(* Type correctness *)

\* A checkpoint record is replaced by another of the same generation.
LEMMA ChangeCheckpoint ==
  ASSUME TypeOK, NEW k \in 1 .. TargetHead,
         NEW c \in Checkpoint, c.generation = checkpoints[k].generation,
         checkpoints' = [checkpoints EXCEPT ![k] = c],
         generations' = generations
  PROVE  /\ checkpoints' \in Seq(Checkpoint)
         /\ TargetHead' = TargetHead
         /\ checkpoints'[k] = c
         /\ \A j \in 1 .. TargetHead : j # k => checkpoints'[j] = checkpoints[j]
         /\ \A j \in 1 .. TargetHead' : checkpoints'[j].generation \in 1 .. Len(generations')
BY DEF TypeOK, TargetHead

\* The local commands keep the types.
LEMMA LocalType ==
  ASSUME TypeOK, Local
  PROVE  TypeOK'
<1> USE ConstantsAssumption, CatalogueAssumption DEF TargetHead, Active
<1>1. ASSUME NEW m \in Catalogue, Build(m)
      PROVE  TypeOK'
  <2>1. [q \in Path |-> IF m[q] = None /\ Carried(m, q) THEN Built[q] ELSE m[q]] \in Tree
    BY TreeTypes DEF Tree
  <2>2. generations' \in Seq(Tree) /\ Len(generations') = Len(generations) + 1
    BY <1>1, <2>1 DEF Build, TypeOK
  <2> QED
    BY <1>1, <2>2 DEF Build, TypeOK, Attempt, records, process
<1>2. CASE LocalGC
  <2> DEFINE g == [q \in Path |-> IF q \in {r \in Payload \ (Referenced \union PublicationRoots) : Built[r] # None}
                                  THEN None ELSE Built[q]]
  <2>1. g \in Tree
    BY TreeTypes DEF Tree, Object
  <2>2. generations' = Append(generations, g)
    BY <1>2 DEF LocalGC
  <2>3. generations' \in Seq(Tree) /\ Len(generations') = Len(generations) + 1
    BY <2>1, <2>2 DEF TypeOK
  <2> QED
    BY <1>2, <2>3 DEF LocalGC, TypeOK, Attempt, records, process
<1>3. ASSUME NEW t \in {r[2] : r \in Rebinds}, Rebind(t)
      PROVE  TypeOK'
  <2>1. t \in Nat
    OBVIOUS
  <2> QED
    BY <1>3, <2>1 DEF Rebind, TypeOK, process
<1> QED
  BY <1>1, <1>2, <1>3 DEF Local

\* A step that moves the attempt's phase or one of its views.
SameAttempt ==
  /\ attempt'.base = attempt.base /\ attempt'.generation = attempt.generation
  /\ attempt'.phase # "none" => attempt.phase # "none"
  /\ attempt'.phase = "applied" => attempt.phase = "applied"

\* Advancing a phase keeps the attempt's identity.
LEMMA AdvanceType ==
  ASSUME TypeOK,
         NEW next \in {"payload", "immutable_metadata", "pointer_prepared",
                       "pointer_rollforward", "verified"},
         AdvancePhase(next)
  PROVE  attempt' \in Attempt /\ SameAttempt
<1>1. CASE UNCHANGED attempt
  BY <1>1 DEF TypeOK, Attempt, SameAttempt
<1>2. CASE <<attempt.phase, next>> \in Adjacent /\ attempt' = [attempt EXCEPT !.phase = next]
  <2>1. attempt.phase # "none"
    BY <1>2 DEF Adjacent
  <2> QED
    BY <1>2, <2>1 DEF TypeOK, Attempt, SameAttempt, AttemptPhase
<1> QED
  BY <1>1, <1>2 DEF AdvancePhase

\* Grace periods are natural numbers.
LEMMA GraceType ==
  ASSUME NEW t \in Nat
  PROVE  GraceMinimum(t) \in Nat
BY ConstantsAssumption DEF GraceMinimum, Larger

\* What the grace record does to the head checkpoint.
LEMMA GraceRecorded ==
  ASSUME TypeOK, PutGraceRecord
  PROVE  /\ checkpoints' \in Seq(Checkpoint)
         /\ TargetHead' = TargetHead
         /\ \A j \in 1 .. TargetHead' : checkpoints'[j].generation \in 1 .. Len(generations')
         /\ \A k \in 1 .. TargetHead :
              /\ checkpoints'[k].generation = checkpoints[k].generation
              /\ checkpoints'[k].inventory = checkpoints[k].inventory
              /\ checkpoints'[k].reported = checkpoints[k].reported
              /\ checkpoints'[k].candidates = checkpoints[k].candidates
              /\ checkpoints'[k].receipts = checkpoints[k].receipts
              /\ k # TargetHead => checkpoints'[k] = checkpoints[k]
<1> DEFINE c == [checkpoints[TargetHead] EXCEPT !.phase = "grace",
                   !.notBefore = checkpoints[TargetHead].appliedAt + GraceMinimum(ttl)]
<1>1. TargetHead \in 1 .. TargetHead /\ checkpoints[TargetHead] \in Checkpoint
  BY DEF PutGraceRecord, TypeOK, TargetHead
<1>2. checkpoints[TargetHead].appliedAt + GraceMinimum(ttl) \in Nat
  <2>1. GraceMinimum(ttl) \in Nat /\ checkpoints[TargetHead].appliedAt \in Nat
    BY <1>1, GraceType DEF TypeOK, Checkpoint
  <2> QED
    BY <2>1
<1>3. c \in Checkpoint /\ c.generation = checkpoints[TargetHead].generation
  BY <1>1, <1>2 DEF Checkpoint
<1>4. checkpoints' = [checkpoints EXCEPT ![TargetHead] = c] /\ generations' = generations
  BY DEF PutGraceRecord
<1>5. /\ checkpoints' \in Seq(Checkpoint)
      /\ TargetHead' = TargetHead
      /\ checkpoints'[TargetHead] = c
      /\ \A j \in 1 .. TargetHead : j # TargetHead => checkpoints'[j] = checkpoints[j]
      /\ \A j \in 1 .. TargetHead' : checkpoints'[j].generation \in 1 .. Len(generations')
  BY <1>1, <1>3, <1>4, ChangeCheckpoint
<1>6. \A k \in 1 .. TargetHead :
        /\ checkpoints'[k].generation = checkpoints[k].generation
        /\ checkpoints'[k].inventory = checkpoints[k].inventory
        /\ checkpoints'[k].reported = checkpoints[k].reported
        /\ checkpoints'[k].candidates = checkpoints[k].candidates
        /\ checkpoints'[k].receipts = checkpoints[k].receipts
  <2>1. /\ c.generation = checkpoints[TargetHead].generation
        /\ c.inventory = checkpoints[TargetHead].inventory
        /\ c.reported = checkpoints[TargetHead].reported
        /\ c.candidates = checkpoints[TargetHead].candidates
        /\ c.receipts = checkpoints[TargetHead].receipts
    BY <1>1 DEF Checkpoint
  <2> HIDE DEF c
  <2> QED
    BY <1>5, <2>1
<1> QED
  BY <1>5, <1>6

\* The steps of a publish keep the types.
LEMMA PublishType ==
  ASSUME TypeOK, Publish
  PROVE  TypeOK'
<1> USE DEF TargetHead, Active
<1>1. CASE PublishNew
  <2>1. Recognized(PublicationLiveInventory(TargetHead)) \in Tree
    BY RecognizedType DEF TypeOK
  <2> QED
    BY <1>1, <2>1 DEF PublishNew, NewAttempt, KeptEvidence, EnterPublish, TypeOK, Attempt, AttemptPhase, ViewState
<1>2. CASE PublishResume
  <2>1. Recognized(PublicationLiveInventory(attempt.base)) \in Tree
    BY RecognizedType DEF TypeOK, Attempt
  <2> QED
    BY <1>2, <2>1 DEF PublishResume, EnterPublish, TypeOK, records
<1>3. CASE PublishResumeApplied
  BY <1>3 DEF PublishResumeApplied, TypeOK, records
<1>4. ASSUME NEW q \in Path, Put(q)
      PROVE  TypeOK'
  BY <1>4, TreeTypes DEF Put, Stage, Install, TypeOK, Tree, records, process
<1>5. CASE PutPayload \/ PutMetadata \/ PutAlias \/ PutPointer
  BY <1>4, <1>5 DEF PutPayload, PutMetadata, PutAlias, PutPointer, Path
<1>6. CASE PayloadDone \/ MetadataDone \/ PreparePointers \/ PointersDone \/ ViewsVerified
  <2>1. PICK next \in {"payload", "immutable_metadata", "pointer_prepared",
                       "pointer_rollforward", "verified"} : AdvancePhase(next)
    BY <1>6 DEF PayloadDone, MetadataDone, PreparePointers, PointersDone, ViewsVerified
  <2>2. attempt' \in Attempt /\ SameAttempt
    BY <2>1, AdvanceType
  <2> QED
    BY <1>6, <2>2 DEF PayloadDone, MetadataDone, PreparePointers, PointersDone, ViewsVerified,
                      Goto, TypeOK, Attempt, SameAttempt
<1>7. CASE SetCommitIntent \/ AliasesDone
  BY <1>7 DEF SetCommitIntent, AliasesDone, Goto, TypeOK, Attempt, AttemptPhase
<1>8. CASE ListInventory
  BY <1>8 DEF ListInventory, Goto, TypeOK
<1>9. CASE PrepareView \/ RecordPointer \/ VerifyView
  <2>1. PICK p \in Pointer, next \in ViewState : SetViewState(p, next)
    BY <1>9 DEF PrepareView, RecordPointer, VerifyView, ViewState
  <2>2. attempt' \in Attempt /\ SameAttempt
    BY <2>1 DEF SetViewState, TypeOK, Attempt, SameAttempt
  <2> QED
    BY <2>1, <2>2 DEF SetViewState, TypeOK, Attempt, SameAttempt, process
<1>10. CASE PutAppliedCheckpoint
  <2> DEFINE c == [generation |-> attempt.generation, inventory |-> listed,
                   views |-> {p \in Pointer : attempt.views[p] # "none"},
                   appliedAt |-> clock, notBefore |-> 0, phase |-> "applied",
                   reported |-> FALSE, candidates |-> {}, receipts |-> {}]
  <2>1. c \in Checkpoint
    BY DEF TypeOK, Attempt, Checkpoint
  <2>2. checkpoints' = Append(checkpoints, c) /\ attempt.generation \in 1 .. Len(generations)
    BY <1>10 DEF PutAppliedCheckpoint, TypeOK, Attempt, Active
  <2>3. /\ checkpoints' \in Seq(Checkpoint)
        /\ Len(checkpoints') = Len(checkpoints) + 1
        /\ \A k \in 1 .. Len(checkpoints') : checkpoints'[k].generation \in 1 .. Len(generations)
    BY <2>1, <2>2 DEF TypeOK
  <2>4. /\ attempt' \in Attempt
        /\ attempt'.base = attempt.base /\ attempt'.generation = attempt.generation
    BY <1>10 DEF PutAppliedCheckpoint, TypeOK, Attempt, AttemptPhase
  <2> QED
    BY <1>10, <2>2, <2>3, <2>4 DEF PutAppliedCheckpoint, TypeOK, Attempt, Active
<1>11. CASE PutGraceRecord
  <2>1. /\ checkpoints' \in Seq(Checkpoint)
        /\ TargetHead' = TargetHead
        /\ \A j \in 1 .. TargetHead' : checkpoints'[j].generation \in 1 .. Len(generations')
    BY <1>11, GraceRecorded
  <2>2. EmptyTree \in Tree
    BY TreeTypes
  <2> QED
    BY <1>11, <2>1, <2>2 DEF PutGraceRecord, NoAttempt, Active, Idle, TypeOK, Attempt, AttemptPhase, ViewState
<1> QED
  BY <1>1, <1>2, <1>3, <1>5, <1>6, <1>7, <1>8, <1>9, <1>10, <1>11 DEF Publish

\* Abandoning keeps the types.
LEMMA AbandonType ==
  ASSUME TypeOK, Abandon
  PROVE  TypeOK'
<1>1. {<<q, remote[q]>> : q \in AddedPaths} \in SUBSET (Path \X Content)
  BY DEF AddedPaths, TypeOK, Tree, Object
<1>2. abandoned' \subseteq [base : Nat, generation : Nat, objects : SUBSET (Path \X Content)]
  BY <1>1 DEF Abandon, TypeOK, Attempt
<1> QED
  BY <1>2 DEF Abandon, NoAttempt, Active, TypeOK, Attempt, AttemptPhase, ViewState, process, TargetHead

\* A gc step that replaces one checkpoint record keeps the types.
LEMMA ReportType ==
  ASSUME TypeOK, NEW k \in 1 .. TargetHead,
         NEW c \in Checkpoint, c.generation = checkpoints[k].generation,
         checkpoints' = [checkpoints EXCEPT ![k] = c],
         todo' \subseteq todo, item' \in {0, item},
         UNCHANGED <<generations, remote, stages, attempt, abandoned, ttl, clock,
                     pc, baseline, listed, started>>
  PROVE  TypeOK'
<1>1. /\ checkpoints' \in Seq(Checkpoint)
      /\ TargetHead' = TargetHead
      /\ \A j \in 1 .. TargetHead' : checkpoints'[j].generation \in 1 .. Len(generations')
  BY ChangeCheckpoint
<1>2. todo' \subseteq 1 .. TargetHead /\ item' \in 0 .. TargetHead
  BY DEF TypeOK, TargetHead
<1> QED
  BY <1>1, <1>2 DEF TypeOK, Active

\* The steps of target gc keep the types.
LEMMA MaintainType ==
  ASSUME TypeOK, Maintain
  PROVE  TypeOK'
<1>1. CASE TargetGC
  BY <1>1 DEF TargetGC, Unfinished, TypeOK, records, TargetHead, Active
<1>2. ASSUME NEW k \in todo, GCSkip(k)
      PROVE  TypeOK'
  BY <1>2 DEF GCSkip, TypeOK, records, TargetHead, Active
<1>3. ASSUME NEW k \in todo, OpenReport(k)
      PROVE  TypeOK'
  BY <1>3 DEF OpenReport, TypeOK, records, TargetHead, Active
<1>4. ASSUME NEW k \in todo, PutCandidateReport(k)
      PROVE  TypeOK'
  <2> DEFINE c == [checkpoints[k] EXCEPT !.reported = TRUE, !.candidates = ExactCandidates(k)]
  <2>1. k \in 1 .. TargetHead /\ checkpoints[k] \in Checkpoint
    BY DEF TypeOK, TargetHead
  <2>2. InventoryOf(k) \in Tree
    BY <2>1, TreeTypes DEF TargetHead, TypeOK
  <2>3. ExactCandidates(k) \in SUBSET (Path \X Content)
    BY <2>2, FilesType DEF ExactCandidates
  <2>4. c \in Checkpoint /\ c.generation = checkpoints[k].generation
    BY <2>1, <2>3 DEF Checkpoint
  <2>5. checkpoints' = [checkpoints EXCEPT ![k] = c]
    BY <1>4 DEF PutCandidateReport
  <2> QED
    BY <1>4, <2>1, <2>4, <2>5, ReportType DEF PutCandidateReport, process
<1>5. ASSUME NEW k \in todo, CompleteAttempt(k)
      PROVE  TypeOK'
  <2> DEFINE c == [checkpoints[k] EXCEPT !.phase = "done"]
  <2>1. k \in 1 .. TargetHead /\ checkpoints[k] \in Checkpoint
    BY DEF TypeOK, TargetHead
  <2>2. c \in Checkpoint /\ c.generation = checkpoints[k].generation
    BY <2>1 DEF Checkpoint
  <2>3. checkpoints' = [checkpoints EXCEPT ![k] = c]
    BY <1>5 DEF CompleteAttempt
  <2> QED
    BY <1>5, <2>1, <2>2, <2>3, ReportType DEF CompleteAttempt
<1>6. ASSUME NEW q \in Path, DeleteConditional(q)
      PROVE  TypeOK'
  BY <1>6 DEF DeleteConditional, TypeOK, Tree, Object, records, process, TargetHead, Active
<1>7. ASSUME NEW q \in Path, PutDeletionReceipt(q)
      PROVE  TypeOK'
  <2> DEFINE c == [checkpoints[item] EXCEPT !.receipts =
                     @ \union {f \in checkpoints[item].candidates : f[1] = q}]
  <2>1. item \in 1 .. TargetHead /\ checkpoints[item] \in Checkpoint
    BY <1>7 DEF PutDeletionReceipt, TypeOK, TargetHead
  <2>2. c \in Checkpoint /\ c.generation = checkpoints[item].generation
    BY <2>1 DEF Checkpoint
  <2>3. checkpoints' = [checkpoints EXCEPT ![item] = c]
    BY <1>7 DEF PutDeletionReceipt
  <2> QED
    BY <1>7, <2>1, <2>2, <2>3, ReportType DEF PutDeletionReceipt, process
<1>8. CASE MarkReportTerminal
  <2> DEFINE c == [checkpoints[item] EXCEPT !.phase =
                     IF Provider = "filesystem" THEN "deletion_verified" ELSE "retained_reported"]
  <2>1. item \in 1 .. TargetHead /\ checkpoints[item] \in Checkpoint
    BY <1>8 DEF MarkReportTerminal, TypeOK, TargetHead
  <2>2. c \in Checkpoint /\ c.generation = checkpoints[item].generation
    BY <2>1 DEF Checkpoint
  <2>3. checkpoints' = [checkpoints EXCEPT ![item] = c]
    BY <1>8 DEF MarkReportTerminal
  <2> QED
    BY <1>8, <2>1, <2>2, <2>3, ReportType DEF MarkReportTerminal
<1>9. CASE GCEnd
  BY <1>9, TreeTypes DEF GCEnd, Idle, TypeOK, records, TargetHead, Active
<1> QED
  BY <1>1, <1>2, <1>3, <1>4, <1>5, <1>6, <1>7, <1>8, <1>9 DEF Maintain

\* Every variable keeps its type, and every record refers to generations and
\* checkpoints that exist, whatever commands run and wherever they are cut short.
THEOREM TypeCorrect == Spec => []TypeOK
<1>1. Init => TypeOK
  <2> SUFFICES ASSUME Init PROVE TypeOK
    OBVIOUS
  <2>1. EmptyTree \in Tree
    BY DEF EmptyTree, Tree, Object
  <2> QED
    BY <2>1, ConstantsAssumption DEF Init, TypeOK, NoAttempt, Active, Attempt, AttemptPhase, ViewState, TargetHead
<1>2. TypeOK /\ [Next]_vars => TypeOK'
  <2> SUFFICES ASSUME TypeOK, [Next]_vars PROVE TypeOK'
    OBVIOUS
  <2>1. CASE Tick
    BY <2>1 DEF Tick, TypeOK, records, process, TargetHead, Active
  <2>2. CASE Stop
    BY <2>2, TreeTypes DEF Stop, Idle, TypeOK, records, TargetHead, Active
  <2>3. CASE UNCHANGED vars
    BY <2>3 DEF vars, records, process, TypeOK, TargetHead, Active
  <2> QED
    BY <2>1, <2>2, <2>3, LocalType, PublishType, AbandonType, MaintainType DEF Next
<1> QED
  BY <1>1, <1>2, PTL DEF Spec

-----------------------------------------------------------------------------
(* The inductive invariant *)

\* Between commit intent and the checkpoint.
Rolling == Committed /\ attempt.phase # "applied"

\* A generation is complete in itself, and its checksum-addressed metadata is
\* the catalogue's.
GenerationsSound ==
  \A i \in 1 .. Len(generations) :
    /\ Closed(generations[i])
    /\ \A q \in Metadata : generations[i][q] # None =>
         \E m \in Catalogue : m[q] = generations[i][q]

\* Where a command is tells how far its attempt or its report has come.
CommandSound ==
  /\ pc = "gc" => ~Active
  /\ pc \notin {"idle", "gc", "grace"} => Active /\ attempt.phase # "applied"
  /\ pc \in {"aliases", "pointers", "list", "verify", "apply"} => Committed
  /\ item # 0 => pc = "gc" /\ checkpoints[item].reported /\ checkpoints[item].phase = "grace"

\* An active attempt goes from the head to another, newest generation, along
\* an accepted plan.
AttemptSound ==
  /\ RollForwardSource
  /\ Active /\ attempt.phase # "applied" =>
       /\ PlanAccepted(BaseManifest, TargetManifest)
       /\ BaseManifest # TargetManifest

\* No attempt is active while a report is pending, and a checkpoint has none
\* before its grace record.
ReportsSound ==
  /\ PendingReport => ~Active
  /\ attempt.phase = "applied" => ~checkpoints[TargetHead].reported
  /\ CandidatesUnserved

\* Payload and metadata that the attempt's phase claims are at the target.
ClaimsInPlace ==
  /\ PhaseRank[attempt.phase] >= PhaseRank["payload"] =>
       \A q \in PlanWrites \intersect Payload : remote[q] = TargetManifest[q]
  /\ PhaseRank[attempt.phase] >= PhaseRank["immutable_metadata"] =>
       \A q \in PlanWrites \intersect Metadata : remote[q] = TargetManifest[q]

\* The head's files are in place, but for aliases and pointers that an attempt
\* with commit intent has already replaced; pointers come from nowhere else.
HeadInPlace ==
  \A q \in Path :
    HeadManifest[q] # None \/ q \in Pointer =>
      \/ remote[q] = HeadManifest[q]
      \/ Rolling /\ q \in PlanWrites \ Immutable /\ remote[q] = TargetManifest[q]

PublicationInv ==
  /\ TypeOK
  /\ GenerationsSound
  /\ CommandSound
  /\ AttemptSound
  /\ ReportsSound
  /\ ClaimsInPlace
  /\ HeadInPlace

-----------------------------------------------------------------------------
(* Steps that leave manifests alone *)

\* Existing generations and checkpoints' generations never change, so a
\* manifest is the same before and after.
LEMMA SameManifests ==
  ASSUME TypeOK, TypeOK',
         Len(generations) <= Len(generations'),
         \A i \in 1 .. Len(generations) : generations'[i] = generations[i],
         TargetHead <= TargetHead',
         \A k \in 1 .. TargetHead : checkpoints'[k].generation = checkpoints[k].generation
  PROVE  /\ \A k \in 0 .. TargetHead : ManifestOf(k)' = ManifestOf(k)
         /\ TargetHead' = TargetHead => HeadManifest' = HeadManifest
         /\ attempt'.base = attempt.base /\ attempt'.generation = attempt.generation =>
              /\ BaseManifest' = BaseManifest
              /\ TargetManifest' = TargetManifest
              /\ PlanWrites' = PlanWrites
<1>1. TargetHead \in Nat /\ attempt.base \in 0 .. TargetHead
  BY DEF TypeOK, Attempt, TargetHead
<1>2. ASSUME NEW k \in 0 .. TargetHead
      PROVE  ManifestOf(k)' = ManifestOf(k)
  <2>1. CASE k = 0
    BY <2>1 DEF ManifestOf
  <2>2. CASE k # 0
    <3>1. k \in 1 .. TargetHead
      BY <2>2, <1>1
    <3>2. checkpoints[k].generation \in 1 .. Len(generations)
      BY <3>1 DEF TypeOK
    <3>3. generations'[checkpoints'[k].generation] = generations[checkpoints[k].generation]
      BY <3>1, <3>2
    <3> QED
      BY <2>2, <3>3 DEF ManifestOf
  <2> QED
    BY <2>1, <2>2
<1>3. TargetHead' = TargetHead => HeadManifest' = HeadManifest
  BY <1>1, <1>2 DEF HeadManifest
<1>4. ASSUME attempt'.base = attempt.base, attempt'.generation = attempt.generation
      PROVE  BaseManifest' = BaseManifest /\ TargetManifest' = TargetManifest
  <2>1. BaseManifest' = BaseManifest
    BY <1>1, <1>2, <1>4 DEF BaseManifest
  <2>2. TargetManifest' = TargetManifest
    BY <1>4 DEF TargetManifest, TypeOK, Attempt
  <2> QED
    BY <2>1, <2>2
<1>5. ASSUME BaseManifest' = BaseManifest, TargetManifest' = TargetManifest
      PROVE  PlanWrites' = PlanWrites
  BY <1>5 DEF PlanWrites, Writes
<1> QED
  BY <1>2, <1>3, <1>4, <1>5

\* A step that changes neither the target nor the records the invariant is
\* about has only its own place to account for.
LEMMA QuietStep ==
  ASSUME PublicationInv, TypeOK', CommandSound',
         UNCHANGED <<generations, remote, attempt, checkpoints>>
  PROVE  PublicationInv'
<1>1. /\ \A k \in 0 .. TargetHead : ManifestOf(k)' = ManifestOf(k)
      /\ TargetHead' = TargetHead
      /\ HeadManifest' = HeadManifest
      /\ BaseManifest' = BaseManifest
      /\ TargetManifest' = TargetManifest
      /\ PlanWrites' = PlanWrites
  BY SameManifests DEF PublicationInv, TypeOK, TargetHead
<1>2. GenerationsSound'
  BY DEF PublicationInv, GenerationsSound
<1>3. AttemptSound'
  BY <1>1 DEF PublicationInv, AttemptSound, RollForwardSource, Active, PlanAccepted, Writes
<1>4. ReportsSound'
  BY <1>1 DEF PublicationInv, ReportsSound, PendingReport, CandidatesUnserved, Active, TargetHead
<1>5. ClaimsInPlace' /\ HeadInPlace'
  BY <1>1 DEF PublicationInv, ClaimsInPlace, HeadInPlace, Rolling, Committed, PreCommit, Active
<1> QED
  BY <1>2, <1>3, <1>4, <1>5 DEF PublicationInv
\* Steps of a command that only move it along.
QuietCommand ==
  \/ Tick \/ Stop \/ UNCHANGED vars
  \/ \E t \in {r[2] : r \in Rebinds} : Rebind(t)
  \/ PublishResume \/ PublishResumeApplied
  \/ \E q \in Path : Stage(q)
  \/ AliasesDone \/ ListInventory
  \/ TargetGC \/ GCEnd
  \/ \E k \in todo : GCSkip(k) \/ OpenReport(k)

\* They keep the invariant.
LEMMA QuietKeeps ==
  ASSUME PublicationInv, TypeOK', QuietCommand
  PROVE  PublicationInv'
<1> USE DEF Committed, PreCommit, Active, CommandSound
<1>0. CommandSound
  BY DEF PublicationInv
<1>1. CASE Tick \/ UNCHANGED vars \/ \E t \in {r[2] : r \in Rebinds} : Rebind(t)
  BY <1>0, <1>1, QuietStep DEF Tick, Rebind, vars, records, process
<1>2. CASE Stop \/ GCEnd
  BY <1>0, <1>2, QuietStep DEF Stop, GCEnd, Idle, records
<1>3. CASE PublishResume \/ PublishResumeApplied
  BY <1>0, <1>3, QuietStep DEF PublishResume, PublishResumeApplied, EnterPublish, records
<1>4. CASE \E q \in Path : Stage(q)
  BY <1>0, <1>4, QuietStep DEF Stage, records, process
<1>5. CASE AliasesDone \/ ListInventory
  BY <1>0, <1>5, QuietStep DEF AliasesDone, ListInventory, Goto
<1>6. CASE TargetGC
  BY <1>0, <1>6, QuietStep DEF TargetGC, records
<1>7. ASSUME NEW k \in todo, GCSkip(k) \/ OpenReport(k)
      PROVE  PublicationInv'
  BY <1>0, <1>7, QuietStep DEF GCSkip, OpenReport, NextItem, Due, records
<1> QED
  BY <1>1, <1>2, <1>3, <1>4, <1>5, <1>6, <1>7 DEF QuietCommand

\* A step that moves the attempt's phase or views and nothing else has the
\* claims of its phase to account for.
LEMMA AdvanceStep ==
  ASSUME PublicationInv, TypeOK', CommandSound', ClaimsInPlace',
         SameAttempt, Active, attempt'.phase \notin {"none", "applied"}, attempt.phase # "applied",
         Committed => Committed',
         UNCHANGED <<generations, remote, checkpoints>>
  PROVE  PublicationInv'
<1>1. /\ \A k \in 0 .. TargetHead : ManifestOf(k)' = ManifestOf(k)
      /\ TargetHead' = TargetHead
      /\ HeadManifest' = HeadManifest
      /\ BaseManifest' = BaseManifest
      /\ TargetManifest' = TargetManifest
      /\ PlanWrites' = PlanWrites
  BY SameManifests DEF PublicationInv, TypeOK, TargetHead, SameAttempt
<1>2. GenerationsSound'
  BY DEF PublicationInv, GenerationsSound
<1>3. AttemptSound'
  BY <1>1 DEF PublicationInv, AttemptSound, RollForwardSource, Active, PlanAccepted, Writes, SameAttempt
<1>4. ReportsSound'
  BY <1>1 DEF PublicationInv, ReportsSound, PendingReport, CandidatesUnserved, Active, TargetHead
<1>5. HeadInPlace'
  BY <1>1 DEF PublicationInv, HeadInPlace, Rolling
<1> QED
  BY <1>2, <1>3, <1>4, <1>5 DEF PublicationInv
\* The ranks of the phases, as numbers.
LEMMA Ranks ==
  /\ PhaseRank["none"] = 0 /\ PhaseRank["planned"] = 1 /\ PhaseRank["payload"] = 2
  /\ PhaseRank["immutable_metadata"] = 3 /\ PhaseRank["pointer_prepared"] = 4
  /\ PhaseRank["commit_intent"] = 5 /\ PhaseRank["pointer_rollforward"] = 6
  /\ PhaseRank["verified"] = 7 /\ PhaseRank["applied"] = 8
BY DEF PhaseRank

\* Phase and view steps keep the invariant.
LEMMA AdvanceKeeps ==
  ASSUME PublicationInv, TypeOK',
         \/ PayloadDone \/ MetadataDone \/ PreparePointers \/ PrepareView \/ SetCommitIntent
         \/ RecordPointer \/ PointersDone \/ VerifyView \/ ViewsVerified
  PROVE  PublicationInv'
<1>0. TypeOK /\ CommandSound /\ ClaimsInPlace /\ attempt.phase \in AttemptPhase
  BY DEF PublicationInv, TypeOK, Attempt
<1>1. ASSUME SameAttempt, UNCHANGED <<generations, checkpoints>>
      PROVE  TargetManifest' = TargetManifest /\ PlanWrites' = PlanWrites
  BY <1>0, <1>1, SameManifests DEF TypeOK, TargetHead, SameAttempt
<1>2. CASE PayloadDone
  <2>1. /\ pc = "payload" /\ pc' = "metadata" /\ AdvancePhase("payload") /\ item' = item
        /\ \A q \in PlanWrites \intersect Payload : remote[q] = TargetManifest[q]
        /\ UNCHANGED <<generations, remote, checkpoints>>
    BY <1>2 DEF PayloadDone, Goto, Missing
  <2>2. SameAttempt
    BY <1>0, <2>1, AdvanceType
  <2>3. \/ attempt' = attempt
        \/ attempt.phase = "planned" /\ attempt'.phase = "payload"
    BY <1>0, <2>1 DEF AdvancePhase, Adjacent, TypeOK, Attempt
  <2>4. ClaimsInPlace'
    BY <1>0, <1>1, <2>1, <2>2, <2>3, Ranks DEF ClaimsInPlace
  <2>5. /\ CommandSound' /\ Active /\ attempt.phase # "applied" /\ (Committed => Committed')
        /\ attempt'.phase \notin {"none", "applied"}
    BY <1>0, <2>1, <2>3 DEF CommandSound, Active, Committed, PreCommit
  <2> QED
    BY <2>1, <2>2, <2>4, <2>5, AdvanceStep
<1>3. CASE MetadataDone
  <2>1. /\ pc = "metadata" /\ pc' = "prepare" /\ AdvancePhase("immutable_metadata") /\ item' = item
        /\ \A q \in PlanWrites \intersect Metadata : remote[q] = TargetManifest[q]
        /\ UNCHANGED <<generations, remote, checkpoints>>
    BY <1>3 DEF MetadataDone, Goto, Missing
  <2>2. SameAttempt
    BY <1>0, <2>1, AdvanceType
  <2>3. \/ attempt' = attempt
        \/ attempt.phase = "payload" /\ attempt'.phase = "immutable_metadata"
    BY <1>0, <2>1 DEF AdvancePhase, Adjacent, TypeOK, Attempt
  <2>4. ClaimsInPlace'
    BY <1>0, <1>1, <2>1, <2>2, <2>3, Ranks DEF ClaimsInPlace
  <2>5. /\ CommandSound' /\ Active /\ attempt.phase # "applied" /\ (Committed => Committed')
        /\ attempt'.phase \notin {"none", "applied"}
    BY <1>0, <2>1, <2>3 DEF CommandSound, Active, Committed, PreCommit
  <2> QED
    BY <2>1, <2>2, <2>4, <2>5, AdvanceStep
<1>4. CASE PreparePointers \/ PointersDone \/ ViewsVerified \/ SetCommitIntent
  <2>1. /\ \/ pc = "prepare" /\ pc' = "views"
           \/ pc = "pointers" /\ pc' = "list"
           \/ pc = "verify" /\ pc' = "apply"
           \/ pc = "views" /\ pc' = "aliases" /\ Committed'
        /\ item' = item
        /\ UNCHANGED <<generations, remote, checkpoints>>
    BY <1>4, <1>0 DEF PreparePointers, PointersDone, ViewsVerified, SetCommitIntent, Goto,
                      Committed, PreCommit, Active, TypeOK, Attempt
  <2>2. \/ attempt' = attempt
        \/ attempt.phase = "immutable_metadata" /\ attempt'.phase = "pointer_prepared"
        \/ attempt.phase = "pointer_prepared" /\ attempt'.phase = "commit_intent"
        \/ attempt.phase = "commit_intent" /\ attempt'.phase = "pointer_rollforward"
        \/ attempt.phase = "pointer_rollforward" /\ attempt'.phase = "verified"
    BY <1>4, <1>0 DEF PreparePointers, PointersDone, ViewsVerified, SetCommitIntent,
                      AdvancePhase, Adjacent, TypeOK, Attempt
  <2>3. SameAttempt
    BY <1>4, <1>0, AdvanceType DEF PreparePointers, PointersDone, ViewsVerified, SetCommitIntent,
                                   SameAttempt, TypeOK, Attempt
  <2>4. ClaimsInPlace'
    BY <1>0, <1>1, <2>1, <2>2, <2>3, Ranks DEF ClaimsInPlace
  <2>5. /\ CommandSound' /\ Active /\ attempt.phase # "applied" /\ (Committed => Committed')
        /\ attempt'.phase \notin {"none", "applied"}
    BY <1>0, <2>1, <2>2 DEF CommandSound, Active, Committed, PreCommit
  <2> QED
    BY <2>1, <2>3, <2>4, <2>5, AdvanceStep
<1>5. CASE PrepareView \/ RecordPointer \/ VerifyView
  <2>1. PICK p \in Pointer, next \in ViewState : SetViewState(p, next)
    BY <1>5 DEF PrepareView, RecordPointer, VerifyView, ViewState
  <2>2. /\ pc \in {"views", "pointers", "verify"}
        /\ pc' = pc /\ item' = item
        /\ UNCHANGED <<generations, remote, checkpoints>>
    BY <1>5, <2>1 DEF PrepareView, RecordPointer, VerifyView, SetViewState, process
  <2>3. SameAttempt /\ attempt'.phase = attempt.phase
    BY <1>0, <2>1 DEF SetViewState, SameAttempt, TypeOK, Attempt
  <2>4. ClaimsInPlace'
    BY <1>0, <1>1, <2>2, <2>3 DEF ClaimsInPlace
  <2>5. /\ CommandSound' /\ Active /\ attempt.phase # "applied" /\ (Committed => Committed')
        /\ attempt'.phase \notin {"none", "applied"}
    BY <1>0, <2>2, <2>3 DEF CommandSound, Active, Committed, PreCommit
  <2> QED
    BY <2>2, <2>3, <2>4, <2>5, AdvanceStep
<1> QED
  BY <1>2, <1>3, <1>4, <1>5
-----------------------------------------------------------------------------
(* Local commands *)

\* A new generation keeps the invariant if it is sound itself.
LEMMA NewGeneration ==
  ASSUME PublicationInv, TypeOK', ~Active,
         NEW g \in Tree, Closed(g),
         \A q \in Metadata : g[q] # None => \E m \in Catalogue : m[q] = g[q],
         generations' = Append(generations, g),
         UNCHANGED <<remote, attempt, checkpoints, pc, item>>
  PROVE  PublicationInv'
<1>1. /\ Len(generations') = Len(generations) + 1
      /\ \A i \in 1 .. Len(generations) : generations'[i] = generations[i]
      /\ generations'[Len(generations')] = g
      /\ Len(generations) <= Len(generations')
  BY DEF PublicationInv, TypeOK
<1>2. /\ \A k \in 0 .. TargetHead : ManifestOf(k)' = ManifestOf(k)
      /\ TargetHead' = TargetHead
      /\ HeadManifest' = HeadManifest
  <2>1. TypeOK /\ TargetHead' = TargetHead /\ TargetHead <= TargetHead'
    BY DEF PublicationInv, TypeOK, TargetHead
  <2> QED
    BY <1>1, <2>1, SameManifests
<1>3. GenerationsSound'
  <2> SUFFICES ASSUME NEW i \in 1 .. Len(generations')
               PROVE  /\ Closed(generations'[i])
                      /\ \A q \in Metadata : generations'[i][q] # None =>
                           \E m \in Catalogue : m[q] = generations'[i][q]
    BY DEF GenerationsSound
  <2>1. CASE i \in 1 .. Len(generations)
    BY <1>1, <2>1 DEF PublicationInv, GenerationsSound
  <2>2. CASE i = Len(generations')
    BY <1>1, <2>2
  <2> QED
    BY <1>1, <2>1, <2>2 DEF PublicationInv, TypeOK
<1>4. CommandSound'
  BY DEF PublicationInv, CommandSound, Committed, PreCommit, Active
<1>5. AttemptSound'
  BY DEF AttemptSound, RollForwardSource, Active
<1>6. ReportsSound'
  BY <1>2 DEF PublicationInv, ReportsSound, PendingReport, CandidatesUnserved, Active, TargetHead
<1>7. ClaimsInPlace'
  BY Ranks DEF ClaimsInPlace, Active
<1>8. HeadInPlace'
  BY <1>2 DEF PublicationInv, HeadInPlace, Rolling, Committed, Active
<1> QED
  BY <1>3, <1>4, <1>5, <1>6, <1>7, <1>8 DEF PublicationInv

\* Builds and local gc keep the invariant; local gc finds nothing to collect
\* while a publication is active.
LEMMA LocalKeeps ==
  ASSUME PublicationInv, TypeOK', LocalGC \/ \E m \in Catalogue : Build(m)
  PROVE  PublicationInv'
<1> USE ConstantsAssumption, CatalogueAssumption
<1>0. TypeOK /\ Built \in Tree
  BY TreeTypes DEF PublicationInv
<1>a. /\ Built # EmptyTree => \E i \in 1 .. Len(generations) : Built = generations[i]
      /\ \A q \in Path : EmptyTree[q] = None
  <2>1. CASE generations = <<>>
    BY <2>1 DEF Built, EmptyTree
  <2>2. CASE generations # <<>>
    <3>1. Len(generations) \in 1 .. Len(generations)
      BY <2>2, <1>0 DEF TypeOK
    <3> QED
      BY <2>2, <3>1 DEF Built, EmptyTree
  <2> QED
    BY <2>1, <2>2
<1>1. ASSUME NEW m \in Catalogue, Build(m)
      PROVE  PublicationInv'
  <2> DEFINE g == [q \in Path |-> IF m[q] = None /\ Carried(m, q) THEN Built[q] ELSE m[q]]
  <2>1. g \in Tree /\ m \in Tree
    BY <1>0 DEF Tree
  <2>2. \A q \in Path : m[q] # None => g[q] = m[q]
    OBVIOUS
  <2>3. /\ \A q \in Pointer : q \in Path /\ g[q] = m[q]
        /\ \A q \in Metadata : q \in Path /\ g[q] \in {m[q], Built[q]}
    BY DEF Path, Carried
  <2>4. Closed(g)
    <3> SUFFICES ASSUME NEW p \in Pointer, g[p] # None, NEW f \in Closure[p][g[p]]
                 PROVE  g[f[1]] = f[2]
      BY DEF Closed
    <3>1. g[p] = m[p] /\ m[p] \in Content
      BY <2>1, <2>3 DEF Tree, Object, Path
    <3>2. m[f[1]] = f[2]
      BY <3>1 DEF Closed
    <3>3. f[1] \in Path /\ f[2] # None
      BY <3>1 DEF Immutable, Path
    <3> QED
      BY <2>2, <3>2, <3>3
  <2>5. \A q \in Metadata : g[q] # None => \E n \in Catalogue : n[q] = g[q]
    BY <2>3, <1>a DEF PublicationInv, GenerationsSound
  <2>6. /\ ~Active /\ generations' = Append(generations, g)
        /\ UNCHANGED <<remote, attempt, checkpoints, pc, item>>
    BY <1>1 DEF Build, records, process
  <2> QED
    BY <2>1, <2>4, <2>5, <2>6, NewGeneration
<1>2. CASE LocalGC
  <2> DEFINE unrooted == {q \in Payload \ (Referenced \union PublicationRoots) : Built[q] # None}
             g == [q \in Path |-> IF q \in unrooted THEN None ELSE Built[q]]
  <2>1. /\ unrooted # {} /\ generations' = Append(generations, g)
        /\ UNCHANGED <<remote, attempt, checkpoints, pc, item>>
    BY <1>2 DEF LocalGC, records, process
  <2>2. ~Active
    <3> SUFFICES ASSUME Active PROVE FALSE
      OBVIOUS
    <3>1. attempt.generation = Len(generations) /\ attempt.generation # 0
      BY <1>0 DEF PublicationInv, AttemptSound, RollForwardSource, TypeOK
    <3>2. TargetManifest = Built
      BY <3>1, <1>0 DEF TargetManifest, Built, TypeOK
    <3> QED
      BY <2>1, <3>2 DEF PublicationRoots
  <2>3. g \in Tree
    BY <1>0 DEF Tree, Object
  <2>5. \A q \in Metadata \union Pointer : q \in Path /\ g[q] = Built[q]
    BY DEF Path
  <2>6. Closed(Built)
    BY <1>a DEF PublicationInv, GenerationsSound, Closed, Path
  <2>7. Closed(g)
    <3> SUFFICES ASSUME NEW p \in Pointer, g[p] # None, NEW f \in Closure[p][g[p]]
                 PROVE  g[f[1]] = f[2]
      BY DEF Closed
    <3>1. g[p] = Built[p] /\ Built[p] \in Content
      BY <1>0, <2>5 DEF Tree, Object, Path
    <3>2. Built[f[1]] = f[2] /\ f[1] \in Referenced
      BY <3>1, <2>6 DEF Closed, Referenced
    <3>3. f[1] \in Path
      BY <3>1 DEF Immutable, Path
    <3> QED
      BY <3>2, <3>3
  <2>8. \A q \in Metadata : g[q] # None => \E m \in Catalogue : m[q] = g[q]
    BY <1>a, <2>5 DEF PublicationInv, GenerationsSound
  <2> QED
    BY <2>1, <2>2, <2>3, <2>7, <2>8, NewGeneration
<1> QED
  BY <1>1, <1>2
-----------------------------------------------------------------------------
(* Attempts begin and end *)

\* A new attempt keeps the invariant.
LEMMA NewKeeps ==
  ASSUME PublicationInv, TypeOK', PublishNew
  PROVE  PublicationInv'
<1>0. TypeOK /\ CommandSound /\ ReportsSound /\ HeadInPlace
  BY DEF PublicationInv
<1>1. /\ pc = "idle" /\ ~Active /\ ~PendingReport /\ generations # <<>>
      /\ PlanAccepted(HeadManifest, Built) /\ Built # HeadManifest
      /\ attempt'.phase = "planned" /\ attempt'.base = TargetHead
      /\ attempt'.generation = Len(generations)
      /\ pc' = "payload" /\ item' = item
      /\ UNCHANGED <<generations, remote, checkpoints>>
  BY DEF PublishNew, NewAttempt, EnterPublish
<1>2. /\ \A k \in 0 .. TargetHead : ManifestOf(k)' = ManifestOf(k)
      /\ TargetHead' = TargetHead
      /\ HeadManifest' = HeadManifest
  <2>1. TargetHead' = TargetHead /\ TargetHead <= TargetHead' /\ Len(generations) <= Len(generations')
    BY <1>0, <1>1 DEF TypeOK, TargetHead
  <2> QED
    BY <1>0, <1>1, <2>1, SameManifests
<1>3. BaseManifest' = HeadManifest
  BY <1>1, <1>2 DEF BaseManifest, HeadManifest
<1>4. TargetManifest' = Built
  BY <1>0, <1>1 DEF TargetManifest, Built, TypeOK
<1>5. GenerationsSound'
  BY <1>1 DEF PublicationInv, GenerationsSound
<1>6. CommandSound'
  BY <1>0, <1>1 DEF CommandSound, Active
<1>7. AttemptSound'
  BY <1>1, <1>2, <1>3, <1>4 DEF AttemptSound, RollForwardSource, Active, PlanAccepted, Writes
<1>8. ReportsSound'
  BY <1>0, <1>1, <1>2 DEF ReportsSound, PendingReport, CandidatesUnserved, Active, TargetHead
<1>9. ClaimsInPlace'
  BY <1>1, Ranks DEF ClaimsInPlace
<1>10. HeadInPlace'
  BY <1>0, <1>1, <1>2 DEF HeadInPlace, Rolling, Committed
<1> QED
  BY <1>5, <1>6, <1>7, <1>8, <1>9, <1>10 DEF PublicationInv

\* An attempt that ends without a change at the target keeps the invariant.
LEMMA EndOfAttempt ==
  ASSUME PublicationInv, TypeOK', ~Rolling, attempt'.phase = "none",
         pc' = "idle", item' = 0, CandidatesUnserved',
         UNCHANGED <<generations, remote>>,
         TargetHead' = TargetHead,
         \A k \in 1 .. TargetHead : checkpoints'[k].generation = checkpoints[k].generation
  PROVE  PublicationInv'
<1>1. TypeOK /\ TargetHead <= TargetHead' /\ Len(generations) <= Len(generations')
  BY DEF PublicationInv, TypeOK, TargetHead
<1>2. HeadManifest' = HeadManifest
  BY <1>1, SameManifests
<1>3. GenerationsSound'
  BY DEF PublicationInv, GenerationsSound
<1>4. CommandSound' /\ AttemptSound' /\ ReportsSound' /\ ClaimsInPlace'
  BY Ranks DEF CommandSound, AttemptSound, RollForwardSource, ReportsSound, ClaimsInPlace, Active
<1>5. HeadInPlace'
  BY <1>2 DEF PublicationInv, HeadInPlace
<1> QED
  BY <1>3, <1>4, <1>5 DEF PublicationInv

\* Abandoning keeps the invariant.
LEMMA AbandonKeeps ==
  ASSUME PublicationInv, TypeOK', Abandon
  PROVE  PublicationInv'
<1>0. TypeOK /\ CommandSound /\ ReportsSound
  BY DEF PublicationInv
<1>1. /\ pc = "idle" /\ pc' = pc /\ item' = item /\ PreCommit /\ attempt'.phase = "none"
      /\ UNCHANGED <<generations, remote, checkpoints>>
  BY DEF Abandon, NoAttempt, process
<1>2. item' = 0 /\ ~Rolling
  BY <1>0, <1>1 DEF CommandSound, Rolling, Committed
<1>3. \A k \in 0 .. TargetHead : ManifestOf(k)' = ManifestOf(k)
  BY <1>0, <1>1, SameManifests DEF TypeOK, TargetHead
<1>4. CandidatesUnserved' /\ TargetHead' = TargetHead
  BY <1>0, <1>1, <1>3 DEF ReportsSound, CandidatesUnserved, TargetHead
<1> QED
  BY <1>1, <1>2, <1>4, EndOfAttempt

\* Writing the checkpoint makes the attempt's target the served head.
LEMMA CheckpointKeeps ==
  ASSUME PublicationInv, TypeOK', PutAppliedCheckpoint
  PROVE  PublicationInv'
<1>0. TypeOK /\ CommandSound /\ AttemptSound /\ ReportsSound /\ ClaimsInPlace /\ HeadInPlace
  BY DEF PublicationInv
<1>1. /\ pc = "apply" /\ attempt.phase = "verified" /\ attempt.base = TargetHead
      /\ \A q \in PlanWrites : remote[q] = TargetManifest[q]
      /\ attempt'.phase = "applied" /\ attempt'.base = attempt.base
      /\ attempt'.generation = attempt.generation
      /\ pc' = "grace" /\ item' = item
      /\ UNCHANGED <<generations, remote>>
  BY <1>0 DEF PutAppliedCheckpoint, TypeOK, Attempt
<1>2. /\ TargetHead \in Nat /\ TargetHead' = TargetHead + 1
      /\ \A k \in 1 .. TargetHead : checkpoints'[k] = checkpoints[k]
      /\ checkpoints'[TargetHead'].generation = attempt.generation
      /\ checkpoints'[TargetHead'].reported = FALSE
  BY <1>0 DEF PutAppliedCheckpoint, TypeOK, TargetHead
<1>3. /\ \A k \in 0 .. TargetHead : ManifestOf(k)' = ManifestOf(k)
      /\ BaseManifest' = BaseManifest /\ TargetManifest' = TargetManifest /\ PlanWrites' = PlanWrites
  <2>1. TargetHead <= TargetHead' /\ Len(generations) <= Len(generations')
    BY <1>0, <1>1, <1>2 DEF TypeOK
  <2> QED
    BY <1>0, <1>1, <1>2, <2>1, SameManifests
<1>4. HeadManifest' = TargetManifest /\ BaseManifest = HeadManifest
  <2>1. attempt.generation # 0
    BY <1>0, <1>1 DEF TypeOK, Active
  <2> QED
    BY <1>1, <1>2, <2>1 DEF HeadManifest, BaseManifest, ManifestOf, TargetManifest
<1>5. GenerationsSound'
  BY <1>1 DEF PublicationInv, GenerationsSound
<1>6. CommandSound'
  BY <1>0, <1>1 DEF CommandSound
<1>7. AttemptSound'
  BY <1>0, <1>1, <1>2 DEF AttemptSound, RollForwardSource, Active
<1>8. ReportsSound'
  <2>1. \A k \in 1 .. TargetHead : ~(checkpoints[k].reported /\ checkpoints[k].phase # "done")
    BY <1>0, <1>1 DEF ReportsSound, PendingReport, Active
  <2>2. \A k \in 1 .. TargetHead' : ~(checkpoints'[k].reported /\ checkpoints'[k].phase # "done")
    BY <1>2, <2>1
  <2> QED
    BY <1>2, <2>2 DEF ReportsSound, PendingReport, CandidatesUnserved
<1>9. ClaimsInPlace'
  BY <1>0, <1>1, <1>3, Ranks DEF ClaimsInPlace
<1>10. ASSUME NEW q \in Path, TargetManifest[q] # None \/ q \in Pointer
       PROVE  remote[q] = TargetManifest[q]
  <2>1. CASE q \in PlanWrites
    BY <1>1, <2>1
  <2>2. CASE q \notin PlanWrites
    <3>1. TargetManifest[q] = BaseManifest[q]
      BY <1>0, <1>1, <1>10, <2>2 DEF AttemptSound, Active, PlanAccepted, PlanWrites, Writes
    <3> QED
      BY <1>0, <1>4, <1>10, <2>2, <3>1 DEF HeadInPlace
  <2> QED
    BY <2>1, <2>2
<1>11. HeadInPlace'
  BY <1>1, <1>4, <1>10 DEF HeadInPlace
<1> QED
  BY <1>5, <1>6, <1>7, <1>8, <1>9, <1>11 DEF PublicationInv
\* The grace record ends the attempt and keeps the invariant.
LEMMA GraceKeeps ==
  ASSUME PublicationInv, TypeOK', PutGraceRecord
  PROVE  PublicationInv'
<1>0. TypeOK /\ CommandSound /\ ReportsSound
  BY DEF PublicationInv
<1>1. /\ attempt.phase = "applied" /\ attempt'.phase = "none"
      /\ pc' = "idle" /\ item' = 0
      /\ UNCHANGED <<generations, remote>>
  BY DEF PutGraceRecord, NoAttempt, Idle
<1>2. /\ TargetHead' = TargetHead
      /\ \A k \in 1 .. TargetHead : /\ checkpoints'[k].generation = checkpoints[k].generation
                                    /\ checkpoints'[k].reported = checkpoints[k].reported
                                    /\ k # TargetHead => checkpoints'[k] = checkpoints[k]
  BY <1>0, GraceRecorded
<1>3. \A k \in 1 .. TargetHead : checkpoints[k].reported => checkpoints[k].phase = "done" /\ k # TargetHead
  BY <1>0, <1>1 DEF ReportsSound, PendingReport, Active
<1>4. CandidatesUnserved'
  BY <1>2, <1>3 DEF CandidatesUnserved
<1> QED
  BY <1>1, <1>2, <1>4, EndOfAttempt DEF Rolling

-----------------------------------------------------------------------------
(* Writes *)

\* Manifests are complete, and agree on checksum-addressed metadata.
LEMMA ManifestsSound ==
  ASSUME PublicationInv
  PROVE  /\ Closed(HeadManifest) /\ Closed(TargetManifest)
         /\ \A q \in Metadata : BaseManifest[q] # None /\ TargetManifest[q] # None =>
              BaseManifest[q] = TargetManifest[q]
<1> DEFINE Sound(t) == /\ Closed(t)
                       /\ \A q \in Metadata : t[q] # None => \E m \in Catalogue : m[q] = t[q]
<1>0. TypeOK /\ GenerationsSound
  BY DEF PublicationInv
<1>1. Sound(EmptyTree)
  BY DEF EmptyTree, Closed, Path
<1>2. \A i \in 1 .. Len(generations) : Sound(generations[i])
  BY <1>0 DEF GenerationsSound
<1>3. ASSUME NEW k \in 0 .. TargetHead
      PROVE  Sound(ManifestOf(k))
  <2>1. CASE k = 0
    BY <1>1, <2>1 DEF ManifestOf
  <2>2. CASE k # 0
    <3>1. checkpoints[k].generation \in 1 .. Len(generations)
      BY <1>0, <2>2 DEF TypeOK, TargetHead
    <3>2. Sound(generations[checkpoints[k].generation])
      BY <1>2, <3>1
    <3> QED
      BY <2>2, <3>2 DEF ManifestOf
  <2> QED
    BY <2>1, <2>2
<1>4. TargetHead \in 0 .. TargetHead /\ attempt.base \in 0 .. TargetHead
  BY <1>0 DEF TypeOK, Attempt, TargetHead
<1>5. Sound(HeadManifest) /\ Sound(BaseManifest)
  BY <1>3, <1>4 DEF HeadManifest, BaseManifest
<1>6. Sound(TargetManifest)
  <2>1. CASE attempt.generation = 0
    BY <1>1, <2>1 DEF TargetManifest
  <2>2. CASE attempt.generation # 0
    <3>1. attempt.generation \in 1 .. Len(generations)
      BY <1>0, <2>2 DEF TypeOK, Attempt
    <3>2. Sound(generations[attempt.generation])
      BY <1>2, <3>1
    <3> QED
      BY <2>2, <3>2 DEF TargetManifest
  <2> QED
    BY <2>1, <2>2
<1>7. ASSUME NEW q \in Metadata, BaseManifest[q] # None, TargetManifest[q] # None
      PROVE  BaseManifest[q] = TargetManifest[q]
  <2>1. PICK m1 \in Catalogue : m1[q] = BaseManifest[q]
    BY <1>5, <1>7
  <2>2. PICK m2 \in Catalogue : m2[q] = TargetManifest[q]
    BY <1>6, <1>7
  <2> QED
    BY <1>7, <2>1, <2>2, CatalogueAssumption
<1> QED
  BY <1>5, <1>6, <1>7

\* The commands that write one planned file.
PutStep == PutPayload \/ PutMetadata \/ PutAlias \/ PutPointer

\* What is known of a planned write when it happens: an immutable file is
\* created where there is none, anything else is written under commit intent.
LEMMA InstallFacts ==
  ASSUME PublicationInv, PutStep
  PROVE  \E q \in PlanWrites :
           /\ Stage(q) \/ Install(q)
           /\ Active /\ attempt.phase # "applied" /\ HeadManifest = BaseManifest
           /\ \/ q \in Immutable /\ BaseManifest[q] = None /\ remote[q] = None
              \/ q \in Path \ Immutable /\ Rolling
<1>0. TypeOK /\ CommandSound /\ AttemptSound
  BY DEF PublicationInv
<1>1. PICK q \in Path :
        /\ q \in PlanWrites /\ Put(q) /\ PutAllowed(q)
        /\ \/ pc \in {"payload", "metadata"} /\ q \in Immutable
           \/ pc \in {"aliases", "pointers"} /\ q \in Alias \union Pointer
  BY DEF PutStep, PutPayload, PutMetadata, PutAlias, PutPointer, FirstIn, Missing, PointersToDo, PlanViews,
         Put, Stage, Install, Path, Immutable
<1>2. Active /\ attempt.phase # "applied"
  BY <1>0, <1>1 DEF CommandSound
<1>3. HeadManifest = BaseManifest
  BY <1>0, <1>2 DEF AttemptSound, RollForwardSource, HeadManifest, BaseManifest
<1>4. CASE q \in Immutable
  <2>1. BaseManifest[q] = None
    <3> SUFFICES ASSUME BaseManifest[q] # None PROVE FALSE
      OBVIOUS
    <3>1. q \in Metadata /\ TargetManifest[q] # None /\ TargetManifest[q] # BaseManifest[q]
      BY <1>1, <1>4 DEF PutAllowed, PlanWrites, Writes, Immutable
    <3> QED
      BY <3>1, ManifestsSound
  <2> QED
    BY <1>1, <1>2, <1>3, <1>4, <2>1 DEF PutAllowed, Put
<1>5. CASE q \notin Immutable
  BY <1>0, <1>1, <1>2, <1>3, <1>5 DEF CommandSound, Rolling, Put
<1> QED
  BY <1>4, <1>5

\* Writing a planned file keeps the invariant.
LEMMA PutKeeps ==
  ASSUME PublicationInv, TypeOK', PutStep
  PROVE  PublicationInv'
<1>0. TypeOK /\ CommandSound /\ AttemptSound /\ ReportsSound /\ ClaimsInPlace /\ HeadInPlace
  BY DEF PublicationInv
<1>1. PICK q \in PlanWrites :
        /\ Stage(q) \/ Install(q)
        /\ Active /\ attempt.phase # "applied" /\ HeadManifest = BaseManifest
        /\ \/ q \in Immutable /\ BaseManifest[q] = None /\ remote[q] = None
           \/ q \in Path \ Immutable /\ Rolling
  BY InstallFacts
<1>2. CASE Stage(q)
  <2>1. q \in Path
    BY DEF PlanWrites, Writes
  <2> QED
    BY <1>2, <2>1, QuietKeeps DEF QuietCommand
<1>3. CASE Install(q)
  <2>1. /\ remote' = [remote EXCEPT ![q] = TargetManifest[q]]
        /\ UNCHANGED <<generations, attempt, checkpoints, pc, item>>
    BY <1>3 DEF Install, records, process
  <2>2. /\ \A k \in 0 .. TargetHead : ManifestOf(k)' = ManifestOf(k)
        /\ TargetHead' = TargetHead /\ HeadManifest' = HeadManifest
        /\ BaseManifest' = BaseManifest /\ TargetManifest' = TargetManifest
        /\ PlanWrites' = PlanWrites
    BY <1>0, <2>1, SameManifests DEF TypeOK, TargetHead
  <2>3. q \in Path /\ remote \in [Path -> Object]
    BY <1>0 DEF PlanWrites, Writes, TypeOK, Tree
  <2>4. GenerationsSound'
    BY <2>1 DEF PublicationInv, GenerationsSound
  <2>5. CommandSound'
    BY <1>0, <2>1 DEF CommandSound, Committed, PreCommit, Active
  <2>6. AttemptSound'
    BY <1>0, <2>1, <2>2 DEF AttemptSound, RollForwardSource, Active, PlanAccepted, Writes
  <2>7. ReportsSound'
    BY <1>0, <2>1, <2>2 DEF ReportsSound, PendingReport, CandidatesUnserved, Active, TargetHead
  <2>8. ClaimsInPlace'
    <3>1. \A r \in PlanWrites : remote[r] = TargetManifest[r] => remote'[r] = TargetManifest[r]
      BY <2>1, <2>3 DEF PlanWrites, Writes
    <3> QED
      BY <1>0, <2>1, <2>2, <3>1 DEF ClaimsInPlace
  <2>9. HeadInPlace'
    <3> SUFFICES ASSUME NEW r \in Path, HeadManifest[r] # None \/ r \in Pointer
                 PROVE  \/ remote'[r] = HeadManifest[r]
                        \/ Rolling /\ r \in PlanWrites \ Immutable /\ remote'[r] = TargetManifest[r]
      BY <2>1, <2>2 DEF HeadInPlace, Rolling, Committed, PreCommit, Active
    <3>1. CASE r # q
      BY <1>0, <2>1, <2>3, <3>1 DEF HeadInPlace
    <3>2. CASE r = q
      <4>1. q \notin Immutable /\ Rolling
        BY <1>1, <3>2, ConstantsAssumption DEF Immutable
      <4> QED
        BY <2>1, <2>3, <3>2, <4>1
    <3> QED
      BY <3>1, <3>2
  <2> QED
    BY <2>4, <2>5, <2>6, <2>7, <2>8, <2>9 DEF PublicationInv
<1> QED
  BY <1>1, <1>2, <1>3
-----------------------------------------------------------------------------
(* Maintenance *)

\* The candidates of record c are those of a pending report or fresh ones.
CandidatesFrom(k, c) ==
  \/ c.phase # "grace"
  \/ checkpoints[k].phase = "grace" /\ checkpoints[k].reported = TRUE
     /\ c.candidates = checkpoints[k].candidates
  \/ checkpoints[k].phase = "grace" /\ c.candidates = ExactCandidates(k)

\* The command works on nothing, or on the pending report k.
WorksOn(k, c) ==
  \/ item' = 0
  \/ item' = k /\ c.reported = TRUE /\ c.phase = "grace"

\* A gc step that changes one checkpoint's maintenance record keeps the
\* invariant, as long as pending candidates stay unserved.
LEMMA ReportKeeps ==
  ASSUME PublicationInv, TypeOK', pc = "gc", pc' = pc,
         NEW k \in 1 .. TargetHead, NEW c \in Checkpoint,
         c.generation = checkpoints[k].generation,
         checkpoints' = [checkpoints EXCEPT ![k] = c],
         UNCHANGED <<generations, remote, attempt>>,
         CandidatesFrom(k, c), WorksOn(k, c)
  PROVE  PublicationInv'
<1>0. TypeOK /\ CommandSound /\ ReportsSound /\ HeadInPlace
  BY DEF PublicationInv
<1>1. /\ TargetHead' = TargetHead
      /\ checkpoints'[k] = c
      /\ \A j \in 1 .. TargetHead : j # k => checkpoints'[j] = checkpoints[j]
  BY <1>0, ChangeCheckpoint
<1>2. \A j \in 1 .. TargetHead : checkpoints'[j].generation = checkpoints[j].generation
  BY <1>1
<1>3. /\ \A j \in 0 .. TargetHead : ManifestOf(j)' = ManifestOf(j)
      /\ HeadManifest' = HeadManifest
  <2>1. TargetHead <= TargetHead' /\ Len(generations) <= Len(generations')
    BY <1>0, <1>1 DEF TypeOK, TargetHead
  <2> QED
    BY <1>0, <1>1, <1>2, <2>1, SameManifests
<1>4. ~Active /\ ~Active'
  BY <1>0 DEF CommandSound, Active
<1>5. GenerationsSound'
  BY DEF PublicationInv, GenerationsSound
<1>6. CommandSound'
  BY <1>1, <1>4 DEF CommandSound, WorksOn
<1>7. AttemptSound'
  BY <1>4 DEF AttemptSound, RollForwardSource
<1>8. CandidatesUnserved'
  <2> SUFFICES ASSUME NEW i \in 1 .. TargetHead, checkpoints'[i].reported, checkpoints'[i].phase = "grace",
                      NEW f \in checkpoints'[i].candidates, NEW j \in 1 .. TargetHead,
                      j = TargetHead \/ checkpoints'[j].phase = "grace"
               PROVE  ManifestOf(j)[f[1]] = None
    BY <1>1, <1>3 DEF CandidatesUnserved
  <2>1. i # k \/ c.phase = "grace"
    BY <1>1
  <2>2. j = TargetHead \/ checkpoints[j].phase = "grace"
    BY <1>1 DEF CandidatesFrom
  <2>3. CASE \/ i # k
             \/ /\ checkpoints[k].phase = "grace" /\ checkpoints[k].reported = TRUE
                /\ c.candidates = checkpoints[k].candidates
    BY <1>0, <1>1, <2>1, <2>2, <2>3 DEF ReportsSound, CandidatesUnserved
  <2>4. CASE i = k /\ c.candidates = ExactCandidates(k)
    <3>1. f \in ExactCandidates(k)
      BY <1>1, <2>4
    <3>2. InventoryOf(k) \in Tree
      BY <1>0, TreeTypes DEF TypeOK, TargetHead
    <3>3. f[1] \in Path /\ f[1] \notin ProtectedPaths(k)
      BY <3>1, <3>2, FilesType DEF ExactCandidates
    <3> QED
      BY <2>2, <3>3 DEF ProtectedPaths
  <2> QED
    BY <1>1, <2>1, <2>3, <2>4 DEF CandidatesFrom
<1>9. ReportsSound'
  BY <1>4, <1>8 DEF ReportsSound, Active
<1>10. ClaimsInPlace'
  BY <1>4, Ranks DEF ClaimsInPlace, Active
<1>11. HeadInPlace'
  BY <1>0, <1>3, <1>4 DEF HeadInPlace, Rolling, Committed
<1> QED
  BY <1>5, <1>6, <1>7, <1>9, <1>10, <1>11 DEF PublicationInv

\* Deleting a candidate keeps the invariant: the head does not have its path.
LEMMA DeleteKeeps ==
  ASSUME PublicationInv, TypeOK', NEW q \in Path, DeleteConditional(q)
  PROVE  PublicationInv' /\ HeadManifest[q] = None /\ q \notin Pointer /\ ~Active
<1>0. TypeOK /\ CommandSound /\ ReportsSound /\ HeadInPlace
  BY DEF PublicationInv
<1>1. /\ item # 0 /\ remote[q] # None /\ <<q, remote[q]>> \in checkpoints[item].candidates
      /\ remote' = [remote EXCEPT ![q] = None]
      /\ UNCHANGED <<generations, attempt, checkpoints, pc, item>>
  BY DEF DeleteConditional, records, process
<1>2. /\ \A k \in 0 .. TargetHead : ManifestOf(k)' = ManifestOf(k)
      /\ TargetHead' = TargetHead /\ HeadManifest' = HeadManifest
  BY <1>0, <1>1, SameManifests DEF TypeOK, TargetHead
<1>3. ~Active /\ ~Active' /\ checkpoints[item].reported /\ checkpoints[item].phase = "grace"
  BY <1>0, <1>1 DEF CommandSound, Active
<1>4. HeadManifest[q] = None
  <2>1. item \in 1 .. TargetHead /\ TargetHead \in 1 .. TargetHead
    BY <1>0, <1>1 DEF TypeOK, TargetHead
  <2> QED
    BY <1>0, <1>1, <1>3, <2>1 DEF ReportsSound, CandidatesUnserved, HeadManifest
<1>5. GenerationsSound'
  BY <1>1 DEF PublicationInv, GenerationsSound
<1>6. CommandSound'
  BY <1>0, <1>1 DEF CommandSound, Committed, PreCommit, Active
<1>7. AttemptSound'
  BY <1>3 DEF AttemptSound, RollForwardSource
<1>8. ReportsSound'
  BY <1>0, <1>1, <1>2, <1>3 DEF ReportsSound, PendingReport, CandidatesUnserved, Active, TargetHead
<1>9. ClaimsInPlace'
  BY <1>3, Ranks DEF ClaimsInPlace, Active
<1>10. HeadInPlace'
  <2>1. remote \in [Path -> Object]
    BY <1>0 DEF TypeOK, Tree
  <2> QED
    BY <1>0, <1>1, <1>2, <1>3, <1>4, <2>1 DEF HeadInPlace, Rolling, Committed
<1>11. q \notin Pointer
  BY <1>0, <1>1, <1>3, <1>4 DEF HeadInPlace, Rolling, Committed
<1> QED
  BY <1>3, <1>4, <1>5, <1>6, <1>7, <1>8, <1>9, <1>10, <1>11 DEF PublicationInv

\* The other steps of target gc keep the invariant.
LEMMA MaintainKeeps ==
  ASSUME PublicationInv, TypeOK', Maintain
  PROVE  PublicationInv'
<1>0. TypeOK /\ CommandSound
  BY DEF PublicationInv
<1>1. CASE TargetGC \/ GCEnd \/ \E k \in todo : GCSkip(k) \/ OpenReport(k)
  BY <1>1, QuietKeeps DEF QuietCommand
<1>2. ASSUME NEW k \in todo, PutCandidateReport(k)
      PROVE  PublicationInv'
  <2> DEFINE c == [checkpoints[k] EXCEPT !.reported = TRUE, !.candidates = ExactCandidates(k)]
  <2>1. k \in 1 .. TargetHead /\ checkpoints[k] \in Checkpoint
    BY <1>0 DEF TypeOK, TargetHead
  <2>2. ExactCandidates(k) \in SUBSET (Path \X Content)
    <3>1. InventoryOf(k) \in Tree
      BY <1>0, <2>1, TreeTypes DEF TargetHead, TypeOK
    <3> QED
      BY <3>1, FilesType DEF ExactCandidates
  <2>3. c \in Checkpoint /\ c.generation = checkpoints[k].generation /\ c.candidates = ExactCandidates(k)
    BY <2>1, <2>2 DEF Checkpoint
  <2>4. /\ checkpoints' = [checkpoints EXCEPT ![k] = c]
        /\ pc = "gc" /\ pc' = pc /\ item' = 0 /\ checkpoints[k].phase = "grace"
        /\ UNCHANGED <<generations, remote, attempt>>
    BY <1>2 DEF PutCandidateReport, NextItem, Due, process
  <2> HIDE DEF c
  <2>5. CandidatesFrom(k, c) /\ WorksOn(k, c)
    BY <2>3, <2>4 DEF CandidatesFrom, WorksOn
  <2> QED
    BY <2>1, <2>3, <2>4, <2>5, ReportKeeps
<1>3. ASSUME NEW k \in todo, CompleteAttempt(k)
      PROVE  PublicationInv'
  <2> DEFINE c == [checkpoints[k] EXCEPT !.phase = "done"]
  <2>1. k \in 1 .. TargetHead /\ checkpoints[k] \in Checkpoint
    BY <1>0 DEF TypeOK, TargetHead
  <2>2. c \in Checkpoint /\ c.generation = checkpoints[k].generation /\ c.phase # "grace"
    BY <2>1 DEF Checkpoint
  <2>3. /\ checkpoints' = [checkpoints EXCEPT ![k] = c]
        /\ pc = "gc" /\ pc' = pc /\ item' = 0
        /\ UNCHANGED <<generations, remote, attempt>>
    BY <1>3 DEF CompleteAttempt, NextItem
  <2> HIDE DEF c
  <2>4. CandidatesFrom(k, c) /\ WorksOn(k, c)
    BY <2>2, <2>3 DEF CandidatesFrom, WorksOn
  <2> QED
    BY <2>1, <2>2, <2>3, <2>4, ReportKeeps
<1>4. ASSUME NEW q \in Path, PutDeletionReceipt(q)
      PROVE  PublicationInv'
  <2> DEFINE c == [checkpoints[item] EXCEPT !.receipts =
                     @ \union {f \in checkpoints[item].candidates : f[1] = q}]
  <2>1. item \in 1 .. TargetHead /\ checkpoints[item] \in Checkpoint
    BY <1>0, <1>4 DEF PutDeletionReceipt, TypeOK, TargetHead
  <2>2. pc = "gc" /\ checkpoints[item].reported = TRUE /\ checkpoints[item].phase = "grace"
    BY <1>0, <1>4, <2>1 DEF PutDeletionReceipt, CommandSound, Checkpoint
  <2>3. /\ c \in Checkpoint /\ c.generation = checkpoints[item].generation
        /\ c.candidates = checkpoints[item].candidates /\ c.reported = TRUE /\ c.phase = "grace"
    BY <2>1, <2>2 DEF Checkpoint
  <2>4. /\ checkpoints' = [checkpoints EXCEPT ![item] = c]
        /\ pc' = pc /\ item' = item
        /\ UNCHANGED <<generations, remote, attempt>>
    BY <1>4 DEF PutDeletionReceipt, process
  <2> HIDE DEF c
  <2>5. CandidatesFrom(item, c) /\ WorksOn(item, c)
    BY <2>2, <2>3, <2>4 DEF CandidatesFrom, WorksOn
  <2> QED
    BY <2>1, <2>2, <2>3, <2>4, <2>5, ReportKeeps
<1>5. CASE MarkReportTerminal
  <2> DEFINE c == [checkpoints[item] EXCEPT !.phase =
                     IF Provider = "filesystem" THEN "deletion_verified" ELSE "retained_reported"]
  <2>1. item \in 1 .. TargetHead /\ checkpoints[item] \in Checkpoint
    BY <1>0, <1>5 DEF MarkReportTerminal, TypeOK, TargetHead
  <2>2. c \in Checkpoint /\ c.generation = checkpoints[item].generation /\ c.phase # "grace"
    BY <2>1 DEF Checkpoint
  <2>3. /\ checkpoints' = [checkpoints EXCEPT ![item] = c]
        /\ pc = "gc" /\ pc' = pc /\ item' = 0
        /\ UNCHANGED <<generations, remote, attempt>>
    BY <1>0, <1>5 DEF MarkReportTerminal, CommandSound
  <2> HIDE DEF c
  <2>4. CandidatesFrom(item, c) /\ WorksOn(item, c)
    BY <2>2, <2>3 DEF CandidatesFrom, WorksOn
  <2> QED
    BY <2>1, <2>2, <2>3, <2>4, ReportKeeps
<1>6. ASSUME NEW q \in Path, DeleteConditional(q)
      PROVE  PublicationInv'
  BY <1>6, DeleteKeeps
<1> QED
  BY <1>1, <1>2, <1>3, <1>4, <1>5, <1>6 DEF Maintain

-----------------------------------------------------------------------------
(* The theorems *)

\* The invariant is inductive.
THEOREM Invariance == Spec => []PublicationInv
<1>1. Init => PublicationInv
  <2> SUFFICES ASSUME Init PROVE PublicationInv
    OBVIOUS
  <2>1. TypeOK
    <3>1. EmptyTree \in Tree
      BY DEF EmptyTree, Tree, Object
    <3> QED
      BY <3>1, ConstantsAssumption
         DEF Init, TypeOK, NoAttempt, Active, Attempt, AttemptPhase, ViewState, TargetHead
  <2>2. generations = <<>> /\ checkpoints = <<>> /\ TargetHead = 0 /\ HeadManifest = EmptyTree
        /\ remote = EmptyTree /\ attempt.phase = "none" /\ pc = "idle" /\ item = 0
    BY DEF Init, TargetHead, HeadManifest, ManifestOf, NoAttempt
  <2>3. GenerationsSound /\ CommandSound /\ AttemptSound /\ ReportsSound
    BY <2>2 DEF GenerationsSound, CommandSound, AttemptSound, RollForwardSource, ReportsSound,
                CandidatesUnserved, Active
  <2>4. ClaimsInPlace /\ HeadInPlace
    BY <2>2, Ranks DEF ClaimsInPlace, HeadInPlace
  <2> QED
    BY <2>1, <2>3, <2>4 DEF PublicationInv
<1>2. PublicationInv /\ TypeOK' /\ [Next]_vars => PublicationInv'
  <2> SUFFICES ASSUME PublicationInv, TypeOK', [Next]_vars PROVE PublicationInv'
    OBVIOUS
  <2>1. CASE Local
    BY <2>1, LocalKeeps, QuietKeeps DEF Local, QuietCommand
  <2>2. CASE Publish
    BY <2>2, NewKeeps, QuietKeeps, AdvanceKeeps, PutKeeps, CheckpointKeeps, GraceKeeps
       DEF Publish, QuietCommand, PutStep
  <2>3. CASE Tick \/ Stop \/ UNCHANGED vars
    BY <2>3, QuietKeeps DEF QuietCommand
  <2> QED
    BY <2>1, <2>2, <2>3, AbandonKeeps, MaintainKeeps DEF Next
<1> QED
  BY <1>1, <1>2, TypeCorrect, PTL DEF Spec
\* Under the invariant, files that served pointers name are at the target.
LEMMA ServedFilesInPlace ==
  ASSUME PublicationInv, NEW p \in Pointer, NEW f,
         \/ HeadManifest[p] # None /\ f \in Closure[p][HeadManifest[p]]
         \/ Rolling /\ TargetManifest[p] # None /\ f \in Closure[p][TargetManifest[p]]
  PROVE  remote[f[1]] = f[2]
<1> USE ConstantsAssumption, CatalogueAssumption
<1>0. TypeOK /\ AttemptSound /\ ClaimsInPlace /\ HeadInPlace
  BY DEF PublicationInv
<1>1. /\ HeadManifest \in [Path -> Object] /\ TargetManifest \in [Path -> Object]
      /\ Closed(HeadManifest) /\ Closed(TargetManifest)
  <2>1. TargetHead \in 0 .. TargetHead
    BY <1>0 DEF TypeOK, TargetHead
  <2> QED
    BY <1>0, <2>1, TreeTypes, ManifestsSound DEF HeadManifest, Tree
<1>2. CASE HeadManifest[p] # None /\ f \in Closure[p][HeadManifest[p]]
  <2>1. HeadManifest[p] \in Content
    BY <1>1, <1>2 DEF Object, Path
  <2>2. f[1] \in Immutable /\ f[2] # None
    BY <1>2, <2>1
  <2>3. HeadManifest[f[1]] = f[2]
    BY <1>1, <1>2 DEF Closed
  <2>4. f[1] \in Path
    BY <2>2 DEF Immutable, Path
  <2> QED
    BY <1>0, <2>2, <2>3, <2>4 DEF HeadInPlace
<1>3. CASE Rolling /\ TargetManifest[p] # None /\ f \in Closure[p][TargetManifest[p]]
  <2>1. TargetManifest[p] \in Content
    BY <1>1, <1>3 DEF Object, Path
  <2>2. f[1] \in Immutable /\ f[2] # None
    BY <1>3, <2>1
  <2>3. TargetManifest[f[1]] = f[2]
    BY <1>1, <1>3 DEF Closed
  <2>4. f[1] \in Path
    BY <2>2 DEF Immutable, Path
  <2>5. CASE f[1] \in PlanWrites
    <3>1. /\ PhaseRank[attempt.phase] >= PhaseRank["payload"]
          /\ PhaseRank[attempt.phase] >= PhaseRank["immutable_metadata"]
      BY <1>0, <1>3, Ranks DEF Rolling, Committed, PreCommit, Active, TypeOK, Attempt, AttemptPhase
    <3>2. remote[f[1]] = TargetManifest[f[1]]
      BY <1>0, <2>2, <2>5, <3>1 DEF ClaimsInPlace, Immutable
    <3> QED
      BY <2>3, <3>2
  <2>6. CASE f[1] \notin PlanWrites
    <3>1. BaseManifest[f[1]] = f[2]
      BY <2>2, <2>3, <2>4, <2>6 DEF PlanWrites, Writes
    <3>2. HeadManifest = BaseManifest
      BY <1>0, <1>3 DEF AttemptSound, RollForwardSource, Rolling, Committed, HeadManifest, BaseManifest
    <3> QED
      BY <1>0, <2>2, <2>4, <3>1, <3>2 DEF HeadInPlace
  <2> QED
    BY <2>5, <2>6
<1> QED
  BY <1>2, <1>3

\* A pointer at the target is the head's, or the target's of a rolling attempt.
LEMMA PointerOrigin ==
  ASSUME PublicationInv, NEW p \in Pointer
  PROVE  \/ remote[p] = HeadManifest[p]
         \/ Rolling /\ remote[p] = TargetManifest[p]
BY DEF PublicationInv, HeadInPlace, Path

\* At every moment every pointer a client can fetch names only files that are
\* at the target, for all interleavings of publish, abandon, gc and crashes.
THEOREM ReaderClosureHolds == Spec => []ReaderClosure
<1>1. PublicationInv => ReaderClosure
  <2> SUFFICES ASSUME PublicationInv, NEW p \in Pointer, remote[p] # None,
                      NEW f \in Closure[p][remote[p]]
               PROVE  remote[f[1]] = f[2]
    BY DEF ReaderClosure, Closed
  <2> QED
    BY PointerOrigin, ServedFilesInPlace
<1> QED
  BY <1>1, Invariance, PTL

\* Until commit intent, and again from the checkpoint on, the target serves
\* the head checkpoint's generation complete.
THEOREM HeadServedHolds == Spec => []HeadServed
<1>1. PublicationInv => HeadServed
  <2> SUFFICES ASSUME PublicationInv, ~Rolling, NEW q \in Path, HeadManifest[q] # None
               PROVE  remote[q] = HeadManifest[q]
    BY DEF HeadServed, Rolling, Files
  <2> QED
    BY DEF PublicationInv, HeadInPlace
<1> QED
  BY <1>1, Invariance, PTL

\* Neither builds nor local gc take an active attempt's source away, and the
\* head moves only with the attempt.
THEOREM RollForwardSourceHolds == Spec => []RollForwardSource
<1>1. PublicationInv => RollForwardSource
  BY DEF PublicationInv, AttemptSound
<1> QED
  BY <1>1, Invariance, PTL

\* Wherever a command was cut short, clients read a closed tree, an undecided
\* attempt has changed nothing they see, and a decided one keeps its source.
THEOREM PublicationSafeHolds == Spec => []PublicationSafe
BY TypeCorrect, ReaderClosureHolds, HeadServedHolds, RollForwardSourceHolds, PTL
   DEF PublicationSafe

\* Pending deletion candidates are never files of the served generation or of
\* one in grace.
THEOREM CandidatesUnservedHolds == Spec => []CandidatesUnserved
<1>1. PublicationInv => CandidatesUnserved
  BY DEF PublicationInv, ReportsSound
<1> QED
  BY <1>1, Invariance, PTL

\* Replacing one checkpoint record is such a step if its history stays.
LEMMA ReportHistory ==
  ASSUME TypeOK, NEW k \in 1 .. TargetHead,
         NEW c \in Checkpoint, c.generation = checkpoints[k].generation,
         checkpoints' = [checkpoints EXCEPT ![k] = c],
         generations' = generations,
         c.inventory = checkpoints[k].inventory,
         c.candidates = checkpoints[k].candidates \/ ~checkpoints[k].reported,
         checkpoints[k].receipts \subseteq c.receipts
  PROVE  HistoryStep
<1>1. /\ TargetHead' = TargetHead
      /\ checkpoints'[k] = c
      /\ \A j \in 1 .. TargetHead : j # k => checkpoints'[j] = checkpoints[j]
  BY ChangeCheckpoint
<1>2. TargetHead \in Nat
  BY DEF TypeOK, TargetHead
<1> QED
  BY <1>1, <1>2 DEF HistoryStep

\* Checkpoints are only appended, for ever newer generations; what they and
\* their reports say never changes.
THEOREM HistoryImmutableHolds == Spec => HistoryImmutable
<1>1. ASSUME PublicationInv, [Next]_vars
      PROVE  HistoryStep
  <2>0. TypeOK /\ AttemptSound /\ TargetHead \in Nat
    BY <1>1 DEF PublicationInv, TypeOK, TargetHead
  <2>1. CASE PutAppliedCheckpoint
    <3>1. /\ TargetHead' = TargetHead + 1
          /\ \A k \in 1 .. TargetHead : checkpoints'[k] = checkpoints[k]
          /\ checkpoints'[TargetHead'].generation = attempt.generation
      BY <2>0, <2>1 DEF PutAppliedCheckpoint, TypeOK, TargetHead
    <3>2. ASSUME TargetHead > 0
          PROVE  attempt.generation > checkpoints[TargetHead].generation
      <4>1. /\ attempt.phase = "verified" /\ attempt.base = TargetHead
            /\ attempt.generation = Len(generations) /\ attempt.generation # 0
            /\ BaseManifest # TargetManifest
        BY <2>0, <2>1 DEF PutAppliedCheckpoint, AttemptSound, RollForwardSource, Active, TypeOK
      <4>2. checkpoints[TargetHead].generation \in 1 .. Len(generations)
        BY <2>0, <3>2 DEF TypeOK
      <4>3. checkpoints[TargetHead].generation # attempt.generation
        BY <3>2, <4>1 DEF BaseManifest, TargetManifest, ManifestOf
      <4> QED
        BY <2>0, <4>1, <4>2, <4>3 DEF TypeOK
    <3> QED
      BY <2>0, <3>1, <3>2 DEF HistoryStep
  <2>2. CASE PutGraceRecord
    BY <2>0, <2>2, GraceRecorded DEF HistoryStep
  <2>3. ASSUME NEW k \in todo, PutCandidateReport(k)
        PROVE  HistoryStep
    <3> DEFINE c == [checkpoints[k] EXCEPT !.reported = TRUE, !.candidates = ExactCandidates(k)]
    <3>1. k \in 1 .. TargetHead /\ checkpoints[k] \in Checkpoint
      BY <2>0 DEF TypeOK, TargetHead
    <3>2. ExactCandidates(k) \in SUBSET (Path \X Content)
      <4>1. InventoryOf(k) \in Tree
        BY <2>0, <3>1, TreeTypes DEF TargetHead, TypeOK
      <4> QED
        BY <4>1, FilesType DEF ExactCandidates
    <3>3. /\ c \in Checkpoint /\ c.generation = checkpoints[k].generation
          /\ c.inventory = checkpoints[k].inventory /\ c.receipts = checkpoints[k].receipts
      BY <3>1, <3>2 DEF Checkpoint
    <3>4. checkpoints' = [checkpoints EXCEPT ![k] = c] /\ ~checkpoints[k].reported /\ generations' = generations
      BY <2>3 DEF PutCandidateReport
    <3> HIDE DEF c
    <3> QED
      BY <2>0, <3>1, <3>3, <3>4, ReportHistory
  <2>4. ASSUME NEW k \in todo, CompleteAttempt(k)
        PROVE  HistoryStep
    <3> DEFINE c == [checkpoints[k] EXCEPT !.phase = "done"]
    <3>1. k \in 1 .. TargetHead /\ checkpoints[k] \in Checkpoint
      BY <2>0 DEF TypeOK, TargetHead
    <3>2. /\ c \in Checkpoint /\ c.generation = checkpoints[k].generation
          /\ c.inventory = checkpoints[k].inventory /\ c.receipts = checkpoints[k].receipts
          /\ c.candidates = checkpoints[k].candidates
      BY <3>1 DEF Checkpoint
    <3>3. checkpoints' = [checkpoints EXCEPT ![k] = c] /\ generations' = generations
      BY <2>4 DEF CompleteAttempt
    <3> HIDE DEF c
    <3> QED
      BY <2>0, <3>1, <3>2, <3>3, ReportHistory
  <2>5. ASSUME NEW q \in Path, PutDeletionReceipt(q)
        PROVE  HistoryStep
    <3> DEFINE c == [checkpoints[item] EXCEPT !.receipts =
                       @ \union {f \in checkpoints[item].candidates : f[1] = q}]
    <3>1. item \in 1 .. TargetHead /\ checkpoints[item] \in Checkpoint
      BY <2>0, <2>5 DEF PutDeletionReceipt, TypeOK, TargetHead
    <3>2. /\ c \in Checkpoint /\ c.generation = checkpoints[item].generation
          /\ c.inventory = checkpoints[item].inventory /\ checkpoints[item].receipts \subseteq c.receipts
          /\ c.candidates = checkpoints[item].candidates
      BY <3>1 DEF Checkpoint
    <3>3. checkpoints' = [checkpoints EXCEPT ![item] = c] /\ generations' = generations
      BY <2>5 DEF PutDeletionReceipt
    <3> HIDE DEF c
    <3> QED
      BY <2>0, <3>1, <3>2, <3>3, ReportHistory
  <2>6. CASE MarkReportTerminal
    <3> DEFINE c == [checkpoints[item] EXCEPT !.phase =
                       IF Provider = "filesystem" THEN "deletion_verified" ELSE "retained_reported"]
    <3>1. item \in 1 .. TargetHead /\ checkpoints[item] \in Checkpoint
      BY <2>0, <2>6 DEF MarkReportTerminal, TypeOK, TargetHead
    <3>2. /\ c \in Checkpoint /\ c.generation = checkpoints[item].generation
          /\ c.inventory = checkpoints[item].inventory /\ c.receipts = checkpoints[item].receipts
          /\ c.candidates = checkpoints[item].candidates
      BY <3>1 DEF Checkpoint
    <3>3. checkpoints' = [checkpoints EXCEPT ![item] = c] /\ generations' = generations
      BY <2>6 DEF MarkReportTerminal
    <3> HIDE DEF c
    <3> QED
      BY <2>0, <3>1, <3>2, <3>3, ReportHistory
  <2>7. ASSUME checkpoints' = checkpoints
        PROVE  HistoryStep
    BY <2>0, <2>7 DEF HistoryStep, TargetHead
  <2>8. CASE Local \/ Tick \/ Abandon \/ Stop \/ UNCHANGED vars
    BY <2>7, <2>8 DEF Local, Build, LocalGC, Rebind, Tick, Abandon, Stop, vars, records
  <2>9. CASE PublishNew \/ PublishResume \/ PublishResumeApplied \/ PutStep
    BY <2>7, <2>9 DEF PublishNew, PublishResume, PublishResumeApplied, records, PutStep,
                      PutPayload, PutMetadata, PutAlias, PutPointer, Put, Stage, Install
  <2>10. CASE \/ PayloadDone \/ MetadataDone \/ PreparePointers \/ SetCommitIntent \/ AliasesDone
              \/ PointersDone \/ ListInventory \/ ViewsVerified
    BY <2>7, <2>10 DEF PayloadDone, MetadataDone, PreparePointers, SetCommitIntent, AliasesDone,
                       PointersDone, ListInventory, ViewsVerified, Goto
  <2>11. CASE PrepareView \/ RecordPointer \/ VerifyView
    BY <2>7, <2>11 DEF PrepareView, RecordPointer, VerifyView, SetViewState
  <2>12. CASE \/ TargetGC \/ GCEnd \/ \E k \in todo : GCSkip(k) \/ OpenReport(k)
              \/ \E q \in Path : DeleteConditional(q)
    BY <2>7, <2>12 DEF TargetGC, GCEnd, GCSkip, OpenReport, DeleteConditional, records
  <2> QED
    BY <1>1, <2>1, <2>2, <2>3, <2>4, <2>5, <2>6, <2>8, <2>9, <2>10, <2>11, <2>12
       DEF Next, Publish, Maintain, PutStep
<1> QED
  BY <1>1, Invariance, PTL DEF Spec, HistoryImmutable

-----------------------------------------------------------------------------
(* Publication implements ReaderContract *)

\* Every step of the system is, for a client, a step of the contract.
THEOREM ReaderContractHolds == Spec => ReaderContractKept
<1>1. Init => Contract!Init
  BY DEF Init, Contract!Init, EmptyTree
<1>2. ASSUME PublicationInv, TypeOK', [Next]_vars
      PROVE  [Contract!Next]_remote
  <2>0. TypeOK /\ HeadInPlace
    BY <1>2 DEF PublicationInv
  <2>1. ASSUME PutStep
        PROVE  [Contract!Next]_remote
    <3>1. PICK q \in PlanWrites :
            /\ Stage(q) \/ Install(q)
            /\ Active /\ attempt.phase # "applied" /\ HeadManifest = BaseManifest
            /\ \/ q \in Immutable /\ BaseManifest[q] = None /\ remote[q] = None
               \/ q \in Path \ Immutable /\ Rolling
      BY <1>2, <2>1, InstallFacts
    <3>2. CASE Stage(q)
      BY <3>2 DEF Stage
    <3>3. CASE Install(q)
      <4>1. remote' = [remote EXCEPT ![q] = TargetManifest[q]]
        BY <3>3 DEF Install
      <4>2. q \in Path /\ TargetManifest[q] \in Content /\ TargetManifest[q] # None
        BY <2>0, TreeTypes DEF PlanWrites, Writes, Tree, Object
      <4>3. CASE q \in Immutable
        <5>1. Contract!Appear(q, TargetManifest[q])
          BY <3>1, <4>1, <4>3 DEF Contract!Appear, Contract!Set
        <5> QED
          BY <4>2, <4>3, <5>1 DEF Contract!Next
      <4>4. CASE q \in Pointer
        <5>1. Rolling
          BY <3>1, <4>4, ConstantsAssumption DEF Immutable
        <5>2. \A f \in Closure[q][TargetManifest[q]] : remote[f[1]] = f[2]
          BY <1>2, <4>2, <4>4, <5>1, ServedFilesInPlace
        <5>3. Contract!Move(q, TargetManifest[q])
          BY <4>1, <4>4, <5>2 DEF Contract!Move, Contract!Set
        <5> QED
          BY <4>2, <4>4, <5>3 DEF Contract!Next
      <4>5. CASE q \notin Immutable \union Pointer
        <5>1. Contract!Replace(q, TargetManifest[q])
          BY <4>1, <4>5 DEF Contract!Replace, Contract!Set
        <5> QED
          BY <4>2, <5>1 DEF Contract!Next
      <4> QED
        BY <4>3, <4>4, <4>5
    <3> QED
      BY <3>1, <3>2, <3>3
  <2>2. ASSUME NEW q \in Path, DeleteConditional(q)
        PROVE  [Contract!Next]_remote
    <3>1. HeadManifest[q] = None /\ q \notin Pointer /\ ~Active
      BY <1>2, <2>2, DeleteKeeps
    <3>2. ASSUME NEW f \in Contract!NamedBy(remote)
          PROVE  f[1] # q
      <4>1. PICK p \in Pointer : remote[p] # None /\ f \in Closure[p][remote[p]]
        BY <3>2 DEF Contract!NamedBy
      <4>2. remote[p] = HeadManifest[p]
        BY <1>2, <3>1, PointerOrigin DEF Rolling, Committed
      <4>3. Closed(HeadManifest) /\ HeadManifest[p] \in Content
        <5>1. TargetHead \in 0 .. TargetHead
          BY <2>0 DEF TypeOK, TargetHead
        <5>2. HeadManifest \in Tree
          BY <2>0, <5>1, TreeTypes DEF HeadManifest
        <5> QED
          BY <1>2, <4>1, <4>2, <5>2, ManifestsSound DEF Tree, Object, Path
      <4>4. HeadManifest[f[1]] = f[2] /\ f[2] # None
        BY <4>1, <4>2, <4>3, ConstantsAssumption, CatalogueAssumption DEF Closed
      <4> QED
        BY <3>1, <4>4
    <3>3. Contract!Collect(q)
      BY <2>2, <3>1, <3>2 DEF DeleteConditional, Contract!Collect, Contract!Set
    <3> QED
      BY <3>3 DEF Contract!Next
  <2>3. CASE Local \/ Tick \/ Abandon \/ Stop \/ UNCHANGED vars
    BY <2>3 DEF Local, Build, LocalGC, Rebind, Tick, Abandon, Stop, vars
  <2>4. CASE PublishNew \/ PublishResume \/ PublishResumeApplied
    BY <2>4 DEF PublishNew, PublishResume, PublishResumeApplied
  <2>5. CASE \/ PayloadDone \/ MetadataDone \/ PreparePointers \/ SetCommitIntent \/ AliasesDone
             \/ PointersDone \/ ListInventory \/ ViewsVerified
    BY <2>5 DEF PayloadDone, MetadataDone, PreparePointers, SetCommitIntent, AliasesDone,
                PointersDone, ListInventory, ViewsVerified, Goto
  <2>6. CASE \/ PrepareView \/ RecordPointer \/ VerifyView \/ PutAppliedCheckpoint \/ PutGraceRecord
    BY <2>6 DEF PrepareView, RecordPointer, VerifyView, SetViewState, PutAppliedCheckpoint, PutGraceRecord
  <2>7. CASE \/ TargetGC \/ MarkReportTerminal \/ GCEnd
             \/ \E k \in todo : GCSkip(k) \/ PutCandidateReport(k) \/ OpenReport(k) \/ CompleteAttempt(k)
             \/ \E q \in Path : PutDeletionReceipt(q)
    BY <2>7 DEF TargetGC, MarkReportTerminal, GCEnd, GCSkip, PutCandidateReport, OpenReport,
                CompleteAttempt, PutDeletionReceipt
  <2> QED
    BY <1>2, <2>1, <2>2, <2>3, <2>4, <2>5, <2>6, <2>7 DEF Next, Publish, Maintain, PutStep
<1> QED
  BY <1>1, <1>2, Invariance, TypeCorrect, PTL DEF Spec, ReaderContractKept, Contract!Spec

-----------------------------------------------------------------------------
(* What is known of every file at the target *)

\* Evidence of an abandoned attempt is of files of its generation at paths
\* whose bytes never change, also not in a later build.
EvidenceSound ==
  \A a \in abandoned :
    /\ a.generation \in 1 .. Len(generations)
    /\ \A x \in a.objects :
         /\ x[1] \in Immutable
         /\ x[2] = generations[a.generation][x[1]]
         /\ x[1] \in Payload => Built[x[1]] \in {None, x[2]}

\* A file is the base's or the target's, or a known orphan, and no file of the
\* base is missing.
Accounted(k) ==
  \A q \in Path :
    LET live == PublicationLiveInventory(k)[q]
    IN /\ remote[q] # None => \/ remote[q] \in {live, TargetManifest[q]}
                              \/ live = None /\ <<q, remote[q]>> \in AbandonedObjects
       /\ live # None => remote[q] # None

\* An interrupted attempt's stages are of its plan, and it meets no file that
\* it does not know.
ResumeSound ==
  Active /\ attempt.phase # "applied" => stages \subseteq PlanWrites /\ Accounted(attempt.base)

\* What publish has listed is what is there until its checkpoint is written.
ListedSound == pc \in {"verify", "apply"} => listed = remote

\* Until its grace record an attempt's checkpoint lists exactly what is there.
AppliedExact == attempt.phase = "applied" => remote = InventoryOf(TargetHead)

\* On r2, where nothing is deleted, the target holds what the head's live
\* inventory lists, and known orphans.
R2Exact ==
  Provider = "r2" =>
    /\ \A k \in 1 .. TargetHead : checkpoints[k].receipts = {}
    /\ ~Active => remote = Recognized(PublicationLiveInventory(TargetHead))

TrackInv ==
  /\ EvidenceSound /\ AbandonedAgree
  /\ ResumeSound
  /\ ListedSound
  /\ NothingUntracked
  /\ AppliedExact
  /\ R2Exact

\* Evidence is of paths and bytes.
LEMMA EvidenceType ==
  ASSUME TypeOK
  PROVE  AbandonedObjects \in SUBSET (Path \X Content)
BY DEF TypeOK, AbandonedObjects

\* This is what requireRecoverableRemoteInventory looks at.
LEMMA RecoverableAccounted ==
  ASSUME TypeOK, NEW k
  PROVE  Recoverable(Recognized(PublicationLiveInventory(k))) <=> Accounted(k)
<1>1. \A q \in Path : <<q, None>> \notin AbandonedObjects
  BY EvidenceType, ConstantsAssumption
<1>2. \A q \in Path :
        Recognized(PublicationLiveInventory(k))[q] =
          IF PublicationLiveInventory(k)[q] = None /\ <<q, remote[q]>> \in AbandonedObjects
          THEN remote[q] ELSE PublicationLiveInventory(k)[q]
  BY DEF Recognized
<1> QED
  BY <1>1, <1>2 DEF Recoverable, Accounted

\* The live inventory has files of the inventory only.
LEMMA LiveListed ==
  ASSUME NEW k, NEW q \in Path
  PROVE  PublicationLiveInventory(k)[q] \in {None, InventoryOf(k)[q]}
BY DEF PublicationLiveInventory

\* A step that changes neither the target, nor the generations, the
\* checkpoints, the evidence and which attempt is active.
LEMMA TrackQuiet ==
  ASSUME PublicationInv, TypeOK', TrackInv, ListedSound',
         UNCHANGED <<generations, remote, checkpoints, abandoned>>,
         attempt'.base = attempt.base, attempt'.generation = attempt.generation,
         Active' <=> Active, attempt'.phase = "applied" <=> attempt.phase = "applied",
         Active /\ attempt.phase # "applied" => stages' \subseteq stages \union PlanWrites
  PROVE  TrackInv'
<1>0. TypeOK
  BY DEF PublicationInv
<1>1. TargetManifest' = TargetManifest /\ PlanWrites' = PlanWrites /\ TargetHead' = TargetHead
  BY <1>0, SameManifests DEF TypeOK, TargetHead
<1>2. /\ \A k : PublicationLiveInventory(k)' = PublicationLiveInventory(k)
      /\ \A k : InventoryOf(k)' = InventoryOf(k)
      /\ AbandonedObjects' = AbandonedObjects
  BY DEF PublicationLiveInventory, InventoryOf, Deleted, TargetHead, AbandonedObjects
<1>3. EvidenceSound' /\ AbandonedAgree'
  BY <1>2 DEF TrackInv, EvidenceSound, AbandonedAgree, Built
<1>5. ResumeSound'
  BY <1>1, <1>2 DEF TrackInv, ResumeSound, Accounted
<1>6. NothingUntracked' /\ AppliedExact'
  BY <1>1, <1>2 DEF TrackInv, NothingUntracked, AppliedExact, Files
<1>7. R2Exact'
  BY <1>1, <1>2 DEF TrackInv, R2Exact, Recognized
<1> QED
  BY <1>3, <1>5, <1>6, <1>7 DEF TrackInv

\* Every build keeps the bytes of pool paths that evidence knows, and local gc
\* changes none.
LEMMA EvidenceCarried ==
  ASSUME PublicationInv, EvidenceSound, NEW g \in Tree,
         generations' = Append(generations, g), abandoned' = abandoned,
         \A q \in Payload : \/ g[q] \in {None, Built[q]}
                            \/ \A x \in AbandonedObjects : x[1] = q => x[2] = g[q]
  PROVE  EvidenceSound'
<1>0. generations \in Seq(Tree)
  BY DEF PublicationInv, TypeOK
<1>1. /\ Len(generations') = Len(generations) + 1
      /\ \A i \in 1 .. Len(generations) : generations'[i] = generations[i]
      /\ generations'[Len(generations')] = g /\ generations' # <<>>
  BY <1>0
<1>2. Built' = g
  BY <1>1 DEF Built
<1> SUFFICES ASSUME NEW a \in abandoned
             PROVE  /\ a.generation \in 1 .. Len(generations')
                    /\ \A x \in a.objects :
                         /\ x[1] \in Immutable
                         /\ x[2] = generations'[a.generation][x[1]]
                         /\ x[1] \in Payload => g[x[1]] \in {None, x[2]}
  BY <1>2 DEF EvidenceSound
<1>3. a.generation \in 1 .. Len(generations) /\ Len(generations) \in Nat
  BY <1>0 DEF EvidenceSound
<1>4. ASSUME NEW x \in a.objects
      PROVE  /\ x[1] \in Immutable
             /\ x[2] = generations'[a.generation][x[1]]
             /\ x[1] \in Payload => g[x[1]] \in {None, x[2]}
  <2>1. x \in AbandonedObjects
    BY DEF AbandonedObjects
  <2>2. /\ x[1] \in Immutable /\ x[2] = generations[a.generation][x[1]]
        /\ x[1] \in Payload => Built[x[1]] \in {None, x[2]}
    BY DEF EvidenceSound
  <2> QED
    BY <1>1, <1>3, <2>1, <2>2
<1> QED
  BY <1>1, <1>3, <1>4

\* Builds and local gc.
LEMMA TrackLocal ==
  ASSUME PublicationInv, PublicationInv', TrackInv, LocalGC \/ \E m \in Catalogue : Build(m)
  PROVE  TrackInv'
<1>0. TypeOK /\ Built \in Tree
  BY TreeTypes DEF PublicationInv
<1>1. /\ UNCHANGED <<remote, stages, attempt, checkpoints, abandoned, pc, listed>>
      /\ \E g \in Tree : generations' = Append(generations, g)
      /\ EvidenceSound'
  <2>1. ASSUME NEW m \in Catalogue, Build(m)
        PROVE  EvidenceSound' /\ \E g \in Tree : generations' = Append(generations, g)
    <3> DEFINE g == [q \in Path |-> IF m[q] = None /\ Carried(m, q) THEN Built[q] ELSE m[q]]
    <3>1. g \in Tree /\ generations' = Append(generations, g) /\ abandoned' = abandoned
      BY <1>0, <2>1, CatalogueAssumption DEF Tree, Build, records
    <3>2. ASSUME NEW q \in Payload
          PROVE  \/ g[q] \in {None, Built[q]}
                 \/ \A x \in AbandonedObjects : x[1] = q => x[2] = g[q]
      <4>1. q \in Path /\ (m[q] = None \/ g[q] = m[q])
        BY DEF Path
      <4> QED
        BY <2>1, <4>1 DEF Build, PoolPathsFree, Path
    <3> HIDE DEF g
    <3>3. EvidenceSound'
      BY <3>1, <3>2, EvidenceCarried DEF TrackInv
    <3> QED
      BY <3>1, <3>3
  <2>2. ASSUME LocalGC
        PROVE  EvidenceSound' /\ \E g \in Tree : generations' = Append(generations, g)
    <3> DEFINE unrooted == {q \in Payload \ (Referenced \union PublicationRoots) : Built[q] # None}
               g == [q \in Path |-> IF q \in unrooted THEN None ELSE Built[q]]
    <3>1. g \in Tree /\ generations' = Append(generations, g) /\ abandoned' = abandoned
      BY <1>0, <2>2 DEF Tree, Object, LocalGC, records
    <3>2. \A q \in Payload : g[q] \in {None, Built[q]}
      BY DEF Path
    <3> HIDE DEF g
    <3>3. EvidenceSound'
      BY <3>1, <3>2, EvidenceCarried DEF TrackInv
    <3> QED
      BY <3>1, <3>3
  <2>3. UNCHANGED <<remote, stages, attempt, checkpoints, abandoned, pc, listed>>
    BY DEF LocalGC, Build, records, process
  <2> QED
    BY <2>1, <2>2, <2>3
<1>2. ~Active /\ ~Active' /\ attempt'.phase # "applied"
  <2>1. Active' = Active /\ TargetHead' = TargetHead
    BY <1>1 DEF Active, TargetHead
  <2>2. Len(generations') # Len(generations)
    BY <1>0, <1>1 DEF TypeOK
  <2>3. Active => attempt.generation = Len(generations)
    BY DEF PublicationInv, AttemptSound, RollForwardSource
  <2>4. Active' => attempt'.generation = Len(generations')
    BY DEF PublicationInv, AttemptSound, RollForwardSource
  <2> QED
    BY <1>1, <2>1, <2>2, <2>3, <2>4 DEF Active
<1>3. /\ TargetHead' = TargetHead
      /\ \A k : InventoryOf(k)' = InventoryOf(k)
      /\ \A k : PublicationLiveInventory(k)' = PublicationLiveInventory(k)
      /\ AbandonedObjects' = AbandonedObjects
  BY <1>1 DEF PublicationLiveInventory, InventoryOf, Deleted, TargetHead, AbandonedObjects
<1>4. AbandonedAgree' /\ ResumeSound' /\ ListedSound' /\ NothingUntracked' /\ AppliedExact'
  BY <1>1, <1>2, <1>3 DEF TrackInv, AbandonedAgree, ResumeSound, ListedSound, NothingUntracked, AppliedExact, Active
<1>5. R2Exact'
  BY <1>1, <1>2, <1>3 DEF TrackInv, R2Exact, Recognized
<1> QED
  BY <1>1, <1>4, <1>5 DEF TrackInv

\* A file written by the plan is the target's.
LEMMA TrackInstall ==
  ASSUME PublicationInv, TypeOK', TrackInv, NEW q \in PlanWrites, Install(q),
         Active, attempt.phase # "applied", pc \notin {"verify", "apply"}
  PROVE  TrackInv'
<1>0. TypeOK /\ EvidenceSound
  BY DEF PublicationInv, TrackInv
<1>1. /\ remote' = [remote EXCEPT ![q] = TargetManifest[q]]
      /\ stages' \subseteq stages
      /\ UNCHANGED <<generations, attempt, checkpoints, abandoned, pc, listed>>
  BY DEF Install, records, process
<1>2. TargetManifest' = TargetManifest /\ PlanWrites' = PlanWrites /\ TargetHead' = TargetHead /\ Active'
  BY <1>0, <1>1, SameManifests DEF TypeOK, TargetHead, Active
<1>3. /\ \A k : PublicationLiveInventory(k)' = PublicationLiveInventory(k)
      /\ \A k : InventoryOf(k)' = InventoryOf(k)
      /\ AbandonedObjects' = AbandonedObjects
  BY <1>1 DEF PublicationLiveInventory, InventoryOf, Deleted, TargetHead, AbandonedObjects
<1>4. /\ q \in Path /\ TargetManifest[q] # None /\ remote \in [Path -> Object]
      /\ remote'[q] = TargetManifest[q]
      /\ \A r \in Path : r # q => remote'[r] = remote[r]
  BY <1>0, <1>1 DEF PlanWrites, Writes, TypeOK, Tree
<1>5. EvidenceSound' /\ AbandonedAgree' /\ ListedSound' /\ AppliedExact'
  BY <1>1, <1>3 DEF TrackInv, EvidenceSound, AbandonedAgree, Built, ListedSound, AppliedExact
<1>6. ResumeSound'
  <2>1. Accounted(attempt.base)
    BY DEF TrackInv, ResumeSound
  <2>2. Accounted(attempt.base)'
    BY <1>1, <1>2, <1>3, <1>4, <2>1 DEF Accounted
  <2> QED
    BY <1>1, <1>2, <2>2 DEF TrackInv, ResumeSound
<1>7. NothingUntracked'
  <2> SUFFICES ASSUME NEW r \in Path, remote'[r] # None
               PROVE  \/ <<r, remote'[r]>> \in Files(InventoryOf(TargetHead))
                      \/ <<r, remote'[r]>> \in AbandonedObjects
                      \/ <<r, remote'[r]>> \in Files(TargetManifest)
    BY <1>2, <1>3 DEF NothingUntracked, Files
  <2> QED
    BY <1>4 DEF TrackInv, NothingUntracked, Files
<1>8. R2Exact'
  BY <1>1, <1>2, <1>3 DEF TrackInv, R2Exact
<1> QED
  BY <1>5, <1>6, <1>7, <1>8 DEF TrackInv

\* A new attempt: what it drops of the evidence its own target lists.
LEMMA TrackNew ==
  ASSUME PublicationInv, TypeOK', TrackInv, PublishNew
  PROVE  TrackInv'
<1> DEFINE live == PublicationLiveInventory(TargetHead)
<1>0. TypeOK /\ EvidenceSound /\ TargetHead \in Nat
  BY DEF PublicationInv, TrackInv, TypeOK, TargetHead
<1>1. /\ ~Active /\ generations # <<>> /\ stages = {} /\ remote = Recognized(live)
      /\ attempt'.phase = "planned" /\ attempt'.base = TargetHead
      /\ attempt'.generation = Len(generations)
      /\ abandoned' = {a \in abandoned : ~(a.base = TargetHead /\ a.generation = Len(generations))}
      /\ pc' = "payload"
      /\ UNCHANGED <<generations, remote, stages, checkpoints>>
  BY DEF PublishNew, NewAttempt, KeptEvidence, EnterPublish
<1>2. /\ TargetHead' = TargetHead
      /\ \A k : PublicationLiveInventory(k)' = PublicationLiveInventory(k)
      /\ \A k : InventoryOf(k)' = InventoryOf(k)
  BY <1>1 DEF PublicationLiveInventory, InventoryOf, Deleted, TargetHead
<1>3. TargetManifest' = generations[Len(generations)] /\ Built' = Built
  BY <1>0, <1>1 DEF TargetManifest, Built, TypeOK
<1>4. /\ AbandonedObjects' \subseteq AbandonedObjects
      /\ \A x \in AbandonedObjects : x \in AbandonedObjects' \/ x[2] = TargetManifest'[x[1]]
  <2>1. ASSUME NEW x \in AbandonedObjects, x \notin AbandonedObjects'
        PROVE  x[2] = TargetManifest'[x[1]]
    <3>1. PICK a \in abandoned : x \in a.objects
      BY DEF AbandonedObjects
    <3>2. a.generation = Len(generations)
      BY <1>1, <2>1, <3>1 DEF AbandonedObjects
    <3> QED
      BY <1>0, <1>3, <3>1, <3>2 DEF EvidenceSound
  <2> QED
    BY <1>1, <2>1 DEF AbandonedObjects
<1>5. EvidenceSound' /\ AbandonedAgree'
  BY <1>1, <1>3, <1>4 DEF TrackInv, EvidenceSound, AbandonedAgree
<1>6. \A q \in Path : \/ remote[q] = live[q]
                      \/ live[q] = None /\ <<q, remote[q]>> \in AbandonedObjects
  BY <1>1 DEF Recognized
<1>7. \A q \in Path : live[q] # None => remote[q] = live[q]
  BY <1>1 DEF Recognized
<1>8. ResumeSound'
  <2>1. ASSUME NEW q \in Path
        PROVE  /\ remote[q] # None => \/ remote[q] \in {live[q], TargetManifest'[q]}
                                      \/ live[q] = None /\ <<q, remote[q]>> \in AbandonedObjects'
               /\ live[q] # None => remote[q] # None
    BY <1>4, <1>6, <1>7
  <2>2. Accounted(attempt.base)'
    BY <1>1, <1>2, <2>1 DEF Accounted
  <2> QED
    BY <1>1, <2>2 DEF ResumeSound
<1>9. NothingUntracked'
  <2> SUFFICES ASSUME NEW q \in Path, remote[q] # None
               PROVE  \/ remote[q] = InventoryOf(TargetHead)[q]
                      \/ <<q, remote[q]>> \in AbandonedObjects'
                      \/ remote[q] = TargetManifest'[q]
    BY <1>1, <1>2 DEF NothingUntracked, Files, Active
  <2> QED
    BY <1>4, <1>6, LiveListed
<1>10. ListedSound' /\ AppliedExact' /\ R2Exact'
  BY <1>0, <1>1, <1>2 DEF TrackInv, ListedSound, AppliedExact, R2Exact, Active
<1> QED
  BY <1>5, <1>8, <1>9, <1>10 DEF TrackInv

\* An attempt that is abandoned leaves evidence of all it has added.
LEMMA TrackAbandon ==
  ASSUME PublicationInv, TypeOK', TrackInv, Abandon
  PROVE  TrackInv'
<1> DEFINE live == PublicationLiveInventory(TargetHead)
           base == Recognized(live)
           e == [base |-> attempt.base, generation |-> attempt.generation,
                 objects |-> {<<q, remote[q]>> : q \in AddedPaths}]
<1>0. TypeOK /\ EvidenceSound /\ TargetHead \in Nat
  BY DEF PublicationInv, TrackInv, TypeOK, TargetHead
<1>1. /\ pc = "idle" /\ Active /\ PreCommit /\ AbandonAllowed
      /\ abandoned' = abandoned \union {e}
      /\ attempt'.phase = "none" /\ stages' = {}
      /\ UNCHANGED <<generations, remote, checkpoints, pc, listed>>
  BY DEF Abandon, NoAttempt, process
<1>2. /\ TargetHead' = TargetHead
      /\ \A k : PublicationLiveInventory(k)' = PublicationLiveInventory(k)
      /\ \A k : InventoryOf(k)' = InventoryOf(k)
      /\ Built' = Built
  BY <1>1 DEF PublicationLiveInventory, InventoryOf, Deleted, TargetHead, Built
<1>3. /\ attempt.base = TargetHead /\ attempt.generation = Len(generations) /\ attempt.generation # 0
      /\ TargetManifest = Built /\ Built = generations[Len(generations)]
      /\ Len(generations) \in 1 .. Len(generations)
  <2>1. attempt.phase # "applied" /\ generations \in Seq(Tree)
    BY <1>0, <1>1 DEF PreCommit, TypeOK
  <2>2. attempt.base = TargetHead /\ attempt.generation = Len(generations) /\ attempt.generation # 0
    BY <1>0, <1>1, <2>1 DEF PublicationInv, AttemptSound, RollForwardSource, TypeOK
  <2> QED
    BY <2>1, <2>2 DEF TargetManifest, Built
<1>4. ASSUME NEW q \in AddedPaths
      PROVE  /\ q \in Path /\ q \in Immutable /\ remote[q] # None /\ remote[q] = Built[q]
             /\ base[q] = None
  BY <1>1, <1>3 DEF AbandonAllowed, AddedPaths
<1>5. AbandonedObjects' = AbandonedObjects \union {<<q, remote[q]>> : q \in AddedPaths}
  <2> DEFINE added == {<<q, remote[q]>> : q \in AddedPaths}
  <2>1. e.objects = added
    OBVIOUS
  <2> HIDE DEF e, added
  <2>2. \A x : x \in AbandonedObjects' <=> \E a \in abandoned \union {e} : x \in a.objects
    BY <1>1 DEF AbandonedObjects
  <2>3. \A x : x \in AbandonedObjects <=> \E a \in abandoned : x \in a.objects
    BY DEF AbandonedObjects
  <2>4. \A x : x \in AbandonedObjects' <=> x \in AbandonedObjects \/ x \in added
    BY <2>1, <2>2, <2>3
  <2> QED
    BY <2>4 DEF added
<1>6. EvidenceSound'
  <2> SUFFICES ASSUME NEW a \in abandoned \union {e}
               PROVE  /\ a.generation \in 1 .. Len(generations)
                      /\ \A x \in a.objects :
                           /\ x[1] \in Immutable
                           /\ x[2] = generations[a.generation][x[1]]
                           /\ x[1] \in Payload => Built[x[1]] \in {None, x[2]}
    BY <1>1, <1>2 DEF EvidenceSound
  <2>1. CASE a \in abandoned
    BY <1>0, <2>1 DEF EvidenceSound
  <2>2. CASE a = e
    BY <1>3, <1>4, <2>2
  <2> QED
    BY <2>1, <2>2
<1>7. AbandonedAgree'
  <2>1. ASSUME NEW x \in AbandonedObjects, NEW q \in AddedPaths, x[1] = q
        PROVE  x[2] = remote[q]
    <3>1. PICK a \in abandoned : x \in a.objects
      BY DEF AbandonedObjects
    <3>2. /\ x[2] = generations[a.generation][q] /\ a.generation \in 1 .. Len(generations)
          /\ q \in Payload => Built[q] \in {None, x[2]}
      BY <1>0, <2>1, <3>1 DEF EvidenceSound
    <3>3. CASE q \in Payload
      BY <1>4, <3>2, <3>3
    <3>4. CASE q \in Metadata
      <4>1. x[2] # None
        BY <1>0, EvidenceType, ConstantsAssumption
      <4>2. \E m \in Catalogue : m[q] = x[2]
        BY <3>2, <3>4, <4>1 DEF PublicationInv, GenerationsSound
      <4>3. \E m \in Catalogue : m[q] = Built[q]
        BY <1>3, <1>4, <3>4 DEF PublicationInv, GenerationsSound
      <4> QED
        BY <1>4, <3>4, <4>1, <4>2, <4>3, CatalogueAssumption
    <3> QED
      BY <1>4, <3>3, <3>4 DEF Immutable
  <2>2. \A x \in AbandonedObjects : x = <<x[1], x[2]>>
    BY <1>0, EvidenceType
  <2>3. \A x, y \in AbandonedObjects : x[1] = y[1] => x = y
    BY DEF TrackInv, AbandonedAgree
  <2> SUFFICES ASSUME NEW x \in AbandonedObjects', NEW y \in AbandonedObjects', x[1] = y[1]
               PROVE  x = y
    BY DEF AbandonedAgree
  <2>4. CASE x \in AbandonedObjects /\ y \in AbandonedObjects
    BY <2>3, <2>4
  <2>5. CASE x \in AbandonedObjects /\ y \notin AbandonedObjects
    BY <1>5, <2>1, <2>2, <2>5
  <2>6. CASE x \notin AbandonedObjects /\ y \in AbandonedObjects
    BY <1>5, <2>1, <2>2, <2>6
  <2>7. CASE x \notin AbandonedObjects /\ y \notin AbandonedObjects
    BY <1>5, <2>7
  <2> QED
    BY <2>4, <2>5, <2>6, <2>7
<1>8. \A q \in Path : remote[q] # None =>
        \/ live[q] # None /\ remote[q] = live[q]
        \/ live[q] = None /\ <<q, remote[q]>> \in AbandonedObjects'
  <2> SUFFICES ASSUME NEW q \in Path, remote[q] # None
               PROVE  \/ live[q] # None /\ remote[q] = live[q]
                      \/ live[q] = None /\ <<q, remote[q]>> \in AbandonedObjects'
    OBVIOUS
  <2>1. base[q] = IF live[q] = None /\ <<q, remote[q]>> \in AbandonedObjects THEN remote[q] ELSE live[q]
    BY DEF Recognized
  <2>2. base[q] # None => remote[q] = base[q]
    BY <1>1, <1>3 DEF AbandonAllowed
  <2>3. base[q] = None => q \in AddedPaths
    BY <1>3 DEF AddedPaths
  <2> QED
    BY <1>5, <2>1, <2>2, <2>3
<1>9. \A q \in Path : live[q] # None => remote[q] = live[q]
  <2> SUFFICES ASSUME NEW q \in Path, live[q] # None  PROVE remote[q] = live[q]
    OBVIOUS
  <2>1. base[q] = live[q]
    BY DEF Recognized
  <2> QED
    BY <1>1, <1>3, <2>1 DEF AbandonAllowed
<1>10. NothingUntracked'
  <2> SUFFICES ASSUME NEW q \in Path, remote[q] # None
               PROVE  \/ remote[q] = InventoryOf(TargetHead)[q]
                      \/ <<q, remote[q]>> \in AbandonedObjects'
    BY <1>1, <1>2 DEF NothingUntracked, Files, Active
  <2> QED
    BY <1>8, LiveListed
<1>11. ResumeSound' /\ ListedSound' /\ AppliedExact'
  BY <1>1 DEF ResumeSound, ListedSound, AppliedExact, Active
<1>12. R2Exact'
  <2>1. remote = Recognized(live)'
    <3>1. Recognized(live)' = [q \in Path |-> IF live[q] = None /\ <<q, remote[q]>> \in AbandonedObjects'
                                             THEN remote[q] ELSE live[q]]
      BY <1>1, <1>2 DEF Recognized
    <3>2. remote \in [Path -> Object]
      BY <1>0 DEF TypeOK, Tree
    <3>3. ASSUME NEW q \in Path
          PROVE  remote[q] = (IF live[q] = None /\ <<q, remote[q]>> \in AbandonedObjects'
                              THEN remote[q] ELSE live[q])
      BY <1>8, <1>9
    <3> QED
      BY <3>1, <3>2, <3>3
  <2> QED
    BY <1>1, <1>2, <2>1 DEF TrackInv, R2Exact, Active
<1> QED
  BY <1>6, <1>7, <1>10, <1>11, <1>12 DEF TrackInv

\* The checkpoint lists what is there.
LEMMA TrackCheckpoint ==
  ASSUME PublicationInv, TypeOK', TrackInv, PutAppliedCheckpoint
  PROVE  TrackInv'
<1>0. TypeOK
  BY DEF PublicationInv
<1>1. /\ listed = remote /\ attempt'.phase = "applied" /\ pc' = "grace"
      /\ UNCHANGED <<generations, remote, abandoned>>
  BY <1>0 DEF PutAppliedCheckpoint, TrackInv, ListedSound, TypeOK, Attempt
<1>2. /\ TargetHead \in Nat /\ TargetHead' = TargetHead + 1
      /\ \A k \in 1 .. TargetHead : checkpoints'[k] = checkpoints[k]
      /\ checkpoints'[TargetHead'].inventory = listed
      /\ checkpoints'[TargetHead'].receipts = {}
  BY <1>0 DEF PutAppliedCheckpoint, TypeOK, TargetHead
<1>3. InventoryOf(TargetHead)' = remote /\ AbandonedObjects' = AbandonedObjects
  BY <1>1, <1>2 DEF InventoryOf, AbandonedObjects
<1>4. EvidenceSound' /\ AbandonedAgree'
  BY <1>1, <1>3 DEF TrackInv, EvidenceSound, AbandonedAgree, Built
<1>5. ResumeSound' /\ ListedSound' /\ NothingUntracked' /\ AppliedExact'
  BY <1>1, <1>3 DEF ResumeSound, ListedSound, NothingUntracked, AppliedExact, Active, Files
<1>6. R2Exact'
  BY <1>1, <1>2 DEF TrackInv, R2Exact, Active
<1> QED
  BY <1>4, <1>5, <1>6 DEF TrackInv

\* The attempt ends, and its checkpoint lists what is there.
LEMMA TrackGrace ==
  ASSUME PublicationInv, TypeOK', TrackInv, PutGraceRecord
  PROVE  TrackInv'
<1>0. TypeOK
  BY DEF PublicationInv
<1>1. /\ attempt.phase = "applied" /\ attempt'.phase = "none" /\ pc' = "idle"
      /\ UNCHANGED <<generations, remote, abandoned>>
  BY DEF PutGraceRecord, NoAttempt, Idle
<1>2. /\ TargetHead' = TargetHead /\ TargetHead \in 0 .. TargetHead
      /\ \A k \in 1 .. TargetHead : /\ checkpoints'[k].inventory = checkpoints[k].inventory
                                    /\ checkpoints'[k].receipts = checkpoints[k].receipts
  BY <1>0, GraceRecorded DEF TypeOK, TargetHead
<1>3. /\ InventoryOf(TargetHead)' = InventoryOf(TargetHead) /\ AbandonedObjects' = AbandonedObjects
      /\ remote = InventoryOf(TargetHead)
  BY <1>1, <1>2 DEF InventoryOf, AbandonedObjects, TrackInv, AppliedExact
<1>4. EvidenceSound' /\ AbandonedAgree'
  BY <1>1, <1>3 DEF TrackInv, EvidenceSound, AbandonedAgree, Built
<1>5. ResumeSound' /\ ListedSound' /\ NothingUntracked' /\ AppliedExact'
  BY <1>1, <1>3 DEF ResumeSound, ListedSound, NothingUntracked, AppliedExact, Active, Files
<1>6. R2Exact'
  <2> SUFFICES ASSUME Provider = "r2"
               PROVE  /\ \A k \in 1 .. TargetHead' : checkpoints'[k].receipts = {}
                      /\ remote' = Recognized(PublicationLiveInventory(TargetHead))'
    BY DEF R2Exact
  <2>1. \A k \in 1 .. TargetHead' : checkpoints'[k].receipts = {}
    BY <1>2 DEF TrackInv, R2Exact
  <2>2. Deleted' = {}
    BY <2>1 DEF Deleted
  <2>3. remote \in [Path -> Object]
    BY <1>0 DEF TypeOK, Tree
  <2>4. PublicationLiveInventory(TargetHead)' = remote
    BY <1>1, <1>3, <2>2, <2>3 DEF PublicationLiveInventory
  <2>5. Recognized(PublicationLiveInventory(TargetHead))' =
          [q \in Path |-> IF remote[q] = None /\ <<q, remote[q]>> \in AbandonedObjects'
                          THEN remote[q] ELSE remote[q]]
    BY <1>1, <2>4 DEF Recognized
  <2> QED
    BY <1>1, <2>1, <2>3, <2>5
<1> QED
  BY <1>4, <1>5, <1>6 DEF TrackInv

\* A gc step that writes one maintenance record.
LEMMA TrackReport ==
  ASSUME PublicationInv, TypeOK', TrackInv, pc = "gc", pc' = pc,
         NEW k \in 1 .. TargetHead, NEW c \in Checkpoint,
         c.generation = checkpoints[k].generation,
         c.inventory = checkpoints[k].inventory,
         Provider = "r2" => c.receipts = checkpoints[k].receipts,
         checkpoints' = [checkpoints EXCEPT ![k] = c],
         UNCHANGED <<generations, remote, attempt, abandoned>>
  PROVE  TrackInv'
<1>0. TypeOK /\ ~Active /\ ~Active' /\ attempt'.phase # "applied" /\ TargetHead \in 0 .. TargetHead
  BY DEF PublicationInv, CommandSound, Active, TypeOK, TargetHead
<1>1. /\ TargetHead' = TargetHead
      /\ checkpoints'[k] = c
      /\ \A j \in 1 .. TargetHead : j # k => checkpoints'[j] = checkpoints[j]
  BY <1>0, ChangeCheckpoint
<1>2. /\ \A j \in 0 .. TargetHead : InventoryOf(j)' = InventoryOf(j)
      /\ AbandonedObjects' = AbandonedObjects
  BY <1>0, <1>1 DEF InventoryOf, AbandonedObjects, TypeOK, TargetHead
<1>3. EvidenceSound' /\ AbandonedAgree'
  BY <1>2 DEF TrackInv, EvidenceSound, AbandonedAgree, Built
<1>4. ResumeSound' /\ ListedSound' /\ NothingUntracked' /\ AppliedExact'
  BY <1>0, <1>1, <1>2 DEF TrackInv, ResumeSound, ListedSound, NothingUntracked, AppliedExact
<1>5. R2Exact'
  <2> SUFFICES ASSUME Provider = "r2"
               PROVE  /\ \A j \in 1 .. TargetHead : checkpoints'[j].receipts = {}
                      /\ remote = Recognized(PublicationLiveInventory(TargetHead))'
    BY <1>1 DEF R2Exact
  <2>1. \A j \in 1 .. TargetHead : checkpoints[j].receipts = {} /\ checkpoints'[j].receipts = {}
    BY <1>1 DEF TrackInv, R2Exact
  <2>2. Deleted = {} /\ Deleted' = {}
    BY <1>1, <2>1 DEF Deleted
  <2>3. PublicationLiveInventory(TargetHead)' = PublicationLiveInventory(TargetHead)
    BY <1>0, <1>1, <1>2, <2>2 DEF PublicationLiveInventory
  <2>4. remote = Recognized(PublicationLiveInventory(TargetHead))
    BY <1>0 DEF TrackInv, R2Exact
  <2> QED
    BY <1>2, <2>1, <2>3, <2>4 DEF Recognized
<1> QED
  BY <1>3, <1>4, <1>5 DEF TrackInv

\* Deletions take nothing that was not known.
LEMMA TrackDelete ==
  ASSUME PublicationInv, TypeOK', TrackInv, NEW q \in Path, DeleteConditional(q)
  PROVE  TrackInv'
<1>0. TypeOK
  BY DEF PublicationInv
<1>1. /\ remote' = [remote EXCEPT ![q] = None] /\ Provider # "r2"
      /\ UNCHANGED <<generations, attempt, checkpoints, abandoned, pc>>
      /\ pc = "gc"
  BY DEF DeleteConditional, records, process, PublicationInv, CommandSound
<1>2. ~Active /\ ~Active' /\ attempt'.phase # "applied"
  BY <1>1 DEF PublicationInv, CommandSound, Active
<1>3. /\ TargetHead' = TargetHead
      /\ \A j : InventoryOf(j)' = InventoryOf(j)
      /\ AbandonedObjects' = AbandonedObjects
  BY <1>1 DEF InventoryOf, AbandonedObjects, TargetHead
<1>4. EvidenceSound' /\ AbandonedAgree'
  BY <1>1, <1>3 DEF TrackInv, EvidenceSound, AbandonedAgree, Built
<1>5. ResumeSound' /\ ListedSound' /\ AppliedExact' /\ R2Exact'
  BY <1>1, <1>2 DEF ResumeSound, ListedSound, AppliedExact, R2Exact
<1>6. NothingUntracked'
  <2>1. remote \in [Path -> Object]
    BY <1>0 DEF TypeOK, Tree
  <2>2. \A r \in Path : remote'[r] # None => remote'[r] = remote[r]
    BY <1>1, <2>1
  <2>3. Files(remote') \subseteq Files(remote)
    BY <2>2 DEF Files
  <2> QED
    BY <1>2, <1>3, <2>3 DEF TrackInv, NothingUntracked, Files
<1> QED
  BY <1>4, <1>5, <1>6 DEF TrackInv

\* The gc steps that write a maintenance record.
RecordStep ==
  \/ \E k \in todo : PutCandidateReport(k) \/ CompleteAttempt(k)
  \/ \E q \in Path : PutDeletionReceipt(q)
  \/ MarkReportTerminal

\* What a gc step may write into the record of checkpoint k: a fresh report,
\* a receipt, the end of the report, or the end of the maintenance.
MaintenanceStep(k, c) ==
  \/ /\ NextItem(k) /\ Due(k) /\ ~checkpoints[k].reported
     /\ c.phase = "grace" /\ c.candidates = ExactCandidates(k)
     /\ item' = item /\ todo' = todo
  \/ /\ k = item /\ c.phase = checkpoints[k].phase
     /\ c.reported = checkpoints[k].reported /\ c.candidates = checkpoints[k].candidates
     /\ item' = item /\ todo' = todo
  \/ /\ k = item /\ c.phase \in {"deletion_verified", "retained_reported"}
     /\ item' = 0 /\ todo' = todo
  \/ /\ checkpoints[k].phase \in {"deletion_verified", "retained_reported"} /\ c.phase = "done"
     /\ item' = item /\ todo' = todo \ {k}

\* Generation, inventory and times of a checkpoint stay as they are.
LEMMA RecordWritten ==
  ASSUME TypeOK, CommandSound, RecordStep
  PROVE  \E k \in 1 .. TargetHead : \E c \in Checkpoint :
           /\ checkpoints' = [checkpoints EXCEPT ![k] = c]
           /\ c.generation = checkpoints[k].generation /\ c.inventory = checkpoints[k].inventory
           /\ c.appliedAt = checkpoints[k].appliedAt /\ c.notBefore = checkpoints[k].notBefore
           /\ Provider = "r2" => c.receipts = checkpoints[k].receipts
           /\ pc = "gc" /\ pc' = pc
           /\ UNCHANGED <<generations, remote, attempt, abandoned, ttl, clock, started>>
           /\ MaintenanceStep(k, c)
<1>1. ASSUME NEW k \in todo
      PROVE  k \in 1 .. TargetHead /\ checkpoints[k] \in Checkpoint
  BY DEF TypeOK, TargetHead
<1>2. ASSUME item # 0
      PROVE  /\ item \in 1 .. TargetHead /\ checkpoints[item] \in Checkpoint
             /\ pc = "gc" /\ checkpoints[item].phase = "grace"
  BY <1>2 DEF TypeOK, TargetHead, CommandSound
<1>3. CASE \E k \in todo : PutCandidateReport(k)
  <2>1. PICK k \in todo : PutCandidateReport(k)
    BY <1>3
  <2> DEFINE c == [checkpoints[k] EXCEPT !.reported = TRUE, !.candidates = ExactCandidates(k)]
  <2>2. ExactCandidates(k) \in SUBSET (Path \X Content)
    <3>1. InventoryOf(k) \in Tree
      BY <1>1, TreeTypes DEF TargetHead, TypeOK
    <3> QED
      BY <3>1, FilesType DEF ExactCandidates
  <2>3. /\ c \in Checkpoint
        /\ c.generation = checkpoints[k].generation /\ c.inventory = checkpoints[k].inventory
        /\ c.appliedAt = checkpoints[k].appliedAt /\ c.notBefore = checkpoints[k].notBefore
        /\ c.receipts = checkpoints[k].receipts /\ c.phase = checkpoints[k].phase
        /\ c.candidates = ExactCandidates(k)
    BY <1>1, <2>2 DEF Checkpoint
  <2>4. /\ checkpoints' = [checkpoints EXCEPT ![k] = c]
        /\ pc = "gc" /\ pc' = pc /\ item' = item /\ todo' = todo
        /\ UNCHANGED <<generations, remote, attempt, abandoned, ttl, clock, started>>
        /\ NextItem(k) /\ Due(k) /\ ~checkpoints[k].reported /\ checkpoints[k].phase = "grace"
    BY <2>1 DEF PutCandidateReport, NextItem, Due, process
  <2> HIDE DEF c
  <2>5. MaintenanceStep(k, c)
    BY <2>3, <2>4 DEF MaintenanceStep
  <2> QED
    BY <1>1, <2>3, <2>4, <2>5
<1>4. CASE \E k \in todo : CompleteAttempt(k)
  <2>1. PICK k \in todo : CompleteAttempt(k)
    BY <1>4
  <2> DEFINE c == [checkpoints[k] EXCEPT !.phase = "done"]
  <2>3. /\ c \in Checkpoint
        /\ c.generation = checkpoints[k].generation /\ c.inventory = checkpoints[k].inventory
        /\ c.appliedAt = checkpoints[k].appliedAt /\ c.notBefore = checkpoints[k].notBefore
        /\ c.receipts = checkpoints[k].receipts /\ c.phase = "done"
    BY <1>1 DEF Checkpoint
  <2>4. /\ checkpoints' = [checkpoints EXCEPT ![k] = c]
        /\ pc = "gc" /\ pc' = pc /\ item' = item /\ todo' = todo \ {k}
        /\ UNCHANGED <<generations, remote, attempt, abandoned, ttl, clock, started>>
        /\ checkpoints[k].phase \in {"deletion_verified", "retained_reported"}
    BY <2>1 DEF CompleteAttempt, NextItem
  <2> HIDE DEF c
  <2>5. MaintenanceStep(k, c)
    BY <2>3, <2>4 DEF MaintenanceStep
  <2> QED
    BY <1>1, <2>3, <2>4, <2>5
<1>5. CASE \E q \in Path : PutDeletionReceipt(q)
  <2>1. PICK q \in Path : PutDeletionReceipt(q)
    BY <1>5
  <2> DEFINE c == [checkpoints[item] EXCEPT !.receipts =
                     @ \union {f \in checkpoints[item].candidates : f[1] = q}]
  <2>2. item # 0 /\ Provider # "r2"
    BY <2>1 DEF PutDeletionReceipt
  <2>3. /\ c \in Checkpoint
        /\ c.generation = checkpoints[item].generation /\ c.inventory = checkpoints[item].inventory
        /\ c.appliedAt = checkpoints[item].appliedAt /\ c.notBefore = checkpoints[item].notBefore
        /\ c.phase = checkpoints[item].phase /\ c.reported = checkpoints[item].reported
        /\ c.candidates = checkpoints[item].candidates
    BY <1>2, <2>2 DEF Checkpoint
  <2>4. /\ checkpoints' = [checkpoints EXCEPT ![item] = c]
        /\ pc' = pc /\ item' = item /\ todo' = todo
        /\ UNCHANGED <<generations, remote, attempt, abandoned, ttl, clock, started>>
    BY <2>1 DEF PutDeletionReceipt, process
  <2> HIDE DEF c
  <2>5. MaintenanceStep(item, c)
    BY <2>3, <2>4 DEF MaintenanceStep
  <2> QED
    BY <1>2, <2>2, <2>3, <2>4, <2>5
<1>6. CASE MarkReportTerminal
  <2> DEFINE c == [checkpoints[item] EXCEPT !.phase =
                     IF Provider = "filesystem" THEN "deletion_verified" ELSE "retained_reported"]
  <2>2. item # 0
    BY <1>6 DEF MarkReportTerminal
  <2>3. /\ c \in Checkpoint
        /\ c.generation = checkpoints[item].generation /\ c.inventory = checkpoints[item].inventory
        /\ c.appliedAt = checkpoints[item].appliedAt /\ c.notBefore = checkpoints[item].notBefore
        /\ c.receipts = checkpoints[item].receipts
        /\ c.phase \in {"deletion_verified", "retained_reported"}
    BY <1>2, <2>2 DEF Checkpoint
  <2>4. /\ checkpoints' = [checkpoints EXCEPT ![item] = c]
        /\ pc' = pc /\ item' = 0 /\ todo' = todo
        /\ UNCHANGED <<generations, remote, attempt, abandoned, ttl, clock, started>>
    BY <1>6 DEF MarkReportTerminal
  <2> HIDE DEF c
  <2>5. MaintenanceStep(item, c)
    BY <2>3, <2>4 DEF MaintenanceStep
  <2> QED
    BY <1>2, <2>2, <2>3, <2>4, <2>5
<1> QED
  BY <1>3, <1>4, <1>5, <1>6 DEF RecordStep

\* No step loses sight of a file.
LEMMA TrackStep ==
  ASSUME PublicationInv, PublicationInv', TrackInv, [Next]_vars
  PROVE  TrackInv'
<1> USE DEF Active
<1>0. TypeOK /\ TypeOK' /\ CommandSound /\ ListedSound
  BY DEF PublicationInv, TrackInv
<1>1. CASE Local
  <2>1. CASE LocalGC \/ \E m \in Catalogue : Build(m)
    BY <2>1, TrackLocal
  <2>2. CASE \E t \in {r[2] : r \in Rebinds} : Rebind(t)
    BY <1>0, <2>2, TrackQuiet DEF Rebind, process, ListedSound
  <2> QED
    BY <1>1, <2>1, <2>2 DEF Local
<1>2. CASE Tick \/ UNCHANGED vars
  BY <1>0, <1>2, TrackQuiet DEF Tick, vars, records, process, ListedSound
<1>3. CASE Stop \/ GCEnd
  BY <1>0, <1>3, TrackQuiet DEF Stop, GCEnd, Idle, records, ListedSound
<1>4. CASE PublishResume \/ PublishResumeApplied
  BY <1>0, <1>4, TrackQuiet DEF PublishResume, PublishResumeApplied, EnterPublish, records, ListedSound
<1>5. CASE TargetGC \/ \E k \in todo : GCSkip(k) \/ OpenReport(k)
  BY <1>0, <1>5, TrackQuiet DEF TargetGC, GCSkip, OpenReport, NextItem, records, ListedSound
<1>6. CASE AliasesDone \/ ListInventory
  BY <1>0, <1>6, TrackQuiet DEF AliasesDone, ListInventory, Goto, ListedSound
<1>7. CASE PayloadDone \/ MetadataDone \/ PreparePointers \/ PointersDone \/ ViewsVerified \/ SetCommitIntent
  <2>1. /\ \/ pc' \notin {"verify", "apply"}
           \/ pc = "verify" /\ listed' = listed
        /\ UNCHANGED <<generations, remote, stages, checkpoints, abandoned>>
    BY <1>7 DEF PayloadDone, MetadataDone, PreparePointers, PointersDone, ViewsVerified, SetCommitIntent, Goto
  <2>2. SameAttempt
    BY <1>7, <1>0, AdvanceType DEF PayloadDone, MetadataDone, PreparePointers, PointersDone, ViewsVerified,
                                   SetCommitIntent, SameAttempt, TypeOK, Attempt
  <2>3. Active' /\ Active /\ attempt.phase # "applied"
    <3>1. Active /\ attempt.phase # "applied"
      BY <1>7, <1>0 DEF CommandSound, PayloadDone, MetadataDone, PreparePointers, PointersDone, ViewsVerified,
                        SetCommitIntent, Goto
    <3> QED
      BY <1>7, <1>0, <3>1
         DEF PayloadDone, MetadataDone, PreparePointers, PointersDone, ViewsVerified,
             SetCommitIntent, AdvancePhase, TypeOK, Attempt
  <2>4. ListedSound'
    BY <1>0, <2>1 DEF ListedSound
  <2>5. /\ attempt'.base = attempt.base /\ attempt'.generation = attempt.generation
        /\ Active' <=> Active
        /\ attempt'.phase = "applied" <=> attempt.phase = "applied"
        /\ Active /\ attempt.phase # "applied" => stages' \subseteq stages \union PlanWrites
    <3> HIDE DEF Active
    <3> QED
      BY <2>1, <2>2, <2>3 DEF SameAttempt
  <2> QED
    <3> HIDE DEF Active
    <3> QED
      BY <1>0, <2>1, <2>4, <2>5, TrackQuiet
<1>8. CASE PrepareView \/ RecordPointer \/ VerifyView
  <2>1. PICK p \in Pointer, next \in ViewState : SetViewState(p, next)
    BY <1>8 DEF PrepareView, RecordPointer, VerifyView, ViewState
  <2>2. /\ attempt'.phase = attempt.phase /\ attempt'.base = attempt.base
        /\ attempt'.generation = attempt.generation
        /\ UNCHANGED <<generations, remote, stages, checkpoints, abandoned, pc, listed>>
    BY <1>0, <2>1 DEF SetViewState, process, TypeOK, Attempt
  <2> QED
    BY <1>0, <2>2, TrackQuiet DEF ListedSound
<1>9. CASE PutStep
  <2>1. PICK q \in PlanWrites : /\ Stage(q) \/ Install(q)
                                /\ Active /\ attempt.phase # "applied"
    BY <1>9, InstallFacts
  <2>2. pc \notin {"verify", "apply"}
    BY <1>9 DEF PutStep, PutPayload, PutMetadata, PutAlias, PutPointer
  <2>3. CASE Stage(q)
    BY <1>0, <2>3, TrackQuiet DEF Stage, records, process, ListedSound
  <2>4. CASE Install(q)
    BY <1>0, <2>1, <2>2, <2>4, TrackInstall
  <2> QED
    BY <2>1, <2>3, <2>4
<1>10. CASE RecordStep
  <2>1. PICK k \in 1 .. TargetHead, c \in Checkpoint :
           /\ checkpoints' = [checkpoints EXCEPT ![k] = c]
           /\ c.generation = checkpoints[k].generation /\ c.inventory = checkpoints[k].inventory
           /\ Provider = "r2" => c.receipts = checkpoints[k].receipts
           /\ pc = "gc" /\ pc' = pc
           /\ UNCHANGED <<generations, remote, attempt, abandoned>>
    BY <1>0, <1>10, RecordWritten
  <2> QED
    BY <1>0, <2>1, TrackReport
<1>11. CASE \E q \in Path : DeleteConditional(q)
  BY <1>0, <1>11, TrackDelete
<1>12. CASE PublishNew \/ Abandon \/ PutAppliedCheckpoint \/ PutGraceRecord
  BY <1>0, <1>12, TrackNew, TrackAbandon, TrackCheckpoint, TrackGrace
<1>13. Publish => \/ PublishNew \/ PublishResume \/ PublishResumeApplied \/ PutStep
                  \/ PayloadDone \/ MetadataDone \/ PreparePointers \/ PointersDone \/ ViewsVerified
                  \/ SetCommitIntent \/ PrepareView \/ RecordPointer \/ VerifyView
                  \/ AliasesDone \/ ListInventory \/ PutAppliedCheckpoint \/ PutGraceRecord
  BY DEF Publish, PutStep
<1>14. Maintain => \/ TargetGC \/ \E k \in todo : GCSkip(k) \/ OpenReport(k)
                   \/ RecordStep \/ \E q \in Path : DeleteConditional(q)
                   \/ GCEnd
  BY DEF Maintain, RecordStep
<1> QED
  BY <1>1, <1>2, <1>3, <1>4, <1>5, <1>6, <1>7, <1>8, <1>9, <1>10, <1>11, <1>12, <1>13, <1>14 DEF Next

\* Every file at the target stays known to some record.
THEOREM Tracking == Spec => []TrackInv
<1>1. Init => TrackInv
  <2> SUFFICES ASSUME Init PROVE TrackInv
    OBVIOUS
  <2>1. /\ remote = EmptyTree /\ abandoned = {} /\ attempt.phase = "none" /\ pc = "idle"
        /\ checkpoints = <<>> /\ TargetHead = 0 /\ AbandonedObjects = {}
    BY DEF Init, NoAttempt, TargetHead, AbandonedObjects
  <2>2. PublicationLiveInventory(0) = EmptyTree
    BY DEF PublicationLiveInventory, InventoryOf, EmptyTree
  <2>3. Recognized(EmptyTree) = EmptyTree
    BY <2>1 DEF Recognized, EmptyTree
  <2>4. R2Exact
    BY <2>1, <2>2, <2>3 DEF R2Exact
  <2>5. NothingUntracked
    BY <2>1 DEF NothingUntracked, Files, EmptyTree
  <2> QED
    BY <2>1, <2>4, <2>5 DEF TrackInv, EvidenceSound, AbandonedAgree, ResumeSound, ListedSound, AppliedExact, Active
<1> QED
  BY <1>1, TrackStep, Invariance, PTL DEF Spec

\* Whatever an attempt left when it was interrupted, the checks with which a
\* later publish takes it up again accept it.
THEOREM ResumeAdmittedHolds == Spec => []ResumeAdmitted
<1>1. PublicationInv /\ TrackInv => ResumeAdmitted
  BY RecoverableAccounted DEF PublicationInv, TrackInv, ResumeSound, ResumeAdmitted
<1> QED
  BY <1>1, Tracking, Invariance, PTL

\* Every file at the target is in the head checkpoint's inventory, in the
\* evidence of an abandoned attempt or in the target of the active one.
THEOREM NothingUntrackedHolds == Spec => []NothingUntracked
<1>1. TrackInv => NothingUntracked
  BY DEF TrackInv
<1> QED
  BY <1>1, Tracking, PTL

\* On r2, with nothing running, the target holds exactly what the head's live
\* inventory lists, and known orphans.
THEOREM LiveInventoryExactHolds ==
  ASSUME Provider = "r2"
  PROVE  Spec => []LiveInventoryExact
<1>1. TrackInv => LiveInventoryExact
  BY DEF TrackInv, R2Exact, LiveInventoryExact
<1> QED
  BY <1>1, Tracking, PTL
-----------------------------------------------------------------------------
(* The grace period *)

\* The operator may raise max_cache_ttl, never lower it.
TTLNeverLowered == \A r \in Rebinds : r[1] <= r[2]

\* Checkpoints and their recorded deadlines are in the order of time, and only
\* the last one may lack its grace record.
TimesInOrder ==
  /\ \A k \in 1 .. TargetHead :
       /\ checkpoints[k].appliedAt <= clock
       /\ checkpoints[k].phase = "applied" => attempt.phase = "applied"
       /\ checkpoints[k].phase # "applied" =>
            checkpoints[k].notBefore <= checkpoints[k].appliedAt + GraceMinimum(ttl)
  /\ \A j, k \in 1 .. TargetHead : j < k =>
       /\ checkpoints[j].appliedAt <= checkpoints[k].appliedAt
       /\ checkpoints[j].phase # "applied"
       /\ checkpoints[k].phase # "applied" => checkpoints[j].notBefore <= checkpoints[k].notBefore

\* Checkpoints leave grace in the order in which they were written.
GraceInOrder ==
  \A j, k \in 1 .. TargetHead :
    j < k /\ checkpoints[j].phase = "grace" => checkpoints[k].phase \in {"grace", "applied"}

\* A gc run has every checkpoint in grace before it that was due when it
\* started, and works on the oldest of them.
RunInOrder ==
  /\ started <= clock
  /\ pc = "gc" => \A k \in 1 .. TargetHead : checkpoints[k].phase = "grace" => k \in todo \/ ~Due(k)
  /\ item # 0 => Due(item) /\ \A j \in 1 .. item - 1 : checkpoints[j].phase # "grace"

\* No generation published since the reported checkpoint has a candidate's path.
CandidatesDropped ==
  \A k \in 1 .. TargetHead :
    checkpoints[k].reported /\ checkpoints[k].phase = "grace" =>
      \A f \in checkpoints[k].candidates : \A j \in k .. TargetHead : ManifestOf(j)[f[1]] = None

GraceInv == TimesInOrder /\ GraceInOrder /\ RunInOrder /\ CandidatesDropped

\* A longer TTL asks for a longer grace period.
LEMMA GraceMonotone ==
  ASSUME NEW s \in Nat, NEW t \in Nat, s <= t
  PROVE  GraceMinimum(s) \in Nat /\ GraceMinimum(t) \in Nat /\ GraceMinimum(s) <= GraceMinimum(t)
BY ConstantsAssumption DEF GraceMinimum, Larger

\* The fields of a checkpoint record.
LEMMA CheckpointFields ==
  ASSUME TypeOK, NEW k \in 1 .. TargetHead
  PROVE  /\ checkpoints[k] \in Checkpoint
         /\ checkpoints[k].appliedAt \in Nat /\ checkpoints[k].notBefore \in Nat
<1>1. checkpoints[k] \in Checkpoint
  BY DEF TypeOK, TargetHead
<1> QED
  BY <1>1 DEF Checkpoint

\* Deadlines are in order too: an older checkpoint in grace is due when a newer is.
LEMMA DueInOrder ==
  ASSUME TypeOK, TimesInOrder, NEW j \in 1 .. TargetHead, NEW k \in 1 .. TargetHead,
         j < k, checkpoints[j].phase = "grace", Due(k)
  PROVE  Due(j)
<1>1. /\ checkpoints[j].appliedAt \in Nat /\ checkpoints[j].notBefore \in Nat
      /\ checkpoints[k].appliedAt \in Nat /\ checkpoints[k].notBefore \in Nat
      /\ GraceMinimum(ttl) \in Nat /\ started \in Nat
  <2>1. ttl \in Nat /\ started \in Nat /\ ttl <= ttl
    BY DEF TypeOK
  <2> QED
    BY <2>1, CheckpointFields, GraceMonotone
<1>2. /\ checkpoints[j].appliedAt <= checkpoints[k].appliedAt
      /\ checkpoints[j].notBefore <= checkpoints[k].notBefore
  BY DEF TimesInOrder, Due
<1>3. started >= GraceDeadline(k)
  BY DEF Due
<1>4. GraceDeadline(k) >= GraceDeadline(j)
  BY <1>1, <1>2 DEF GraceDeadline, Larger
<1>5. GraceDeadline(j) \in Nat /\ GraceDeadline(k) \in Nat
  BY <1>1 DEF GraceDeadline, Larger
<1> QED
  BY <1>1, <1>3, <1>4, <1>5 DEF Due

\* The checkpoint that gc takes up is the oldest one in grace.
LEMMA OldestFirst ==
  ASSUME TypeOK, TimesInOrder, RunInOrder, NEW k \in todo, NextItem(k), Due(k)
  PROVE  \A j \in 1 .. k - 1 : checkpoints[j].phase # "grace"
<1>1. k \in 1 .. TargetHead /\ pc = "gc" /\ TargetHead \in Nat
  BY DEF TypeOK, NextItem, TargetHead
<1> SUFFICES ASSUME NEW j \in 1 .. k - 1, checkpoints[j].phase = "grace" PROVE FALSE
  OBVIOUS
<1>2. j \in 1 .. TargetHead /\ j < k
  BY <1>1
<1>3. j \in todo \ {k}
  BY <1>1, <1>2, DueInOrder DEF RunInOrder
<1>4. checkpoints[j].notBefore <= checkpoints[k].notBefore
  BY <1>1, <1>2 DEF TimesInOrder, Due
<1>5. checkpoints[j].notBefore \in Nat /\ checkpoints[k].notBefore \in Nat
  BY <1>1, <1>2, CheckpointFields
<1> QED
  BY <1>1, <1>2, <1>3, <1>4, <1>5 DEF NextItem

\* A step that leaves the checkpoints alone.
LEMMA GraceQuiet ==
  ASSUME TypeOK, TypeOK', GraceInv, RunInOrder',
         Len(generations) <= Len(generations'),
         \A i \in 1 .. Len(generations) : generations'[i] = generations[i],
         checkpoints' = checkpoints, clock <= clock', ttl <= ttl',
         attempt.phase = "applied" => attempt'.phase = "applied"
  PROVE  GraceInv'
<1>1. TargetHead' = TargetHead /\ TargetHead \in Nat
  BY DEF TargetHead, TypeOK
<1>2. \A k \in 0 .. TargetHead : ManifestOf(k)' = ManifestOf(k)
  BY <1>1, SameManifests
<1>3. TimesInOrder'
  <2>1. /\ GraceMinimum(ttl) \in Nat /\ GraceMinimum(ttl') \in Nat
        /\ GraceMinimum(ttl) <= GraceMinimum(ttl')
    BY GraceMonotone DEF TypeOK
  <2>2. ASSUME NEW k \in 1 .. TargetHead
        PROVE  /\ checkpoints[k].appliedAt <= clock'
               /\ checkpoints[k].phase = "applied" => attempt'.phase = "applied"
               /\ checkpoints[k].phase # "applied" =>
                    checkpoints[k].notBefore <= checkpoints[k].appliedAt + GraceMinimum(ttl')
    <3>1. checkpoints[k].appliedAt \in Nat /\ checkpoints[k].notBefore \in Nat
      BY CheckpointFields
    <3>2. clock \in Nat /\ clock' \in Nat
      BY DEF TypeOK
    <3>3. /\ checkpoints[k].appliedAt <= clock
          /\ checkpoints[k].phase = "applied" => attempt.phase = "applied"
          /\ checkpoints[k].phase # "applied" =>
               checkpoints[k].notBefore <= checkpoints[k].appliedAt + GraceMinimum(ttl)
      BY DEF GraceInv, TimesInOrder
    <3> DEFINE a == checkpoints[k].appliedAt
               b == checkpoints[k].notBefore
    <3>4. a <= clock'
      <4> HIDE DEF a
      <4> QED
        BY <3>1, <3>2, <3>3 DEF a
    <3>5. b <= a + GraceMinimum(ttl) => b <= a + GraceMinimum(ttl')
      <4>1. a \in Nat /\ b \in Nat
        BY <3>1
      <4> HIDE DEF a, b
      <4> QED
        BY <2>1, <4>1
    <3> QED
      BY <3>3, <3>4, <3>5
  <2>3. GraceMinimum(ttl)' = GraceMinimum(ttl')
    BY DEF GraceMinimum
  <2> QED
    BY <1>1, <2>2, <2>3 DEF GraceInv, TimesInOrder
<1>4. GraceInOrder'
  BY <1>1 DEF GraceInv, GraceInOrder
<1>5. CandidatesDropped'
  BY <1>1, <1>2 DEF GraceInv, CandidatesDropped
<1> QED
  BY <1>3, <1>4, <1>5 DEF GraceInv

\* Outside a gc run there is nothing to order.
LEMMA NotCollecting ==
  ASSUME TypeOK, TypeOK', CommandSound, RunInOrder, pc' # "gc", clock <= clock',
         started' \in {0, started}, item' = 0 \/ (item' = item /\ pc # "gc")
  PROVE  RunInOrder'
<1>1. item' = 0
  BY DEF CommandSound
<1>2. started' <= clock'
  BY DEF RunInOrder, TypeOK
<1> QED
  BY <1>1, <1>2 DEF RunInOrder

\* A step that changes neither the gc run nor what it goes by.
LEMMA SameRun ==
  ASSUME TypeOK, TypeOK', CommandSound, RunInOrder,
         UNCHANGED <<pc, started, todo, item, checkpoints>>, clock <= clock',
         pc = "gc" => ttl' = ttl
  PROVE  RunInOrder'
<1>1. CASE pc # "gc"
  BY <1>1, NotCollecting
<1>2. CASE pc = "gc"
  <2>1. TargetHead' = TargetHead /\ \A k : Due(k)' <=> Due(k)
    BY <1>2 DEF TargetHead, Due, GraceDeadline
  <2>2. started' <= clock'
    BY DEF RunInOrder, TypeOK
  <2> QED
    BY <1>2, <2>1, <2>2 DEF RunInOrder
<1> QED
  BY <1>1, <1>2

\* The new checkpoint is the latest, and nothing is being collected.
LEMMA GraceNew ==
  ASSUME PublicationInv, TypeOK', GraceInv, PutAppliedCheckpoint
  PROVE  GraceInv'
<1>0. TypeOK /\ CommandSound /\ ReportsSound
  BY DEF PublicationInv
<1>1. /\ pc = "apply" /\ pc' = "grace" /\ attempt.phase = "verified" /\ attempt'.phase = "applied"
      /\ UNCHANGED <<generations, ttl, clock, started, item>>
  BY <1>0 DEF PutAppliedCheckpoint, TypeOK, Attempt
<1>2. /\ TargetHead \in Nat /\ TargetHead' = TargetHead + 1
      /\ \A k \in 1 .. TargetHead : checkpoints'[k] = checkpoints[k]
      /\ checkpoints'[TargetHead'].phase = "applied"
      /\ checkpoints'[TargetHead'].appliedAt = clock
  BY <1>0 DEF PutAppliedCheckpoint, TypeOK, TargetHead
<1>3. \A k \in 1 .. TargetHead' : k \in 1 .. TargetHead \/ k = TargetHead'
  BY <1>2
<1>4. GraceMinimum(ttl)' = GraceMinimum(ttl)
  BY <1>1 DEF GraceMinimum
<1>5. \A k \in 1 .. TargetHead : checkpoints[k].phase # "applied"
  BY <1>1 DEF GraceInv, TimesInOrder
<1>6. clock \in Nat
  BY <1>0 DEF TypeOK
<1>7. TimesInOrder'
  <2>1. ASSUME NEW k \in 1 .. TargetHead'
        PROVE  /\ checkpoints'[k].appliedAt <= clock
               /\ checkpoints'[k].phase = "applied" => attempt'.phase = "applied"
               /\ checkpoints'[k].phase # "applied" =>
                    checkpoints'[k].notBefore <= checkpoints'[k].appliedAt + GraceMinimum(ttl)
    BY <1>1, <1>2, <1>3, <1>6 DEF GraceInv, TimesInOrder
  <2>2. ASSUME NEW j \in 1 .. TargetHead', NEW k \in 1 .. TargetHead', j < k
        PROVE  /\ checkpoints'[j].appliedAt <= checkpoints'[k].appliedAt
               /\ checkpoints'[j].phase # "applied"
               /\ checkpoints'[k].phase # "applied" => checkpoints'[j].notBefore <= checkpoints'[k].notBefore
    <3>1. j \in 1 .. TargetHead /\ checkpoints'[j] = checkpoints[j]
      BY <1>2, <2>2
    <3>2. CASE k = TargetHead'
      BY <1>2, <1>5, <3>1, <3>2 DEF GraceInv, TimesInOrder
    <3>3. CASE k \in 1 .. TargetHead
      BY <1>2, <2>2, <3>1, <3>3 DEF GraceInv, TimesInOrder
    <3> QED
      BY <1>3, <3>2, <3>3
  <2> QED
    BY <1>1, <1>4, <2>1, <2>2 DEF TimesInOrder
<1>8. GraceInOrder'
  BY <1>2, <1>3 DEF GraceInv, GraceInOrder
<1>9. RunInOrder'
  BY <1>0, <1>1, NotCollecting, <1>6 DEF GraceInv
<1>10. CandidatesDropped'
  BY <1>0, <1>1, <1>2, <1>3 DEF ReportsSound, PendingReport, Active, CandidatesDropped
<1> QED
  BY <1>7, <1>8, <1>9, <1>10 DEF GraceInv

\* The grace record's deadline is no earlier than those before it.
LEMMA GraceWritten ==
  ASSUME PublicationInv, TypeOK', GraceInv, PutGraceRecord
  PROVE  GraceInv'
<1>0. TypeOK /\ CommandSound /\ ReportsSound /\ TargetHead \in Nat
  BY DEF PublicationInv, TypeOK, TargetHead
<1> DEFINE limit == checkpoints[TargetHead].appliedAt + GraceMinimum(ttl)
           c == [checkpoints[TargetHead] EXCEPT !.phase = "grace", !.notBefore = limit]
<1>1. /\ attempt.phase = "applied" /\ checkpoints' = [checkpoints EXCEPT ![TargetHead] = c]
      /\ pc' = "idle" /\ started' = 0 /\ item' = 0
      /\ UNCHANGED <<generations, ttl, clock>>
  BY DEF PutGraceRecord, Idle
<1>2. TargetHead \in 1 .. TargetHead /\ checkpoints[TargetHead] \in Checkpoint
  <2>1. TargetHead # 0
    BY <1>0, <1>1 DEF TypeOK
  <2> QED
    BY <1>0, <2>1, CheckpointFields
<1>3. ttl \in Nat /\ GraceMinimum(ttl) \in Nat /\ clock \in Nat
  <2>1. ttl \in Nat /\ clock \in Nat /\ ttl <= ttl
    BY <1>0 DEF TypeOK
  <2> QED
    BY <2>1, GraceMonotone
<1>4. checkpoints[TargetHead].appliedAt \in Nat
  BY <1>0, <1>2, CheckpointFields
<1>5. limit \in Nat
  BY <1>3, <1>4
<1>6. /\ c \in Checkpoint /\ c.generation = checkpoints[TargetHead].generation
      /\ c.phase = "grace" /\ c.notBefore = limit /\ c.appliedAt = checkpoints[TargetHead].appliedAt
      /\ c.reported = checkpoints[TargetHead].reported
  <2> HIDE DEF limit
  <2> QED
    BY <1>2, <1>5 DEF Checkpoint
<1> HIDE DEF c
<1>7. /\ TargetHead' = TargetHead /\ checkpoints'[TargetHead] = c
      /\ \A j \in 1 .. TargetHead : j # TargetHead => checkpoints'[j] = checkpoints[j]
  BY <1>0, <1>1, <1>2, <1>6, ChangeCheckpoint
<1>8. \A k \in 0 .. TargetHead : ManifestOf(k)' = ManifestOf(k)
  <2>1. \A k \in 1 .. TargetHead : checkpoints'[k].generation = checkpoints[k].generation
    BY <1>6, <1>7
  <2> QED
    BY <1>0, <1>1, <1>7, <2>1, SameManifests DEF TypeOK
<1>9. GraceMinimum(ttl)' = GraceMinimum(ttl)
  BY <1>1 DEF GraceMinimum
<1>10. ASSUME NEW k \in 1 .. TargetHead, k # TargetHead
       PROVE  /\ k < TargetHead
              /\ checkpoints[k].appliedAt <= checkpoints[TargetHead].appliedAt
              /\ checkpoints[k].phase # "applied"
              /\ checkpoints[k].notBefore <= limit
  <2>1. /\ k < TargetHead
        /\ checkpoints[k].appliedAt <= checkpoints[TargetHead].appliedAt
        /\ checkpoints[k].phase # "applied"
        /\ checkpoints[k].notBefore <= checkpoints[k].appliedAt + GraceMinimum(ttl)
    BY <1>0, <1>2, <1>10 DEF GraceInv, TimesInOrder
  <2>2. checkpoints[k].notBefore \in Nat /\ checkpoints[k].appliedAt \in Nat
    BY <1>0, CheckpointFields
  <2> QED
    BY <1>3, <1>4, <2>1, <2>2
<1>11. TimesInOrder'
  <2>1. ASSUME NEW k \in 1 .. TargetHead
        PROVE  /\ checkpoints'[k].appliedAt <= clock
               /\ checkpoints'[k].phase # "applied"
               /\ checkpoints'[k].notBefore <= checkpoints'[k].appliedAt + GraceMinimum(ttl)
    <3>1. CASE k = TargetHead
      BY <1>2, <1>5, <1>6, <1>7, <3>1 DEF GraceInv, TimesInOrder
    <3>2. CASE k # TargetHead
      BY <1>7, <1>10, <3>2 DEF GraceInv, TimesInOrder
    <3> QED
      BY <3>1, <3>2
  <2>2. ASSUME NEW j \in 1 .. TargetHead, NEW k \in 1 .. TargetHead, j < k
        PROVE  /\ checkpoints'[j].appliedAt <= checkpoints'[k].appliedAt
               /\ checkpoints'[j].notBefore <= checkpoints'[k].notBefore
    <3>1. j # TargetHead /\ checkpoints'[j] = checkpoints[j]
      BY <1>0, <1>7, <2>2
    <3>2. CASE k = TargetHead
      BY <1>6, <1>7, <1>10, <3>1, <3>2
    <3>3. CASE k # TargetHead
      BY <1>7, <1>10, <2>2, <3>1, <3>3 DEF GraceInv, TimesInOrder
    <3> QED
      BY <3>2, <3>3
  <2> QED
    BY <1>1, <1>7, <1>9, <2>1, <2>2 DEF TimesInOrder
<1>12. GraceInOrder'
  BY <1>0, <1>6, <1>7 DEF GraceInv, GraceInOrder
<1>13. RunInOrder'
  BY <1>1, <1>3 DEF RunInOrder
<1>14. CandidatesDropped'
  BY <1>0, <1>1, <1>6, <1>7, <1>8 DEF ReportsSound, GraceInv, CandidatesDropped
<1> QED
  BY <1>11, <1>12, <1>13, <1>14 DEF GraceInv

\* What gc writes keeps the order, because it works on the oldest checkpoint.
LEMMA GraceReport ==
  ASSUME PublicationInv, TypeOK', GraceInv, RecordStep
  PROVE  GraceInv'
<1>0. TypeOK /\ CommandSound /\ TargetHead \in Nat
  BY DEF PublicationInv, TypeOK, TargetHead
<1>1. PICK k \in 1 .. TargetHead, c \in Checkpoint :
         /\ checkpoints' = [checkpoints EXCEPT ![k] = c]
         /\ c.generation = checkpoints[k].generation
         /\ c.appliedAt = checkpoints[k].appliedAt /\ c.notBefore = checkpoints[k].notBefore
         /\ pc = "gc" /\ pc' = pc
         /\ UNCHANGED <<generations, attempt, ttl, clock, started>>
         /\ MaintenanceStep(k, c)
  BY <1>0, RecordWritten
<1>2. /\ TargetHead' = TargetHead /\ checkpoints'[k] = c
      /\ \A j \in 1 .. TargetHead : j # k => checkpoints'[j] = checkpoints[j]
  BY <1>0, <1>1, ChangeCheckpoint
<1>3. \A j \in 1 .. TargetHead :
        /\ checkpoints'[j].generation = checkpoints[j].generation
        /\ checkpoints'[j].appliedAt = checkpoints[j].appliedAt
        /\ checkpoints'[j].notBefore = checkpoints[j].notBefore
  BY <1>1, <1>2
<1>4. \A j \in 0 .. TargetHead : ManifestOf(j)' = ManifestOf(j)
  BY <1>0, <1>1, <1>2, <1>3, SameManifests DEF TypeOK
<1>5. GraceMinimum(ttl)' = GraceMinimum(ttl)
  BY <1>1 DEF GraceMinimum
<1>6. \A j \in 1 .. TargetHead : checkpoints[j].phase # "applied"
  BY <1>0, <1>1 DEF GraceInv, TimesInOrder, CommandSound, Active
<1>7. /\ k = item => Due(k) /\ checkpoints[k].phase = "grace" /\ checkpoints[k].reported
                     /\ \A j \in 1 .. k - 1 : checkpoints[j].phase # "grace"
  BY <1>0, <1>2 DEF GraceInv, RunInOrder, CommandSound
<1>8. c.phase # "applied" /\ (c.phase = "grace" => checkpoints[k].phase = "grace")
  BY <1>1, <1>6, <1>7 DEF MaintenanceStep, Due
<1>9. \A j \in 1 .. TargetHead :
        /\ checkpoints'[j].phase # "applied"
        /\ checkpoints'[j].phase = "grace" => checkpoints[j].phase = "grace"
  BY <1>2, <1>6, <1>8
<1>10. \/ c.phase = "grace"
       \/ checkpoints[k].phase # "grace"
       \/ /\ checkpoints[k].phase = "grace" /\ item' = 0
          /\ \A j \in 1 .. k - 1 : checkpoints[j].phase # "grace"
  BY <1>1, <1>7 DEF MaintenanceStep
<1>11. TimesInOrder'
  BY <1>1, <1>2, <1>3, <1>5, <1>6, <1>9 DEF GraceInv, TimesInOrder
<1>12. GraceInOrder'
  <2> SUFFICES ASSUME NEW i \in 1 .. TargetHead, NEW j \in 1 .. TargetHead, i < j,
                      checkpoints'[i].phase = "grace"
               PROVE  checkpoints'[j].phase = "grace"
    BY <1>2 DEF GraceInOrder
  <2>1. checkpoints[i].phase = "grace" /\ checkpoints[j].phase = "grace"
    BY <1>6, <1>9 DEF GraceInv, GraceInOrder
  <2>2. j = k => c.phase = "grace"
    BY <1>10, <2>1
  <2> QED
    BY <1>2, <2>1, <2>2
<1>13. RunInOrder'
  <2>1. \A j \in 1 .. TargetHead : checkpoints'[j].phase = "grace" => (Due(j)' <=> Due(j))
    <3>1. \A j \in 1 .. TargetHead : GraceDeadline(j)' = GraceDeadline(j)
      BY <1>3, <1>5 DEF GraceDeadline
    <3> QED
      BY <1>1, <1>9, <3>1 DEF Due
  <2>2. \A j \in 1 .. TargetHead : checkpoints'[j].phase = "grace" => j \in todo' \/ ~Due(j)'
    <3>1. \A j \in todo : checkpoints'[j].phase = "grace" => j \in todo'
      BY <1>1, <1>2 DEF MaintenanceStep
    <3> QED
      BY <1>1, <1>9, <2>1, <3>1 DEF GraceInv, RunInOrder
  <2>3. ASSUME item' # 0
        PROVE  item' = item /\ item \in 1 .. TargetHead /\ checkpoints'[item].phase = "grace"
    <3>1. item' = item
      BY <1>1, <2>3 DEF MaintenanceStep
    <3>2. item \in 1 .. TargetHead /\ checkpoints[item].phase = "grace"
      BY <1>0, <2>3, <3>1 DEF TypeOK, CommandSound
    <3>3. CASE item = k
      BY <1>2, <1>10, <2>3, <3>1, <3>2, <3>3
    <3> QED
      BY <1>2, <3>1, <3>2, <3>3
  <2>4. ASSUME item' # 0
        PROVE  Due(item)' /\ \A j \in 1 .. item' - 1 : checkpoints'[j].phase # "grace"
    BY <1>0, <1>9, <2>1, <2>3, <2>4 DEF GraceInv, RunInOrder
  <2> QED
    BY <1>1, <1>2, <2>2, <2>4 DEF GraceInv, RunInOrder
<1>14. CandidatesDropped'
  <2> SUFFICES ASSUME NEW i \in 1 .. TargetHead, checkpoints'[i].reported, checkpoints'[i].phase = "grace",
                      NEW f \in checkpoints'[i].candidates, NEW j \in i .. TargetHead
               PROVE  ManifestOf(j)[f[1]] = None
    BY <1>2, <1>4 DEF CandidatesDropped
  <2>1. CASE i # k \/ (c.reported = checkpoints[k].reported /\ c.candidates = checkpoints[k].candidates)
    BY <1>2, <1>9, <2>1 DEF GraceInv, CandidatesDropped
  <2>2. CASE i = k /\ c.candidates = ExactCandidates(k)
    <3>1. j \in 1 .. TargetHead /\ (j = k \/ j > k)
      BY <1>0, <2>2
    <3>2. checkpoints[k].phase = "grace"
      BY <1>9, <2>2
    <3>3. j = k \/ checkpoints[j].phase = "grace"
      BY <1>6, <3>1, <3>2 DEF GraceInv, GraceInOrder
    <3>4. InventoryOf(k) \in Tree
      BY <1>0, TreeTypes DEF TypeOK, TargetHead
    <3>5. f[1] \in Path /\ f[1] \notin ProtectedPaths(k)
      BY <1>2, <2>2, <3>4, FilesType DEF ExactCandidates
    <3> QED
      BY <3>1, <3>3, <3>5 DEF ProtectedPaths
  <2>3. i = k => \/ c.candidates = ExactCandidates(k)
                 \/ c.reported = checkpoints[k].reported /\ c.candidates = checkpoints[k].candidates
    <3>1. i = k => c.phase = "grace"
      BY <1>2
    <3> QED
      BY <1>1, <3>1 DEF MaintenanceStep
  <2>4. \/ i # k \/ (c.reported = checkpoints[k].reported /\ c.candidates = checkpoints[k].candidates)
        \/ i = k /\ c.candidates = ExactCandidates(k)
    BY <2>3
  <2> QED
    BY <2>1, <2>2, <2>4
<1> QED
  BY <1>11, <1>12, <1>13, <1>14 DEF GraceInv

\* Every step keeps the order.
LEMMA GraceStep ==
  ASSUME TTLNeverLowered, PublicationInv, PublicationInv', GraceInv, [Next]_vars
  PROVE  GraceInv'
<1>0. TypeOK /\ TypeOK' /\ CommandSound /\ RunInOrder
  BY DEF PublicationInv, GraceInv
<1>1. /\ clock \in Nat /\ clock' \in Nat /\ ttl \in Nat /\ ttl' \in Nat
      /\ started \in Nat /\ clock <= clock /\ ttl <= ttl
  BY <1>0 DEF TypeOK
<1>2. CASE Local
  <2>1. /\ checkpoints' = checkpoints /\ clock' = clock /\ attempt' = attempt
        /\ UNCHANGED <<pc, started, todo, item>> /\ pc = "idle"
    BY <1>2 DEF Local, Build, LocalGC, Rebind, records, process
  <2>2. ttl <= ttl'
    BY <1>1, <1>2 DEF Local, Build, LocalGC, Rebind, records, TTLNeverLowered
  <2>3. /\ Len(generations) <= Len(generations')
        /\ \A i \in 1 .. Len(generations) : generations'[i] = generations[i]
    <3>1. generations \in Seq(Tree)
      BY <1>0 DEF TypeOK
    <3>2. generations' = generations \/ \E g : generations' = Append(generations, g)
      BY <1>2 DEF Local, Build, LocalGC, Rebind
    <3> QED
      BY <3>1, <3>2
  <2>4. RunInOrder'
    BY <1>0, <1>1, <2>1, SameRun
  <2> QED
    BY <1>0, <1>1, <2>1, <2>2, <2>3, <2>4, GraceQuiet
<1>3. CASE Tick \/ UNCHANGED vars \/ \E q \in Path : DeleteConditional(q)
  <2>1. /\ UNCHANGED <<generations, checkpoints, attempt, ttl, pc, started, todo, item>>
        /\ clock <= clock'
    <3>1. CASE Tick
      BY <1>1, <3>1 DEF Tick, records, process
    <3>2. CASE UNCHANGED vars
      BY <1>1, <3>2 DEF vars, records, process
    <3>3. CASE \E q \in Path : DeleteConditional(q)
      BY <1>1, <3>3 DEF DeleteConditional, records, process
    <3> QED
      BY <1>3, <3>1, <3>2, <3>3
  <2>2. RunInOrder'
    BY <1>0, <2>1, SameRun
  <2> QED
    BY <1>0, <1>1, <2>1, <2>2, GraceQuiet DEF TypeOK
<1>4. CASE Stop \/ GCEnd \/ Abandon \/ PublishNew \/ PublishResume \/ PublishResumeApplied
  <2>1. /\ UNCHANGED <<generations, checkpoints, ttl, clock>> /\ pc' # "gc"
        /\ started' \in {0, started} /\ (item' = 0 \/ (item' = item /\ pc # "gc"))
    <3>1. CASE Stop \/ GCEnd
      BY <3>1 DEF Stop, GCEnd, Idle, records
    <3>2. CASE Abandon
      BY <3>2 DEF Abandon, process
    <3>3. CASE PublishNew \/ PublishResume \/ PublishResumeApplied
      BY <3>3 DEF PublishNew, PublishResume, PublishResumeApplied, EnterPublish, records
    <3> QED
      BY <1>4, <3>1, <3>2, <3>3
  <2>2. attempt.phase = "applied" => attempt' = attempt
    BY <1>4 DEF Stop, GCEnd, Abandon, PreCommit, PublishNew, PublishResume, PublishResumeApplied, records, Active
  <2>3. RunInOrder'
    BY <1>0, <1>1, <2>1, NotCollecting
  <2> QED
    BY <1>0, <1>1, <2>1, <2>2, <2>3, GraceQuiet DEF TypeOK
<1>5. CASE \/ PayloadDone \/ MetadataDone \/ PreparePointers \/ PointersDone \/ ViewsVerified
           \/ SetCommitIntent \/ AliasesDone \/ ListInventory
  <2>1. /\ UNCHANGED <<generations, checkpoints, ttl, clock, started, item>>
        /\ pc' # "gc" /\ pc # "gc" /\ pc \notin {"idle", "gc", "grace"}
    BY <1>5 DEF PayloadDone, MetadataDone, PreparePointers, PointersDone, ViewsVerified, SetCommitIntent,
                AliasesDone, ListInventory, Goto
  <2>2. attempt.phase # "applied"
    BY <1>0, <2>1 DEF CommandSound
  <2>3. RunInOrder'
    BY <1>0, <1>1, <2>1, NotCollecting
  <2> QED
    BY <1>0, <1>1, <2>1, <2>2, <2>3, GraceQuiet DEF TypeOK
<1>6. CASE PrepareView \/ RecordPointer \/ VerifyView \/ PutStep
  <2>1. /\ UNCHANGED <<generations, checkpoints, ttl, clock, pc, started, todo, item>>
        /\ pc # "gc" /\ pc \notin {"idle", "gc", "grace"}
    BY <1>6 DEF PrepareView, RecordPointer, VerifyView, SetViewState, PutStep, PutPayload, PutMetadata,
                PutAlias, PutPointer, Put, Stage, Install, records, process
  <2>2. attempt.phase # "applied"
    BY <1>0, <2>1 DEF CommandSound
  <2>3. RunInOrder'
    BY <1>0, <1>1, <2>1, SameRun
  <2> QED
    BY <1>0, <1>1, <2>1, <2>2, <2>3, GraceQuiet DEF TypeOK
<1>7. CASE TargetGC
  <2>1. /\ UNCHANGED <<generations, checkpoints, attempt, ttl, clock, item>>
        /\ pc = "idle" /\ pc' = "gc" /\ started' = clock /\ todo' = Unfinished
    BY <1>7 DEF TargetGC, records
  <2>2. RunInOrder'
    BY <1>0, <1>1, <2>1 DEF RunInOrder, CommandSound, Unfinished, TargetHead
  <2> QED
    BY <1>0, <1>1, <2>1, <2>2, GraceQuiet DEF TypeOK
<1>8. ASSUME NEW k \in todo, GCSkip(k) \/ OpenReport(k)
      PROVE  GraceInv'
  <2>1. /\ UNCHANGED <<generations, checkpoints, attempt, ttl, clock, pc, started>>
        /\ NextItem(k) /\ pc = "gc"
    BY <1>8 DEF GCSkip, OpenReport, NextItem, records
  <2>2. TargetHead' = TargetHead /\ \A j : Due(j)' <=> Due(j)
    BY <2>1 DEF TargetHead, Due, GraceDeadline
  <2>3. RunInOrder'
    <3>1. CASE GCSkip(k)
      BY <2>1, <2>2, <1>0, <3>1 DEF GCSkip, RunInOrder
    <3>2. CASE OpenReport(k)
      <4>1. /\ item' = k /\ todo' = todo /\ Due(k)
        BY <3>2 DEF OpenReport
      <4>2. \A j \in 1 .. k - 1 : checkpoints[j].phase # "grace"
        BY <1>0, <2>1, <4>1, OldestFirst DEF GraceInv
      <4> QED
        BY <1>0, <2>1, <2>2, <4>1, <4>2 DEF RunInOrder
    <3> QED
      BY <1>8, <3>1, <3>2
  <2> QED
    BY <1>0, <1>1, <2>1, <2>3, GraceQuiet DEF TypeOK
<1>9. CASE PutAppliedCheckpoint \/ PutGraceRecord \/ RecordStep
  BY <1>0, <1>9, GraceNew, GraceWritten, GraceReport
<1> QED
  BY <1>2, <1>3, <1>4, <1>5, <1>6, <1>7, <1>8, <1>9 DEF Next, Publish, Maintain, PutStep, RecordStep

\* Only gc removes files.
LEMMA OnlyDeleted ==
  ASSUME PublicationInv, [Next]_vars, NEW q \in Path, remote[q] # None, remote'[q] = None
  PROVE  DeleteConditional(q)
<1>0. TypeOK /\ TypeOK /\ remote \in [Path -> Object]
  BY DEF PublicationInv, TypeOK, Tree
<1>1. CASE PutStep
  <2>1. PICK p \in PlanWrites : Stage(p) \/ Install(p)
    BY <1>0, <1>1, InstallFacts
  <2>2. TargetManifest[p] # None
    BY <2>1 DEF PlanWrites, Writes
  <2>3. remote'[q] \in {remote[q], TargetManifest[p]}
    BY <1>0, <2>1 DEF Stage, Install
  <2> QED
    BY <2>2, <2>3
<1>2. ASSUME NEW p \in Path, DeleteConditional(p)
      PROVE  p = q
  BY <1>0, <1>2 DEF DeleteConditional
<1>3. CASE ~PutStep /\ ~ \E p \in Path : DeleteConditional(p)
  <2>1. remote' = remote
    BY <1>3 DEF Next, Local, Build, LocalGC, Rebind, Tick, Publish, PutStep, PublishNew, PublishResume,
                PublishResumeApplied, PayloadDone, MetadataDone, PreparePointers, PrepareView, SetCommitIntent,
                AliasesDone, RecordPointer, PointersDone, ListInventory, VerifyView, ViewsVerified,
                PutAppliedCheckpoint, PutGraceRecord, SetViewState, Goto, Abandon, Maintain, TargetGC, GCSkip,
                PutCandidateReport, OpenReport, CompleteAttempt, PutDeletionReceipt, MarkReportTerminal, GCEnd,
                Stop, vars
  <2> QED
    BY <2>1
<1> QED
  BY <1>1, <1>2, <1>3

\* What GraceHonoured asks of a step.
LEMMA GraceHonouredStep ==
  ASSUME PublicationInv, GraceInv, [Next]_vars, NEW q \in Path, remote[q] # None, remote'[q] = None,
         NEW k \in 1 .. (TargetHead - 1), ManifestOf(k)[q] = remote[q]
  PROVE  clock >= checkpoints[k + 1].appliedAt + GraceMinimum(ttl)
<1>0. TypeOK /\ CommandSound /\ TargetHead \in Nat
  BY DEF PublicationInv, TypeOK, TargetHead
<1>1. DeleteConditional(q)
  BY OnlyDeleted
<1>2. /\ item \in 1 .. TargetHead /\ Due(item) /\ started <= clock
      /\ checkpoints[item].reported /\ checkpoints[item].phase = "grace"
      /\ <<q, remote[q]>> \in checkpoints[item].candidates
  BY <1>0, <1>1 DEF DeleteConditional, GraceInv, RunInOrder, CommandSound, TypeOK
<1>3. k < item
  <2>1. k \in item .. TargetHead => ManifestOf(k)[q] = None
    BY <1>2 DEF GraceInv, CandidatesDropped
  <2> QED
    BY <1>0, <1>2, <2>1
<1>4. k + 1 \in 1 .. TargetHead /\ checkpoints[k + 1].appliedAt <= checkpoints[item].appliedAt
  <2>1. k + 1 \in 1 .. TargetHead /\ (k + 1 = item \/ k + 1 < item)
    BY <1>0, <1>2, <1>3
  <2>2. checkpoints[item].appliedAt \in Nat
    BY <1>0, <1>2, CheckpointFields
  <2>3. CASE k + 1 = item
    BY <2>2, <2>3, <1>2
  <2>4. CASE k + 1 < item
    BY <1>2, <2>1, <2>4 DEF GraceInv, TimesInOrder
  <2> QED
    BY <2>1, <2>3, <2>4
<1>5. /\ checkpoints[item].appliedAt \in Nat /\ checkpoints[item].notBefore \in Nat
      /\ checkpoints[k + 1].appliedAt \in Nat
      /\ GraceMinimum(ttl) \in Nat /\ started \in Nat /\ clock \in Nat
  BY <1>0, <1>2, <1>4, CheckpointFields, GraceType DEF TypeOK
<1>6. started >= checkpoints[item].appliedAt + GraceMinimum(ttl)
  <2>1. started >= Larger(checkpoints[item].notBefore, checkpoints[item].appliedAt + GraceMinimum(ttl))
    BY <1>2 DEF Due, GraceDeadline
  <2> QED
    BY <1>5, <2>1 DEF Larger
<1> QED
  BY <1>2, <1>4, <1>5, <1>6

\* As long as the operator never lowers max_cache_ttl, a file that some
\* superseded checkpoint published stays for the full grace period, counted
\* from the checkpoint that superseded it.
THEOREM GraceHonouredHolds ==
  ASSUME TTLNeverLowered
  PROVE  Spec => GraceHonoured
<1>1. Init => GraceInv
  BY DEF Init, GraceInv, TimesInOrder, GraceInOrder, RunInOrder, CandidatesDropped, TargetHead
<1>2. PublicationInv /\ PublicationInv' /\ GraceInv /\ [Next]_vars => GraceInv'
  BY GraceStep
<1>3. PublicationInv /\ GraceInv /\ [Next]_vars =>
        \A q \in Path : remote[q] # None /\ remote'[q] = None =>
          \A k \in 1 .. (TargetHead - 1) :
            ManifestOf(k)[q] = remote[q] =>
              clock >= checkpoints[k + 1].appliedAt + GraceMinimum(ttl)
  BY GraceHonouredStep
<1> QED
  BY <1>1, <1>2, <1>3, Invariance, PTL DEF Spec, GraceHonoured
-----------------------------------------------------------------------------
(* Rolling forward *)

\* The generation serves dist d.
ServesDist(i, d) == \E p \in Pointer : DistOf[p] = d /\ generations[i][p] # None

\* A dist has a pointer as long as it has an alias, and no generation serves
\* a dist without an architecture that an earlier one had: a dist may go and
\* come back, but not with fewer architectures.
ArchitecturesStay ==
  \A i \in 1 .. Len(generations) : \A a \in Alias :
    generations[i][a] # None =>
      /\ ServesDist(i, DistOf[a])
      /\ \A j \in i .. Len(generations) : ServesDist(j, DistOf[a]) => generations[j][a] # None

\* An alias at the target is the head's, or one the running attempt has just written.
AliasesKnown ==
  \A a \in Alias :
    remote[a] # None =>
      \/ HeadManifest[a] # None
      \/ Rolling /\ a \in PlanWrites /\ remote[a] = TargetManifest[a]

\* A step that writes nothing, adds no checkpoint and ends no attempt that has
\* commit intent.
LEMMA AliasesQuiet ==
  ASSUME TypeOK, TypeOK', AliasesKnown,
         Len(generations) <= Len(generations'),
         \A i \in 1 .. Len(generations) : generations'[i] = generations[i],
         TargetHead' = TargetHead,
         \A k \in 1 .. TargetHead : checkpoints'[k].generation = checkpoints[k].generation,
         \A a \in Alias : remote'[a] \in {None, remote[a]},
         Rolling => Rolling' /\ attempt'.base = attempt.base /\ attempt'.generation = attempt.generation
  PROVE  AliasesKnown'
<1>0. TargetHead \in Nat /\ TargetHead <= TargetHead'
  BY DEF TypeOK, TargetHead
<1>1. HeadManifest' = HeadManifest
  BY <1>0, SameManifests
<1>2. Rolling => PlanWrites' = PlanWrites /\ TargetManifest' = TargetManifest
  BY <1>0, SameManifests
<1> QED
  BY <1>1, <1>2 DEF AliasesKnown

\* Every step keeps stale aliases away.
LEMMA AliasesStep ==
  ASSUME PublicationInv, PublicationInv', ArchitecturesStay, AliasesKnown, [Next]_vars
  PROVE  AliasesKnown'
<1>0. /\ TypeOK /\ TypeOK' /\ CommandSound /\ AttemptSound /\ HeadInPlace
      /\ TargetHead \in Nat /\ generations \in Seq(Tree) /\ Len(generations) \in Nat
      /\ remote \in [Path -> Object]
  BY DEF PublicationInv, TypeOK, TargetHead, Tree
<1>1. CASE Local
  <2>1. UNCHANGED <<remote, attempt, checkpoints>>
    BY <1>1 DEF Local, Build, LocalGC, Rebind, records
  <2>2. /\ Len(generations) <= Len(generations')
        /\ \A i \in 1 .. Len(generations) : generations'[i] = generations[i]
    <3>1. generations' = generations \/ \E g : generations' = Append(generations, g)
      BY <1>1 DEF Local, Build, LocalGC, Rebind
    <3> QED
      BY <1>0, <3>1
  <2> QED
    BY <1>0, <2>1, <2>2, AliasesQuiet DEF TargetHead, Rolling, Committed, PreCommit, Active
<1>2. CASE PutStep
  <2>1. PICK q \in PlanWrites :
           /\ Stage(q) \/ Install(q)
           /\ q \in Immutable \/ (q \in Path \ Immutable /\ Rolling)
    BY <1>2, InstallFacts
  <2>2. UNCHANGED <<generations, attempt, checkpoints>>
    BY <2>1 DEF Stage, Install, records
  <2>3. CASE remote' = remote
    BY <1>0, <2>2, <2>3, AliasesQuiet DEF TargetHead, Rolling, Committed, PreCommit, Active
  <2>4. CASE remote' = [remote EXCEPT ![q] = TargetManifest[q]]
    <3>1. /\ HeadManifest' = HeadManifest /\ PlanWrites' = PlanWrites /\ TargetManifest' = TargetManifest
          /\ Rolling' <=> Rolling
      BY <1>0, <2>2, SameManifests DEF TypeOK, TargetHead, Rolling, Committed, PreCommit, Active
    <3>2. q \in Alias => Rolling
      BY <2>1, ConstantsAssumption DEF Immutable
    <3>3. q \in Path
      BY <2>1 DEF PlanWrites, Writes
    <3> QED
      BY <1>0, <2>1, <2>4, <3>1, <3>2, <3>3 DEF AliasesKnown
  <2> QED
    BY <2>1, <2>3, <2>4 DEF Stage, Install
<1>3. CASE PutAppliedCheckpoint
  <2>1. /\ attempt.phase = "verified" /\ attempt.base = TargetHead /\ attempt.generation # 0
        /\ \A q \in PlanWrites : remote[q] = TargetManifest[q]
        /\ attempt'.generation = attempt.generation
        /\ UNCHANGED <<generations, remote>>
    BY <1>0, <1>3 DEF PutAppliedCheckpoint, TypeOK, Attempt, Active
  <2>2. TargetHead' = TargetHead + 1 /\ checkpoints'[TargetHead'].generation = attempt.generation
    BY <1>0, <1>3 DEF PutAppliedCheckpoint, TypeOK, TargetHead
  <2>3. HeadManifest' = TargetManifest /\ BaseManifest = HeadManifest
    BY <1>0, <2>1, <2>2 DEF HeadManifest, BaseManifest, ManifestOf, TargetManifest
  <2>4. ASSUME NEW a \in Alias, remote[a] # None
        PROVE  TargetManifest[a] # None
    <3>1. CASE a \in PlanWrites
      BY <2>1, <2>4, <3>1
    <3>2. CASE a \notin PlanWrites
      <4>1. HeadManifest[a] # None
        BY <2>4, <3>2 DEF AliasesKnown
      <4> DEFINE i == checkpoints[TargetHead].generation
                 j == attempt.generation
      <4>2. TargetHead # 0
        BY <4>1, ConstantsAssumption DEF HeadManifest, ManifestOf, EmptyTree, Path
      <4>3. /\ i \in 1 .. Len(generations) /\ j \in 1 .. Len(generations) /\ i <= j
            /\ HeadManifest = generations[i] /\ TargetManifest = generations[j]
        <5>1. j = Len(generations)
          BY <1>0, <2>1 DEF AttemptSound, RollForwardSource, Active
        <5>2. i \in 1 .. Len(generations)
          <6>1. TargetHead \in 1 .. TargetHead
            BY <1>0, <4>2
          <6> QED
            BY <1>0, <6>1 DEF TypeOK
        <5>3. HeadManifest = generations[i] /\ TargetManifest = generations[j]
          BY <2>1, <4>2 DEF HeadManifest, ManifestOf, TargetManifest
        <5>4. j \in Nat /\ j # 0
          BY <1>0, <2>1 DEF TypeOK, Attempt
        <5> HIDE DEF i, j
        <5> QED
          BY <1>0, <5>1, <5>2, <5>3, <5>4
      <4>4. PICK p \in Pointer : DistOf[p] = DistOf[a] /\ HeadManifest[p] # None
        BY <4>1, <4>3 DEF ArchitecturesStay, ServesDist
      <4>5. TargetManifest[p] # None
        BY <1>0, <2>1, <2>3, <4>4 DEF AttemptSound, Active, PlanAccepted
      <4>6. j \in i .. Len(generations) /\ ServesDist(j, DistOf[a])
        BY <1>0, <4>3, <4>4, <4>5 DEF ServesDist
      <4> QED
        BY <4>1, <4>3, <4>6 DEF ArchitecturesStay
    <3> QED
      BY <3>1, <3>2
  <2> QED
    BY <2>1, <2>3, <2>4 DEF AliasesKnown
<1>4. CASE PutGraceRecord
  <2>1. /\ UNCHANGED <<generations, remote>> /\ attempt.phase = "applied"
    BY <1>4 DEF PutGraceRecord
  <2>2. TargetHead' = TargetHead
        /\ \A k \in 1 .. TargetHead : checkpoints'[k].generation = checkpoints[k].generation
    BY <1>0, <1>4, GraceRecorded
  <2> QED
    BY <1>0, <2>1, <2>2, AliasesQuiet DEF Rolling
<1>5. CASE RecordStep
  <2>1. PICK k \in 1 .. TargetHead, c \in Checkpoint :
           /\ checkpoints' = [checkpoints EXCEPT ![k] = c]
           /\ c.generation = checkpoints[k].generation
           /\ UNCHANGED <<generations, remote, attempt>>
    BY <1>0, <1>5, RecordWritten
  <2>2. TargetHead' = TargetHead
        /\ \A j \in 1 .. TargetHead : checkpoints'[j].generation = checkpoints[j].generation
    BY <1>0, <2>1, ChangeCheckpoint
  <2> QED
    BY <1>0, <2>1, <2>2, AliasesQuiet DEF Rolling, Committed, PreCommit, Active
<1>6. CASE \E q \in Path : DeleteConditional(q)
  <2>1. PICK q \in Path : DeleteConditional(q)
    BY <1>6
  <2>2. UNCHANGED <<generations, attempt, checkpoints>> /\ \A a \in Alias : remote'[a] \in {None, remote[a]}
    BY <1>0, <2>1 DEF DeleteConditional, records
  <2> QED
    BY <1>0, <2>2, AliasesQuiet DEF TargetHead, Rolling, Committed, PreCommit, Active
<1>7. CASE Abandon \/ PublishNew
  <2>1. UNCHANGED <<generations, remote, checkpoints>> /\ ~Rolling
    BY <1>7 DEF Abandon, PublishNew, Rolling, Committed
  <2> QED
    BY <1>0, <2>1, AliasesQuiet DEF TargetHead
<1>8. CASE \/ Tick \/ Stop \/ UNCHANGED vars \/ PublishResume \/ PublishResumeApplied
           \/ AliasesDone \/ ListInventory \/ TargetGC \/ GCEnd \/ \E k \in todo : GCSkip(k) \/ OpenReport(k)
  <2>1. UNCHANGED <<generations, remote, attempt, checkpoints>>
    BY <1>8 DEF Tick, Stop, vars, PublishResume, PublishResumeApplied, AliasesDone, ListInventory, TargetGC,
                GCEnd, GCSkip, OpenReport, Goto, records
  <2> QED
    BY <1>0, <2>1, AliasesQuiet DEF TargetHead, Rolling, Committed, PreCommit, Active
<1>9. CASE PrepareView \/ RecordPointer \/ VerifyView
  <2>1. PICK p \in Pointer, next \in ViewState : SetViewState(p, next)
    BY <1>9 DEF PrepareView, RecordPointer, VerifyView, ViewState
  <2>2. /\ UNCHANGED <<generations, remote, checkpoints>> /\ attempt'.phase = attempt.phase
        /\ attempt'.base = attempt.base /\ attempt'.generation = attempt.generation
    BY <1>0, <2>1 DEF SetViewState, TypeOK, Attempt
  <2> QED
    BY <1>0, <2>2, AliasesQuiet DEF TargetHead, Rolling, Committed, PreCommit, Active
<1>10. CASE PayloadDone \/ MetadataDone \/ PreparePointers \/ PointersDone \/ ViewsVerified \/ SetCommitIntent
  <2>1. UNCHANGED <<generations, remote, checkpoints>>
    BY <1>10 DEF PayloadDone, MetadataDone, PreparePointers, PointersDone, ViewsVerified, SetCommitIntent, Goto
  <2>2. SameAttempt
    BY <1>10, <1>0, AdvanceType DEF PayloadDone, MetadataDone, PreparePointers, PointersDone, ViewsVerified,
                                    SetCommitIntent, SameAttempt, TypeOK, Attempt
  <2>3. Rolling => Rolling'
    BY <1>0, <1>10 DEF PayloadDone, MetadataDone, PreparePointers, PointersDone, ViewsVerified, SetCommitIntent,
                       AdvancePhase, Adjacent, Rolling, Committed, PreCommit, Active, TypeOK, Attempt
  <2> QED
    BY <1>0, <2>1, <2>2, <2>3, AliasesQuiet DEF TargetHead, SameAttempt
<1> QED
  BY <1>1, <1>2, <1>3, <1>4, <1>5, <1>6, <1>7, <1>8, <1>9, <1>10
     DEF Next, Publish, Maintain, PutStep, RecordStep

\* With these every planned write of an attempt that has commit intent is done
\* or passes its condition.
LEMMA RollForward ==
  ASSUME PublicationInv, AliasesKnown
  PROVE  RollForwardPossible
<1> SUFFICES ASSUME Rolling, NEW q \in PlanWrites
             PROVE  remote[q] = TargetManifest[q] \/ PutAllowed(q)
  BY DEF RollForwardPossible, Rolling
<1>0. /\ TypeOK /\ ClaimsInPlace /\ HeadInPlace /\ q \in Path
      /\ Active /\ attempt.phase # "applied" /\ HeadManifest = BaseManifest
  BY DEF PublicationInv, AttemptSound, RollForwardSource, Rolling, Committed, HeadManifest, BaseManifest,
         PlanWrites, Writes
<1>1. CASE q \in Immutable
  <2>1. /\ PhaseRank[attempt.phase] >= PhaseRank["payload"]
        /\ PhaseRank[attempt.phase] >= PhaseRank["immutable_metadata"]
    BY <1>0, Ranks DEF Rolling, Committed, PreCommit, Active, TypeOK, Attempt, AttemptPhase
  <2> QED
    BY <1>0, <1>1, <2>1 DEF ClaimsInPlace, Immutable
<1>2. CASE q \notin Immutable
  <2>1. q \notin Payload
    BY <1>2 DEF Immutable
  <2>2. CASE BaseManifest[q] # None \/ q \in Pointer
    BY <1>0, <2>1, <2>2 DEF HeadInPlace, PutAllowed
  <2>3. CASE BaseManifest[q] = None /\ q \in Alias
    BY <1>0, <2>3 DEF AliasesKnown, PutAllowed
  <2> QED
    BY <1>0, <1>2, <2>2, <2>3 DEF Path, Immutable
<1> QED
  BY <1>1, <1>2

\* As long as no dist comes back with fewer architectures, an attempt that has
\* commit intent can always be rolled forward.
THEOREM RollForwardPossibleHolds == Spec /\ []ArchitecturesStay => []RollForwardPossible
<1>1. Init => AliasesKnown
  <2> SUFFICES ASSUME Init PROVE AliasesKnown
    OBVIOUS
  <2>1. remote = EmptyTree
    BY DEF Init
  <2> QED
    BY <2>1 DEF AliasesKnown, EmptyTree, Path
<1>2. PublicationInv /\ PublicationInv' /\ ArchitecturesStay /\ AliasesKnown /\ [Next]_vars => AliasesKnown'
  BY AliasesStep
<1>3. PublicationInv /\ AliasesKnown => RollForwardPossible
  BY RollForward
<1> QED
  BY <1>1, <1>2, <1>3, Invariance, PTL DEF Spec
====
