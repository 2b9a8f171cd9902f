--------------------------- MODULE MutationBuild ---------------------------
(***************************************************************************)
(* `add`, `rm` and `build`: a journaled mutation changes what each dist is *)
(* to hold (its Desired memberships), and unless --skip was given renders  *)
(* the dists it affects, promotes new payloads from the private pending    *)
(* store to the public pool, exchanges the dists one by one and records    *)
(* the new generation.  A process that stops anywhere leaves a journal     *)
(* that the next writing command completes, undoes or closes.              *)
(*                                                                         *)
(* Commands hold the repository lock, so one runs at a time; only sow.yml  *)
(* is edited while they run.  An operation's id is its place in the        *)
(* ledger.  Packages are versions of one name, numbered in version order.  *)
(* Directory updates that no fsync has covered yet can be lost with the    *)
(* machine's power.                                                        *)
(***************************************************************************)
EXTENDS Naturals, Sequences, FiniteSets

CONSTANTS Dist,      \* dist names
          Package,   \* package versions
          Editable,  \* dists whose policy is edited in sow.yml
          MaxOps     \* bound on operations

ASSUME MutationAssumption ==
  Package \subseteq Nat /\ Editable \subseteq Dist /\ MaxOps \in Nat

VARIABLES config,       \* sow.yml: the policy of each dist
          memberships,  \* Desired: the packages each dist is to hold
          revision,     \* the repository's Desired revision
          built,        \* Built: the packages and the policy of each dist's last build
          objects,      \* package rows by the storage they name
          pending,      \* names in .sow/<repo>/pending
          pool,         \* names in the public pool
          unsynced,     \* updates of those two directories not yet on disk
          live,         \* the public dists/<name> trees
          generations,  \* public trees and pools of the built generations
          ops,          \* the operation ledger
          stage,        \* stage/<id>: the directory and its manifests
          staged,       \* stage/<id>/objects
          trees,        \* stage/<id>/build/dists
          pc            \* what the running command does, and for which operation

ledger == <<memberships, revision, built, objects, generations>>
store == <<pending, pool, unsynced>>
work == <<stage, staged, trees>>
vars == <<config, ledger, store, live, ops, work, pc>>

-----------------------------------------------------------------------------
(* Records *)

Policy == {"all", "latest"}

\* ApplyPolicy: with limit 1 only the newest version is kept.
ApplyPolicy(policy, S) ==
  IF policy = "latest" THEN {p \in S : \A q \in S : q <= p} ELSE S

Terminal == {"done", "done_dirty", "rolled_back", "failed"}

Operation == 1 .. Len(ops)

Pending == {i \in Operation : ops[i].state \notin Terminal}

\* A rendered tree: the operation that rendered it (its publication time makes
\* it unique), the packages it names, and the tree whose index files it retains.
Tree == [by : Nat, pkgs : SUBSET Package, prior : Nat]

EmptyTree == [by |-> 0, pkgs |-> {}, prior |-> 0]

Public == [live |-> live, pool |-> pool]

Built == generations[Len(generations)]

At(step, i) == pc.at = step /\ pc.op = i

Go(step) == pc' = [pc EXCEPT !.at = step]

SetState(i, s) == ops' = [ops EXCEPT ![i].state = s]

Wanted(i) == UNION {ops[i].desired[d] : d \in ops[i].dists}

ManifestOf(i) == <<i, ops[i].manifest>>

\* distsNeedingBuild
DistsNeedingBuild(D, desired, cfg) ==
  {d \in D : desired[d] # built[d].pkgs \/ cfg[d] # built[d].policy}

\* changedDesiredDists
ChangedDesiredDists(D, desired) == {d \in D : desired[d] # memberships[d]}

\* observedRepositoryDirty
Dirty(cfg) == \E d \in Dist : memberships[d] # built[d].pkgs \/ cfg[d] # built[d].policy

\* availableManagedPackageSource
Available(p) ==
  CASE objects[p] = "pending" -> p \in pending \union pool
    [] objects[p] = "pool" -> p \in pool
    [] OTHER -> FALSE

-----------------------------------------------------------------------------
(* A command begins with recovery *)

Start ==
  /\ pc.at = "idle"
  /\ pc' = [at |-> "recover", op |-> 0, recovering |-> TRUE]
  /\ UNCHANGED <<config, ledger, store, live, ops, work>>

\* recoverMutationOperation: without a bound manifest nothing was decided.
TakeUpPlanned(i) ==
  /\ pc.at = "recover"
  /\ i \in Pending
  /\ ops[i].manifest = "none" \/ ops[i].state = "planned"
  /\ pc' = [pc EXCEPT !.at = "rollback", !.op = i]
  /\ UNCHANGED <<config, ledger, store, live, ops, work>>

\* Mutant: an operation that an earlier recovery left open is passed over.
TakeUpOnce(i) ==
  /\ pc.at = "recover"
  /\ i \in Pending
  /\ ops[i].state \in {"staged", "applied", "built"}
  /\ SetState(i, "recovering")
  /\ pc' = [pc EXCEPT !.at = "admit", !.op = i]
  /\ UNCHANGED <<config, ledger, store, live, work>>

TakeUp(i) ==
  /\ pc.at = "recover"
  /\ i \in Pending
  /\ ops[i].manifest # "none" /\ ops[i].state # "planned"
  /\ SetState(i, "recovering")
  /\ pc' = [pc EXCEPT !.at = "admit", !.op = i]
  /\ UNCHANGED <<config, ledger, store, live, work>>

\* Mutant: the journal is bound to the dists that are out of date by now.
RequiredBuildDistsDesired(i) ==
  {d \in ops[i].dists : memberships[d] # built[d].pkgs \/ config[d] # built[d].policy}

\* distsNeedingRecoveredBuild: with a frozen plan the policies it was rendered
\* with count, not the ones sow.yml names now.
RequiredBuildDists(i) ==
  {d \in ops[i].dists :
     \/ ops[i].desired[d] # built[d].pkgs
     \/ IF ops[i].manifest = "frozen"
        THEN d \in ops[i].buildDists /\ ops[i].config[d] # built[d].policy
        ELSE config[d] # built[d].policy}

\* What recovery asks of the journal, its directory and sow.yml before it
\* carries the operation on.
Admitted(i) ==
  /\ ManifestOf(i) \in stage
  /\ config = ops[i].config
  /\ \A p \in ops[i].objects : p \in pending \union pool \/ <<i, p>> \in staged
  /\ ~ops[i].skip => RequiredBuildDists(i) = ops[i].buildDists

Admit(i) ==
  /\ At("admit", i)
  /\ Admitted(i)
  /\ Go("install")
  /\ UNCHANGED <<config, ledger, store, live, ops, work>>

\* Mutant: a frozen plan can be given up as well.
UnbuildableFrozen(i) ==
  /\ At("admit", i)
  /\ ManifestOf(i) \in stage
  /\ ~ops[i].skip
  /\ \/ config # ops[i].config /\ ops[i].rendering
     \/ Admitted(i) /\ ops[i].buildDists # {}
  /\ Public = Built

\* finishUnbuiltMutation: no plan is frozen and the configuration or a signing
\* policy has changed since.  Desired stays as it is if it was applied.
Unbuildable(i) ==
  /\ At("admit", i)
  /\ ManifestOf(i) \in stage
  /\ ops[i].manifest = "staged" /\ ~ops[i].skip
  /\ \/ config # ops[i].config /\ ops[i].rendering
     \/ Admitted(i) /\ ops[i].buildDists # {}
  /\ Public = Built

FinishUnapplied(i) ==
  /\ Unbuildable(i)
  /\ ~ops[i].applied
  /\ SetState(i, "failed")
  /\ Go("undo")
  /\ UNCHANGED <<config, ledger, store, live, work>>

FinishUnbuilt(i) ==
  /\ Unbuildable(i)
  /\ ops[i].applied
  /\ \A d \in ops[i].dists : memberships[d] = ops[i].desired[d]
  /\ \A p \in Wanted(i) : Available(p)
  /\ SetState(i, "done_dirty")
  /\ pending' = pending \ {p \in ops[i].dropped : objects[p] = "none"}
  /\ Go("cleanup")
  /\ UNCHANGED <<config, ledger, pool, unsynced, live, work>>

\* Nothing pending is left: the leftovers of closed operations go next.
RecoverNone ==
  /\ pc.at = "recover"
  /\ Pending = {}
  /\ Go("tidy")
  /\ UNCHANGED <<config, ledger, store, live, ops, work>>

-----------------------------------------------------------------------------
(* Private directories *)

HasStage(i) == <<i, "dir">> \in stage

\* cleanupFailedMutation: pending copies of a failed add that no row owns, as
\* long as its manifest still names them.
FailedPending(i) ==
  IF ops[i].kind = "add" /\ ops[i].state = "failed" /\ ManifestOf(i) \in stage
  THEN {p \in ops[i].objects : objects[p] = "none" /\ p \in pending}
  ELSE {}

RemoveFailedPending(i, p) ==
  /\ p \in FailedPending(i)
  /\ pending' = pending \ {p}
  /\ UNCHANGED <<config, ledger, pool, unsynced, live, ops, work, pc>>

\* The manifest's fields are in a file of the directory and go with it.
WithoutManifest(op) ==
  [op EXCEPT !.inputs = {}, !.objects = {}, !.desired = [d \in Dist |-> {}],
             !.tree = [d \in Dist |-> EmptyTree], !.pooled = {},
             !.base = [live |-> [d \in Dist |-> EmptyTree], pool |-> {}]]

\* No command reads the payload of a closed operation whose directory is gone,
\* so the model forgets it.
Forgotten(op) ==
  [WithoutManifest(op) EXCEPT !.config = [d \in Dist |-> "all"], !.skip = FALSE, !.dists = {},
                              !.buildDists = {}, !.rendering = FALSE, !.dropped = {}]

\* removeOwnedDirectory empties the directory, its entries in any order, and
\* removes it last.
RemoveStageEntry(i) ==
  /\ FailedPending(i) = {}
  /\ \/ \E x \in stage :
          /\ x[1] = i
          /\ x[2] = "dir" => /\ \A y \in stage : y[1] = i => y = x
                             /\ \A y \in staged : y[1] # i
                             /\ \A y \in trees : y[1] # i
          /\ stage' = stage \ {x}
          /\ ops' = IF x[2] # "dir" THEN ops
                    ELSE [ops EXCEPT ![i] = IF @.state \in Terminal THEN Forgotten(@)
                                            ELSE WithoutManifest(@)]
          /\ UNCHANGED <<staged, trees>>
     \/ /\ \E x \in staged : x[1] = i
        /\ staged' = {x \in staged : x[1] # i}
        /\ UNCHANGED <<stage, trees, ops>>
     \/ /\ \E x \in trees : x[1] = i
        /\ trees' = {x \in trees : x[1] # i}
        /\ UNCHANGED <<stage, staged, ops>>
  /\ UNCHANGED <<config, ledger, store, live, pc>>

\* The end of one operation: of the command, or of one turn of recovery.
Closed == pc' = [pc EXCEPT !.at = IF pc.recovering THEN "recover" ELSE "idle", !.op = 0]

Cleanup(i) ==
  \/ /\ pc.at \in {"cleanup", "undo", "rollback"} /\ pc.op = i
     /\ \/ RemoveStageEntry(i)
        \/ pc.at = "undo" /\ \E p \in Package : RemoveFailedPending(i, p)
  \/ /\ pc.at = "tidy"
     /\ ops[i].state \in Terminal /\ HasStage(i)
     /\ RemoveStageEntry(i) \/ \E p \in Package : RemoveFailedPending(i, p)

CleanupDone(i) ==
  /\ pc.at \in {"cleanup", "undo"} /\ pc.op = i
  /\ ~HasStage(i)
  /\ ops' = [ops EXCEPT ![i] = Forgotten(@)]
  /\ Closed
  /\ UNCHANGED <<config, ledger, store, live, work>>

RollBack(i) ==
  /\ At("rollback", i)
  /\ ~HasStage(i)
  /\ ops' = [ops EXCEPT ![i] = [Forgotten(@) EXCEPT !.state = "rolled_back"]]
  /\ Closed
  /\ UNCHANGED <<config, ledger, store, live, work>>

\* terminalCleanupOperations found nothing more, and the public tree is the
\* last generation: the command itself begins.
Ready ==
  /\ pc.at = "tidy"
  /\ \A i \in Operation : ops[i].state \in Terminal => ~HasStage(i)
  /\ Public = Built
  /\ pc' = [at |-> "ready", op |-> 0, recovering |-> FALSE]
  /\ UNCHANGED <<config, ledger, store, live, ops, work>>

-----------------------------------------------------------------------------
(* From the plan to the Desired state *)

BeginOperation(op) ==
  /\ pc.at = "ready"
  /\ Len(ops) < MaxOps
  /\ ops' = Append(ops, op)
  /\ pc' = [at |-> "stage", op |-> Len(ops) + 1, recovering |-> FALSE]
  /\ UNCHANGED <<config, ledger, store, live, work>>

NewOperation(kind, D, desired, buildDists, skip) ==
  [kind |-> kind, state |-> "planned", config |-> config, skip |-> skip, dists |-> D,
   inputs |-> {}, objects |-> {}, desired |-> desired, buildDists |-> buildDists,
   manifest |-> "none", applied |-> FALSE, rendering |-> FALSE, dropped |-> {},
   tree |-> [d \in Dist |-> EmptyTree], pooled |-> {}, base |-> Public]

\* The dists a mutation will render: with --skip those it makes dirty.
BuildScope(D, desired, skip) ==
  IF skip THEN ChangedDesiredDists(D, desired) ELSE DistsNeedingBuild(D, desired, config)

\* Add: what the dists shall hold is computed after the inputs are staged.
Add(D, P, skip) ==
  BeginOperation([NewOperation("add", D, [d \in Dist |-> {}], {}, skip) EXCEPT !.inputs = P])

\* desiredAfterRemoval: the policy decides again over what remains.
DesiredAfterRemoval(D, P) ==
  [d \in Dist |-> IF d \in D THEN ApplyPolicy(config[d], memberships[d] \ P) ELSE {}]

\* Remove: the packages must be members of a selected dist.
Remove(D, P, skip) ==
  LET desired == DesiredAfterRemoval(D, P)
  IN /\ \E d \in D : memberships[d] \intersect P # {}
     /\ BeginOperation(NewOperation("rm", D, desired, BuildScope(D, desired, skip), skip))

\* Build: the policy is applied again to what the dists hold.
Build(D) ==
  LET desired == [d \in Dist |-> IF d \in D THEN ApplyPolicy(config[d], memberships[d]) ELSE {}]
  IN BeginOperation(NewOperation("build", D, desired, BuildScope(D, desired, FALSE), FALSE))

\* Inputs without a row are copied to stage/<id>/objects.
StageInputs(i) ==
  /\ At("stage", i)
  /\ stage' = stage \union {<<i, "dir">>}
  /\ staged' = staged \union {<<i, p>> : p \in {q \in ops[i].inputs : objects[q] = "none"}}
  /\ \A p \in ops[i].inputs : objects[p] # "none" => Available(p)
  /\ Go("manifest")
  /\ UNCHANGED <<config, ledger, store, live, ops, trees>>

\* No input was accepted: the operation fails before anything is planned.
RejectInputs(i) ==
  /\ At("manifest", i)
  /\ ops[i].kind = "add"
  /\ SetState(i, "failed")
  /\ Go("undo")
  /\ UNCHANGED <<config, ledger, store, live, work>>

\* The policy decides over the members and the accepted inputs together, and
\* staged objects it leaves out are dropped.
Planned(i) ==
  IF ops[i].kind # "add" THEN ops[i]
  ELSE LET desired == [d \in Dist |->
             IF d \in ops[i].dists
             THEN ApplyPolicy(ops[i].config[d], memberships[d] \union ops[i].inputs) ELSE {}]
           wanted == UNION {desired[d] : d \in ops[i].dists}
       IN [ops[i] EXCEPT !.desired = desired,
                         !.objects = {p \in wanted : <<i, p>> \in staged},
                         !.buildDists = IF ops[i].skip
                                        THEN ChangedDesiredDists(ops[i].dists, desired)
                                        ELSE DistsNeedingBuild(ops[i].dists, desired, ops[i].config)]

WriteManifest(i) ==
  /\ At("manifest", i)
  /\ ops' = [ops EXCEPT ![i] = Planned(i)]
  /\ stage' = stage \union {<<i, "staged">>}
  /\ staged' = {x \in staged : x[1] = i => x[2] \in Planned(i).objects}
  /\ Go("bind")
  /\ UNCHANGED <<config, ledger, store, live, trees>>

\* UpdateOperationPayload
BindManifest(i) ==
  /\ At("bind", i)
  /\ ops' = [ops EXCEPT ![i].manifest = "staged"]
  /\ Go("bound")
  /\ UNCHANGED <<config, ledger, store, live, work>>

SetStaged(i) ==
  /\ At("bound", i)
  /\ SetState(i, "staged")
  /\ Go("install")
  /\ UNCHANGED <<config, ledger, store, live, work>>

\* renameRootedRegular links the staged copy into the pending store, fsync
\* included, before it lets the staged name go.
LinkPendingObject(i, p) ==
  /\ At("install", i)
  /\ <<i, p>> \in staged
  /\ p \notin pending
  /\ pending' = pending \union {p}
  /\ UNCHANGED <<config, ledger, pool, unsynced, live, ops, work, pc>>

\* installPendingObject: a staged copy that is pending already, by this attempt
\* or an earlier one, is removed.
InstallPendingObject(i, p) ==
  /\ At("install", i)
  /\ <<i, p>> \in staged
  /\ p \in pending
  /\ staged' = staged \ {<<i, p>>}
  /\ UNCHANGED <<config, ledger, store, live, ops, stage, trees, pc>>

\* unreferencedPendingTx
UnreferencedPending(i, desired, rows) ==
  {p \in Package : rows[p] = "pending" /\ \A d \in Dist : p \notin desired[d]}

\* ApplyDesiredMutationWithSigningKeys: one transaction, replayed unchanged by
\* recovery.
ApplyDesiredMutation(i) ==
  LET desired == [d \in Dist |-> IF d \in ops[i].dists THEN ops[i].desired[d] ELSE memberships[d]]
      rows == [p \in Package |->
                 IF p \in ops[i].objects /\ objects[p] = "none" THEN "pending" ELSE objects[p]]
      dropped == UnreferencedPending(i, desired, rows)
  IN /\ At("install", i)
     /\ \A p \in ops[i].objects : <<i, p>> \notin staged
     /\ ops[i].state \in {"staged", "recovering"}
     /\ memberships' = desired
     /\ revision' = IF desired # memberships \/ rows # objects THEN revision + 1 ELSE revision
     /\ objects' = [p \in Package |-> IF p \in dropped THEN "none" ELSE rows[p]]
     /\ ops' = [ops EXCEPT ![i].state = "applied", ![i].applied = TRUE, ![i].dropped = @ \union dropped]
     /\ Go("drop")
     /\ UNCHANGED <<config, built, generations, store, live, work>>

RemoveDroppedPending(i, p) ==
  /\ At("drop", i)
  /\ p \in ops[i].dropped \intersect pending
  /\ pending' = pending \ {p}
  /\ UNCHANGED <<config, ledger, pool, unsynced, live, ops, work, pc>>

\* mutationTerminalStateForProjection, after --skip.
CompleteSkipped(i) ==
  /\ At("drop", i)
  /\ ops[i].dropped \intersect pending = {}
  /\ ops[i].skip
  /\ SetState(i, IF Dirty(ops[i].config) THEN "done_dirty" ELSE "done")
  /\ Go("cleanup")
  /\ UNCHANGED <<config, ledger, store, live, work>>

\* FinalizeNoopBuild: the public tree already shows what is wanted.
FinalizeNoopBuild(i) ==
  /\ At("drop", i)
  /\ ops[i].dropped \intersect pending = {}
  /\ ~ops[i].skip /\ ops[i].buildDists = {}
  /\ Public = Built
  /\ SetState(i, "done")
  /\ Go("cleanup")
  /\ UNCHANGED <<config, ledger, store, live, work>>

-----------------------------------------------------------------------------
(* buildAppliedMutation *)

\* The journal is read again and sow.yml compared with it; a frozen plan is
\* taken as it is, and without one the derived trees are rendered afresh.
BeginBuild(i) ==
  /\ At("drop", i)
  /\ ops[i].dropped \intersect pending = {}
  /\ ~ops[i].skip /\ ops[i].buildDists # {}
  /\ ManifestOf(i) \in stage
  /\ config = ops[i].config
  /\ IF ops[i].manifest = "frozen"
     THEN Go("link") /\ UNCHANGED <<ops, trees>>
     ELSE /\ ops' = [ops EXCEPT ![i].rendering = TRUE]
          /\ trees' = {x \in trees : x[1] # i}
          /\ Go("render")
  /\ UNCHANGED <<config, ledger, store, live, stage, staged>>

\* The index files of the tree now public are kept beside the new ones.
Rendered(i, d) == [by |-> i, pkgs |-> memberships[d], prior |-> live[d].by]

\* stageMutationBuild, one dist of it.
RenderDist(i, d) ==
  /\ At("render", i)
  /\ d \in ops[i].buildDists
  /\ \A x \in trees : x[1] = i => x[2] # d
  /\ \A p \in memberships[d] : Available(p)
  /\ trees' = trees \union {<<i, d, Rendered(i, d)>>}
  /\ UNCHANGED <<config, ledger, store, live, ops, stage, staged, pc>>

AllRendered(i) == \A d \in ops[i].buildDists : <<i, d, Rendered(i, d)>> \in trees

\* persistMutationBuildPlan: the manifest with the plan is written first ...
PersistBuildPlan(i) ==
  /\ At("render", i)
  /\ AllRendered(i)
  /\ stage' = stage \union {<<i, "frozen">>}
  /\ Go("freeze")
  /\ UNCHANGED <<config, ledger, store, live, ops, staged, trees>>

\* ... unless it is too large to be journaled: then the build is given up and
\* Desired is kept.
PlanTooLarge(i) ==
  /\ At("render", i)
  /\ AllRendered(i)
  /\ SetState(i, "done_dirty")
  /\ Go("cleanup")
  /\ UNCHANGED <<config, ledger, store, live, work>>

\* The pending payloads of the dists in the plan.
PlanPooled(i) ==
  {p \in UNION {memberships[d] : d \in ops[i].buildDists} : objects[p] = "pending"}

\* ... and the operation names it in one update.
FreezeBuildPlan(i) ==
  /\ At("freeze", i)
  /\ ops' = [ops EXCEPT ![i].manifest = "frozen",
                        ![i].tree = [d \in Dist |-> IF d \in ops[i].buildDists
                                                    THEN Rendered(i, d) ELSE EmptyTree],
                        ![i].pooled = PlanPooled(i),
                        ![i].base = Public]
  /\ Go("frozen")
  /\ UNCHANGED <<config, ledger, store, live, work>>

\* loadMutationOperation before anything public changes.
LoadPlan(i) ==
  /\ At("frozen", i)
  /\ ManifestOf(i) \in stage
  /\ config = ops[i].config
  /\ Go("link")
  /\ UNCHANGED <<config, ledger, store, live, ops, work>>

\* preparePendingObject: a payload that is public already is left alone, and
\* one that is not must be pending.
ToLink(i) == (ops[i].pooled \ pool) \intersect pending

\* linkRootedRegularDeferredTargetSync: the public name, without its fsync.
LinkPayload(i, p) ==
  /\ At("link", i)
  /\ p \in ToLink(i)
  /\ pool' = pool \union {p}
  /\ unsynced' = unsynced \union {<<"link", p>>}
  /\ UNCHANGED <<config, ledger, pending, live, ops, work, pc>>

\* Mutant: the target directories are left to the operating system.
SyncTargetsNever(i) ==
  /\ At("link", i)
  /\ ops[i].pooled \subseteq pool
  /\ Go("unlink")
  /\ UNCHANGED <<config, ledger, store, live, ops, work>>

\* syncPromotionTargetParents, for links of an earlier attempt too.
SyncTargets(i) ==
  /\ At("link", i)
  /\ ops[i].pooled \subseteq pool
  /\ \A p \in ops[i].pooled : objects[p] = "pending"
  /\ unsynced' = unsynced \ {<<"link", p>> : p \in ops[i].pooled}
  /\ Go("unlink")
  /\ UNCHANGED <<config, ledger, pending, pool, live, ops, work>>

\* removeRootedRegularBoundToTarget
UnlinkPending(i, p) ==
  /\ At("unlink", i)
  /\ p \in ops[i].pooled \intersect pending
  /\ p \in pool
  /\ pending' = pending \ {p}
  /\ unsynced' = unsynced \union {<<"unlink", p>>}
  /\ UNCHANGED <<config, ledger, pool, live, ops, work, pc>>

SyncPending(i) ==
  /\ At("unlink", i)
  /\ ops[i].pooled \intersect pending = {}
  /\ unsynced' = {x \in unsynced : x[1] # "unlink"}
  /\ Go("exchange")
  /\ UNCHANGED <<config, ledger, pending, pool, live, ops, work>>

\* Exchange and the fsync of both parents; a dist that is live already is
\* passed over.
ExchangeDist(i, d) ==
  /\ At("exchange", i)
  /\ d \in ops[i].buildDists
  /\ live[d] # ops[i].tree[d]
  /\ <<i, d, ops[i].tree[d]>> \in trees
  /\ live' = [live EXCEPT ![d] = ops[i].tree[d]]
  /\ trees' = (trees \ {<<i, d, ops[i].tree[d]>>}) \union {<<i, d, live[d]>>}
  /\ UNCHANGED <<config, ledger, store, ops, stage, staged, pc>>

SetBuilt(i) ==
  /\ At("exchange", i)
  /\ \A d \in ops[i].buildDists : live[d] = ops[i].tree[d]
  /\ SetState(i, "built")
  /\ Go("finalize")
  /\ UNCHANGED <<config, ledger, store, live, work>>

FinalizeBuild(i) ==
  /\ At("finalize", i)
  /\ ops[i].state = "built"
  /\ Public # ops[i].base
  /\ built' = [d \in Dist |-> IF d \in ops[i].buildDists
                              THEN [pkgs |-> memberships[d], policy |-> ops[i].config[d]]
                              ELSE built[d]]
  /\ objects' = [p \in Package |-> IF p \in ops[i].pooled THEN "pool" ELSE objects[p]]
  /\ generations' = Append(generations, Public)
  /\ SetState(i, "done")
  /\ Go("cleanup")
  /\ UNCHANGED <<config, memberships, revision, store, live, work>>

-----------------------------------------------------------------------------
(* What goes wrong *)

\* finalizePreApplyMutationOperation: an ordinary error before Desired was
\* applied closes the operation, and its traces are removed.
Fail(i) ==
  /\ ~pc.recovering
  /\ pc.op = i
  /\ pc.at \in {"stage", "manifest", "bind", "bound", "install"}
  /\ ops[i].state \in {"planned", "staged"}
  /\ SetState(i, "failed")
  /\ Go("undo")
  /\ UNCHANGED <<config, ledger, store, live, work>>

\* The process is killed, or an error leaves the journal as it is.
Stop ==
  /\ pc.at # "idle"
  /\ pc' = [at |-> "idle", op |-> 0, recovering |-> FALSE]
  /\ UNCHANGED <<config, ledger, store, live, ops, work>>

\* The machine stops: of the directory updates no fsync covered, any may be lost.
PowerLoss ==
  /\ unsynced # {}
  /\ \E lost \in SUBSET unsynced :
       /\ pool' = pool \ {x[2] : x \in {y \in lost : y[1] = "link"}}
       /\ pending' = pending \union {x[2] : x \in {y \in lost : y[1] = "unlink"}}
  /\ unsynced' = {}
  /\ pc' = [at |-> "idle", op |-> 0, recovering |-> FALSE]
  /\ UNCHANGED <<config, ledger, live, ops, work>>

\* sow.yml is edited by hand at any time.
EditConfig(d) ==
  /\ d \in Editable
  /\ config' = [config EXCEPT ![d] = IF @ = "all" THEN "latest" ELSE "all"]
  /\ UNCHANGED <<ledger, store, live, ops, work, pc>>

-----------------------------------------------------------------------------
(* The specification *)

Init ==
  /\ config = [d \in Dist |-> "all"]
  /\ memberships = [d \in Dist |-> {}]
  /\ revision = 0
  /\ built = [d \in Dist |-> [pkgs |-> {}, policy |-> "all"]]
  /\ objects = [p \in Package |-> "none"]
  /\ pending = {}
  /\ pool = {}
  /\ unsynced = {}
  /\ live = [d \in Dist |-> EmptyTree]
  /\ generations = <<[live |-> [d \in Dist |-> EmptyTree], pool |-> {}]>>
  /\ ops = <<>>
  /\ stage = {}
  /\ staged = {}
  /\ trees = {}
  /\ pc = [at |-> "idle", op |-> 0, recovering |-> FALSE]

Recover ==
  \/ \E i \in Operation : TakeUpPlanned(i) \/ TakeUp(i) \/ Admit(i) \/ RollBack(i)
  \/ \E i \in Operation : FinishUnapplied(i) \/ FinishUnbuilt(i)
  \/ \E i \in Operation : Cleanup(i) \/ CleanupDone(i)
  \/ RecoverNone
  \/ Ready

Begin ==
  \E D \in SUBSET Dist \ {{}} :
    \/ Build(D)
    \/ \E p \in Package, skip \in BOOLEAN : Add(D, {p}, skip) \/ Remove(D, {p}, skip)

Apply ==
  \/ \E i \in Operation :
       \/ StageInputs(i) \/ RejectInputs(i) \/ WriteManifest(i) \/ BindManifest(i)
       \/ SetStaged(i) \/ ApplyDesiredMutation(i) \/ CompleteSkipped(i) \/ FinalizeNoopBuild(i)
  \/ \E i \in Operation, p \in Package :
       LinkPendingObject(i, p) \/ InstallPendingObject(i, p) \/ RemoveDroppedPending(i, p)

BuildApplied ==
  \/ \E i \in Operation :
       \/ BeginBuild(i) \/ PersistBuildPlan(i) \/ PlanTooLarge(i) \/ FreezeBuildPlan(i)
       \/ LoadPlan(i) \/ SyncTargets(i) \/ SyncPending(i) \/ SetBuilt(i) \/ FinalizeBuild(i)
  \/ \E i \in Operation, d \in Dist : RenderDist(i, d) \/ ExchangeDist(i, d)
  \/ \E i \in Operation, p \in Package : LinkPayload(i, p) \/ UnlinkPending(i, p)

Next ==
  \/ Start \/ Recover \/ Begin \/ Apply \/ BuildApplied
  \/ \E i \in Operation : Fail(i)
  \/ Stop \/ PowerLoss
  \/ \E d \in Dist : EditConfig(d)

Spec == Init /\ [][Next]_vars

-----------------------------------------------------------------------------
(* Properties *)

OperationRecord ==
  [kind : {"add", "rm", "build"},
   state : {"planned", "staged", "applied", "built", "recovering"} \union Terminal,
   config : [Dist -> Policy], skip : BOOLEAN, dists : SUBSET Dist,
   inputs : SUBSET Package, objects : SUBSET Package, desired : [Dist -> SUBSET Package],
   buildDists : SUBSET Dist, manifest : {"none", "staged", "frozen"}, applied : BOOLEAN,
   rendering : BOOLEAN, dropped : SUBSET Package, tree : [Dist -> Tree],
   pooled : SUBSET Package, base : [live : [Dist -> Tree], pool : SUBSET Package]]

Step ==
  {"idle", "recover", "rollback", "admit", "tidy", "ready", "stage", "manifest", "bind", "bound",
   "install", "drop", "render", "freeze", "frozen", "link", "unlink", "exchange", "finalize",
   "cleanup", "undo"}

\* Every variable has its type, and private directories belong to operations
\* of the ledger.
TypeOK ==
  /\ config \in [Dist -> Policy]
  /\ memberships \in [Dist -> SUBSET Package]
  /\ revision \in Nat
  /\ built \in [Dist -> [pkgs : SUBSET Package, policy : Policy]]
  /\ objects \in [Package -> {"none", "pending", "pool"}]
  /\ pending \subseteq Package
  /\ pool \subseteq Package
  /\ unsynced \subseteq {"link", "unlink"} \X Package
  /\ live \in [Dist -> Tree]
  /\ generations \in Seq([live : [Dist -> Tree], pool : SUBSET Package])
  /\ ops \in Seq(OperationRecord)
  /\ stage \subseteq Operation \X {"dir", "staged", "frozen"}
  /\ staged \subseteq Operation \X Package
  /\ trees \subseteq Operation \X Dist \X Tree
  /\ pc \in [at : Step, op : 0 .. Len(ops), recovering : BOOLEAN]

\* A client never reads an index that names a package the pool lacks: payloads
\* are promoted, durably, before the first dist is exchanged, and neither a
\* kill nor a power loss in between leaves the pointer ahead of the payload.
ReaderClosure == \A d \in Dist : live[d].pkgs \subseteq pool

\* Promotion never loses both names of a payload, and no command drops bytes
\* another dist still wants: what a dist holds has a row, what has a row has
\* its bytes, and pending bytes without a pending row are traces of an
\* operation that is still open or still being cleaned up.
PayloadOwned ==
  /\ \A d \in Dist : \A p \in memberships[d] : Available(p)
  /\ \A p \in Package : objects[p] # "none" => Available(p)
  /\ \A p \in pending : objects[p] # "pending" =>
       \E i \in Operation :
         \/ i \in Pending /\ p \in ops[i].objects \union ops[i].dropped
         \/ p \in FailedPending(i)

\* When no operation is open, the public tree is the last generation byte for
\* byte, and each dist shows the packages the ledger says it was built with.
Settled ==
  Pending = {} => Public = Built /\ \A d \in Dist : live[d].pkgs = built[d].pkgs

\* Through kills, power losses and edits of sow.yml a mutation keeps what
\* clients read closed, loses no payload that anybody owns, and is not closed
\* before the public tree is the generation the ledger records.
MutationSafe == TypeOK /\ ReaderClosure /\ PayloadOwned /\ Settled

\* An operation whose manifest is bound can always be carried on once sow.yml
\* is what it was: its manifest and its objects are found, its build scope is
\* the one recovery computes again, and each dist of a frozen plan is either
\* public already or staged.
RecoveryAdmitted ==
  pc.at = "idle" =>
    \A i \in Pending : ops[i].state # "planned" /\ config = ops[i].config =>
      /\ Admitted(i)
      /\ ops[i].manifest = "frozen" =>
           \A d \in ops[i].buildDists :
             live[d] = ops[i].tree[d] \/ <<i, d, ops[i].tree[d]>> \in trees

-----------------------------------------------------------------------------
(* What a mutation promises *)

\* The dists of the frozen plan that are not public yet.
Owed ==
  {d \in Dist : \E i \in Pending :
     ops[i].manifest = "frozen" /\ d \in ops[i].buildDists /\ live[d] # ops[i].tree[d]}

Contract == INSTANCE MutationContract
              WITH desired <- memberships, shown <- [d \in Dist |-> live[d].pkgs], owed <- Owed

\* Seen from outside, decisions are never taken back, a dist changes in one
\* step to what is then desired, and once the dists of a build begin to change
\* all of them do before anything else is decided.
ContractKept == Contract!Spec

-----------------------------------------------------------------------------
(* Progress *)

\* A running command goes on to its next step, and the operator gives another
\* command after one that was interrupted.
Fairness == WF_vars(Recover \/ Apply \/ BuildApplied) /\ WF_vars(Start)

FairSpec == Spec /\ Fairness

\* Commands are not cut short for ever.
Undisturbed == <>[][~(Stop \/ PowerLoss)]_vars

\* A mutation that was applied is built or closed, however often it was
\* interrupted, unless sow.yml keeps differing from the one it is bound to.
AppliedEnds ==
  Undisturbed =>
    \A i \in 1 .. MaxOps :
      [](i \in Operation /\ ops[i].applied =>
           \/ <>(i \in Operation /\ ops[i].state \in {"done", "done_dirty"})
           \/ []<>(i \in Operation /\ config # ops[i].config))

=============================================================================
