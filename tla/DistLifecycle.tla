--------------------------- MODULE DistLifecycle ---------------------------
(***************************************************************************)
(* `dist new`, `dist rm` and the initialisation of dists declared by hand: *)
(* operations over sow.yml, the public tree, private stage and recovery    *)
(* directories and the SQLite ledger, journaled so that a process that     *)
(* stops anywhere leaves something the next command can finish or undo.    *)
(* Every command holds the workspace and repository locks exclusively, so  *)
(* one process runs at a time.                                             *)
(*                                                                         *)
(* An operation's id is its place in the ledger, and a rendered dist tree  *)
(* is known by the id of the operation that rendered it (its publication   *)
(* time makes it unique).  The digest of sow.yml is the set of dists it    *)
(* declares.                                                               *)
(***************************************************************************)
EXTENDS Naturals, Sequences, FiniteSets

CONSTANTS Dist,      \* dist names
          Package,   \* package digests
          Signed,    \* dists whose format has a metadata signing key
          MaxOps     \* bound on operations

ASSUME DistAssumption == Signed \subseteq Dist /\ MaxOps \in Nat

VARIABLES config,       \* dists declared in sow.yml
          dists,        \* dist rows
          live,         \* the public dists/<name> trees
          generations,  \* manifests of the built generations
          ops,          \* the operation ledger
          stage,        \* .sow/<repo>/stage/<id>: pairs of an id and a part
          recovery,     \* .sow/<repo>/recovery/<id>: pairs of an id and a tree
          memberships,  \* packages of each dist
          objects,      \* package rows whose payload is still pending
          pooled,       \* package rows whose payload is in the pool
          pending,      \* files in .sow/<repo>/pending
          pc            \* where the running command is; "idle" when none runs

packages == <<memberships, objects, pooled, pending>>
disk == <<live, stage, recovery>>
vars == <<config, dists, disk, generations, ops, packages, pc>>

-----------------------------------------------------------------------------
(* Records *)

NoTree == 0

Terminal == {"done", "rolled_back", "failed"}

OperationState == {"planned", "staged", "applied", "built"} \union Terminal

Part == {"dir", "signer", "tree"}

\* PendingOperations
Pending == {i \in 1 .. Len(ops) : ops[i].state \notin Terminal}

Built == IF generations = <<>> THEN [d \in Dist |-> NoTree] ELSE generations[Len(generations)]

Served == {d \in Dist : live[d] # NoTree}

PartsOf(i) == {x \in stage : x[1] = i}

RecoveryOf(i) == {x \in recovery : x[1] = i}

SetOperationState(i, s) == ops' = [ops EXCEPT ![i].state = s]

BeginOperation(kind, d, new, tree) ==
  ops' = Append(ops, [kind |-> kind, name |-> d, state |-> "planned",
                      generation |-> Len(generations) + 1, old |-> config, new |-> new,
                      tree |-> tree, dropped |-> {}])

Removal(i) == ops[i].kind = "dist.rm"

\* installStagedDist or moveDistToRecovery has nothing left to do.
InPlace(i) ==
  IF Removal(i)
  THEN live[ops[i].name] = NoTree /\ <<i, ops[i].tree>> \in recovery
  ELSE live[ops[i].name] = ops[i].tree /\ <<i, "tree">> \notin stage

\* The operation's tree is where installStagedDist or moveDistToRecovery
\* takes it from, and its destination is free.
Placeable(i) ==
  IF Removal(i)
  THEN live[ops[i].name] = ops[i].tree /\ RecoveryOf(i) = {}
  ELSE live[ops[i].name] = NoTree /\ <<i, "tree">> \in stage /\ ops[i].tree = i

-----------------------------------------------------------------------------
(* A command begins with recovery *)

Start ==
  /\ pc = "idle"
  /\ pc' = "recover"
  /\ UNCHANGED <<config, dists, disk, generations, ops, packages>>

\* validateDistPayloadForRecovery
Admitted(i) ==
  LET o == ops[i]
  IN /\ o.generation = Len(generations) + 1
     /\ o.state # "planned" => o.tree # NoTree
     /\ Removal(i) =>
          /\ o.old # o.new
          /\ o.name \notin o.new
          /\ o.tree # NoTree
          /\ o.name \in dists
     /\ ~Removal(i) =>
          /\ o.name \in o.new
          /\ (o.kind = "dist.init") <=> (o.old = o.new)
          /\ o.tree # NoTree /\ o.name \in Signed => <<i, "signer">> \in stage
          /\ o.name \notin dists

\* Mutant: the configuration is not consulted.
MustUndoBlindly(i) == ops[i].state \in {"planned", "staged"}

\* Nothing has been decided yet: the operation is undone.
MustUndo(i) ==
  \/ ops[i].kind = "dist.init" /\ ops[i].state = "planned"
  \/ /\ ops[i].kind # "dist.init"
     /\ ops[i].state \in {"planned", "staged"}
     /\ config = ops[i].old

\* Mutant: only an operation recorded as applied is completed.
MustRedoApplied(i) ==
  ~MustUndo(i) /\ config = ops[i].new /\ ops[i].state \in {"applied", "built"}

\* The configuration shows that the operation was decided.
MustRedo(i) == ~MustUndo(i) /\ config = ops[i].new /\ ops[i].state # "planned"

TakeUp(i) ==
  /\ pc = "recover"
  /\ i \in Pending
  /\ \A j \in Pending : i <= j
  /\ Admitted(i)
  /\ \/ MustUndo(i) /\ pc' = "undo"
     \/ MustRedo(i) /\ pc' = "redo"
  /\ UNCHANGED <<config, dists, disk, generations, ops, packages>>

\* removeOwnedDirectory empties the directory entry by entry, then removes it.
RemovePart(i, part) ==
  /\ <<i, part>> \in stage
  /\ part = "dir" => PartsOf(i) = {<<i, "dir">>}
  /\ stage' = stage \ {<<i, part>>}
  /\ UNCHANGED <<config, dists, live, recovery, generations, ops, packages, pc>>

UndoStage(i, part) == pc = "undo" /\ i \in Pending /\ RemovePart(i, part)

RollBack(i) ==
  /\ pc = "undo"
  /\ i \in Pending
  /\ PartsOf(i) = {}
  /\ SetOperationState(i, "rolled_back")
  /\ pc' = "recover"
  /\ UNCHANGED <<config, dists, disk, generations, packages>>

\* Directories that terminal operations have left behind.
Leftover ==
  {i \in 1 .. Len(ops) : ops[i].state \in Terminal /\ PartsOf(i) \union RecoveryOf(i) # {}}

RecoverNone ==
  /\ pc = "recover"
  /\ Pending = {}
  /\ pc' = "tidy"
  /\ UNCHANGED <<config, dists, disk, generations, ops, packages>>

TidyStage(i, part) == pc \in {"tidy", "cleanup"} /\ i \in Leftover /\ RemovePart(i, part)

\* cleanupDroppedPending: bytes that a current row owns are left alone.
Droppable(i) == (ops[i].dropped \intersect pending) \ (objects \union pooled)

RemoveDroppedPending(i, p) ==
  /\ pc \in {"tidy", "cleanup"}
  /\ i \in Leftover
  /\ RecoveryOf(i) # {}
  /\ p \in Droppable(i)
  /\ pending' = pending \ {p}
  /\ UNCHANGED <<config, dists, disk, generations, ops, memberships, objects, pooled, pc>>

CleanupDistRecovery(i) ==
  /\ pc \in {"tidy", "cleanup"}
  /\ i \in Leftover
  /\ Droppable(i) = {}
  /\ RecoveryOf(i) # {}
  /\ recovery' = recovery \ RecoveryOf(i)
  /\ UNCHANGED <<config, dists, live, stage, generations, ops, packages, pc>>

\* checkConfigAtRootWithLockedRepositories and the exact check of the public
\* tree against the built generation.
Check ==
  /\ pc = "tidy"
  /\ Leftover = {}
  /\ Pending = {}
  /\ dists \subseteq config
  /\ dists \subseteq Served
  /\ (config \ dists) \intersect Served = {}
  /\ live = Built
  /\ pc' = "ready"
  /\ UNCHANGED <<config, dists, disk, generations, ops, packages>>

-----------------------------------------------------------------------------
(* The operations *)

NewDist(d) ==
  /\ pc = "ready"
  /\ Len(ops) < MaxOps
  /\ d \notin config
  /\ live[d] = NoTree
  /\ BeginOperation("dist.new", d, config \union {d}, NoTree)
  /\ pc' = "execute"
  /\ UNCHANGED <<config, dists, disk, generations, packages>>

\* Declared dists without a row, one after the other.
InitDist(d) ==
  /\ pc \in {"ready", "more"}
  /\ Len(ops) < MaxOps
  /\ d \in config \ dists
  /\ live = Built
  /\ BeginOperation("dist.init", d, config, NoTree)
  /\ pc' = "execute"
  /\ UNCHANGED <<config, dists, disk, generations, packages>>

RemoveDist(d) ==
  /\ pc = "ready"
  /\ Len(ops) < MaxOps
  /\ d \in config \intersect dists
  /\ BeginOperation("dist.rm", d, config \ {d}, live[d])
  /\ pc' = "execute"
  /\ UNCHANGED <<config, dists, disk, generations, packages>>

\* The command has nothing to do, or nothing more.
Noop ==
  /\ pc \in {"ready", "more"}
  /\ pc' = "idle"
  /\ UNCHANGED <<config, dists, disk, generations, ops, packages>>

Executing(i, s) == pc = "execute" /\ i \in Pending /\ ops[i].state = s

\* The stage directory, the signer snapshot and the rendered tree, in this order.
StagePart(i, part) ==
  /\ Executing(i, "planned")
  /\ ~Removal(i)
  /\ <<i, part>> \notin stage
  /\ part = "signer" => ops[i].name \in Signed /\ <<i, "dir">> \in stage
  /\ part = "tree" =>
       /\ <<i, "dir">> \in stage
       /\ ops[i].name \in Signed => <<i, "signer">> \in stage
  /\ stage' = stage \union {<<i, part>>}
  /\ UNCHANGED <<config, dists, live, recovery, generations, ops, packages, pc>>

UpdateOperationPayload(i) ==
  /\ Executing(i, "planned")
  /\ ~Removal(i)
  /\ ops[i].tree = NoTree
  /\ <<i, "tree">> \in stage
  /\ ops' = [ops EXCEPT ![i].tree = i]
  /\ UNCHANGED <<config, dists, disk, generations, packages, pc>>

\* Mutant: the journal says staged before it has the tree's digest.
SetStagedEarly(i) ==
  /\ Executing(i, "planned")
  /\ SetOperationState(i, "staged")
  /\ UNCHANGED <<config, dists, disk, generations, packages, pc>>

SetStaged(i) ==
  /\ Executing(i, "planned")
  /\ ops[i].tree # NoTree
  /\ SetOperationState(i, "staged")
  /\ UNCHANGED <<config, dists, disk, generations, packages, pc>>

\* The decision: from here on the operation is completed, never undone.
WriteConfig(i) ==
  /\ Executing(i, "staged")
  /\ ops[i].old # ops[i].new
  /\ config = ops[i].old
  /\ config' = ops[i].new
  /\ UNCHANGED <<dists, disk, generations, ops, packages, pc>>

\* Mutant: the operation is applied before the configuration is written.
SetAppliedEarly(i) ==
  /\ pc \in {"execute", "redo"}
  /\ i \in Pending
  /\ ops[i].state = "staged"
  /\ SetOperationState(i, "applied")
  /\ UNCHANGED <<config, dists, disk, generations, packages, pc>>

SetApplied(i) ==
  /\ pc \in {"execute", "redo"}
  /\ i \in Pending
  /\ ops[i].state = "staged"
  /\ config = ops[i].new
  /\ SetOperationState(i, "applied")
  /\ UNCHANGED <<config, dists, disk, generations, packages, pc>>

Applied(i) == pc \in {"execute", "redo"} /\ i \in Pending /\ ops[i].state = "applied"

InstallStagedDist(i) ==
  /\ Applied(i)
  /\ ~Removal(i)
  /\ Placeable(i)
  /\ live' = [live EXCEPT ![ops[i].name] = ops[i].tree]
  /\ stage' = stage \ {<<i, "tree">>}
  /\ UNCHANGED <<config, dists, recovery, generations, ops, packages, pc>>

\* Mutant: the tree is deleted instead of being set aside.
MoveDistDeletes(i) ==
  /\ Applied(i)
  /\ Removal(i)
  /\ Placeable(i)
  /\ live' = [live EXCEPT ![ops[i].name] = NoTree]
  /\ UNCHANGED <<config, dists, stage, recovery, generations, ops, packages, pc>>

MoveDistToRecovery(i) ==
  /\ Applied(i)
  /\ Removal(i)
  /\ Placeable(i)
  /\ live' = [live EXCEPT ![ops[i].name] = NoTree]
  /\ recovery' = recovery \union {<<i, ops[i].tree>>}
  /\ UNCHANGED <<config, dists, stage, generations, ops, packages, pc>>

SetBuilt(i) ==
  /\ Applied(i)
  /\ InPlace(i)
  /\ SetOperationState(i, "built")
  /\ UNCHANGED <<config, dists, disk, generations, packages, pc>>

\* distLifecycleGeneration: only the operation's dist differs.
LifecycleGeneration(i) ==
  /\ \A d \in Dist \ {ops[i].name} : live[d] = Built[d]
  /\ live # Built

Finalizing(i) ==
  /\ pc \in {"execute", "redo"}
  /\ i \in Pending
  /\ ops[i].state = "built"
  /\ InPlace(i)
  /\ LifecycleGeneration(i)
  /\ generations' = Append(generations, live)
  /\ pc' = IF pc = "execute" THEN "cleanup" ELSE "recover"

FinalizeDistAdd(i) ==
  /\ Finalizing(i)
  /\ ~Removal(i)
  /\ pc = "redo" /\ ops[i].name \in Signed => <<i, "signer">> \in stage
  /\ dists' = dists \union {ops[i].name}
  /\ SetOperationState(i, "done")
  /\ UNCHANGED <<config, disk, packages>>

\* Pending packages that no dist but d holds.
Unreachable(d) == objects \ UNION {memberships[e] : e \in Dist \ {d}}

\* FinalizeDistRemovalAndCollect
FinalizeDistRemoval(i) ==
  LET d == ops[i].name
  IN /\ Finalizing(i)
     /\ Removal(i)
     /\ dists' = dists \ {d}
     /\ memberships' = [memberships EXCEPT ![d] = {}]
     /\ objects' = objects \ Unreachable(d)
     /\ ops' = [ops EXCEPT ![i] = [@ EXCEPT !.state = "done", !.dropped = Unreachable(d)]]
     /\ UNCHANGED <<config, disk, pooled, pending>>

\* The command has removed its own leftovers; an init goes on to the next dist.
Finish ==
  /\ pc = "cleanup"
  /\ Leftover = {}
  /\ pc' = IF ops[Len(ops)].kind = "dist.init" THEN "more" ELSE "idle"
  /\ UNCHANGED <<config, dists, disk, generations, ops, packages>>

-----------------------------------------------------------------------------
(* Failures *)

\* finalizePreApplyDistOperation: an error before anything was decided.
Fail(i) ==
  /\ pc = "execute"
  /\ i \in Pending
  /\ ops[i].state \in {"planned", "staged"}
  /\ config = ops[i].old
  /\ pc' = "fail"
  /\ UNCHANGED <<config, dists, disk, generations, ops, packages>>

FailStage(i, part) == pc = "fail" /\ i \in Pending /\ ~Removal(i) /\ RemovePart(i, part)

FailOperation(i) ==
  /\ pc = "fail"
  /\ i \in Pending
  /\ Removal(i) \/ PartsOf(i) = {}
  /\ SetOperationState(i, "failed")
  /\ pc' = "idle"
  /\ UNCHANGED <<config, dists, disk, generations, packages>>

\* The process stops: a crash, or an error that leaves the journal as it is.
Stop ==
  /\ pc # "idle"
  /\ pc' = "idle"
  /\ UNCHANGED <<config, dists, disk, generations, ops, packages>>

-----------------------------------------------------------------------------
(* The surroundings: sow.yml edited by hand, packages added and built *)

\* A dist without a row is declared, or its declaration taken back.  With an
\* operation pending, an edit makes recovery refuse until it is undone.
EditConfig(d) ==
  /\ pc = "idle"
  /\ Pending = {}
  /\ d \notin dists
  /\ config' = IF d \in config THEN config \ {d} ELSE config \union {d}
  /\ UNCHANGED <<dists, disk, generations, ops, packages, pc>>

\* add --skip: the package is wanted, and its payload waits for a build.  Like
\* BuildDist it is one step here: its journal is not this module's subject.
AddPackage(d, p) ==
  /\ pc = "ready"
  /\ d \in dists
  /\ p \notin memberships[d]
  /\ memberships' = [memberships EXCEPT ![d] = @ \union {p}]
  /\ objects' = IF p \in pooled THEN objects ELSE objects \union {p}
  /\ pending' = IF p \in pooled THEN pending ELSE pending \union {p}
  /\ pc' = "idle"
  /\ UNCHANGED <<config, dists, disk, generations, ops, pooled>>

\* FinalizeBuild: a new tree with the packages wanted, whose payloads move
\* to the pool.
BuildDist(d) ==
  LET built == [live EXCEPT ![d] = Len(ops) + 1]
  IN /\ pc = "ready"
     /\ Len(ops) < MaxOps
     /\ d \in dists
     /\ ops' = Append(ops, [kind |-> "build", name |-> d, state |-> "done",
                            generation |-> Len(generations) + 1, old |-> config, new |-> config,
                            tree |-> Len(ops) + 1, dropped |-> {}])
     /\ live' = built
     /\ generations' = Append(generations, built)
     /\ pooled' = pooled \union memberships[d]
     /\ objects' = objects \ memberships[d]
     /\ pending' = pending \ memberships[d]
     /\ pc' = "idle"
     /\ UNCHANGED <<config, dists, stage, recovery, memberships>>

-----------------------------------------------------------------------------
(* The specification *)

Init ==
  /\ config = {}
  /\ dists = {}
  /\ live = [d \in Dist |-> NoTree]
  /\ generations = <<>>
  /\ ops = <<>>
  /\ stage = {}
  /\ recovery = {}
  /\ memberships = [d \in Dist |-> {}]
  /\ objects = {}
  /\ pooled = {}
  /\ pending = {}
  /\ pc = "idle"

Operation == 1 .. Len(ops)

Recover ==
  \/ \E i \in Operation : TakeUp(i) \/ RollBack(i)
  \/ \E i \in Operation, part \in Part : UndoStage(i, part)
  \/ RecoverNone
  \/ Check

Tidy ==
  \/ \E i \in Operation, part \in Part : TidyStage(i, part)
  \/ \E i \in Operation, p \in Package : RemoveDroppedPending(i, p)
  \/ \E i \in Operation : CleanupDistRecovery(i)
  \/ Finish

Begin == \E d \in Dist : NewDist(d) \/ InitDist(d) \/ RemoveDist(d)

Execute ==
  \/ \E i \in Operation, part \in Part : StagePart(i, part)
  \/ \E i \in Operation :
       \/ UpdateOperationPayload(i) \/ SetStaged(i) \/ WriteConfig(i) \/ SetApplied(i)
       \/ InstallStagedDist(i) \/ MoveDistToRecovery(i) \/ SetBuilt(i)
       \/ FinalizeDistAdd(i) \/ FinalizeDistRemoval(i)

Failure ==
  \/ \E i \in Operation : Fail(i) \/ FailOperation(i)
  \/ \E i \in Operation, part \in Part : FailStage(i, part)

Surroundings ==
  \/ \E d \in Dist : EditConfig(d) \/ BuildDist(d)
  \/ \E d \in Dist, p \in Package : AddPackage(d, p)

Next == Start \/ Recover \/ Tidy \/ Begin \/ Noop \/ Execute \/ Failure \/ Stop \/ Surroundings

Spec == Init /\ [][Next]_vars

-----------------------------------------------------------------------------
(* Properties *)

OperationRecord ==
  [kind : {"dist.new", "dist.init", "dist.rm", "build"}, name : Dist, state : OperationState,
   generation : Nat, old : SUBSET Dist, new : SUBSET Dist, tree : Nat, dropped : SUBSET Package]

\* Every variable has its type, and directories belong to recorded operations.
TypeOK ==
  /\ config \subseteq Dist
  /\ dists \subseteq Dist
  /\ live \in [Dist -> Nat]
  /\ generations \in Seq([Dist -> Nat])
  /\ ops \in Seq(OperationRecord)
  /\ stage \subseteq Operation \X Part
  /\ recovery \subseteq Operation \X Nat
  /\ memberships \in [Dist -> SUBSET Package]
  /\ objects \subseteq Package
  /\ pooled \subseteq Package
  /\ pending \subseteq Package
  /\ pc \in {"idle", "recover", "undo", "redo", "tidy", "ready", "more", "execute",
             "cleanup", "fail"}

\* An operation is closed only when the ledger, the public tree and sow.yml
\* agree: without a pending operation the public dists are exactly those of
\* the last generation, each has its row, and each is declared.
Settled ==
  Pending = {} => live = Built /\ dists = Served /\ dists \subseteq config

\* A tree of the last generation is never lost before the generation without
\* it is recorded: it is public, or set aside by the pending removal.
BuiltTreesKept ==
  \A d \in Dist : Built[d] # NoTree =>
    \/ live[d] = Built[d]
    \/ \E i \in Pending : Removal(i) /\ ops[i].name = d /\ <<i, Built[d]>> \in recovery

\* The operation has been decided; for an initialisation, which changes no
\* configuration, that is its applied state.
Decided(i) ==
  \/ ops[i].state \in {"applied", "built"}
  \/ ops[i].state = "staged" /\ ops[i].kind # "dist.init" /\ config = ops[i].new

\* A decided new or rm can be completed from whatever a crash leaves: its
\* journal is admitted, and its tree is in place or where it can be taken from.
DecidedRecoverable ==
  \A i \in Pending : Decided(i) /\ ops[i].kind # "dist.init" =>
    Admitted(i) /\ MustRedo(i) /\ (InPlace(i) \/ Placeable(i))

\* Removing a dist never takes a package away that another dist holds: every
\* membership has its row, every row with a pending payload has its bytes, and
\* bytes without a row are those a removal still has to delete.
PendingOwned ==
  /\ \A d \in Dist : memberships[d] \subseteq objects \union pooled
  /\ objects \subseteq pending
  /\ \A p \in pending \ objects :
       \E i \in Leftover : p \in ops[i].dropped /\ RecoveryOf(i) # {}

\* After any mixture of dist commands, crashes and recoveries, ledger, public
\* tree and sow.yml agree whenever nothing is open, and no removal has taken
\* bytes away that another dist holds.
DistSafe == TypeOK /\ Settled /\ PendingOwned

-----------------------------------------------------------------------------
(* What a dist command promises *)

\* The dists there will be once every decided operation is complete.
Intended ==
  {d \in Dist :
     IF \E i \in Pending : Decided(i) /\ ops[i].name = d
     THEN \E i \in Pending : Decided(i) /\ ops[i].name = d /\ ~Removal(i)
     ELSE d \in dists}

Contract == INSTANCE DistContract WITH intended <- Intended, served <- Served

\* Seen from outside, a dist appears or disappears in one step after one
\* decision, and neither a crash nor recovery ever takes a decision back.
ContractKept == Contract!Spec

-----------------------------------------------------------------------------
(* Progress *)

\* A running command goes on to its next step, and the operator gives another
\* command after one that was interrupted.
Fairness ==
  /\ WF_vars(Recover \/ Tidy \/ Begin \/ Noop \/ Execute \/ Failure)
  /\ WF_vars(Start)

FairSpec == Spec /\ Fairness

\* Commands are not cut short for ever.
Undisturbed == <>[][~Stop]_vars

\* A decided new or rm is carried out, however often it is interrupted.
DecidedEnds ==
  Undisturbed =>
    \A i \in 1 .. MaxOps :
      (i \in Pending /\ Decided(i) /\ ops[i].kind # "dist.init")
        ~> (i \in Operation /\ ops[i].state = "done")

\* Private directories of closed operations are eventually removed.
LeftoversRemoved == Undisturbed => (Leftover # {} ~> Leftover = {})

\* Nothing a stopped command leaves stays for ever: a decided operation is
\* carried out by later commands, and its private directories go.
DistEnds == DecidedEnds /\ LeftoversRemoved

-----------------------------------------------------------------------------
(* What comments of the code say, and the code does not do *)

\* Every pending operation is said to be replayable: whatever step was the
\* last, recovery admits its journal, and finds the tree of one it completes.
JournalReplayable ==
  pc = "idle" =>
    \A i \in Pending : Admitted(i) /\ (MustRedo(i) => InPlace(i) \/ Placeable(i))

=============================================================================
