------------------------------ MODULE LocalGC ------------------------------
(***************************************************************************)
(* `gc` without a target, and `retain add` and `retain rm`.                *)
(*                                                                         *)
(* A repository keeps package payloads in its public pool, a row for each  *)
(* in the ledger, and a numbered generation per state of the public tree.  *)
(* gc takes payloads nothing refers to any more: it writes down a plan,    *)
(* moves them from the pool to a quarantine directory, records the         *)
(* generation without them and deletes the quarantine.  `retain add` keeps *)
(* a generation's metadata aside and makes its payloads roots for gc.      *)
(*                                                                         *)
(* All of it runs under the repository's lock, so one command runs at a    *)
(* time; a command may stop at any step, and what it left is taken up by   *)
(* the next command that recovers.                                         *)
(***************************************************************************)
EXTENDS Naturals, FiniteSets

CONSTANTS Payload,  \* package payloads
          MaxGen,   \* bound on generations
          MaxStops, \* bound on interrupted commands
          MaxKept   \* bound on generations with anything retained

ASSUME LocalGCAssumption ==
  /\ MaxGen \in Nat \ {0}
  /\ MaxStops \in Nat
  /\ MaxKept \in Nat

VARIABLES rows,      \* package_objects with storage 'pool'
          member,    \* Desired memberships
          built,     \* Built memberships
          prior,     \* Built memberships before the last build
          gen,       \* repository_state.built_generation
          manifest,  \* the payloads in each generation's manifest
          pool,      \* the payloads in the public tree
          op,        \* the last gc operation: its state, its plan's entries and base
          quarantine,\* .sow/<repo>/recovery/<operation> and what is in it
          retained,  \* .sow/<repo>/retained
          stage,     \* stage/retain-<g>, by generation and entry
          tomb,      \* stage/retain-remove-<g>, by generation and entry
          rmPlan,    \* stage/retain-remove-<g>.plan.json
          attempt,   \* the generation a nonterminal publication attempt publishes
          grace,     \* the generation of the checkpoint in its grace period
          late,      \* generations retained while a gc was pending
          stops,     \* interrupted commands
          cmd        \* the running command

ledger == <<rows, member, built, prior, gen, manifest>>
retention == <<retained, stage, tomb, rmPlan, late>>
publication == <<attempt, grace>>
vars == <<ledger, pool, op, quarantine, retention, publication, stops, cmd>>

-----------------------------------------------------------------------------

Gen == 1 .. MaxGen

\* The entries of a retained generation, in the order in which they are removed:
\* files as a listing sorts them, and the directory last.
Entry == <<"manifest.tsv", "metadata", "record.json", "dir">>

Part == {Entry[k] : k \in 1 .. 4}

PlanFile == {"absent", "torn", "whole"}

Idle == [name |-> "none", at |-> "idle", gen |-> 0]

Running(name, step) == cmd.name = name /\ cmd.at = step

Go(step) == cmd' = [cmd EXCEPT !.at = step]

End == cmd' = Idle

Parts(dir, g) == {q \in Part : <<g, q>> \in dir}

\* removeOwnedDirectory, and the loops of RemoveRetainedGeneration: one entry.
FirstEntry(dir, g) ==
  Entry[CHOOSE k \in 1 .. 4 : /\ <<g, Entry[k]>> \in dir
                              /\ \A j \in 1 .. k - 1 : <<g, Entry[j]>> \notin dir]

\* The generations of which anything is kept.
Kept == retained \union {g \in Gen : Parts(stage, g) # {} \/ Parts(tomb, g) # {} \/ rmPlan[g] # "absent"}

\* PendingOperations
Pending == op.state \in {"planned", "staged", "applied"}

\* repositoryProjectionStatusTx
Clean == member = built

\* What keeps a payload in the pool.
MembershipRoots == member \union built \union prior

RetainedRoots == UNION {manifest[g] : g \in retained}

\* The payloads of a generation, none when there is no such generation.
PayloadsOf(g) == IF g = 0 THEN {} ELSE manifest[g]

\* PublicationRootRequirement: the generation a nonterminal attempt publishes, and
\* the inventory of a checkpoint in its grace period less what is only remote.
PublicationRoots == PayloadsOf(attempt) \union (PayloadsOf(grace) \intersect rows)

\* verifyRetainedGenerationDirectory: the references of the manifest are there.
Verified(g) == manifest[g] \subseteq pool

-----------------------------------------------------------------------------
(* Commands begin *)

Start(name, g) ==
  /\ cmd = Idle
  /\ (name \in {"gc", "write"}) = (g = 0)
  /\ name = "retain add" => Cardinality({g} \union Kept) <= MaxKept
  /\ cmd' = [name |-> name, gen |-> g,
             at |-> CASE name \in {"gc", "write"} -> "recover"
                      [] name = "retain add" -> "tidy"
                      [] OTHER -> "inspect"]
  /\ UNCHANGED <<ledger, pool, op, quarantine, retention, publication>>

\* The command stops: killed, cancelled, or failed where nothing is cleaned up.
Stop ==
  /\ cmd # Idle /\ stops < MaxStops
  /\ stops' = stops + 1
  /\ End
  /\ UNCHANGED <<ledger, pool, op, quarantine, retention, publication>>

-----------------------------------------------------------------------------
(* Recovery of a gc operation *)

SetState(state) == op' = [op EXCEPT !.state = state]

\* recoverLocalGCOperation without a plan: the empty directory goes first.
RecoverPlanless ==
  /\ cmd.at = "recover"
  /\ op.state = "planned" /\ quarantine.plan = "absent"
  /\ IF quarantine.dir
     THEN quarantine' = [quarantine EXCEPT !.dir = FALSE] /\ UNCHANGED op
     ELSE SetState("rolled_back") /\ UNCHANGED quarantine
  /\ UNCHANGED <<ledger, pool, retention, publication, cmd>>

\* recoverLocalGCOperation with a plan: it is only ever rolled forward.
RecoverPlanned ==
  /\ cmd.at = "recover"
  /\ Pending /\ quarantine.plan = "whole"
  /\ SetState(IF op.state = "planned" THEN "staged" ELSE op.state)
  /\ Go("apply")
  /\ UNCHANGED <<ledger, pool, quarantine, retention, publication>>

\* recoverDoneLocalGCCleanup: without its plan the directory must be empty.
RecoverDone ==
  /\ cmd.at = "recover"
  /\ op.state \in {"done", "rolled_back"} /\ quarantine.dir
  /\ quarantine.plan = "whole" \/ quarantine.payloads = {}
  /\ Go("cleanup")
  /\ UNCHANGED <<ledger, pool, op, quarantine, retention, publication>>

\* Nothing to recover: recoverDistOperations and recoverDoneDistCleanup return.
RecoverNone ==
  /\ cmd.at = "recover"
  /\ ~Pending /\ ~quarantine.dir
  /\ Go(IF cmd.name = "gc" THEN "tidy" ELSE "ready")
  /\ UNCHANGED <<ledger, pool, op, quarantine, retention, publication>>

\* A torn plan differs from the one the operation names: the command gives up.
RecoverRefused ==
  /\ cmd.at = "recover"
  /\ quarantine.plan = "torn"
  /\ End
  /\ UNCHANGED <<ledger, pool, op, quarantine, retention, publication>>

-----------------------------------------------------------------------------
(* gc *)

\* Mutant: only a stage of the current generation is removed.
TidyCurrent ==
  /\ cmd.at = "tidy"
  /\ IF Parts(stage, gen) = {}
     THEN /\ Go(IF cmd.name = "gc" THEN "plan" ELSE "retain")
          /\ UNCHANGED stage
     ELSE /\ stage' = stage \ {<<gen, FirstEntry(stage, gen)>>}
          /\ UNCHANGED cmd
  /\ UNCHANGED <<ledger, pool, op, quarantine, retained, tomb, rmPlan, late, publication>>

\* cleanupRetainedAddStagesLocked, before gc and before `retain add`.  The stage
\* belongs to a recorded generation; its entries go before the directory.
Tidy ==
  /\ cmd.at = "tidy"
  /\ IF stage = {}
     THEN /\ Go(IF cmd.name = "gc" THEN "plan" ELSE "retain")
          /\ UNCHANGED stage
     ELSE /\ \E e \in stage : stage' = stage \ {<<e[1], FirstEntry(stage, e[1])>>}
          /\ UNCHANGED cmd
  /\ UNCHANGED <<ledger, pool, op, quarantine, retained, tomb, rmPlan, late, publication>>

\* requireLocalGCPrivateRootsSettled
PrivateRootsSettled == stage = {} /\ tomb = {} /\ \A g \in Gen : rmPlan[g] = "absent"

\* LocalGCInventory, verifiedRetainedPayloadRootsLocked and the publication
\* roots: what has to hold before candidates are looked for.
Collectable ==
  /\ PrivateRootsSettled
  /\ Clean
  /\ pool = manifest[gen]
  /\ \A g \in retained : Verified(g)
  /\ PayloadsOf(attempt) \subseteq rows

\* Mutant: retained generations are not asked.
CandidatesUnretained == rows \ (MembershipRoots \union PublicationRoots)

Candidates == rows \ (MembershipRoots \union RetainedRoots \union PublicationRoots)

\* No candidates, or a condition that is not met.
Noop ==
  /\ Running("gc", "plan")
  /\ ~Collectable \/ Candidates = {} \/ gen = MaxGen
  /\ End
  /\ UNCHANGED <<ledger, pool, op, quarantine, retention, publication>>

\* buildLocalGCPlan and BeginOperation
BeginOperation ==
  /\ Running("gc", "plan")
  /\ Collectable /\ Candidates # {}
  /\ gen < MaxGen
  /\ op' = [state |-> "planned", entries |-> Candidates, base |-> gen]
  /\ cmd' = [cmd EXCEPT !.at = "mkdir", !.gen = gen]
  /\ UNCHANGED <<ledger, pool, quarantine, retention, publication>>

\* Mutant: the operation is staged before its plan is written.
MakeQuarantineStaged ==
  /\ Running("gc", "mkdir")
  /\ quarantine' = [quarantine EXCEPT !.dir = TRUE]
  /\ SetState("staged")
  /\ Go("write")
  /\ UNCHANGED <<ledger, pool, retention, publication>>

MakeQuarantine ==
  /\ Running("gc", "mkdir")
  /\ quarantine' = [quarantine EXCEPT !.dir = TRUE]
  /\ Go("write")
  /\ UNCHANGED <<ledger, pool, op, retention, publication>>

\* writeRootedNewRegular makes the file under its name and then fills it.
WritePlan ==
  /\ Running("gc", "write")
  /\ quarantine' = [quarantine EXCEPT !.plan = IF @ = "absent" THEN "torn" ELSE "whole"]
  /\ Go(IF quarantine.plan = "absent" THEN "write" ELSE "stage")
  /\ UNCHANGED <<ledger, pool, op, retention, publication>>

SetStaged ==
  /\ Running("gc", "stage")
  /\ SetState("staged")
  /\ Go("apply")
  /\ UNCHANGED <<ledger, pool, quarantine, retention, publication>>

-----------------------------------------------------------------------------
(* Carrying out a plan *)

\* The loop of applyLocalGCPlan: a payload is linked into the quarantine ...
Quarantine ==
  /\ cmd.at = "apply"
  /\ \E p \in (op.entries \intersect pool) \ quarantine.payloads :
       quarantine' = [quarantine EXCEPT !.payloads = @ \union {p}]
  /\ UNCHANGED <<ledger, op, pool, retention, publication, cmd>>

\* ... and one that is in both places is removed from the public tree.
Detach ==
  /\ cmd.at = "apply"
  /\ \E p \in op.entries \intersect pool \intersect quarantine.payloads :
       pool' = pool \ {p}
  /\ UNCHANGED <<ledger, op, quarantine, retention, publication, cmd>>

SetApplied ==
  /\ cmd.at = "apply"
  /\ op.entries \subseteq quarantine.payloads \ pool
  /\ SetState("applied")
  /\ Go("finalize")
  /\ UNCHANGED <<ledger, pool, quarantine, retention, publication>>

\* SubtractLocalGCObjects over the base manifest.
SubtractLocalGCObjects(base) == base \ op.entries

\* What FinalizeLocalGC checks in its transaction.
Finalizable ==
  /\ op.state = "applied"
  /\ gen = op.base /\ Clean
  /\ op.entries \subseteq rows
  /\ op.entries \intersect MembershipRoots = {}
  /\ op.entries \subseteq manifest[gen]

\* FinalizeLocalGC: the generation, the rows and the operation in one transaction.
FinalizeLocalGC ==
  /\ cmd.at = "finalize"
  /\ Finalizable
  /\ gen' = gen + 1
  /\ manifest' = [manifest EXCEPT ![gen + 1] = SubtractLocalGCObjects(manifest[gen])]
  /\ rows' = rows \ op.entries
  /\ SetState("done")
  /\ Go("cleanup")
  /\ UNCHANGED <<member, built, prior, pool, quarantine, retention, publication>>

\* cleanupLocalGCPlan: payloads, then the plan, then the directory.
Cleanup ==
  /\ cmd.at = "cleanup"
  /\ IF quarantine.payloads # {}
     THEN \E p \in quarantine.payloads :
            quarantine' = [quarantine EXCEPT !.payloads = @ \ {p}]
     ELSE IF quarantine.plan # "absent"
     THEN quarantine' = [quarantine EXCEPT !.plan = "absent"]
     ELSE quarantine' = [quarantine EXCEPT !.dir = FALSE]
  /\ IF quarantine.plan # "absent" THEN UNCHANGED cmd
     ELSE IF cmd.gen = 0 THEN Go("recover") ELSE End
  /\ UNCHANGED <<ledger, pool, op, retention, publication>>

-----------------------------------------------------------------------------
(* Other commands that recover first: a finished add, rm or build, and publish *)

\* A mutation that ends without its build (skip) leaves the repository dirty.
ApplyDesired ==
  /\ Running("write", "ready")
  /\ \E m \in SUBSET rows : m # member /\ member' = m
  /\ End
  /\ UNCHANGED <<rows, built, prior, gen, manifest, pool, op, quarantine, retention, publication>>

\* FinalizeBuild after payloads that are new were linked into the pool.
FinalizeBuild ==
  /\ Running("write", "ready")
  /\ gen < MaxGen
  /\ \E m \in SUBSET Payload :
       /\ m # built
       /\ member' = m /\ built' = m /\ prior' = built
       /\ rows' = rows \union m
       /\ pool' = pool \union m
       /\ manifest' = [manifest EXCEPT ![gen + 1] = pool \union m]
  /\ gen' = gen + 1
  /\ End
  /\ UNCHANGED <<op, quarantine, retention, publication>>

\* A publication attempt pins the generation it publishes; one publication at a
\* time, until its grace is over, is a bound of the model.
BeginAttempt ==
  /\ Running("write", "ready")
  /\ attempt = 0 /\ grace = 0
  /\ Clean
  /\ attempt' = gen
  /\ End
  /\ UNCHANGED <<ledger, pool, op, quarantine, retention, grace>>

\* It is applied, which starts a grace period, or abandoned.
EndAttempt(applied) ==
  /\ Running("write", "ready")
  /\ attempt # 0
  /\ applied => PayloadsOf(attempt) \subseteq pool
  /\ grace' = IF applied THEN attempt ELSE grace
  /\ attempt' = 0
  /\ End
  /\ UNCHANGED <<ledger, pool, op, quarantine, retention>>

\* Target gc acknowledges that the grace period is over.
EndGrace ==
  /\ Running("write", "ready")
  /\ grace # 0 /\ grace' = 0
  /\ End
  /\ UNCHANGED <<ledger, pool, op, quarantine, retention, attempt>>

\* A command that has nothing to do, or is refused.
Leave ==
  /\ Running("write", "ready")
  /\ End
  /\ UNCHANGED <<ledger, pool, op, quarantine, retention, publication>>

-----------------------------------------------------------------------------
(* retain add *)

\* Only the current generation, and one that is there already is verified only.
\* No pending operation is recovered or even looked at.
BeginRetain ==
  /\ Running("retain add", "retain")
  /\ IF cmd.gen = gen /\ cmd.gen \notin retained
     THEN stage' = stage \union {<<cmd.gen, "dir">>} /\ Go("copy")
     ELSE UNCHANGED stage /\ End
  /\ UNCHANGED <<ledger, pool, op, quarantine, retained, tomb, rmPlan, late, publication>>

\* The payload references are verified and the rest is copied.
CopyMetadata ==
  /\ Running("retain add", "copy")
  /\ IF Verified(cmd.gen)
     THEN stage' = stage \union {<<cmd.gen, "metadata">>} /\ Go("manifest.tsv")
     ELSE UNCHANGED stage /\ Go("undo")
  /\ UNCHANGED <<ledger, pool, op, quarantine, retained, tomb, rmPlan, late, publication>>

WriteRecord ==
  /\ cmd.name = "retain add"
  /\ cmd.at \in {"manifest.tsv", "record.json"}
  /\ stage' = stage \union {<<cmd.gen, cmd.at>>}
  /\ Go(IF cmd.at = "manifest.tsv" THEN "record.json" ELSE "commit")
  /\ UNCHANGED <<ledger, pool, op, quarantine, retained, tomb, rmPlan, late, publication>>

\* durableRename of the stage to retained/<g>
CommitRetain ==
  /\ Running("retain add", "commit")
  /\ Parts(stage, cmd.gen) = Part
  /\ stage' = {e \in stage : e[1] # cmd.gen}
  /\ retained' = retained \union {cmd.gen}
  /\ late' = IF Pending THEN late \union {cmd.gen} ELSE late \ {cmd.gen}
  /\ End
  /\ UNCHANGED <<ledger, pool, op, quarantine, tomb, rmPlan, publication>>

\* removeOwnedDirectory after a failure
UndoRetain ==
  /\ Running("retain add", "undo")
  /\ IF Parts(stage, cmd.gen) = {}
     THEN End /\ UNCHANGED stage
     ELSE /\ stage' = stage \ {<<cmd.gen, FirstEntry(stage, cmd.gen)>>}
          /\ UNCHANGED cmd
  /\ UNCHANGED <<ledger, pool, op, quarantine, retained, tomb, rmPlan, late, publication>>

-----------------------------------------------------------------------------
(* retain rm *)

\* What RemoveRetainedGeneration finds decides where it goes on.
Inspect ==
  /\ Running("retain rm", "inspect")
  /\ LET target == cmd.gen \in retained
         dead == Parts(tomb, cmd.gen) # {}
         plan == rmPlan[cmd.gen]
     IN CASE target /\ ~dead /\ plan = "absent" /\ Verified(cmd.gen) -> Go("plan")
          [] target /\ ~dead /\ plan = "whole" /\ Verified(cmd.gen)  -> Go("move")
          [] ~target /\ dead /\ plan = "whole"                       -> Go("remove")
          [] ~target /\ ~dead /\ plan = "whole"                      -> Go("unplan")
          [] OTHER                                                   -> End
  /\ UNCHANGED <<ledger, pool, op, quarantine, retention, publication>>

PlanRemoval ==
  /\ Running("retain rm", "plan")
  /\ rmPlan' = [rmPlan EXCEPT ![cmd.gen] = IF @ = "absent" THEN "torn" ELSE "whole"]
  /\ Go(IF rmPlan[cmd.gen] = "absent" THEN "plan" ELSE "move")
  /\ UNCHANGED <<ledger, pool, op, quarantine, retained, stage, tomb, late, publication>>

\* durableRename of retained/<g> to its tombstone
MoveToTomb ==
  /\ Running("retain rm", "move")
  /\ retained' = retained \ {cmd.gen}
  /\ tomb' = tomb \union ({cmd.gen} \X Part)
  /\ Go("remove")
  /\ UNCHANGED <<ledger, pool, op, quarantine, stage, rmPlan, late, publication>>

\* Files, then directories, entry by entry.
RemoveTomb ==
  /\ Running("retain rm", "remove")
  /\ tomb' = tomb \ {<<cmd.gen, FirstEntry(tomb, cmd.gen)>>}
  /\ IF Parts(tomb, cmd.gen) = {"dir"} THEN Go("unplan") ELSE UNCHANGED cmd
  /\ UNCHANGED <<ledger, pool, op, quarantine, retained, stage, rmPlan, late, publication>>

RemovePlan ==
  /\ Running("retain rm", "unplan")
  /\ rmPlan' = [rmPlan EXCEPT ![cmd.gen] = "absent"]
  /\ End
  /\ UNCHANGED <<ledger, pool, op, quarantine, retained, stage, tomb, late, publication>>

-----------------------------------------------------------------------------
(* The specification *)

\* A repository that was built at least once and has nothing pending.
Init ==
  /\ rows = Payload /\ pool = Payload
  /\ built \in SUBSET Payload /\ prior \in SUBSET Payload
  /\ member = built
  /\ gen = 1
  /\ manifest = [g \in Gen |-> IF g = 1 THEN Payload ELSE {}]
  /\ op = [state |-> "none", entries |-> {}, base |-> 0]
  /\ quarantine = [dir |-> FALSE, plan |-> "absent", payloads |-> {}]
  /\ retained = {} /\ stage = {} /\ tomb = {} /\ late = {}
  /\ rmPlan = [g \in Gen |-> "absent"]
  /\ attempt = 0 /\ grace = 0 /\ stops = 0
  /\ cmd = Idle

Recover == RecoverPlanless \/ RecoverPlanned \/ RecoverDone \/ RecoverNone \/ RecoverRefused

Collect ==
  \/ Noop \/ BeginOperation \/ MakeQuarantine \/ WritePlan \/ SetStaged
  \/ Quarantine \/ Detach \/ SetApplied \/ FinalizeLocalGC \/ Cleanup

Write ==
  \/ ApplyDesired \/ FinalizeBuild \/ BeginAttempt
  \/ EndAttempt(TRUE) \/ EndAttempt(FALSE) \/ EndGrace \/ Leave

RetainAdd == BeginRetain \/ CopyMetadata \/ WriteRecord \/ CommitRetain \/ UndoRetain

RetainRemove == Inspect \/ PlanRemoval \/ MoveToTomb \/ RemoveTomb \/ RemovePlan

Step == Recover \/ Tidy \/ Collect \/ RetainAdd \/ RetainRemove

Run == (Step \/ Write) /\ UNCHANGED stops

Begin(name) == \E g \in 0 .. gen : Start(name, g) /\ UNCHANGED stops

Next ==
  \/ Begin("gc") \/ Begin("write") \/ Begin("retain add") \/ Begin("retain rm")
  \/ Run
  \/ Stop

Spec == Init /\ [][Next]_vars

\* A started command goes on; gc is run again and again, and so is a `retain rm`
\* that was cut short, which nothing but its repetition takes up.
Resume == \E g \in 1 .. gen : Start("retain rm", g) /\ UNCHANGED stops /\ Parts(tomb, g) \union {rmPlan[g]} # {"absent"}

FairSpec == Spec /\ WF_vars(Run) /\ SF_vars(Begin("gc")) /\ SF_vars(Resume)

-----------------------------------------------------------------------------
(* Properties *)

\* Every variable has its type; a retained generation is one that was built, and
\* there is a quarantine only for an operation that was begun.
TypeOK ==
  /\ rows \subseteq Payload /\ pool \subseteq Payload
  /\ member \union built \union prior \subseteq rows
  /\ gen \in Gen /\ manifest \in [Gen -> SUBSET Payload]
  /\ op.state \in {"none", "planned", "staged", "applied", "done", "rolled_back"}
  /\ op.entries \subseteq Payload /\ op.base \in 0 .. gen
  /\ quarantine \in [dir : BOOLEAN, plan : PlanFile, payloads : SUBSET op.entries]
  /\ retained \subseteq 1 .. gen /\ late \subseteq Gen
  /\ stage \union tomb \subseteq (1 .. gen) \X Part
  /\ rmPlan \in [Gen -> PlanFile]
  /\ attempt \in 0 .. gen /\ grace \in 0 .. gen
  /\ stops \in 0 .. MaxStops

\* Whatever refers to a payload finds it in the pool, in the middle of a gc too:
\* memberships, a publication under way or in its grace period, and every retained
\* generation that was not retained while a gc was pending.
RootsServed ==
  MembershipRoots \union PublicationRoots \union UNION {manifest[g] : g \in retained \ late} \subseteq pool

\* A retained generation keeps its payloads, whenever it was retained.
RetainedServed == RetainedRoots \subseteq pool

\* The last copy of a payload is not deleted while the ledger has its row, and no
\* row is left behind for one that went.
LastCopyKept ==
  /\ rows \subseteq pool \union quarantine.payloads
  /\ quarantine.payloads \subseteq rows \/ op.state = "done"

\* An interrupted gc can be taken up by the next command: before it is staged
\* nothing has moved; afterwards its plan is whole, each payload is in one of the
\* two places, and the ledger will accept the result.
ReplayAdmitted ==
  Pending /\ cmd = Idle =>
    /\ op.state = "planned" => quarantine.payloads = {}
    /\ op.state # "planned" => quarantine.dir /\ quarantine.plan = "whole"
    /\ op.entries \subseteq pool \union quarantine.payloads
    /\ gen = op.base /\ Clean
    /\ op.entries \subseteq rows \ MembershipRoots

\* With no gc under way the public tree is exactly the built generation, which
\* is what every later command checks first.
TreeIsGeneration == ~Pending => pool = manifest[gen] /\ rows = pool

\* However a gc is cut short, and whatever is published or retained meanwhile,
\* no payload that is referred to leaves the pool, none is lost before its row,
\* and afterwards pool, rows and generation agree.
GCSafe == TypeOK /\ RootsServed /\ LastCopyKept /\ TreeIsGeneration

\* A removal of a retained generation can be repeated until it is done: its
\* tombstone never outlives the plan that describes it.
RemovalReplayable == \A g \in Gen : Parts(tomb, g) # {} => rmPlan[g] = "whole"

\* Both interrupted commands, a gc and a removal of a retained generation, can
\* be taken up where they stopped.
Replayable == ReplayAdmitted /\ RemovalReplayable

\* What no later command gets past: a plan torn by a stop, a generation retained
\* again while its removal was unfinished, and one that lost its payloads.
Stuck ==
  \/ quarantine.plan = "torn"
  \/ \E g \in Gen : rmPlan[g] = "torn" \/ (g \in retained /\ Parts(tomb, g) # {})
  \/ ~RetainedServed

\* A payload nothing refers to is collected in the end, whatever interrupted
\* commands have left behind, as long as none of it is what commands refuse.
Collected ==
  \A p \in Payload :
    ~<>[](/\ p \in rows \ (MembershipRoots \union RetainedRoots \union PublicationRoots)
          /\ Clean /\ gen < MaxGen /\ ~Stuck)

=============================================================================
