--------------------------- MODULE MutationProofs ---------------------------
(***************************************************************************)
(* Safety of MutationBuild, honesty of RepositoryCheck and truth of        *)
(* RepositoryStatus for every set of dists and packages and every bound.   *)
(* MutationInv is the inductive invariant: at most the last operation of   *)
(* the ledger is open; what it has bound, applied and frozen says which    *)
(* rows, bytes and public trees may differ from the last generation, and   *)
(* which updates of the store are not on disk yet. StatusInv adds what an  *)
(* observer without a lock knows.                                          *)
(***************************************************************************)
EXTENDS RepositoryStatus, FiniteSetTheorems, TLAPS

PublicTree == [live : [Dist -> Tree], pool : SUBSET Package]

Typed ==
  /\ TypeOK
  /\ Len(generations) > 0
  /\ \A i \in Pending : i = Len(ops)

\* Only the last operation has a directory, and nothing is outside of it.
PrivateSound ==
  /\ \A x \in stage : x[1] = Len(ops) /\ HasStage(Len(ops))
  /\ \A x \in staged : x[1] = Len(ops) /\ HasStage(Len(ops))
  /\ \A x \in trees : x[1] = Len(ops) /\ HasStage(Len(ops))
  /\ pc.at = "ready" => stage = {}

\* Members have rows, pending rows have members and bytes, and the rows and
\* builds of the pool are those of the last generation.
RowsSound ==
  /\ \A d \in Dist : \A p \in memberships[d] : objects[p] # "none"
  /\ \A p \in Package : objects[p] = "pending" =>
       (\E d \in Dist : p \in memberships[d]) /\ p \in pending \union pool
  /\ \A p \in Package : objects[p] = "pool" <=> p \in Built.pool
  /\ \A p \in Built.pool : p \notin pending
  /\ \A d \in Dist : built[d].pkgs = Built.live[d].pkgs /\ built[d].pkgs \subseteq Built.pool

\* What a manifest fixed, until the operation is closed.
Prepared(i) ==
  LET o == ops[i]
  IN /\ HasStage(i) /\ <<i, "staged">> \in stage
     /\ o.base = Built
     /\ o.buildDists \subseteq o.dists
     /\ ~o.skip => o.buildDists = DistsNeedingBuild(o.dists, o.desired, o.config)
     /\ o.objects \subseteq Wanted(i)
     /\ o.objects # {} => o.kind = "add"
     /\ \A p \in Wanted(i) : p \in o.objects \/ objects[p] # "none"

\* Before Desired is applied the new objects have no row.
Unapplied(i) ==
  /\ ops[i].dropped = {}
  /\ \A p \in ops[i].objects : objects[p] = "none" /\ (p \in pending \/ <<i, p>> \in staged)
  /\ \A x \in staged : x[2] \in ops[i].objects

\* Afterwards the memberships are those of the manifest.
Applied(i) ==
  /\ \A d \in ops[i].dists : memberships[d] = ops[i].desired[d]
  /\ \A p \in ops[i].objects : objects[p] = "pending"
  /\ \A p \in ops[i].dropped : objects[p] = "none"
  /\ staged = {}

\* Which combinations of state, manifest and decision a ledger row shows.
Journal(i) ==
  LET o == ops[i]
  IN /\ o.state = "planned" => o.manifest # "frozen" /\ ~o.applied /\ o.dropped = {}
     /\ o.state # "planned" => o.manifest # "none" /\ Prepared(i)
     /\ o.state = "staged" => ~o.applied
     /\ o.state \in {"applied", "built"} => o.applied
     /\ o.state = "built" => o.manifest = "frozen"
     /\ o.manifest = "frozen" =>
          o.applied /\ ~o.skip /\ o.buildDists # {} /\ <<i, "frozen">> \in stage
     /\ o.applied => o.state # "planned" /\ Applied(i)
     /\ o.state # "planned" /\ ~o.applied => Unapplied(i)

JournalSound == \A i \in Pending : Journal(i)

Promoted(i) ==
  unsynced = {} /\ ops[i].pooled \subseteq pool /\ ops[i].pooled \intersect pending = {}

Frozen(i) == i \in Pending /\ ops[i].manifest = "frozen"

\* A frozen plan accounts for every difference from the last generation.
Plan(i) ==
  LET o == ops[i]
  IN /\ o.pooled = PlanPooled(i)
     /\ Built.pool \subseteq pool /\ pool \subseteq Built.pool \union o.pooled
     /\ \A d \in o.buildDists :
          /\ o.tree[d] = [by |-> i, pkgs |-> memberships[d], prior |-> Built.live[d].by]
          /\ \/ live[d] = Built.live[d] /\ <<i, d, o.tree[d]>> \in trees
             \/ live[d] = o.tree[d] /\ <<i, d, Built.live[d]>> \in trees
     /\ \A d \in Dist \ o.buildDists : live[d] = Built.live[d]
     /\ live # Built.live => Promoted(i)
     /\ \A x \in unsynced : x[2] \in o.pooled
     /\ \A x \in unsynced : x[1] = "link" => x[2] \in pending

PublicSound ==
  /\ \A i \in Pending : Frozen(i) => Plan(i)
  /\ (\A i \in Pending : ~Frozen(i)) => Public = Built /\ unsynced = {}

\* Pending bytes without a row are traces of the last operation.
TracesSound ==
  \A p \in pending : objects[p] # "pending" =>
    \/ \E i \in Pending : /\ ops[i].state # "planned"
                          /\ p \in IF ops[i].applied THEN ops[i].dropped ELSE ops[i].objects
    \/ Len(ops) > 0 /\ p \in FailedPending(Len(ops))

Closing == {"cleanup", "undo"}

Between == {"idle", "recover", "tidy", "ready"}

Rendering == {"render", "freeze"}

Placing == {"frozen", "link", "unlink", "exchange"}

\* Before the manifest is written.
Drafted(i) ==
  LET o == ops[i]
  IN /\ o.state = "planned" /\ o.manifest = "none"
     /\ o.base = Built
     /\ o.objects = {}
     /\ o.kind # "add" =>
          /\ o.inputs = {}
          /\ \A d \in o.dists : o.desired[d] \subseteq memberships[d]
          /\ o.buildDists \subseteq o.dists
          /\ ~o.skip => o.buildDists = DistsNeedingBuild(o.dists, o.desired, o.config)
     /\ pc.at = "stage" => stage = {}
     /\ pc.at = "manifest" =>
          /\ HasStage(i)
          /\ \A p \in Package : <<i, p>> \in staged <=> p \in o.inputs /\ objects[p] = "none"

\* What the running command may count on.
CommandSound ==
  /\ pc.at \in Step \ (Between \union Closing) => pc.op \in Pending
  /\ pc.at \in Closing => pc.op = Len(ops) /\ pc.op > 0
  /\ pc.at \in Closing \union {"tidy", "ready"} => Pending = {}
  /\ pc.at \in {"rollback", "bind", "bound"} => ops[pc.op].state = "planned"
  /\ pc.at \in {"stage", "manifest"} => Drafted(pc.op)
  /\ pc.at \in {"bind", "bound"} => Prepared(pc.op) /\ Unapplied(pc.op)
  /\ pc.at = "bound" => ops[pc.op].manifest = "staged"
  /\ pc.at = "admit" => ops[pc.op].state = "recovering"
  /\ pc.at = "install" => ops[pc.op].state \in {"staged", "recovering"}
  /\ pc.at \in {"drop"} \union Rendering \union Placing => ops[pc.op].state = "applied"
  /\ pc.at \in Rendering \union Placing \union {"finalize"} =>
       ~ops[pc.op].skip /\ ops[pc.op].dropped \intersect pending = {}
  /\ pc.at \in Rendering =>
       ops[pc.op].manifest = "staged" /\ ops[pc.op].buildDists # {}
  /\ pc.at = "freeze" => AllRendered(pc.op) /\ <<pc.op, "frozen">> \in stage
  /\ pc.at \in Placing \union {"finalize"} => ops[pc.op].manifest = "frozen"
  /\ pc.at = "unlink" =>
       ops[pc.op].pooled \subseteq pool /\ \A x \in unsynced : x[1] # "link"
  /\ pc.at \in {"exchange", "finalize"} => Promoted(pc.op)
  /\ pc.at = "finalize" =>
       /\ ops[pc.op].state = "built"
       /\ \A d \in ops[pc.op].buildDists : live[d] = ops[pc.op].tree[d]

MutationInv ==
  /\ Typed
  /\ PrivateSound
  /\ RowsSound
  /\ JournalSound
  /\ PublicSound
  /\ TracesSound
  /\ CommandSound

-----------------------------------------------------------------------------
(* The ledger and the command *)

PcType == [at : Step, op : 0 .. Len(ops), recovering : BOOLEAN]

\* The last generation is a public tree with its pool.
LEMMA BuiltTyped ==
  ASSUME Typed
  PROVE  /\ Built \in PublicTree
         /\ Built.live \in [Dist -> Tree]
         /\ Built.pool \subseteq Package
         /\ Public \in PublicTree
         /\ Public.live = live
         /\ Public.pool = pool
<1>1. Built \in PublicTree
  <2>1. generations \in Seq(PublicTree) /\ Len(generations) > 0
    BY DEF Typed, TypeOK, PublicTree
  <2>2. generations[Len(generations)] \in PublicTree
    BY <2>1
  <2> QED
    BY <2>2 DEF Built
<1>2. Built.live \in [Dist -> Tree] /\ Built.pool \subseteq Package
  BY <1>1 DEF PublicTree
<1>3. live \in [Dist -> Tree] /\ pool \subseteq Package
  BY DEF Typed, TypeOK
<1>4. Public \in PublicTree /\ Public.live = live /\ Public.pool = pool
  BY <1>3 DEF Public, PublicTree
<1> QED
  BY <1>1, <1>2, <1>4

\* Every row of the ledger is an operation record.
LEMMA OpTyped ==
  ASSUME TypeOK, NEW i \in 1 .. Len(ops)
  PROVE  ops[i] \in OperationRecord
  BY DEF TypeOK

\* The open operation is the last one.
LEMMA OnlyPending ==
  ASSUME Typed, NEW i \in Pending
  PROVE  /\ i \in 1 .. Len(ops)
         /\ i = Len(ops)
         /\ Pending = {i}
         /\ ops[i] \in OperationRecord
         /\ ops[i].state \notin Terminal
<1>1. \A j \in Pending : j = Len(ops)
  BY DEF Typed
<1>2. i \in 1 .. Len(ops) /\ ops[i].state \notin Terminal
  BY DEF Pending, Operation
<1>3. TypeOK
  BY DEF Typed
<1>4. ops[i] \in OperationRecord
  BY <1>2, <1>3, OpTyped
<1> QED
  BY <1>1, <1>2, <1>4

\* A running command's next step.
LEMMA Moved ==
  ASSUME Typed, NEW s \in Step, Go(s)
  PROVE  pc' \in PcType /\ pc'.at = s /\ pc'.op = pc.op
<1>1. pc \in PcType
  BY DEF Typed, TypeOK, PcType
<1> QED
  BY <1>1 DEF Go, PcType

\* A step that leaves the ledger, the store and the directories alone has to
\* answer only for what the command counts on.
LEMMA OnlyCommand ==
  ASSUME MutationInv, UNCHANGED <<ledger, store, live, ops, work>>,
         config' \in [Dist -> Policy], pc' \in PcType,
         pc'.at = "ready" => stage = {}, CommandSound'
  PROVE  MutationInv'
<1>1. /\ memberships' = memberships /\ revision' = revision /\ built' = built
      /\ objects' = objects /\ generations' = generations /\ pending' = pending
      /\ pool' = pool /\ unsynced' = unsynced /\ live' = live /\ ops' = ops
      /\ stage' = stage /\ staged' = staged /\ trees' = trees
  BY DEF ledger, store, work
<1>2. Typed'
  <2>1. Typed
    BY DEF MutationInv
  <2> QED
    BY <1>1, <2>1 DEF Typed, TypeOK, PcType, Pending, Operation
<1>3. PrivateSound'
  BY <1>1 DEF MutationInv, PrivateSound, HasStage
<1>4. RowsSound'
  BY <1>1 DEF MutationInv, RowsSound, Built
<1>5. JournalSound'
  <2>1. Pending' = Pending
    BY <1>1 DEF Pending, Operation
  <2>2. ASSUME NEW i \in Pending, Journal(i)
        PROVE  Journal(i)'
    <3>1. Prepared(i)' = Prepared(i)
      BY <1>1 DEF Prepared, HasStage, Built, Wanted, DistsNeedingBuild
    <3>2. Unapplied(i)' = Unapplied(i) /\ Applied(i)' = Applied(i)
      BY <1>1 DEF Unapplied, Applied
    <3> QED
      BY <1>1, <2>2, <3>1, <3>2 DEF Journal
  <2> QED
    BY <2>1, <2>2 DEF JournalSound, MutationInv
<1>6. PublicSound'
  <2>1. PublicSound
    BY DEF MutationInv
  <2> QED
    BY <1>1, <2>1 DEF PublicSound, Frozen, Plan, Promoted, Built, Public, PlanPooled, Pending,
                      Operation
<1>7. TracesSound'
  BY <1>1 DEF MutationInv, TracesSound, FailedPending, ManifestOf, Pending, Operation
<1> QED
  BY <1>2, <1>3, <1>4, <1>5, <1>6, <1>7 DEF MutationInv

-----------------------------------------------------------------------------
(* Steps that change the command alone *)

\* A command begins.
LEMMA StartStep ==
  ASSUME MutationInv, Start
  PROVE  MutationInv'
<1>1. pc'.at = "recover" /\ pc' \in PcType
  BY DEF Start, PcType, Step, MutationInv, Typed, TypeOK
<1>2. CommandSound'
  BY <1>1 DEF CommandSound, Step, Between, Closing, Rendering, Placing
<1> QED
  BY <1>1, <1>2, OnlyCommand DEF Start, MutationInv, Typed, TypeOK

\* A command stops, or is killed.
LEMMA StopStep ==
  ASSUME MutationInv, Stop
  PROVE  MutationInv'
<1>1. pc'.at = "idle" /\ pc' \in PcType
  BY DEF Stop, PcType, Step, MutationInv, Typed, TypeOK
<1>2. CommandSound'
  BY <1>1 DEF CommandSound, Step, Between, Closing, Rendering, Placing
<1> QED
  BY <1>1, <1>2, OnlyCommand DEF Stop, MutationInv, Typed, TypeOK

\* An operation without a bound manifest, or not staged yet, is undone.
LEMMA TakeUpPlannedStep ==
  ASSUME MutationInv, NEW i \in Operation, TakeUpPlanned(i)
  PROVE  MutationInv'
<1>1. Typed /\ i \in Pending /\ i \in 1 .. Len(ops)
  BY DEF TakeUpPlanned, MutationInv, Operation
<1>2. pc'.at = "rollback" /\ pc'.op = i /\ pc' \in PcType
  <2>1. pc \in PcType
    BY <1>1 DEF Typed, TypeOK, PcType
  <2>2. pc' = [pc EXCEPT !.at = "rollback", !.op = i]
    BY DEF TakeUpPlanned
  <2>3. i \in 0 .. Len(ops)
    BY <1>1 DEF Typed, TypeOK
  <2> QED
    BY <2>1, <2>2, <2>3 DEF PcType, Step
<1>3. ops[i].state = "planned"
  BY <1>1 DEF TakeUpPlanned, MutationInv, JournalSound, Journal
<1>4. ops' = ops
  BY DEF TakeUpPlanned
<1>5. CommandSound'
  BY <1>1, <1>2, <1>3, <1>4
     DEF CommandSound, Step, Between, Closing, Rendering, Placing, Pending, Operation
<1> QED
  BY <1>2, <1>5, OnlyCommand DEF TakeUpPlanned, MutationInv, Typed, TypeOK

\* Recovery carries an admitted operation on.
LEMMA AdmitStep ==
  ASSUME MutationInv, NEW i \in Operation, Admit(i)
  PROVE  MutationInv'
<1>1. Typed /\ pc.at = "admit" /\ pc.op = i /\ "install" \in Step
  BY DEF Admit, At, MutationInv, Step
<1>2. pc'.at = "install" /\ pc'.op = i /\ pc' \in PcType
  BY <1>1, Moved DEF Admit
<1>3. i \in Pending /\ ops[i].state = "recovering"
  BY <1>1 DEF MutationInv, CommandSound, Step, Between, Closing
<1>4. ops' = ops
  BY DEF Admit
<1>5. CommandSound'
  BY <1>2, <1>3, <1>4
     DEF CommandSound, Step, Between, Closing, Rendering, Placing, Pending, Operation
<1> QED
  BY <1>2, <1>5, OnlyCommand DEF Admit, MutationInv, Typed, TypeOK

\* Nothing is left to recover.
LEMMA RecoverNoneStep ==
  ASSUME MutationInv, RecoverNone
  PROVE  MutationInv'
<1>1. Typed /\ "tidy" \in Step
  BY DEF MutationInv, Step
<1>2. pc'.at = "tidy" /\ pc' \in PcType
  BY <1>1, Moved DEF RecoverNone
<1>3. Pending' = {}
  BY DEF RecoverNone, Pending, Operation
<1>4. CommandSound'
  BY <1>2, <1>3 DEF CommandSound, Step, Between, Closing, Rendering, Placing
<1> QED
  BY <1>2, <1>4, OnlyCommand DEF RecoverNone, MutationInv, Typed, TypeOK

\* A new operation is begun only when no closed one has left a directory.
LEMMA ReadyStep ==
  ASSUME MutationInv, Ready
  PROVE  MutationInv'
<1>1. Typed /\ pc.at = "tidy" /\ Pending = {}
  BY DEF Ready, MutationInv, CommandSound, Closing
<1>2. pc'.at = "ready" /\ pc' \in PcType
  BY <1>1 DEF Ready, PcType, Step, Typed, TypeOK
<1>3. Pending' = {}
  BY <1>1 DEF Ready, Pending, Operation
<1>4. stage = {}
  <2> SUFFICES ASSUME NEW x \in stage
               PROVE  FALSE
    OBVIOUS
  <2>1. x[1] = Len(ops) /\ HasStage(Len(ops))
    BY DEF MutationInv, PrivateSound
  <2>2. x[1] \in Operation
    BY <1>1 DEF Typed, TypeOK
  <2>3. ops[Len(ops)].state \in Terminal
    BY <1>1, <2>1, <2>2 DEF Pending
  <2> QED
    BY <2>1, <2>2, <2>3 DEF Ready
<1>5. CommandSound'
  BY <1>2, <1>3 DEF CommandSound, Step, Between, Closing, Rendering, Placing
<1> QED
  BY <1>2, <1>4, <1>5, OnlyCommand DEF Ready, MutationInv, Typed, TypeOK

\* The frozen plan is read again before anything public changes.
LEMMA LoadPlanStep ==
  ASSUME MutationInv, NEW i \in Operation, LoadPlan(i)
  PROVE  MutationInv'
<1>1. Typed /\ pc.at = "frozen" /\ pc.op = i /\ "link" \in Step
  BY DEF LoadPlan, At, MutationInv, Step
<1>2. pc'.at = "link" /\ pc'.op = i /\ pc' \in PcType
  BY <1>1, Moved DEF LoadPlan
<1>3. /\ i \in Pending /\ ops[i].state = "applied" /\ ~ops[i].skip
      /\ ops[i].dropped \intersect pending = {} /\ ops[i].manifest = "frozen"
  BY <1>1 DEF MutationInv, CommandSound, Step, Between, Closing, Placing
<1>4. ops' = ops /\ pending' = pending
  BY DEF LoadPlan, store
<1>5. CommandSound'
  BY <1>2, <1>3, <1>4
     DEF CommandSound, Step, Between, Closing, Rendering, Placing, Pending, Operation
<1> QED
  BY <1>2, <1>5, OnlyCommand DEF LoadPlan, MutationInv, Typed, TypeOK

\* sow.yml is edited while commands run: an operation is bound to the policies
\* its journal records.
LEMMA EditConfigStep ==
  ASSUME MutationInv, NEW d \in Dist, EditConfig(d)
  PROVE  MutationInv'
<1>1. config' \in [Dist -> Policy]
  BY DEF MutationInv, Typed, TypeOK, EditConfig, Policy
<1>2. pc' \in PcType /\ pc' = pc
  BY DEF EditConfig, MutationInv, Typed, TypeOK, PcType
<1>3. CommandSound'
  <2>1. /\ memberships' = memberships /\ built' = built
        /\ objects' = objects /\ generations' = generations /\ pending' = pending
        /\ pool' = pool /\ unsynced' = unsynced /\ live' = live /\ ops' = ops
        /\ stage' = stage /\ staged' = staged /\ trees' = trees /\ pc' = pc
    BY DEF EditConfig, ledger, store, work
  <2>2. Prepared(pc.op)' = Prepared(pc.op)
    BY <2>1 DEF Prepared, HasStage, Built, Wanted, DistsNeedingBuild
  <2>3. Unapplied(pc.op)' = Unapplied(pc.op) /\ Promoted(pc.op)' = Promoted(pc.op)
    BY <2>1 DEF Unapplied, Promoted
  <2>4. Drafted(pc.op)' = Drafted(pc.op)
    BY <2>1 DEF Drafted, HasStage, Built, DistsNeedingBuild
  <2>5. AllRendered(pc.op)' = AllRendered(pc.op) /\ Pending' = Pending
    BY <2>1 DEF AllRendered, Rendered, Pending, Operation
  <2>6. CommandSound
    BY DEF MutationInv
  <2> QED
    BY <2>1, <2>2, <2>3, <2>4, <2>5, <2>6 DEF CommandSound
<1> QED
  BY <1>1, <1>2, <1>3, OnlyCommand DEF EditConfig, MutationInv, PrivateSound

-----------------------------------------------------------------------------
(* Steps that change the last row of the ledger *)

\* One row of the ledger is replaced.
LEMMA Updated ==
  ASSUME Typed, NEW i \in 1 .. Len(ops), NEW r \in OperationRecord, ops' = [ops EXCEPT ![i] = r]
  PROVE  /\ ops' \in Seq(OperationRecord)
         /\ Len(ops') = Len(ops)
         /\ ops'[i] = r
         /\ \A j \in 1 .. Len(ops) : j # i => ops'[j] = ops[j]
         /\ r.state \in Terminal => Pending' = Pending \ {i}
         /\ r.state \notin Terminal => Pending' = Pending \union {i}
         /\ Operation' = Operation
<1>1. ops \in Seq(OperationRecord)
  BY DEF Typed, TypeOK
<1>2. ops' \in Seq(OperationRecord) /\ Len(ops') = Len(ops) /\ ops'[i] = r
      /\ \A j \in 1 .. Len(ops) : j # i => ops'[j] = ops[j]
  BY <1>1
<1> QED
  BY <1>2 DEF Pending, Operation

\* The part of a row that the manifest fixes, and the plan it is frozen with.
SameScope(i) ==
  /\ ops'[i].kind = ops[i].kind /\ ops'[i].config = ops[i].config /\ ops'[i].skip = ops[i].skip
  /\ ops'[i].dists = ops[i].dists /\ ops'[i].inputs = ops[i].inputs
  /\ ops'[i].objects = ops[i].objects /\ ops'[i].desired = ops[i].desired
  /\ ops'[i].buildDists = ops[i].buildDists

SamePlan(i) ==
  ops'[i].tree = ops[i].tree /\ ops'[i].pooled = ops[i].pooled /\ ops'[i].base = ops[i].base

\* SetState changes nothing else of the row.
LEMMA StateSet ==
  ASSUME Typed, NEW i \in 1 .. Len(ops),
         NEW s \in {"planned", "staged", "applied", "built", "recovering"} \union Terminal,
         SetState(i, s)
  PROVE  /\ ops' \in Seq(OperationRecord)
         /\ Len(ops') = Len(ops)
         /\ ops'[i].state = s
         /\ SameScope(i) /\ SamePlan(i)
         /\ ops'[i].manifest = ops[i].manifest /\ ops'[i].applied = ops[i].applied
         /\ ops'[i].dropped = ops[i].dropped
         /\ \A j \in 1 .. Len(ops) : j # i => ops'[j] = ops[j]
         /\ s \in Terminal => Pending' = Pending \ {i}
         /\ s \notin Terminal => Pending' = Pending \union {i}
         /\ Operation' = Operation
<1>1. ops[i] \in OperationRecord
  BY OpTyped DEF Typed
<1> DEFINE r == [ops[i] EXCEPT !.state = s]
<1>2. ops' = [ops EXCEPT ![i] = r]
  BY DEF SetState
<1>3. r \in OperationRecord
  BY <1>1 DEF OperationRecord
<1>4. /\ r.state = s /\ r.kind = ops[i].kind /\ r.config = ops[i].config /\ r.skip = ops[i].skip
      /\ r.dists = ops[i].dists /\ r.inputs = ops[i].inputs /\ r.objects = ops[i].objects
      /\ r.desired = ops[i].desired /\ r.buildDists = ops[i].buildDists
      /\ r.tree = ops[i].tree /\ r.pooled = ops[i].pooled /\ r.base = ops[i].base
      /\ r.manifest = ops[i].manifest /\ r.applied = ops[i].applied
      /\ r.dropped = ops[i].dropped
  BY <1>1 DEF OperationRecord
<1> HIDE DEF r
<1>5. /\ ops' \in Seq(OperationRecord) /\ Len(ops') = Len(ops) /\ ops'[i] = r
      /\ \A j \in 1 .. Len(ops) : j # i => ops'[j] = ops[j]
      /\ r.state \in Terminal => Pending' = Pending \ {i}
      /\ r.state \notin Terminal => Pending' = Pending \union {i}
      /\ Operation' = Operation
  BY <1>2, <1>3, Updated
<1> QED
  BY <1>4, <1>5 DEF SameScope, SamePlan

\* What the manifest fixed stays fixed as long as the built dists stay.
LEMMA PreparedKept ==
  ASSUME NEW i, Prepared(i), SameScope(i), ops'[i].base = Built', built' = built,
         HasStage(i)', <<i, "staged">> \in stage',
         \A p \in Wanted(i) : objects[p] # "none" => objects'[p] # "none"
  PROVE  Prepared(i)'
<1>1. Wanted(i)' = Wanted(i)
  BY DEF SameScope, Wanted
<1>2. /\ ops'[i].buildDists \subseteq ops'[i].dists
      /\ ops'[i].objects \subseteq Wanted(i)'
      /\ ops'[i].objects # {} => ops'[i].kind = "add"
      /\ \A p \in Wanted(i)' : p \in ops'[i].objects \/ objects'[p] # "none"
  BY <1>1 DEF Prepared, SameScope
<1>3. ~ops'[i].skip =>
        ops'[i].buildDists = DistsNeedingBuild(ops[i].dists, ops[i].desired, ops[i].config)
  BY DEF Prepared, SameScope
<1>4. DistsNeedingBuild(ops[i].dists, ops[i].desired, ops[i].config) =
        DistsNeedingBuild(ops[i].dists, ops[i].desired, ops[i].config)'
  BY DEF SameScope, DistsNeedingBuild
<1> QED
  BY <1>2, <1>3, <1>4 DEF Prepared

\* An operation without a frozen plan is closed.
LEMMA Closes ==
  ASSUME MutationInv, NEW i \in Pending, NEW s \in Terminal, SetState(i, s), ~Frozen(i),
         UNCHANGED <<config, ledger, pool, unsynced, live, work>>,
         pending' \subseteq pending, \A p \in pending \ pending' : objects[p] # "pending",
         NEW step \in Closing, Go(step), pc.op = i, TracesSound'
  PROVE  MutationInv'
<1>1. Typed /\ step \in Step
  BY DEF MutationInv, Closing, Step
<1>2. i \in 1 .. Len(ops) /\ i = Len(ops) /\ Pending = {i}
  BY <1>1, OnlyPending
<1>3. ops' \in Seq(OperationRecord) /\ Len(ops') = Len(ops) /\ Pending' = {} /\ Operation' = Operation
  BY <1>1, <1>2, StateSet
<1>4. pc' \in PcType /\ pc'.at = step /\ pc'.op = i
  BY <1>1, Moved
<1>5. /\ memberships' = memberships /\ revision' = revision /\ built' = built
      /\ objects' = objects /\ generations' = generations
      /\ pool' = pool /\ unsynced' = unsynced /\ live' = live /\ config' = config
      /\ stage' = stage /\ staged' = staged /\ trees' = trees
  BY DEF ledger, work
<1>6. Typed'
  BY <1>1, <1>3, <1>4, <1>5 DEF Typed, TypeOK, PcType
<1>7. PrivateSound'
  BY <1>3, <1>4, <1>5 DEF MutationInv, PrivateSound, HasStage, Closing
<1>8. RowsSound'
  <2>1. RowsSound /\ Built' = Built
    BY <1>5 DEF MutationInv, Built
  <2> QED
    BY <1>5, <2>1 DEF RowsSound
<1>9. JournalSound'
  BY <1>3 DEF JournalSound
<1>10. PublicSound'
  <2>1. Public = Built /\ unsynced = {}
    BY <1>2 DEF MutationInv, PublicSound
  <2> QED
    BY <1>3, <1>5, <2>1 DEF PublicSound, Public, Built
<1>11. CommandSound'
  <2>1. i > 0
    BY <1>2
  <2> QED
    BY <1>2, <1>3, <1>4, <2>1 DEF CommandSound, Step, Between, Closing, Rendering, Placing
<1> QED
  BY <1>6, <1>7, <1>8, <1>9, <1>10, <1>11 DEF MutationInv

\* Traces of an operation that failed before it was applied are those its
\* manifest names.
LEMMA FailedTraces ==
  ASSUME MutationInv, NEW i \in Pending, ~ops[i].applied, SetState(i, "failed"),
         pending' = pending, objects' = objects, stage' = stage
  PROVE  TracesSound'
<1>1. Typed /\ i \in 1 .. Len(ops) /\ i = Len(ops) /\ Pending = {i} /\ ops[i].state \notin Terminal
  BY OnlyPending DEF MutationInv
<1>2. "failed" \in Terminal
  BY DEF Terminal
<1>3. /\ Len(ops') = Len(ops) /\ ops'[i].state = "failed" /\ SameScope(i)
      /\ ops'[i].manifest = ops[i].manifest
  BY <1>1, <1>2, StateSet
<1>4. ASSUME NEW p \in pending, objects[p] # "pending"
      PROVE  p \in FailedPending(i)'
  <2>1. p \notin FailedPending(i)
    BY <1>1, <1>2 DEF FailedPending
  <2>2. ops[i].state # "planned" /\ p \in ops[i].objects
    BY <1>1, <1>4, <2>1 DEF MutationInv, TracesSound
  <2>3. Journal(i) /\ ops[i].manifest \in {"none", "staged", "frozen"}
    BY <1>1, OnlyPending DEF MutationInv, JournalSound, OperationRecord
  <2>4. /\ ops[i].kind = "add" /\ objects[p] = "none"
        /\ ops[i].manifest = "staged" /\ <<i, "staged">> \in stage
    BY <2>2, <2>3 DEF Journal, Prepared, Unapplied
  <2> QED
    BY <1>3, <1>4, <2>2, <2>4 DEF FailedPending, ManifestOf, SameScope
<1> QED
  BY <1>1, <1>3, <1>4 DEF TracesSound

\* After Desired is applied pending bytes have a row or were dropped by the
\* transaction.
LEMMA AppliedTraces ==
  ASSUME MutationInv, NEW i \in Pending, ops[i].applied, NEW p \in pending
  PROVE  objects[p] = "pending" \/ p \in ops[i].dropped
<1>1. i = Len(ops) /\ Pending = {i} /\ ops[i].state \notin Terminal
  BY OnlyPending DEF MutationInv
<1>2. p \notin FailedPending(i)
  BY <1>1 DEF FailedPending, Terminal
<1> QED
  BY <1>1, <1>2 DEF MutationInv, TracesSound

\* The signing policy or sow.yml changed before Desired was applied.
LEMMA FinishUnappliedStep ==
  ASSUME MutationInv, NEW i \in Operation, FinishUnapplied(i)
  PROVE  MutationInv'
<1>1. pc.at = "admit" /\ pc.op = i /\ ops[i].manifest = "staged" /\ ~ops[i].applied
  BY DEF FinishUnapplied, Unbuildable, At
<1>2. i \in Pending
  BY <1>1 DEF MutationInv, CommandSound, Step, Between, Closing
<1>3. SetState(i, "failed") /\ Go("undo") /\ UNCHANGED <<config, ledger, store, live, work>>
  BY DEF FinishUnapplied
<1>4. pending' = pending /\ objects' = objects /\ stage' = stage
  BY <1>3 DEF ledger, store, work
<1>5. TracesSound'
  BY <1>1, <1>2, <1>3, <1>4, FailedTraces
<1>6. "failed" \in Terminal /\ "undo" \in Closing /\ ~Frozen(i)
  BY <1>1 DEF Terminal, Closing, Frozen
<1> QED
  BY <1>1, <1>2, <1>3, <1>4, <1>5, <1>6, Closes DEF store

\* No input is accepted.
LEMMA RejectInputsStep ==
  ASSUME MutationInv, NEW i \in Operation, RejectInputs(i)
  PROVE  MutationInv'
<1>1. pc.at = "manifest" /\ pc.op = i
  BY DEF RejectInputs, At
<1>2. i \in Pending /\ Drafted(i)
  BY <1>1 DEF MutationInv, CommandSound, Step, Between, Closing
<1>3. ops[i].manifest = "none" /\ ~ops[i].applied
  BY <1>2 DEF MutationInv, JournalSound, Journal, Drafted
<1>4. SetState(i, "failed") /\ Go("undo") /\ UNCHANGED <<config, ledger, store, live, work>>
  BY DEF RejectInputs
<1>5. pending' = pending /\ objects' = objects /\ stage' = stage
  BY <1>4 DEF ledger, store, work
<1>6. TracesSound'
  BY <1>2, <1>3, <1>4, <1>5, FailedTraces
<1>7. "failed" \in Terminal /\ "undo" \in Closing /\ ~Frozen(i)
  BY <1>3 DEF Terminal, Closing, Frozen
<1> QED
  BY <1>1, <1>2, <1>4, <1>5, <1>6, <1>7, Closes DEF store

\* An ordinary error before Desired is applied.
LEMMA FailStep ==
  ASSUME MutationInv, NEW i \in Operation, Fail(i)
  PROVE  MutationInv'
<1>1. pc.at \in {"stage", "manifest", "bind", "bound", "install"} /\ pc.op = i
      /\ ops[i].state \in {"planned", "staged"}
  BY DEF Fail
<1>2. i \in Pending
  BY <1>1 DEF MutationInv, CommandSound, Step, Between, Closing
<1>3. ~ops[i].applied /\ ops[i].manifest # "frozen"
  BY <1>1, <1>2 DEF MutationInv, JournalSound, Journal
<1>4. SetState(i, "failed") /\ Go("undo") /\ UNCHANGED <<config, ledger, store, live, work>>
  BY DEF Fail
<1>5. pending' = pending /\ objects' = objects /\ stage' = stage
  BY <1>4 DEF ledger, store, work
<1>6. TracesSound'
  BY <1>2, <1>3, <1>4, <1>5, FailedTraces
<1>7. "failed" \in Terminal /\ "undo" \in Closing /\ ~Frozen(i)
  BY <1>3 DEF Terminal, Closing, Frozen
<1> QED
  BY <1>1, <1>2, <1>4, <1>5, <1>6, <1>7, Closes DEF store

\* The build is given up and Desired kept.
LEMMA FinishUnbuiltStep ==
  ASSUME MutationInv, NEW i \in Operation, FinishUnbuilt(i)
  PROVE  MutationInv'
<1>1. pc.at = "admit" /\ pc.op = i /\ ops[i].manifest = "staged" /\ ops[i].applied
  BY DEF FinishUnbuilt, Unbuildable, At
<1>2. i \in Pending
  BY <1>1 DEF MutationInv, CommandSound, Step, Between, Closing
<1>3. /\ SetState(i, "done_dirty") /\ Go("cleanup")
      /\ UNCHANGED <<config, ledger, pool, unsynced, live, work>>
      /\ pending' = pending \ {p \in ops[i].dropped : objects[p] = "none"}
  BY DEF FinishUnbuilt
<1>4. \A p \in ops[i].dropped : objects[p] = "none"
  BY <1>1, <1>2 DEF MutationInv, JournalSound, Journal, Applied
<1>5. /\ pending' \subseteq pending /\ objects' = objects
      /\ \A p \in pending \ pending' : objects[p] # "pending"
  BY <1>3 DEF ledger
<1>6. TracesSound'
  <2>1. ASSUME NEW p \in pending'
        PROVE  objects'[p] = "pending"
    BY <1>1, <1>2, <1>3, <1>4, <1>5, AppliedTraces
  <2> QED
    BY <2>1 DEF TracesSound
<1>7. "done_dirty" \in Terminal /\ "cleanup" \in Closing /\ ~Frozen(i)
  BY <1>1 DEF Terminal, Closing, Frozen
<1> QED
  BY <1>1, <1>2, <1>3, <1>5, <1>6, <1>7, Closes

\* An operation is closed with all it dropped removed.
LEMMA ClosesClean ==
  ASSUME MutationInv, NEW i \in Pending, NEW s \in Terminal, SetState(i, s), ~Frozen(i),
         UNCHANGED <<config, ledger, store, live, work>>,
         ops[i].applied, ops[i].dropped \intersect pending = {},
         Go("cleanup"), pc.op = i
  PROVE  MutationInv'
<1>1. pending' = pending /\ objects' = objects
  BY DEF ledger, store
<1>2. TracesSound'
  <2>1. ASSUME NEW p \in pending
        PROVE  objects[p] = "pending"
    BY AppliedTraces
  <2> QED
    BY <1>1, <2>1 DEF TracesSound
<1>3. "cleanup" \in Closing
  BY DEF Closing
<1> QED
  BY <1>1, <1>2, <1>3, Closes DEF store

\* With --skip the operation ends when Desired is applied.
LEMMA CompleteSkippedStep ==
  ASSUME MutationInv, NEW i \in Operation, CompleteSkipped(i)
  PROVE  MutationInv'
<1>1. pc.at = "drop" /\ pc.op = i
  BY DEF CompleteSkipped, At
<1>2. i \in Pending /\ ops[i].state = "applied"
  BY <1>1 DEF MutationInv, CommandSound, Step, Between, Closing
<1>3. ops[i].applied /\ ~Frozen(i)
  BY <1>2 DEF MutationInv, JournalSound, Journal, CompleteSkipped, Frozen
<1>4. {"done", "done_dirty"} \subseteq Terminal
  BY DEF Terminal
<1>5. PICK s \in Terminal : SetState(i, s)
  BY <1>4 DEF CompleteSkipped
<1> QED
  BY <1>1, <1>2, <1>3, <1>5, ClosesClean DEF CompleteSkipped

\* The public tree already shows what is wanted.
LEMMA FinalizeNoopBuildStep ==
  ASSUME MutationInv, NEW i \in Operation, FinalizeNoopBuild(i)
  PROVE  MutationInv'
<1>1. pc.at = "drop" /\ pc.op = i
  BY DEF FinalizeNoopBuild, At
<1>2. i \in Pending /\ ops[i].state = "applied"
  BY <1>1 DEF MutationInv, CommandSound, Step, Between, Closing
<1>3. ops[i].applied /\ ~Frozen(i)
  BY <1>2 DEF MutationInv, JournalSound, Journal, FinalizeNoopBuild, Frozen
<1>4. "done" \in Terminal
  BY DEF Terminal
<1> QED
  BY <1>1, <1>2, <1>3, <1>4, ClosesClean DEF FinalizeNoopBuild

\* A plan too large to be journaled is given up.
LEMMA PlanTooLargeStep ==
  ASSUME MutationInv, NEW i \in Operation, PlanTooLarge(i)
  PROVE  MutationInv'
<1>1. pc.at = "render" /\ pc.op = i
  BY DEF PlanTooLarge, At
<1>2. /\ i \in Pending /\ ops[i].state = "applied" /\ ops[i].manifest = "staged"
      /\ ops[i].dropped \intersect pending = {}
  BY <1>1 DEF MutationInv, CommandSound, Step, Between, Closing, Rendering
<1>3. ops[i].applied /\ ~Frozen(i)
  BY <1>2 DEF MutationInv, JournalSound, Journal, Frozen
<1>4. "done_dirty" \in Terminal
  BY DEF Terminal
<1> QED
  BY <1>1, <1>2, <1>3, <1>4, ClosesClean DEF PlanTooLarge

\* An open operation goes on to another state.
LEMMA StateMoves ==
  ASSUME MutationInv, NEW i \in Pending, NEW s \in {"staged", "built", "recovering"},
         SetState(i, s), UNCHANGED <<config, ledger, store, live, work>>,
         pc' \in PcType, pc'.at # "ready", CommandSound',
         ops[i].state # "planned" \/ (Prepared(i) /\ Unapplied(i) /\ ops[i].manifest = "staged"),
         s = "staged" => ~ops[i].applied,
         s = "built" => ops[i].manifest = "frozen"
  PROVE  MutationInv'
<1>1. Typed /\ i \in 1 .. Len(ops) /\ i = Len(ops) /\ Pending = {i} /\ ops[i].state \notin Terminal
  BY OnlyPending DEF MutationInv
<1>2. s \notin Terminal
  BY DEF Terminal
<1>3. /\ ops' \in Seq(OperationRecord) /\ Len(ops') = Len(ops) /\ ops'[i].state = s
      /\ SameScope(i) /\ SamePlan(i) /\ ops'[i].manifest = ops[i].manifest
      /\ ops'[i].applied = ops[i].applied /\ ops'[i].dropped = ops[i].dropped
      /\ Pending' = {i} /\ Operation' = Operation
  BY <1>1, <1>2, StateSet
<1>4. /\ memberships' = memberships /\ revision' = revision /\ built' = built
      /\ objects' = objects /\ generations' = generations /\ pending' = pending
      /\ pool' = pool /\ unsynced' = unsynced /\ live' = live /\ config' = config
      /\ stage' = stage /\ staged' = staged /\ trees' = trees
  BY DEF ledger, store, work
<1>5. Built' = Built
  BY <1>4 DEF Built
<1>6. Journal(i)
  BY DEF MutationInv, JournalSound
<1>7. Typed'
  BY <1>1, <1>3, <1>4 DEF Typed, TypeOK, PcType
<1>8. PrivateSound'
  BY <1>3, <1>4 DEF MutationInv, PrivateSound, HasStage
<1>9. RowsSound'
  BY <1>4, <1>5 DEF MutationInv, RowsSound
<1>10. JournalSound'
  <2>1. Prepared(i) /\ ops[i].manifest # "none"
    BY <1>6 DEF Journal
  <2>2. ops'[i].base = Built' /\ HasStage(i)' /\ <<i, "staged">> \in stage'
    BY <1>3, <1>4, <1>5, <2>1 DEF Prepared, HasStage, SamePlan
  <2>3. Prepared(i)'
    BY <1>3, <1>4, <2>1, <2>2, PreparedKept
  <2>4. ops[i].applied => Applied(i)'
    BY <1>3, <1>4, <1>6 DEF Journal, Applied, SameScope
  <2>5. ~ops[i].applied => Unapplied(i)'
    BY <1>3, <1>4, <1>6 DEF Journal, Unapplied, SameScope
  <2>6. Journal(i)'
    BY <1>3, <1>4, <1>6, <2>1, <2>3, <2>4, <2>5 DEF Journal, SameScope
  <2> QED
    BY <1>3, <2>6 DEF JournalSound
<1>11. PublicSound'
  <2>1. PlanPooled(i)' = PlanPooled(i)
    BY <1>3, <1>4 DEF PlanPooled, SameScope
  <2>2. ops[i].manifest = "frozen" => Plan(i)
    BY DEF MutationInv, PublicSound, Frozen
  <2>3. ops[i].manifest = "frozen" => Plan(i)'
    BY <1>3, <1>4, <1>5, <2>1, <2>2 DEF Plan, Promoted, SameScope, SamePlan
  <2>4. ops[i].manifest # "frozen" => Public' = Built' /\ unsynced' = {}
    BY <1>1, <1>4, <1>5 DEF MutationInv, PublicSound, Frozen, Public
  <2> QED
    BY <1>3, <2>3, <2>4 DEF PublicSound, Frozen
<1>12. TracesSound'
  <2>1. ASSUME NEW p \in pending, objects[p] # "pending"
        PROVE  p \in IF ops'[i].applied THEN ops'[i].dropped ELSE ops'[i].objects
    <3>1. p \notin FailedPending(i)
      BY <1>1 DEF FailedPending, Terminal
    <3> QED
      BY <1>1, <1>3, <2>1, <3>1 DEF MutationInv, TracesSound, SameScope
  <2> QED
    BY <1>3, <1>4, <2>1 DEF TracesSound
<1> QED
  BY <1>7, <1>8, <1>9, <1>10, <1>11, <1>12 DEF MutationInv

\* Recovery takes up an operation whose manifest is bound.
LEMMA TakeUpStep ==
  ASSUME MutationInv, NEW i \in Operation, TakeUp(i)
  PROVE  MutationInv'
<1>1. Typed /\ i \in Pending /\ ops[i].state # "planned" /\ SetState(i, "recovering")
  BY DEF TakeUp, MutationInv
<1>2. i \in 1 .. Len(ops) /\ Pending = {i}
  BY <1>1, OnlyPending
<1>3. "recovering" \notin Terminal
  BY DEF Terminal
<1>4. ops'[i].state = "recovering" /\ Pending' = {i}
  BY <1>1, <1>2, <1>3, StateSet
<1>5. pc'.at = "admit" /\ pc'.op = i /\ pc' \in PcType
  <2>1. pc \in PcType /\ i \in 0 .. Len(ops)
    BY <1>1, <1>2 DEF Typed, TypeOK, PcType
  <2>2. pc' = [pc EXCEPT !.at = "admit", !.op = i]
    BY DEF TakeUp
  <2> QED
    BY <2>1, <2>2 DEF PcType, Step
<1>6. CommandSound'
  BY <1>4, <1>5 DEF CommandSound, Step, Between, Closing, Rendering, Placing
<1> QED
  BY <1>1, <1>5, <1>6, StateMoves DEF TakeUp

\* The operation is staged: its manifest is bound.
LEMMA SetStagedStep ==
  ASSUME MutationInv, NEW i \in Operation, SetStaged(i)
  PROVE  MutationInv'
<1>1. Typed /\ pc.at = "bound" /\ pc.op = i /\ "install" \in Step /\ SetState(i, "staged")
  BY DEF SetStaged, At, MutationInv, Step
<1>2. /\ i \in Pending /\ ops[i].state = "planned" /\ ops[i].manifest = "staged"
      /\ Prepared(i) /\ Unapplied(i)
  BY <1>1 DEF MutationInv, CommandSound, Step, Between, Closing
<1>3. i \in 1 .. Len(ops) /\ Pending = {i} /\ "staged" \notin Terminal
  BY <1>1, <1>2, OnlyPending DEF Terminal
<1>4. ops'[i].state = "staged" /\ Pending' = {i}
  BY <1>1, <1>3, StateSet
<1>5. pc'.at = "install" /\ pc'.op = i /\ pc' \in PcType
  BY <1>1, Moved DEF SetStaged
<1>6. CommandSound'
  BY <1>4, <1>5 DEF CommandSound, Step, Between, Closing, Rendering, Placing
<1>7. ~ops[i].applied
  BY <1>2 DEF MutationInv, JournalSound, Journal
<1> QED
  BY <1>1, <1>2, <1>5, <1>6, <1>7, StateMoves DEF SetStaged

\* All dists of the plan are public.
LEMMA SetBuiltStep ==
  ASSUME MutationInv, NEW i \in Operation, SetBuilt(i)
  PROVE  MutationInv'
<1>1. Typed /\ pc.at = "exchange" /\ pc.op = i /\ "finalize" \in Step /\ SetState(i, "built")
  BY DEF SetBuilt, At, MutationInv, Step
<1>2. /\ i \in Pending /\ ops[i].state = "applied" /\ ops[i].manifest = "frozen"
      /\ ~ops[i].skip /\ ops[i].dropped \intersect pending = {} /\ Promoted(i)
  BY <1>1 DEF MutationInv, CommandSound, Step, Between, Closing, Placing
<1>3. i \in 1 .. Len(ops) /\ Pending = {i} /\ "built" \notin Terminal
  BY <1>1, <1>2, OnlyPending DEF Terminal
<1>4. /\ ops'[i].state = "built" /\ Pending' = {i} /\ SameScope(i) /\ SamePlan(i)
      /\ ops'[i].manifest = ops[i].manifest /\ ops'[i].dropped = ops[i].dropped
  BY <1>1, <1>3, StateSet
<1>5. pc'.at = "finalize" /\ pc'.op = i /\ pc' \in PcType
  BY <1>1, Moved DEF SetBuilt
<1>6. /\ pending' = pending /\ live' = live /\ pool' = pool /\ unsynced' = unsynced
      /\ \A d \in ops[i].buildDists : live[d] = ops[i].tree[d]
  BY DEF SetBuilt, store
<1>7. Promoted(i)'
  BY <1>2, <1>4, <1>6 DEF Promoted, SamePlan
<1>8. CommandSound'
  BY <1>2, <1>4, <1>5, <1>6, <1>7
     DEF CommandSound, Step, Between, Closing, Rendering, Placing, SameScope, SamePlan
<1> QED
  BY <1>1, <1>2, <1>5, <1>8, StateMoves DEF SetBuilt

-----------------------------------------------------------------------------
(* Private directories go *)

\* What is forgotten with the directory.
LEMMA ForgottenTyped ==
  ASSUME NEW o \in OperationRecord
  PROVE  /\ WithoutManifest(o) \in OperationRecord
         /\ WithoutManifest(o).state = o.state
         /\ WithoutManifest(o).manifest = o.manifest
         /\ WithoutManifest(o).applied = o.applied
         /\ WithoutManifest(o).dropped = o.dropped
         /\ Forgotten(o) \in OperationRecord
         /\ Forgotten(o).state = o.state
<1>1. EmptyTree \in Tree
  BY DEF EmptyTree, Tree
<1>2. [d \in Dist |-> EmptyTree] \in [Dist -> Tree] /\ [d \in Dist |-> {}] \in [Dist -> SUBSET Package]
      /\ [d \in Dist |-> "all"] \in [Dist -> Policy]
  BY <1>1 DEF Policy
<1>3. [live |-> [d \in Dist |-> EmptyTree], pool |-> {}] \in
        [live : [Dist -> Tree], pool : SUBSET Package]
  BY <1>2
<1>4. /\ WithoutManifest(o) \in OperationRecord
      /\ WithoutManifest(o).state = o.state
      /\ WithoutManifest(o).manifest = o.manifest
      /\ WithoutManifest(o).applied = o.applied
      /\ WithoutManifest(o).dropped = o.dropped
  BY <1>2, <1>3 DEF WithoutManifest, OperationRecord
<1>5. Forgotten(o) \in OperationRecord /\ Forgotten(o).state = o.state
  BY <1>2, <1>4 DEF Forgotten, OperationRecord
<1> QED
  BY <1>4, <1>5

\* A directory loses entries when no trace is left that only its manifest
\* names.  Its operation is closed, or was never staged.
LEMMA EntriesGo ==
  ASSUME MutationInv, NEW i \in Operation, FailedPending(i) = {}, i = Len(ops),
         pc.at \in Closing \union {"rollback", "tidy"}, pc.at = "rollback" => pc.op = i,
         UNCHANGED <<config, ledger, store, live, pc>>,
         stage' \subseteq stage, staged' \subseteq staged, trees' \subseteq trees,
         <<i, "dir">> \in stage' \/ stage' \union staged' \union trees' = {},
         NEW r \in OperationRecord, ops' = [ops EXCEPT ![i] = r], r.state = ops[i].state,
         i \in Pending => r.manifest = ops[i].manifest /\ r.applied = ops[i].applied
                          /\ r.dropped = ops[i].dropped
  PROVE  MutationInv'
<1>1. Typed /\ i \in 1 .. Len(ops)
  BY DEF MutationInv, Operation
<1>2. /\ ops' \in Seq(OperationRecord) /\ Len(ops') = Len(ops) /\ ops'[i] = r
      /\ Pending' = Pending /\ Operation' = Operation
  <2>1. /\ ops' \in Seq(OperationRecord) /\ Len(ops') = Len(ops) /\ ops'[i] = r
        /\ r.state \in Terminal => Pending' = Pending \ {i}
        /\ r.state \notin Terminal => Pending' = Pending \union {i}
        /\ Operation' = Operation
    BY <1>1, Updated
  <2>2. i \in Pending <=> ops[i].state \notin Terminal
    BY DEF Pending
  <2> QED
    BY <2>1, <2>2
<1>3. /\ memberships' = memberships /\ revision' = revision /\ built' = built
      /\ objects' = objects /\ generations' = generations /\ pending' = pending
      /\ pool' = pool /\ unsynced' = unsynced /\ live' = live /\ config' = config /\ pc' = pc
  BY DEF ledger, store
<1>4. Built' = Built
  BY <1>3 DEF Built
<1>5. \A j \in Pending : j = i /\ ops[j].state = "planned" /\ ops[j].manifest # "frozen"
                         /\ ~ops[j].applied /\ ops[j].dropped = {}
  <2>1. ASSUME NEW j \in Pending
        PROVE  j = i /\ ops[j].state = "planned"
    <3>1. j = Len(ops)
      BY <1>1 DEF Typed
    <3>2. pc.at = "rollback"
      BY DEF MutationInv, CommandSound
    <3> QED
      BY <3>1, <3>2 DEF MutationInv, CommandSound
  <2> QED
    BY <2>1 DEF MutationInv, JournalSound, Journal
<1>6. Typed'
  BY <1>1, <1>2, <1>3 DEF Typed, TypeOK
<1>7. PrivateSound'
  <2>1. pc'.at # "ready"
    BY <1>3 DEF Closing
  <2> QED
    BY <1>2, <2>1 DEF MutationInv, PrivateSound, HasStage
<1>8. RowsSound'
  BY <1>3, <1>4 DEF MutationInv, RowsSound
<1>9. JournalSound'
  BY <1>2, <1>5 DEF JournalSound, Journal
<1>10. PublicSound'
  <2>1. Public = Built /\ unsynced = {}
    BY <1>5 DEF MutationInv, PublicSound, Frozen
  <2> QED
    BY <1>2, <1>3, <1>4, <1>5, <2>1 DEF PublicSound, Public, Frozen
<1>11. TracesSound'
  <2>1. \A p \in pending : objects[p] = "pending"
    BY <1>5 DEF MutationInv, TracesSound
  <2> QED
    BY <1>3, <2>1 DEF TracesSound
<1>12. CommandSound'
  <2>1. pc.at = "rollback" => i \in Pending /\ ops'[i].state = "planned"
    BY <1>2, <1>5 DEF MutationInv, CommandSound, Step, Between, Closing
  <2>2. /\ pc.at \in Closing => pc.op = Len(ops) /\ pc.op > 0
        /\ pc.at \in Closing \union {"tidy", "ready"} => Pending = {}
    BY DEF MutationInv, CommandSound
  <2> QED
    BY <1>2, <1>3, <2>1, <2>2 DEF CommandSound, Step, Between, Closing, Rendering, Placing
<1> QED
  BY <1>6, <1>7, <1>8, <1>9, <1>10, <1>11, <1>12 DEF MutationInv

\* One entry of the directory is removed, the directory itself last.
LEMMA RemoveStageEntryStep ==
  ASSUME MutationInv, NEW i \in Operation, RemoveStageEntry(i),
         pc.at \in Closing \union {"rollback", "tidy"}, pc.at = "rollback" => pc.op = i
  PROVE  MutationInv'
<1>1. Typed /\ i \in 1 .. Len(ops) /\ ops[i] \in OperationRecord
  BY OpTyped DEF MutationInv, Operation, Typed
<1>2. PrivateSound
  BY DEF MutationInv
<1>3. FailedPending(i) = {} /\ UNCHANGED <<config, ledger, store, live, pc>>
  BY DEF RemoveStageEntry
<1>4. ops = [ops EXCEPT ![i] = ops[i]]
  BY <1>1 DEF Typed, TypeOK
<1>5. CASE \E x \in staged : /\ x[1] = i
                             /\ staged' = {y \in staged : y[1] # i}
                             /\ UNCHANGED <<stage, trees, ops>>
  <2>1. i = Len(ops) /\ <<i, "dir">> \in stage
    BY <1>2, <1>5 DEF PrivateSound, HasStage
  <2>2. ops' = [ops EXCEPT ![i] = ops[i]]
    BY <1>4, <1>5
  <2> QED
    BY <1>1, <1>3, <1>5, <2>1, <2>2, EntriesGo
<1>6. CASE \E x \in trees : /\ x[1] = i
                            /\ trees' = {y \in trees : y[1] # i}
                            /\ UNCHANGED <<stage, staged, ops>>
  <2>1. i = Len(ops) /\ <<i, "dir">> \in stage
    BY <1>2, <1>6 DEF PrivateSound, HasStage
  <2>2. ops' = [ops EXCEPT ![i] = ops[i]]
    BY <1>4, <1>6
  <2> QED
    BY <1>1, <1>3, <1>6, <2>1, <2>2, EntriesGo
<1>7. ASSUME NEW x \in stage, x[1] = i,
             x[2] = "dir" => /\ \A y \in stage : y[1] = i => y = x
                             /\ \A y \in staged : y[1] # i
                             /\ \A y \in trees : y[1] # i,
             stage' = stage \ {x}, UNCHANGED <<staged, trees>>,
             ops' = IF x[2] # "dir" THEN ops
                    ELSE [ops EXCEPT ![i] = IF @.state \in Terminal THEN Forgotten(@)
                                            ELSE WithoutManifest(@)]
      PROVE  MutationInv'
  <2>1. i = Len(ops) /\ <<i, "dir">> \in stage
    BY <1>2, <1>7 DEF PrivateSound, HasStage
  <2>2. CASE x[2] # "dir"
    <3>1. ops' = [ops EXCEPT ![i] = ops[i]]
      BY <1>4, <1>7, <2>2
    <3>2. <<i, "dir">> \in stage'
      BY <1>7, <2>1, <2>2
    <3> QED
      BY <1>1, <1>3, <1>7, <2>1, <3>1, <3>2, EntriesGo
  <2>3. CASE x[2] = "dir"
    <3>1. stage' = {} /\ staged' = {} /\ trees' = {}
      BY <1>2, <1>7, <2>1, <2>3 DEF PrivateSound
    <3> DEFINE r == IF ops[i].state \in Terminal THEN Forgotten(ops[i]) ELSE WithoutManifest(ops[i])
    <3>2. ops' = [ops EXCEPT ![i] = r]
      BY <1>7, <2>3
    <3>3. /\ r \in OperationRecord /\ r.state = ops[i].state
          /\ i \in Pending => r.manifest = ops[i].manifest /\ r.applied = ops[i].applied
                              /\ r.dropped = ops[i].dropped
      BY <1>1, ForgottenTyped DEF Pending
    <3> HIDE DEF r
    <3> QED
      BY <1>3, <2>1, <3>1, <3>2, <3>3, EntriesGo
  <2> QED
    BY <2>2, <2>3
<1> QED
  BY <1>5, <1>6, <1>7 DEF RemoveStageEntry

\* A pending copy that a failed add left is removed.
LEMMA RemoveFailedPendingStep ==
  ASSUME MutationInv, NEW i \in Operation, NEW p \in Package, RemoveFailedPending(i, p),
         pc.at \in {"undo", "tidy"}
  PROVE  MutationInv'
<1>1. /\ memberships' = memberships /\ revision' = revision /\ built' = built
      /\ objects' = objects /\ generations' = generations /\ pending' = pending \ {p}
      /\ pool' = pool /\ unsynced' = unsynced /\ live' = live /\ config' = config /\ pc' = pc
      /\ ops' = ops /\ stage' = stage /\ staged' = staged /\ trees' = trees
  BY DEF RemoveFailedPending, ledger, work
<1>2. objects[p] = "none"
  BY DEF RemoveFailedPending, FailedPending
<1>3. Pending = {} /\ Pending' = {} /\ Built' = Built
  BY <1>1 DEF MutationInv, CommandSound, Closing, Pending, Operation, Built
<1>4. Typed'
  BY <1>1, <1>3 DEF MutationInv, Typed, TypeOK, Operation
<1>5. PrivateSound'
  BY <1>1 DEF MutationInv, PrivateSound, HasStage
<1>6. RowsSound'
  BY <1>1, <1>2, <1>3 DEF MutationInv, RowsSound
<1>7. JournalSound' /\ PublicSound'
  BY <1>1, <1>3 DEF MutationInv, JournalSound, PublicSound, Public
<1>8. TracesSound'
  BY <1>1, <1>3 DEF MutationInv, TracesSound, FailedPending, ManifestOf
<1>9. CommandSound'
  BY <1>1, <1>3 DEF MutationInv, CommandSound, Step, Between, Closing, Rendering, Placing
<1> QED
  BY <1>4, <1>5, <1>6, <1>7, <1>8, <1>9 DEF MutationInv

\* The directories of closed and of undone operations are removed.
LEMMA CleanupStep ==
  ASSUME MutationInv, NEW i \in Operation, Cleanup(i)
  PROVE  MutationInv'
<1>1. CASE /\ pc.at \in {"cleanup", "undo", "rollback"} /\ pc.op = i
           /\ RemoveStageEntry(i)
  BY <1>1, RemoveStageEntryStep DEF Closing
<1>2. CASE pc.at = "undo" /\ \E p \in Package : RemoveFailedPending(i, p)
  BY <1>2, RemoveFailedPendingStep
<1>3. CASE pc.at = "tidy" /\ RemoveStageEntry(i)
  BY <1>3, RemoveStageEntryStep
<1>4. CASE pc.at = "tidy" /\ \E p \in Package : RemoveFailedPending(i, p)
  BY <1>4, RemoveFailedPendingStep
<1> QED
  BY <1>1, <1>2, <1>3, <1>4 DEF Cleanup

\* The last operation is closed, without a directory and without a trace.
LEMMA Ended ==
  ASSUME MutationInv, NEW i \in Operation, i = Len(ops), ~HasStage(i),
         Pending \subseteq {i}, i \in Pending => ops[i].state = "planned",
         NEW r \in OperationRecord, r.state \in Terminal, ops' = [ops EXCEPT ![i] = r],
         Closed, UNCHANGED <<config, ledger, store, live, work>>
  PROVE  MutationInv'
<1>1. Typed /\ i \in 1 .. Len(ops)
  BY DEF MutationInv, Operation
<1>2. /\ ops' \in Seq(OperationRecord) /\ Len(ops') = Len(ops) /\ ops'[i] = r
      /\ Pending' = {} /\ Operation' = Operation
  BY <1>1, Updated
<1>3. /\ memberships' = memberships /\ revision' = revision /\ built' = built
      /\ objects' = objects /\ generations' = generations /\ pending' = pending
      /\ pool' = pool /\ unsynced' = unsynced /\ live' = live /\ config' = config
      /\ stage' = stage /\ staged' = staged /\ trees' = trees
  BY DEF ledger, store, work
<1>4. Built' = Built
  BY <1>3 DEF Built
<1>5. pc' \in PcType /\ pc'.at \in {"recover", "idle"}
  <2>1. pc \in PcType /\ 0 \in 0 .. Len(ops)
    BY <1>1 DEF Typed, TypeOK, PcType
  <2> QED
    BY <2>1 DEF Closed, PcType, Step
<1>6. Typed'
  BY <1>1, <1>2, <1>3, <1>5 DEF Typed, TypeOK, PcType
<1>7. PrivateSound'
  BY <1>2, <1>3, <1>5 DEF MutationInv, PrivateSound, HasStage
<1>8. RowsSound'
  BY <1>3, <1>4 DEF MutationInv, RowsSound
<1>9. JournalSound'
  BY <1>2 DEF JournalSound
<1>10. PublicSound'
  <2>1. \A j \in Pending : ~Frozen(j)
    BY DEF MutationInv, JournalSound, Journal, Frozen
  <2>2. Public = Built /\ unsynced = {}
    BY <2>1 DEF MutationInv, PublicSound
  <2> QED
    BY <1>2, <1>3, <1>4, <2>2 DEF PublicSound, Public
<1>11. TracesSound'
  <2>1. ManifestOf(i) \notin stage
    BY DEF MutationInv, PrivateSound
  <2>2. FailedPending(i) = {}
    BY <2>1 DEF FailedPending
  <2>3. \A p \in pending : objects[p] = "pending"
    BY <2>2 DEF MutationInv, TracesSound
  <2> QED
    BY <1>3, <2>3 DEF TracesSound
<1>12. CommandSound'
  BY <1>5 DEF CommandSound, Step, Between, Closing, Rendering, Placing
<1> QED
  BY <1>6, <1>7, <1>8, <1>9, <1>10, <1>11, <1>12 DEF MutationInv

\* A closed operation's directory is gone.
LEMMA CleanupDoneStep ==
  ASSUME MutationInv, NEW i \in Operation, CleanupDone(i)
  PROVE  MutationInv'
<1>1. pc.at \in Closing /\ pc.op = i
  BY DEF CleanupDone, Closing
<1>2. i = Len(ops) /\ Pending = {} /\ ops[i].state \in Terminal
  BY <1>1 DEF MutationInv, CommandSound, Pending
<1>3. ops[i] \in OperationRecord
  BY OpTyped DEF MutationInv, Typed, Operation
<1> DEFINE r == Forgotten(ops[i])
<1>4. r \in OperationRecord /\ r.state \in Terminal
  BY <1>2, <1>3, ForgottenTyped
<1>5. ops' = [ops EXCEPT ![i] = r]
  BY DEF CleanupDone
<1> HIDE DEF r
<1> QED
  BY <1>2, <1>4, <1>5, Ended DEF CleanupDone

\* An operation that decided nothing is rolled back.
LEMMA RollBackStep ==
  ASSUME MutationInv, NEW i \in Operation, RollBack(i)
  PROVE  MutationInv'
<1>1. pc.at = "rollback" /\ pc.op = i
  BY DEF RollBack, At
<1>2. i \in Pending /\ ops[i].state = "planned"
  BY <1>1 DEF MutationInv, CommandSound, Step, Between, Closing
<1>3. i = Len(ops) /\ Pending = {i} /\ ops[i] \in OperationRecord
  BY <1>2, OnlyPending DEF MutationInv
<1> DEFINE r == [Forgotten(ops[i]) EXCEPT !.state = "rolled_back"]
<1>4. r \in OperationRecord /\ r.state \in Terminal
  <2>1. Forgotten(ops[i]) \in OperationRecord
    BY <1>3, ForgottenTyped
  <2> QED
    BY <2>1 DEF OperationRecord, Terminal
<1>5. ops' = [ops EXCEPT ![i] = r]
  BY DEF RollBack
<1> HIDE DEF r
<1> QED
  BY <1>2, <1>3, <1>4, <1>5, Ended DEF RollBack

-----------------------------------------------------------------------------
(* An operation is begun *)

\* A row is appended to a ledger without open operations.
LEMMA Appended ==
  ASSUME Typed, Pending = {}, NEW r \in OperationRecord, r.state = "planned", ops' = Append(ops, r)
  PROVE  /\ ops' \in Seq(OperationRecord)
         /\ Len(ops') = Len(ops) + 1 /\ Len(ops) \in Nat
         /\ ops'[Len(ops) + 1] = r
         /\ Pending' = {Len(ops) + 1}
         /\ Operation \subseteq Operation'
<1>1. ops \in Seq(OperationRecord)
  BY DEF Typed, TypeOK
<1>2. /\ ops' \in Seq(OperationRecord) /\ Len(ops') = Len(ops) + 1 /\ Len(ops) \in Nat
      /\ ops'[Len(ops) + 1] = r
      /\ \A j \in 1 .. Len(ops) : ops'[j] = ops[j]
  BY <1>1
<1>3. \A j \in 1 .. Len(ops) : ops'[j].state \in Terminal
  BY <1>2 DEF Pending, Operation
<1>4. Pending' = {Len(ops) + 1}
  <2>1. Len(ops) + 1 \in Pending'
    BY <1>2 DEF Pending, Operation, Terminal
  <2>2. ASSUME NEW j \in Pending'
        PROVE  j = Len(ops) + 1
    BY <1>2, <1>3 DEF Pending, Operation
  <2> QED
    BY <2>1, <2>2
<1>5. Operation \subseteq Operation'
  BY <1>2 DEF Operation
<1> QED
  BY <1>2, <1>4, <1>5

\* What a new operation's record has to say for the steps that follow.
LEMMA BeginOperationStep ==
  ASSUME MutationInv, NEW r \in OperationRecord, BeginOperation(r),
         r.state = "planned", r.manifest = "none", ~r.applied, r.dropped = {}, r.objects = {},
         r.base = Public,
         r.kind # "add" =>
           /\ r.inputs = {}
           /\ \A d \in r.dists : r.desired[d] \subseteq memberships[d]
           /\ r.buildDists \subseteq r.dists
           /\ ~r.skip => r.buildDists = DistsNeedingBuild(r.dists, r.desired, r.config)
  PROVE  MutationInv'
<1>1. Typed /\ pc.at = "ready" /\ Pending = {} /\ stage = {}
  BY DEF BeginOperation, MutationInv, CommandSound, PrivateSound, Closing
<1>n. PICK n : n = Len(ops) + 1
  OBVIOUS
<1>2. ops' = Append(ops, r)
  BY DEF BeginOperation
<1>3. /\ ops' \in Seq(OperationRecord) /\ Len(ops') = n /\ Len(ops) \in Nat
      /\ ops'[n] = r /\ Pending' = {n} /\ Operation \subseteq Operation'
  BY <1>n, <1>1, <1>2, Appended
<1>4. n \in Nat /\ n > 0 /\ n \in 0 .. n
  BY <1>n, <1>3
<1>5. /\ memberships' = memberships /\ revision' = revision /\ built' = built
      /\ objects' = objects /\ generations' = generations /\ pending' = pending
      /\ pool' = pool /\ unsynced' = unsynced /\ live' = live /\ config' = config
      /\ stage' = stage /\ staged' = staged /\ trees' = trees
  BY DEF BeginOperation, ledger, store, work
<1>6. Built' = Built /\ Public = Built /\ unsynced = {}
  BY <1>1, <1>5 DEF Built, MutationInv, PublicSound
<1>7. staged = {} /\ trees = {}
  BY <1>1 DEF MutationInv, PrivateSound, HasStage
<1>8. pc'.at = "stage" /\ pc'.op = n /\ pc' \in PcType'
  BY <1>n, <1>3, <1>4 DEF BeginOperation, PcType, Step
<1>9. Typed'
  <2>1. \A j \in Pending' : j = Len(ops')
    BY <1>3
  <2>2. TypeOK'
    BY <1>1, <1>3, <1>5, <1>7, <1>8 DEF Typed, TypeOK, PcType
  <2> QED
    BY <1>1, <1>5, <2>1, <2>2 DEF Typed
<1>10. PrivateSound'
  BY <1>1, <1>5, <1>7, <1>8 DEF PrivateSound
<1>11. RowsSound'
  BY <1>5, <1>6 DEF MutationInv, RowsSound
<1>12. JournalSound'
  BY <1>3 DEF JournalSound, Journal
<1>13. PublicSound'
  BY <1>3, <1>5, <1>6 DEF PublicSound, Frozen, Public
<1>14. TracesSound'
  <2>1. \A p \in pending : objects[p] = "pending"
    BY <1>1 DEF MutationInv, TracesSound, FailedPending
  <2> QED
    BY <1>5, <2>1 DEF TracesSound
<1>15. CommandSound'
  <2>1. Drafted(n)'
    <3>1. DistsNeedingBuild(r.dists, r.desired, r.config)' =
            DistsNeedingBuild(r.dists, r.desired, r.config)
      BY <1>5 DEF DistsNeedingBuild
    <3> QED
      BY <1>1, <1>3, <1>5, <1>6, <1>8, <3>1 DEF Drafted
  <2> QED
    BY <1>3, <1>8, <2>1 DEF CommandSound, Step, Between, Closing, Rendering, Placing
<1> QED
  BY <1>9, <1>10, <1>11, <1>12, <1>13, <1>14, <1>15 DEF MutationInv

\* The parts of a new operation's record that are the same for every command.
LEMMA NewOperationParts ==
  ASSUME Typed
  PROVE  /\ [d \in Dist |-> EmptyTree] \in [Dist -> Tree]
         /\ config \in [Dist -> Policy]
         /\ Public \in [live : [Dist -> Tree], pool : SUBSET Package]
<1>1. [d \in Dist |-> EmptyTree] \in [Dist -> Tree] /\ config \in [Dist -> Policy]
  BY DEF EmptyTree, Tree, Typed, TypeOK
<1>2. Public \in [live : [Dist -> Tree], pool : SUBSET Package]
  BY BuiltTyped DEF PublicTree
<1> QED
  BY <1>1, <1>2

\* A policy keeps a part of what it is applied to.
LEMMA PolicyKeeps ==
  ASSUME NEW policy, NEW S
  PROVE  ApplyPolicy(policy, S) \subseteq S
  BY DEF ApplyPolicy

\* The dists a mutation renders are among those it selects.
LEMMA ScopeWithin ==
  ASSUME NEW D \in SUBSET Dist, NEW desired, NEW skip \in BOOLEAN
  PROVE  /\ BuildScope(D, desired, skip) \subseteq D
         /\ ~skip => BuildScope(D, desired, skip) = DistsNeedingBuild(D, desired, config)
  BY DEF BuildScope, ChangedDesiredDists, DistsNeedingBuild

\* `build` begins.
LEMMA BuildStep ==
  ASSUME MutationInv, NEW D \in SUBSET Dist, Build(D)
  PROVE  MutationInv'
<1> DEFINE desired == [d \in Dist |-> IF d \in D THEN ApplyPolicy(config[d], memberships[d]) ELSE {}]
<1>r. PICK r : r = NewOperation("build", D, desired, BuildScope(D, desired, FALSE), FALSE)
  OBVIOUS
<1>1. Typed /\ memberships \in [Dist -> SUBSET Package]
  BY DEF MutationInv, Typed, TypeOK
<1>2. desired \in [Dist -> SUBSET Package] /\ \A d \in D : desired[d] \subseteq memberships[d]
  BY <1>1, PolicyKeeps
<1>3. BeginOperation(r)
  BY <1>r DEF Build
<1> HIDE DEF desired
<1>4. /\ BuildScope(D, desired, FALSE) \subseteq D
      /\ BuildScope(D, desired, FALSE) = DistsNeedingBuild(D, desired, config)
  BY ScopeWithin
<1>5. /\ r \in OperationRecord
      /\ r.state = "planned" /\ r.manifest = "none" /\ r.applied = FALSE /\ r.dropped = {}
      /\ r.objects = {} /\ r.base = Public /\ r.kind = "build" /\ r.inputs = {}
      /\ r.dists = D /\ r.desired = desired /\ r.buildDists = BuildScope(D, desired, FALSE)
      /\ r.skip = FALSE /\ r.config = config
  <2>1. BuildScope(D, desired, FALSE) \in SUBSET Dist
    BY <1>4
  <2> QED
    BY <1>r, <1>1, <1>2, <2>1, NewOperationParts DEF NewOperation, OperationRecord
<1> QED
  BY <1>2, <1>3, <1>4, <1>5, BeginOperationStep

\* `rm` begins.
LEMMA RemoveStep ==
  ASSUME MutationInv, NEW D \in SUBSET Dist, NEW P, NEW skip \in BOOLEAN, Remove(D, P, skip)
  PROVE  MutationInv'
<1> DEFINE desired == DesiredAfterRemoval(D, P)
<1>r. PICK r : r = NewOperation("rm", D, desired, BuildScope(D, desired, skip), skip)
  OBVIOUS
<1>1. Typed /\ memberships \in [Dist -> SUBSET Package]
  BY DEF MutationInv, Typed, TypeOK
<1>2. desired \in [Dist -> SUBSET Package] /\ \A d \in D : desired[d] \subseteq memberships[d]
  BY <1>1, PolicyKeeps DEF DesiredAfterRemoval
<1>3. BeginOperation(r)
  BY <1>r DEF Remove
<1> HIDE DEF desired
<1>4. /\ BuildScope(D, desired, skip) \subseteq D
      /\ ~skip => BuildScope(D, desired, skip) = DistsNeedingBuild(D, desired, config)
  BY ScopeWithin
<1>5. /\ r \in OperationRecord
      /\ r.state = "planned" /\ r.manifest = "none" /\ r.applied = FALSE /\ r.dropped = {}
      /\ r.objects = {} /\ r.base = Public /\ r.kind = "rm" /\ r.inputs = {}
      /\ r.dists = D /\ r.desired = desired /\ r.buildDists = BuildScope(D, desired, skip)
      /\ r.skip = skip /\ r.config = config
  <2>1. BuildScope(D, desired, skip) \in SUBSET Dist
    BY <1>4
  <2> QED
    BY <1>r, <1>1, <1>2, <2>1, NewOperationParts DEF NewOperation, OperationRecord
<1> QED
  BY <1>2, <1>3, <1>4, <1>5, BeginOperationStep

\* `add` begins.
LEMMA AddStep ==
  ASSUME MutationInv, NEW D \in SUBSET Dist, NEW P \in SUBSET Package, NEW skip \in BOOLEAN,
         Add(D, P, skip)
  PROVE  MutationInv'
<1>q. PICK q : q = NewOperation("add", D, [d \in Dist |-> {}], {}, skip)
  OBVIOUS
<1> DEFINE r == [q EXCEPT !.inputs = P]
<1>1. BeginOperation(r)
  BY <1>q DEF Add
<1>2. [d \in Dist |-> {}] \in [Dist -> SUBSET Package] /\ Typed
  BY DEF MutationInv
<1>3. /\ q \in OperationRecord /\ q.state = "planned" /\ q.manifest = "none" /\ q.applied = FALSE
      /\ q.dropped = {} /\ q.objects = {} /\ q.base = Public /\ q.kind = "add"
  BY <1>q, <1>2, NewOperationParts DEF NewOperation, OperationRecord
<1>4. /\ r \in OperationRecord /\ r.state = "planned" /\ r.manifest = "none" /\ r.applied = FALSE
      /\ r.dropped = {} /\ r.objects = {} /\ r.base = Public /\ r.kind = "add"
  BY <1>3 DEF OperationRecord
<1> HIDE DEF r
<1> QED
  BY <1>1, <1>4, BeginOperationStep

-----------------------------------------------------------------------------
(* From the plan to the bound manifest *)

\* Before an operation is staged it answers for its directory alone.
LEMMA EarlyStep ==
  ASSUME MutationInv, NEW i \in Pending, ops[i].state = "planned",
         UNCHANGED <<config, ledger, store, live>>,
         Typed', PrivateSound', CommandSound', Pending' = {i},
         ops'[i].state = "planned", ops'[i].manifest # "frozen", ~ops'[i].applied,
         ops'[i].dropped = {}
  PROVE  MutationInv'
<1>1. i = Len(ops) /\ Pending = {i} /\ ops[i].state \notin Terminal
  BY OnlyPending DEF MutationInv
<1>2. /\ memberships' = memberships /\ built' = built
      /\ objects' = objects /\ generations' = generations /\ pending' = pending
      /\ pool' = pool /\ unsynced' = unsynced /\ live' = live
  BY DEF ledger, store
<1>3. Built' = Built
  BY <1>2 DEF Built
<1>4. RowsSound'
  BY <1>2, <1>3 DEF MutationInv, RowsSound
<1>5. JournalSound'
  BY DEF JournalSound, Journal
<1>6. PublicSound'
  <2>1. ops[i].manifest # "frozen"
    BY DEF MutationInv, JournalSound, Journal
  <2>2. Public = Built /\ unsynced = {}
    BY <1>1, <2>1 DEF MutationInv, PublicSound, Frozen
  <2> QED
    BY <1>2, <1>3, <2>2 DEF PublicSound, Public, Frozen
<1>7. TracesSound'
  <2>1. FailedPending(i) = {}
    BY <1>1 DEF FailedPending, Terminal
  <2>2. \A p \in pending : objects[p] = "pending"
    BY <1>1, <2>1 DEF MutationInv, TracesSound
  <2> QED
    BY <1>2, <2>2 DEF TracesSound
<1> QED
  BY <1>4, <1>5, <1>6, <1>7 DEF MutationInv

\* Inputs are copied to the operation's directory.
LEMMA StageInputsStep ==
  ASSUME MutationInv, NEW i \in Operation, StageInputs(i)
  PROVE  MutationInv'
<1>1. Typed /\ pc.at = "stage" /\ pc.op = i /\ "manifest" \in Step
  BY DEF StageInputs, At, MutationInv, Step
<1>2. i \in Pending /\ Drafted(i)
  BY <1>1 DEF MutationInv, CommandSound, Step, Between, Closing
<1>3. i \in 1 .. Len(ops) /\ i = Len(ops) /\ Pending = {i} /\ ops[i] \in OperationRecord
  BY <1>1, <1>2, OnlyPending
<1>4. /\ stage' = stage \union {<<i, "dir">>} /\ trees' = trees /\ ops' = ops
      /\ staged' = staged \union {<<i, p>> : p \in {q \in ops[i].inputs : objects[q] = "none"}}
      /\ UNCHANGED <<config, ledger, store, live>>
  BY DEF StageInputs
<1>5. stage = {} /\ staged = {} /\ trees = {}
  BY <1>1, <1>2 DEF Drafted, MutationInv, PrivateSound, HasStage
<1>6. pc'.at = "manifest" /\ pc'.op = i /\ pc' \in PcType
  BY <1>1, Moved DEF StageInputs
<1>7. Pending' = {i} /\ Operation' = Operation
  BY <1>3, <1>4 DEF Pending, Operation
<1>8. ops[i].inputs \subseteq Package
  BY <1>3 DEF OperationRecord
<1>9. Typed'
  <2>1. TypeOK'
    BY <1>1, <1>4, <1>5, <1>6, <1>7, <1>8 DEF Typed, TypeOK, PcType, ledger, store
  <2> QED
    BY <1>1, <1>3, <1>4, <1>7, <2>1 DEF Typed, ledger
<1>10. PrivateSound'
  BY <1>3, <1>4, <1>5, <1>6 DEF PrivateSound, HasStage
<1>11. Drafted(i)'
  <2>1. Built' = Built /\ memberships' = memberships /\ objects' = objects /\ built' = built
    BY <1>4 DEF Built, ledger
  <2>2. DistsNeedingBuild(ops[i].dists, ops[i].desired, ops[i].config)' =
          DistsNeedingBuild(ops[i].dists, ops[i].desired, ops[i].config)
    BY <1>4, <2>1 DEF DistsNeedingBuild
  <2>3. \A p \in Package : <<i, p>> \in staged' <=> p \in ops[i].inputs /\ objects[p] = "none"
    BY <1>4, <1>5
  <2>4. HasStage(i)'
    BY <1>4 DEF HasStage
  <2> QED
    BY <1>2, <1>4, <1>6, <2>1, <2>2, <2>3, <2>4 DEF Drafted
<1>12. CommandSound'
  BY <1>6, <1>7, <1>11 DEF CommandSound, Step, Between, Closing, Rendering, Placing
<1>13. /\ ops'[i].state = "planned" /\ ops'[i].manifest # "frozen" /\ ~ops'[i].applied
       /\ ops'[i].dropped = {}
  BY <1>2, <1>4 DEF Drafted, MutationInv, JournalSound, Journal
<1> QED
  BY <1>2, <1>4, <1>7, <1>9, <1>10, <1>12, <1>13, EarlyStep

\* What the dists of an add shall hold.
AddDesired(i) ==
  [d \in Dist |-> IF d \in ops[i].dists
                  THEN ApplyPolicy(ops[i].config[d], memberships[d] \union ops[i].inputs) ELSE {}]

\* The manifest of an add: what its dists shall hold and the objects for it.
LEMMA PlannedAdd ==
  ASSUME Typed, NEW i \in Operation, ops[i].kind = "add", NEW desired, desired = AddDesired(i)
  PROVE  /\ Planned(i) \in OperationRecord
         /\ Planned(i).state = ops[i].state /\ Planned(i).manifest = ops[i].manifest
         /\ Planned(i).applied = ops[i].applied /\ Planned(i).dropped = ops[i].dropped
         /\ Planned(i).base = ops[i].base /\ Planned(i).dists = ops[i].dists
         /\ Planned(i).skip = ops[i].skip /\ Planned(i).config = ops[i].config
         /\ Planned(i).kind = "add"
         /\ Planned(i).desired = desired
         /\ Planned(i).objects =
              {p \in UNION {desired[d] : d \in ops[i].dists} : <<i, p>> \in staged}
         /\ Planned(i).buildDists \subseteq ops[i].dists
         /\ ~ops[i].skip => Planned(i).buildDists =
              DistsNeedingBuild(ops[i].dists, desired, ops[i].config)
<1>1. ops[i] \in OperationRecord
  BY OpTyped DEF Operation, Typed
<1>2. ops[i].dists \subseteq Dist /\ ops[i].inputs \subseteq Package
  BY <1>1 DEF OperationRecord
<1>3. memberships \in [Dist -> SUBSET Package]
  BY DEF Typed, TypeOK
<1>4. desired \in [Dist -> SUBSET Package]
  <2>1. ASSUME NEW d \in Dist
        PROVE  ApplyPolicy(ops[i].config[d], memberships[d] \union ops[i].inputs) \subseteq Package
    BY <1>2, <1>3, PolicyKeeps
  <2> QED
    BY <2>1 DEF AddDesired
<1> DEFINE wanted == UNION {desired[d] : d \in ops[i].dists}
           objs == {p \in wanted : <<i, p>> \in staged}
           scope == IF ops[i].skip THEN ChangedDesiredDists(ops[i].dists, desired)
                    ELSE DistsNeedingBuild(ops[i].dists, desired, ops[i].config)
<1>5. objs \subseteq Package
  BY <1>2, <1>4
<1>6. /\ scope \subseteq ops[i].dists /\ scope \subseteq Dist
      /\ ~ops[i].skip => scope = DistsNeedingBuild(ops[i].dists, desired, ops[i].config)
  BY <1>2 DEF ChangedDesiredDists, DistsNeedingBuild
<1>7. Planned(i) = [ops[i] EXCEPT !.desired = desired, !.objects = objs, !.buildDists = scope]
  BY DEF Planned, AddDesired
<1> HIDE DEF objs, scope
<1>8. /\ Planned(i) \in OperationRecord
      /\ Planned(i).state = ops[i].state /\ Planned(i).manifest = ops[i].manifest
      /\ Planned(i).applied = ops[i].applied /\ Planned(i).dropped = ops[i].dropped
      /\ Planned(i).base = ops[i].base /\ Planned(i).dists = ops[i].dists
      /\ Planned(i).skip = ops[i].skip /\ Planned(i).config = ops[i].config
      /\ Planned(i).kind = ops[i].kind
      /\ Planned(i).desired = desired /\ Planned(i).objects = objs /\ Planned(i).buildDists = scope
  <2>1. objs \in SUBSET Package /\ scope \in SUBSET Dist
    BY <1>5, <1>6
  <2>2. PICK o \in OperationRecord : o = ops[i]
    BY <1>1
  <2>3. PICK r : r = [o EXCEPT !.desired = desired, !.objects = objs, !.buildDists = scope]
    OBVIOUS
  <2>4. /\ r \in OperationRecord
        /\ r.state = o.state /\ r.manifest = o.manifest /\ r.applied = o.applied
        /\ r.dropped = o.dropped /\ r.base = o.base /\ r.dists = o.dists /\ r.skip = o.skip
        /\ r.config = o.config /\ r.kind = o.kind
        /\ r.desired = desired /\ r.objects = objs /\ r.buildDists = scope
    <3>1. r \in OperationRecord
      BY <1>4, <2>1, <2>3 DEF OperationRecord
    <3>2. /\ r.state = o.state /\ r.manifest = o.manifest /\ r.applied = o.applied
          /\ r.dropped = o.dropped /\ r.base = o.base /\ r.dists = o.dists /\ r.skip = o.skip
          /\ r.config = o.config /\ r.kind = o.kind
      BY <2>3 DEF OperationRecord
    <3>3. r.desired = desired /\ r.objects = objs /\ r.buildDists = scope
      BY <2>3 DEF OperationRecord
    <3> QED
      BY <3>1, <3>2, <3>3
  <2>5. Planned(i) = r
    BY <1>7, <2>2, <2>3
  <2> QED
    BY <2>2, <2>4, <2>5
<1> QED
  BY <1>6, <1>8 DEF objs

\* The manifest names what the dists shall hold; objects it leaves out are
\* dropped from the directory.
LEMMA WriteManifestStep ==
  ASSUME MutationInv, NEW i \in Operation, WriteManifest(i)
  PROVE  MutationInv'
<1>1. Typed /\ pc.at = "manifest" /\ pc.op = i /\ "bind" \in Step
  BY DEF WriteManifest, At, MutationInv, Step
<1>2. i \in Pending /\ Drafted(i)
  BY <1>1 DEF MutationInv, CommandSound, Step, Between, Closing
<1>3. i \in 1 .. Len(ops) /\ i = Len(ops) /\ Pending = {i} /\ ops[i] \in OperationRecord
  BY <1>1, <1>2, OnlyPending
<1>4. /\ HasStage(i) /\ ops[i].base = Built /\ ops[i].state = "planned"
      /\ ops[i].manifest = "none" /\ ops[i].objects = {}
      /\ \A p \in Package : <<i, p>> \in staged <=> p \in ops[i].inputs /\ objects[p] = "none"
  BY <1>1, <1>2 DEF Drafted
<1>5. ~ops[i].applied /\ ops[i].dropped = {}
  BY <1>2, <1>4 DEF MutationInv, JournalSound, Journal
<1>6. /\ ops' = [ops EXCEPT ![i] = Planned(i)] /\ stage' = stage \union {<<i, "staged">>}
      /\ staged' = {x \in staged : x[1] = i => x[2] \in Planned(i).objects} /\ trees' = trees
      /\ UNCHANGED <<config, ledger, store, live>>
  BY DEF WriteManifest
<1>7. /\ memberships' = memberships /\ objects' = objects /\ built' = built /\ Built' = Built
      /\ pending' = pending
  BY <1>6 DEF ledger, store, Built
<1>8. /\ Planned(i) \in OperationRecord
      /\ Planned(i).state = "planned" /\ Planned(i).manifest = "none"
      /\ ~Planned(i).applied /\ Planned(i).dropped = {}
      /\ Planned(i).base = Built /\ Planned(i).kind = ops[i].kind
      /\ Planned(i).buildDists \subseteq Planned(i).dists
      /\ ~Planned(i).skip => Planned(i).buildDists =
           DistsNeedingBuild(Planned(i).dists, Planned(i).desired, Planned(i).config)
      /\ Planned(i).objects # {} => Planned(i).kind = "add"
      /\ \A p \in Planned(i).objects : objects[p] = "none" /\ <<i, p>> \in staged
      /\ \A p \in Planned(i).objects :
           \E d \in Planned(i).dists : p \in Planned(i).desired[d]
      /\ \A d \in Planned(i).dists : \A p \in Planned(i).desired[d] :
           p \in Planned(i).objects \/ objects[p] # "none"
  <2>1. CASE ops[i].kind # "add"
    <3>1. Planned(i) = ops[i]
      BY <2>1 DEF Planned
    <3>2. /\ \A d \in ops[i].dists : ops[i].desired[d] \subseteq memberships[d]
          /\ ops[i].buildDists \subseteq ops[i].dists
          /\ ~ops[i].skip =>
               ops[i].buildDists = DistsNeedingBuild(ops[i].dists, ops[i].desired, ops[i].config)
      BY <1>2, <2>1 DEF Drafted
    <3>3. ops[i].dists \subseteq Dist
      BY <1>3 DEF OperationRecord
    <3>4. \A d \in ops[i].dists : \A p \in ops[i].desired[d] : objects[p] # "none"
      BY <3>2, <3>3 DEF MutationInv, RowsSound
    <3> QED
      BY <1>3, <1>4, <1>5, <3>1, <3>2, <3>4
  <2>2. CASE ops[i].kind = "add"
    <3>1. PICK desired : desired = AddDesired(i)
      OBVIOUS
    <3>2. /\ Planned(i) \in OperationRecord
          /\ Planned(i).state = ops[i].state /\ Planned(i).manifest = ops[i].manifest
          /\ Planned(i).applied = ops[i].applied /\ Planned(i).dropped = ops[i].dropped
          /\ Planned(i).base = ops[i].base /\ Planned(i).dists = ops[i].dists
          /\ Planned(i).skip = ops[i].skip /\ Planned(i).config = ops[i].config
          /\ Planned(i).kind = "add"
          /\ Planned(i).desired = desired
          /\ Planned(i).objects =
               {p \in UNION {desired[d] : d \in ops[i].dists} : <<i, p>> \in staged}
          /\ Planned(i).buildDists \subseteq ops[i].dists
          /\ ~ops[i].skip => Planned(i).buildDists =
               DistsNeedingBuild(ops[i].dists, desired, ops[i].config)
      BY <1>1, <2>2, <3>1, PlannedAdd
    <3>3. ops[i].dists \subseteq Dist /\ ops[i].inputs \subseteq Package
      BY <1>3 DEF OperationRecord
    <3>4. \A d \in ops[i].dists : desired[d] \subseteq memberships[d] \union ops[i].inputs
      BY <3>1, <3>3, PolicyKeeps DEF AddDesired
    <3>5. ASSUME NEW d \in ops[i].dists, NEW p \in desired[d], objects[p] = "none"
          PROVE  p \in Planned(i).objects
      <4>1. p \in ops[i].inputs
        BY <3>3, <3>4, <3>5 DEF MutationInv, RowsSound
      <4>2. <<i, p>> \in staged
        BY <1>4, <3>3, <3>5, <4>1
      <4> QED
        BY <3>2, <3>5, <4>2
    <3>6. \A p \in Planned(i).objects : objects[p] = "none" /\ <<i, p>> \in staged
      <4>1. Planned(i).objects \subseteq Package
        BY <3>2 DEF OperationRecord
      <4> QED
        BY <1>4, <3>2, <4>1
    <3>7. \A p \in Planned(i).objects :
            \E d \in Planned(i).dists : p \in Planned(i).desired[d]
      BY <3>2
    <3> QED
      BY <1>4, <1>5, <2>2, <3>2, <3>5, <3>6, <3>7
  <2> QED
    BY <2>1, <2>2
<1>9. PICK r \in OperationRecord : r = Planned(i)
  BY <1>8
<1>10. /\ ops' \in Seq(OperationRecord) /\ Len(ops') = Len(ops) /\ ops'[i] = r
       /\ Pending' = {i} /\ Operation' = Operation
  <2>1. r.state \notin Terminal
    BY <1>8, <1>9 DEF Terminal
  <2> QED
    BY <1>1, <1>3, <1>6, <1>9, <2>1, Updated
<1>11. pc'.at = "bind" /\ pc'.op = i /\ pc' \in PcType
  BY <1>1, Moved DEF WriteManifest
<1>12. Typed'
  <2>1. TypeOK'
    BY <1>1, <1>3, <1>6, <1>10, <1>11 DEF Typed, TypeOK, PcType, ledger, store, Operation
  <2> QED
    BY <1>1, <1>3, <1>6, <1>10, <2>1 DEF Typed, ledger
<1>13. PrivateSound'
  <2>1. HasStage(i)' /\ PrivateSound
    BY <1>4, <1>6 DEF HasStage, MutationInv
  <2> QED
    BY <1>3, <1>6, <1>10, <1>11, <2>1 DEF PrivateSound
<1>14. Prepared(i)'
  <2>1. Wanted(i)' = UNION {r.desired[d] : d \in r.dists}
    BY <1>10 DEF Wanted
  <2>2. DistsNeedingBuild(r.dists, r.desired, r.config)' = DistsNeedingBuild(r.dists, r.desired, r.config)
    BY <1>7 DEF DistsNeedingBuild
  <2>3. HasStage(i)' /\ <<i, "staged">> \in stage'
    BY <1>4, <1>6 DEF HasStage
  <2> QED
    BY <1>7, <1>8, <1>9, <1>10, <2>1, <2>2, <2>3 DEF Prepared
<1>15. Unapplied(i)'
  <2>1. \A x \in staged' : x[2] \in r.objects
    BY <1>3, <1>6, <1>9 DEF MutationInv, PrivateSound
  <2>2. \A p \in r.objects : <<i, p>> \in staged'
    BY <1>6, <1>8, <1>9
  <2> QED
    BY <1>7, <1>8, <1>9, <1>10, <2>1, <2>2 DEF Unapplied
<1>16. CommandSound'
  BY <1>8, <1>9, <1>10, <1>11, <1>14, <1>15
     DEF CommandSound, Step, Between, Closing, Rendering, Placing
<1> QED
  BY <1>2, <1>4, <1>6, <1>8, <1>9, <1>10, <1>12, <1>13, <1>16, EarlyStep

\* The operation names its manifest.
LEMMA BindManifestStep ==
  ASSUME MutationInv, NEW i \in Operation, BindManifest(i)
  PROVE  MutationInv'
<1>1. Typed /\ pc.at = "bind" /\ pc.op = i /\ "bound" \in Step
  BY DEF BindManifest, At, MutationInv, Step
<1>2. i \in Pending /\ Prepared(i) /\ Unapplied(i) /\ ops[i].state = "planned"
  BY <1>1 DEF MutationInv, CommandSound, Step, Between, Closing
<1>3. i \in 1 .. Len(ops) /\ i = Len(ops) /\ Pending = {i} /\ ops[i] \in OperationRecord
  BY <1>1, <1>2, OnlyPending
<1>4. ~ops[i].applied /\ ops[i].dropped = {}
  BY <1>2 DEF MutationInv, JournalSound, Journal
<1>5. PICK r : r = [ops[i] EXCEPT !.manifest = "staged"]
  OBVIOUS
<1>6. /\ ops' = [ops EXCEPT ![i] = r] /\ UNCHANGED <<config, ledger, store, live>>
      /\ stage' = stage /\ staged' = staged /\ trees' = trees
  BY <1>5 DEF BindManifest, work
<1>7. /\ r \in OperationRecord /\ r.state = "planned" /\ r.manifest = "staged"
      /\ ~r.applied /\ r.dropped = {} /\ r.base = ops[i].base
      /\ r.kind = ops[i].kind /\ r.config = ops[i].config /\ r.skip = ops[i].skip
      /\ r.dists = ops[i].dists /\ r.inputs = ops[i].inputs /\ r.objects = ops[i].objects
      /\ r.desired = ops[i].desired /\ r.buildDists = ops[i].buildDists
  BY <1>2, <1>3, <1>4, <1>5 DEF OperationRecord
<1>8. /\ ops' \in Seq(OperationRecord) /\ Len(ops') = Len(ops) /\ ops'[i] = r
      /\ Pending' = {i} /\ Operation' = Operation
  <2>1. r.state \notin Terminal
    BY <1>7 DEF Terminal
  <2> QED
    BY <1>1, <1>3, <1>6, <1>7, <2>1, Updated
<1>9. pc'.at = "bound" /\ pc'.op = i /\ pc' \in PcType
  BY <1>1, Moved DEF BindManifest
<1>10. /\ objects' = objects /\ built' = built /\ Built' = Built /\ pending' = pending
  BY <1>6 DEF ledger, store, Built
<1>11. Typed'
  <2>1. TypeOK'
    BY <1>1, <1>6, <1>8, <1>9 DEF Typed, TypeOK, PcType, ledger, store
  <2> QED
    BY <1>1, <1>3, <1>6, <1>8, <2>1 DEF Typed, ledger
<1>12. PrivateSound'
  BY <1>6, <1>8, <1>9 DEF MutationInv, PrivateSound, HasStage
<1>13. Prepared(i)'
  <2>1. SameScope(i)
    BY <1>7, <1>8 DEF SameScope
  <2>2. ops'[i].base = Built' /\ HasStage(i)' /\ <<i, "staged">> \in stage'
    BY <1>2, <1>6, <1>7, <1>8, <1>10 DEF Prepared, HasStage
  <2> QED
    BY <1>2, <1>10, <2>1, <2>2, PreparedKept
<1>14. Unapplied(i)'
  BY <1>2, <1>6, <1>7, <1>8, <1>10 DEF Unapplied
<1>15. CommandSound'
  BY <1>7, <1>8, <1>9, <1>13, <1>14 DEF CommandSound, Step, Between, Closing, Rendering, Placing
<1> QED
  BY <1>2, <1>6, <1>7, <1>8, <1>11, <1>12, <1>15, EarlyStep

-----------------------------------------------------------------------------
(* Objects become pending, and Desired is applied *)

\* Without a frozen plan the public tree is the last generation.
LEMMA PublicKept ==
  ASSUME MutationInv, NEW i \in Pending, ops[i].manifest # "frozen",
         Pending' = {i}, ops'[i].manifest # "frozen",
         live' = live, pool' = pool, unsynced' = unsynced, generations' = generations
  PROVE  PublicSound'
<1>1. Pending = {i}
  BY OnlyPending DEF MutationInv
<1>2. Public = Built /\ unsynced = {}
  BY <1>1 DEF MutationInv, PublicSound, Frozen
<1> QED
  BY <1>2 DEF PublicSound, Public, Built, Frozen

\* A staged object belongs to an operation that is not applied yet.
LEMMA StagedObject ==
  ASSUME MutationInv, NEW i \in Operation, NEW p \in Package, At("install", i), <<i, p>> \in staged
  PROVE  /\ i \in Pending /\ ops[i].state \in {"staged", "recovering"} /\ ~ops[i].applied
         /\ ops[i].manifest # "frozen" /\ p \in ops[i].objects /\ objects[p] = "none"
         /\ Journal(i) /\ Prepared(i) /\ Unapplied(i)
<1>1. pc.at = "install" /\ pc.op = i
  BY DEF At
<1>2. i \in Pending /\ ops[i].state \in {"staged", "recovering"}
  BY <1>1 DEF MutationInv, CommandSound, Step, Between, Closing
<1>3. Journal(i)
  BY <1>2 DEF MutationInv, JournalSound
<1>4. ~ops[i].applied
  BY <1>3 DEF Journal, Applied
<1>5. Prepared(i) /\ Unapplied(i) /\ ops[i].manifest # "frozen"
  BY <1>2, <1>3, <1>4 DEF Journal
<1>6. p \in ops[i].objects /\ objects[p] = "none"
  BY <1>5 DEF Unapplied
<1> QED
  BY <1>2, <1>3, <1>4, <1>5, <1>6

\* A staged copy gets its pending name.
LEMMA LinkPendingObjectStep ==
  ASSUME MutationInv, NEW i \in Operation, NEW p \in Package, LinkPendingObject(i, p)
  PROVE  MutationInv'
<1>1. At("install", i) /\ <<i, p>> \in staged
  BY DEF LinkPendingObject
<1>2. /\ i \in Pending /\ ops[i].state \in {"staged", "recovering"} /\ ~ops[i].applied
      /\ ops[i].manifest # "frozen" /\ p \in ops[i].objects /\ objects[p] = "none"
      /\ Journal(i) /\ Prepared(i) /\ Unapplied(i)
  BY <1>1, StagedObject
<1>3. /\ memberships' = memberships /\ revision' = revision /\ built' = built
      /\ objects' = objects /\ generations' = generations /\ pending' = pending \union {p}
      /\ pool' = pool /\ unsynced' = unsynced /\ live' = live /\ config' = config /\ pc' = pc
      /\ ops' = ops /\ stage' = stage /\ staged' = staged /\ trees' = trees
  BY DEF LinkPendingObject, ledger, work
<1>4. Pending = {i} /\ Pending' = {i} /\ Operation' = Operation /\ Built' = Built
  BY <1>2, <1>3, OnlyPending DEF MutationInv, Pending, Operation, Built
<1>5. Typed'
  BY <1>3, <1>4 DEF MutationInv, Typed, TypeOK
<1>6. PrivateSound'
  BY <1>3 DEF MutationInv, PrivateSound, HasStage
<1>7. RowsSound'
  <2>1. RowsSound
    BY DEF MutationInv
  <2>2. p \notin Built.pool
    BY <1>2, <2>1 DEF RowsSound
  <2> QED
    BY <1>3, <1>4, <2>1, <2>2 DEF RowsSound
<1>8. JournalSound'
  <2>1. SameScope(i) /\ ops'[i].base = Built' /\ HasStage(i)' /\ <<i, "staged">> \in stage'
    BY <1>2, <1>3, <1>4 DEF SameScope, Prepared, HasStage
  <2>2. Prepared(i)'
    BY <1>2, <1>3, <2>1, PreparedKept
  <2>3. Unapplied(i)'
    BY <1>2, <1>3 DEF Unapplied
  <2>4. Journal(i)'
    BY <1>2, <1>3, <2>2, <2>3 DEF Journal
  <2> QED
    BY <1>4, <2>4 DEF JournalSound
<1>9. PublicSound'
  BY <1>2, <1>3, <1>4, PublicKept
<1>10. TracesSound'
  <2>1. FailedPending(Len(ops)) = {}
    BY <1>2, OnlyPending DEF FailedPending, Terminal, MutationInv
  <2>2. \A q \in pending' : objects[q] # "pending" => q \in ops[i].objects
    BY <1>2, <1>3, <1>4, <2>1 DEF MutationInv, TracesSound
  <2> QED
    BY <1>2, <1>3, <1>4, <2>2 DEF TracesSound
<1>11. CommandSound'
  BY <1>1, <1>2, <1>3, <1>4 DEF CommandSound, At, Step, Between, Closing, Rendering, Placing
<1> QED
  BY <1>5, <1>6, <1>7, <1>8, <1>9, <1>10, <1>11 DEF MutationInv

\* A copy that is pending loses its staged name.
LEMMA InstallPendingObjectStep ==
  ASSUME MutationInv, NEW i \in Operation, NEW p \in Package, InstallPendingObject(i, p)
  PROVE  MutationInv'
<1>1. At("install", i) /\ <<i, p>> \in staged /\ p \in pending
  BY DEF InstallPendingObject
<1>2. /\ i \in Pending /\ ops[i].state \in {"staged", "recovering"} /\ ~ops[i].applied
      /\ ops[i].manifest # "frozen" /\ p \in ops[i].objects /\ objects[p] = "none"
      /\ Journal(i) /\ Prepared(i) /\ Unapplied(i)
  BY <1>1, StagedObject
<1>3. /\ memberships' = memberships /\ revision' = revision /\ built' = built
      /\ objects' = objects /\ generations' = generations /\ pending' = pending
      /\ pool' = pool /\ unsynced' = unsynced /\ live' = live /\ config' = config /\ pc' = pc
      /\ ops' = ops /\ stage' = stage /\ staged' = staged \ {<<i, p>>} /\ trees' = trees
  BY DEF InstallPendingObject, ledger, store
<1>4. Pending = {i} /\ Pending' = {i} /\ Operation' = Operation /\ Built' = Built
  BY <1>2, <1>3, OnlyPending DEF MutationInv, Pending, Operation, Built
<1>5. Typed'
  BY <1>3, <1>4 DEF MutationInv, Typed, TypeOK
<1>6. PrivateSound'
  BY <1>3 DEF MutationInv, PrivateSound, HasStage
<1>7. RowsSound'
  BY <1>3, <1>4 DEF MutationInv, RowsSound
<1>8. JournalSound'
  <2>1. SameScope(i) /\ ops'[i].base = Built' /\ HasStage(i)' /\ <<i, "staged">> \in stage'
    BY <1>2, <1>3, <1>4 DEF SameScope, Prepared, HasStage
  <2>2. Prepared(i)'
    BY <1>2, <1>3, <2>1, PreparedKept
  <2>3. Unapplied(i)'
    BY <1>1, <1>2, <1>3 DEF Unapplied
  <2>4. Journal(i)'
    BY <1>2, <1>3, <2>2, <2>3 DEF Journal
  <2> QED
    BY <1>4, <2>4 DEF JournalSound
<1>9. PublicSound'
  BY <1>2, <1>3, <1>4, PublicKept
<1>10. TracesSound'
  BY <1>3, <1>4 DEF MutationInv, TracesSound, FailedPending, ManifestOf
<1>11. CommandSound'
  BY <1>1, <1>2, <1>3, <1>4 DEF CommandSound, At, Step, Between, Closing, Rendering, Placing
<1> QED
  BY <1>5, <1>6, <1>7, <1>8, <1>9, <1>10, <1>11 DEF MutationInv

\* A frozen plan is kept by a step that leaves what it is about alone.
LEMMA PlanKept ==
  ASSUME NEW i, Plan(i), SameScope(i), SamePlan(i), memberships' = memberships,
         objects' = objects, generations' = generations, live' = live, pool' = pool,
         unsynced' = unsynced, trees' = trees, pending' \subseteq pending,
         \A x \in unsynced : x[1] = "link" => x[2] \in pending'
  PROVE  Plan(i)'
<1>1. PlanPooled(i)' = PlanPooled(i)
  BY DEF PlanPooled, SameScope
<1>2. Built' = Built
  BY DEF Built
<1>3. Promoted(i) => Promoted(i)'
  BY DEF Promoted, SamePlan
<1> QED
  BY <1>1, <1>2, <1>3 DEF Plan, SameScope, SamePlan

\* One transaction makes the manifest's decision the Desired state; replayed,
\* it changes nothing.
LEMMA ApplyDesiredMutationStep ==
  ASSUME MutationInv, NEW i \in Operation, ApplyDesiredMutation(i)
  PROVE  MutationInv'
<1>1. Typed /\ pc.at = "install" /\ pc.op = i /\ "drop" \in Step
  BY DEF ApplyDesiredMutation, At, MutationInv, Step
<1>2. i \in Pending /\ ops[i].state \in {"staged", "recovering"}
  BY <1>1 DEF MutationInv, CommandSound, Step, Between, Closing
<1>3. i \in 1 .. Len(ops) /\ i = Len(ops) /\ Pending = {i} /\ ops[i] \in OperationRecord
  BY <1>1, <1>2, OnlyPending
<1>4. /\ Journal(i) /\ Prepared(i) /\ ops[i].manifest # "none"
      /\ ops[i].applied => Applied(i)
      /\ ~ops[i].applied => Unapplied(i)
  BY <1>2 DEF MutationInv, JournalSound, Journal
<1>5. PICK desired : desired =
        [d \in Dist |-> IF d \in ops[i].dists THEN ops[i].desired[d] ELSE memberships[d]]
  OBVIOUS
<1>6. PICK rows : rows =
        [p \in Package |-> IF p \in ops[i].objects /\ objects[p] = "none" THEN "pending" ELSE objects[p]]
  OBVIOUS
<1>7. PICK dropped : dropped = UnreferencedPending(i, desired, rows)
  OBVIOUS
<1>8. /\ \A p \in ops[i].objects : <<i, p>> \notin staged
      /\ memberships' = desired
      /\ revision' = IF desired # memberships \/ rows # objects THEN revision + 1 ELSE revision
      /\ objects' = [p \in Package |-> IF p \in dropped THEN "none" ELSE rows[p]]
      /\ ops' = [ops EXCEPT ![i].state = "applied", ![i].applied = TRUE,
                            ![i].dropped = @ \union dropped]
      /\ Go("drop")
      /\ UNCHANGED <<config, built, generations, store, live, work>>
  BY <1>5, <1>6, <1>7 DEF ApplyDesiredMutation
<1>9. /\ dropped \subseteq Package
      /\ \A p \in Package : p \in dropped <=> rows[p] = "pending" /\ \A d \in Dist : p \notin desired[d]
  BY <1>7 DEF UnreferencedPending
<1>10. /\ ops[i].dists \subseteq Dist /\ ops[i].desired \in [Dist -> SUBSET Package]
       /\ ops[i].objects \subseteq Package /\ ops[i].dropped \subseteq Package
       /\ memberships \in [Dist -> SUBSET Package]
       /\ objects \in [Package -> {"none", "pending", "pool"}]
  BY <1>1, <1>3 DEF Typed, TypeOK, OperationRecord
<1>11. desired \in [Dist -> SUBSET Package] /\ rows \in [Package -> {"none", "pending", "pool"}]
  BY <1>5, <1>6, <1>10
<1>12. staged = {}
  <2>1. ~ops[i].applied => \A x \in staged : x[1] = i /\ x[2] \in ops[i].objects /\ x = <<x[1], x[2]>>
    BY <1>1, <1>3, <1>4 DEF Unapplied, MutationInv, PrivateSound, Typed, TypeOK
  <2>2. ~ops[i].applied => \A x \in staged : FALSE
    BY <1>8, <2>1
  <2> QED
    BY <1>4, <2>2 DEF Applied
<1>13. ASSUME NEW p \in ops[i].objects
       PROVE  objects'[p] = "pending"
  <2>1. rows[p] = "pending"
    BY <1>4, <1>6, <1>10 DEF Applied, Unapplied
  <2>2. PICK d \in ops[i].dists : p \in ops[i].desired[d]
    BY <1>4 DEF Prepared, Wanted
  <2>3. p \in desired[d] /\ d \in Dist /\ p \in Package
    BY <1>5, <1>10, <2>2
  <2> QED
    BY <1>8, <1>9, <2>1, <2>3
<1>14. \A p \in Package : objects'[p] = "pool" <=> objects[p] = "pool"
  BY <1>6, <1>8, <1>9
<1>15. ASSUME NEW d \in Dist, NEW p \in desired[d]
       PROVE  objects'[p] # "none"
  <2>1. p \in Package /\ p \notin dropped
    BY <1>9, <1>11
  <2>2. rows[p] # "none"
    <3>1. CASE d \in ops[i].dists
      <4>1. p \in Wanted(i)
        BY <1>5, <3>1 DEF Wanted
      <4> QED
        BY <1>4, <1>6, <2>1, <4>1 DEF Prepared
    <3>2. CASE d \notin ops[i].dists
      <4>1. p \in memberships[d]
        BY <1>5, <3>2
      <4>2. objects[p] # "none"
        BY <4>1 DEF MutationInv, RowsSound
      <4> QED
        BY <1>6, <2>1, <4>2
    <3> QED
      BY <3>1, <3>2
  <2> QED
    BY <1>8, <2>1, <2>2
<1>16. ASSUME NEW p \in Package, objects'[p] = "pending"
       PROVE  (\E d \in Dist : p \in desired[d]) /\ p \in pending \union pool
  <2>1. rows[p] = "pending" /\ p \notin dropped
    BY <1>8, <1>16
  <2>2. \E d \in Dist : p \in desired[d]
    BY <1>9, <2>1
  <2>3. p \in pending \union pool
    <3>1. CASE objects[p] = "pending"
      BY <3>1 DEF MutationInv, RowsSound
    <3>2. CASE objects[p] # "pending"
      <4>1. p \in ops[i].objects /\ objects[p] = "none"
        BY <1>6, <2>1, <3>2
      <4>2. ~ops[i].applied
        BY <1>4, <4>1 DEF Applied
      <4> QED
        BY <1>4, <1>8, <4>1, <4>2 DEF Unapplied
    <3> QED
      BY <3>1, <3>2
  <2> QED
    BY <2>2, <2>3
<1>17. ASSUME NEW p \in ops[i].dropped \union dropped
       PROVE  objects'[p] = "none"
  <2>1. CASE p \in dropped
    BY <1>8, <1>9, <2>1
  <2>2. CASE p \in ops[i].dropped
    <3>1. objects[p] = "none" /\ p \notin ops[i].objects /\ p \in Package
      BY <1>4, <1>10, <2>2 DEF Applied, Unapplied
    <3> QED
      BY <1>6, <1>8, <3>1
  <2> QED
    BY <2>1, <2>2
<1>18. ops[i].applied => memberships' = memberships /\ objects' = objects
  <2> SUFFICES ASSUME ops[i].applied
               PROVE  memberships' = memberships /\ objects' = objects
    OBVIOUS
  <2>1. desired = memberships
    BY <1>4, <1>5, <1>10, <1>11 DEF Applied
  <2>2. rows = objects
    BY <1>4, <1>6, <1>10, <1>11 DEF Applied
  <2>3. dropped = {}
    BY <1>9, <2>1, <2>2 DEF MutationInv, RowsSound
  <2>4. objects' = objects
    BY <1>8, <1>10, <2>2, <2>3
  <2> QED
    BY <1>8, <2>1, <2>4
<1>19. PICK r : r = [ops[i] EXCEPT !.state = "applied", !.applied = TRUE, !.dropped = @ \union dropped]
  OBVIOUS
<1>20. /\ r \in OperationRecord /\ r.state = "applied" /\ r.applied
       /\ r.dropped = ops[i].dropped \union dropped
       /\ r.manifest = ops[i].manifest
       /\ r.kind = ops[i].kind /\ r.config = ops[i].config /\ r.skip = ops[i].skip
       /\ r.dists = ops[i].dists /\ r.inputs = ops[i].inputs /\ r.objects = ops[i].objects
       /\ r.desired = ops[i].desired /\ r.buildDists = ops[i].buildDists
       /\ r.tree = ops[i].tree /\ r.pooled = ops[i].pooled /\ r.base = ops[i].base
  <2>1. ops[i].dropped \union dropped \in SUBSET Package
    BY <1>9, <1>10
  <2> QED
    BY <1>3, <1>19, <2>1 DEF OperationRecord
<1>21. ops' = [ops EXCEPT ![i] = r]
  BY <1>1, <1>3, <1>8, <1>19 DEF Typed, TypeOK
<1>22. /\ ops' \in Seq(OperationRecord) /\ Len(ops') = Len(ops) /\ ops'[i] = r
       /\ Pending' = {i} /\ Operation' = Operation
  <2>1. r.state \notin Terminal
    BY <1>20 DEF Terminal
  <2> QED
    BY <1>1, <1>3, <1>20, <1>21, <2>1, Updated
<1>23. SameScope(i) /\ SamePlan(i)
  BY <1>20, <1>22 DEF SameScope, SamePlan
<1>24. /\ built' = built /\ generations' = generations /\ pending' = pending /\ Built' = Built
       /\ pool' = pool /\ unsynced' = unsynced /\ live' = live /\ config' = config
       /\ stage' = stage /\ staged' = staged /\ trees' = trees
  BY <1>8 DEF store, work, Built
<1>25. pc' \in PcType /\ pc'.at = "drop" /\ pc'.op = i
  BY <1>1, <1>8, Moved
<1>26. Typed'
  <2>1. objects' \in [Package -> {"none", "pending", "pool"}] /\ revision' \in Nat
    BY <1>1, <1>8, <1>11 DEF Typed, TypeOK
  <2> QED
    BY <1>1, <1>3, <1>8, <1>11, <1>22, <1>24, <1>25, <2>1 DEF Typed, TypeOK, PcType
<1>27. PrivateSound'
  BY <1>22, <1>24, <1>25 DEF MutationInv, PrivateSound, HasStage
<1>28. RowsSound'
  BY <1>8, <1>14, <1>15, <1>16, <1>24 DEF MutationInv, RowsSound
<1>29. JournalSound'
  <2>1. \A p \in Wanted(i) : objects[p] # "none" => objects'[p] # "none"
    <3>1. \A p \in Wanted(i) : \E d \in Dist : p \in desired[d]
      BY <1>5, <1>10 DEF Wanted
    <3> QED
      BY <1>15, <3>1
  <2>2. ops'[i].base = Built' /\ HasStage(i)' /\ <<i, "staged">> \in stage'
    BY <1>4, <1>20, <1>22, <1>24 DEF Prepared, HasStage
  <2>3. Prepared(i)'
    BY <1>4, <1>23, <1>24, <2>1, <2>2, PreparedKept
  <2>4. Applied(i)'
    <3>1. \A d \in ops[i].dists : memberships'[d] = ops[i].desired[d]
      BY <1>5, <1>8, <1>10
    <3> QED
      BY <1>12, <1>13, <1>17, <1>20, <1>22, <1>24, <3>1 DEF Applied
  <2>5. ops'[i].manifest = "frozen" =>
          ~ops'[i].skip /\ ops'[i].buildDists # {} /\ <<i, "frozen">> \in stage'
    BY <1>4, <1>20, <1>22, <1>24 DEF Journal
  <2>6. Journal(i)'
    BY <1>4, <1>20, <1>22, <2>3, <2>4, <2>5 DEF Journal
  <2> QED
    BY <1>22, <2>6 DEF JournalSound
<1>30. PublicSound'
  <2>1. CASE ops[i].manifest # "frozen"
    BY <1>2, <1>20, <1>22, <1>24, <2>1, PublicKept
  <2>2. CASE ops[i].manifest = "frozen"
    <3>1. Plan(i) /\ ops[i].applied
      BY <1>2, <1>4, <2>2 DEF MutationInv, PublicSound, Frozen, Journal
    <3>2. \A x \in unsynced : x[1] = "link" => x[2] \in pending'
      BY <1>24, <3>1 DEF Plan
    <3>3. Plan(i)'
      BY <1>18, <1>23, <1>24, <3>1, <3>2, PlanKept
    <3> QED
      BY <1>20, <1>22, <2>2, <3>3 DEF PublicSound, Frozen
  <2> QED
    BY <2>1, <2>2
<1>31. TracesSound'
  <2>1. FailedPending(Len(ops)) = {}
    BY <1>2, <1>3 DEF FailedPending
  <2>2. ASSUME NEW p \in pending, objects'[p] # "pending"
        PROVE  p \in ops'[i].dropped
    <3>0. p \in Package
      BY <1>1 DEF Typed, TypeOK
    <3>1. CASE objects[p] = "pending"
      <4>1. p \in dropped
        BY <1>6, <1>8, <2>2, <3>0, <3>1
      <4> QED
        BY <1>20, <1>22, <4>1
    <3>2. CASE objects[p] # "pending"
      <4>1. p \in IF ops[i].applied THEN ops[i].dropped ELSE ops[i].objects
        BY <1>3, <2>1, <3>2 DEF MutationInv, TracesSound
      <4> QED
        BY <1>13, <1>20, <1>22, <2>2, <4>1
    <3> QED
      BY <3>1, <3>2
  <2> QED
    BY <1>20, <1>22, <1>24, <2>2 DEF TracesSound
<1>32. CommandSound'
  BY <1>20, <1>22, <1>25 DEF CommandSound, Step, Between, Closing, Rendering, Placing
<1> QED
  BY <1>26, <1>27, <1>28, <1>29, <1>30, <1>31, <1>32 DEF MutationInv

\* Bytes that the transaction dropped go.
LEMMA RemoveDroppedPendingStep ==
  ASSUME MutationInv, NEW i \in Operation, NEW p \in Package, RemoveDroppedPending(i, p)
  PROVE  MutationInv'
<1>1. pc.at = "drop" /\ pc.op = i /\ p \in ops[i].dropped
  BY DEF RemoveDroppedPending, At
<1>2. i \in Pending /\ ops[i].state = "applied"
  BY <1>1 DEF MutationInv, CommandSound, Step, Between, Closing
<1>3. Journal(i) /\ Applied(i) /\ ops[i].applied /\ Prepared(i)
  BY <1>2 DEF MutationInv, JournalSound, Journal
<1>4. objects[p] = "none"
  BY <1>1, <1>3 DEF Applied
<1>5. /\ memberships' = memberships /\ revision' = revision /\ built' = built
      /\ objects' = objects /\ generations' = generations /\ pending' = pending \ {p}
      /\ pool' = pool /\ unsynced' = unsynced /\ live' = live /\ config' = config /\ pc' = pc
      /\ ops' = ops /\ stage' = stage /\ staged' = staged /\ trees' = trees
  BY DEF RemoveDroppedPending, ledger, work
<1>6. Pending = {i} /\ Pending' = {i} /\ Operation' = Operation /\ Built' = Built
  BY <1>2, <1>5, OnlyPending DEF MutationInv, Pending, Operation, Built
<1>7. SameScope(i) /\ SamePlan(i)
  BY <1>5 DEF SameScope, SamePlan
<1>8. Typed'
  BY <1>5, <1>6 DEF MutationInv, Typed, TypeOK
<1>9. PrivateSound'
  BY <1>5 DEF MutationInv, PrivateSound, HasStage
<1>10. RowsSound'
  BY <1>4, <1>5, <1>6 DEF MutationInv, RowsSound
<1>11. JournalSound'
  <2>1. ops'[i].base = Built' /\ HasStage(i)' /\ <<i, "staged">> \in stage'
    BY <1>3, <1>5, <1>6 DEF Prepared, HasStage
  <2>2. Prepared(i)'
    BY <1>3, <1>5, <1>7, <2>1, PreparedKept
  <2>3. Applied(i)'
    BY <1>3, <1>5 DEF Applied
  <2>4. Journal(i)'
    BY <1>3, <1>5, <2>2, <2>3 DEF Journal
  <2> QED
    BY <1>6, <2>4 DEF JournalSound
<1>12. PublicSound'
  <2>1. CASE ops[i].manifest # "frozen"
    BY <1>2, <1>5, <1>6, <2>1, PublicKept
  <2>2. CASE ops[i].manifest = "frozen"
    <3>1. Plan(i)
      BY <1>2, <2>2 DEF MutationInv, PublicSound, Frozen
    <3>2. p \notin ops[i].pooled
      BY <1>4, <3>1 DEF Plan, PlanPooled
    <3>3. \A x \in unsynced : x[1] = "link" => x[2] \in pending'
      BY <1>5, <3>1, <3>2 DEF Plan
    <3>4. Plan(i)'
      BY <1>5, <1>7, <3>1, <3>3, PlanKept
    <3> QED
      BY <1>5, <1>6, <2>2, <3>4 DEF PublicSound, Frozen
  <2> QED
    BY <2>1, <2>2
<1>13. TracesSound'
  BY <1>5, <1>6 DEF MutationInv, TracesSound, FailedPending, ManifestOf
<1>14. CommandSound'
  BY <1>1, <1>2, <1>5, <1>6 DEF CommandSound, Step, Between, Closing, Rendering, Placing
<1> QED
  BY <1>8, <1>9, <1>10, <1>11, <1>12, <1>13, <1>14 DEF MutationInv

-----------------------------------------------------------------------------
(* The dists are rendered and the plan is frozen *)

\* Before its plan is frozen a build changes its directory alone; the step that
\* freezes the plan has to show it.
LEMMA BuildStepsPrivate ==
  ASSUME MutationInv, NEW i \in Pending, ops[i].state = "applied", ops[i].manifest = "staged",
         UNCHANGED <<config, ledger, store, live, staged>>, stage \subseteq stage',
         Typed', PrivateSound', CommandSound', Pending' = {i}, Len(ops') = Len(ops), SameScope(i),
         ops'[i].state = "applied", ops'[i].applied, ops'[i].dropped = ops[i].dropped,
         ops'[i].base = Built,
         \/ ops'[i].manifest = "staged"
         \/ /\ ops'[i].manifest = "frozen" /\ Plan(i)'
            /\ ~ops[i].skip /\ ops[i].buildDists # {} /\ <<i, "frozen">> \in stage'
  PROVE  MutationInv'
<1>1. i = Len(ops) /\ Pending = {i}
  BY OnlyPending DEF MutationInv
<1>2. /\ memberships' = memberships /\ built' = built
      /\ objects' = objects /\ generations' = generations /\ pending' = pending
      /\ pool' = pool /\ unsynced' = unsynced /\ live' = live /\ staged' = staged
  BY DEF ledger, store
<1>3. Built' = Built
  BY <1>2 DEF Built
<1>4. Applied(i) /\ ops[i].applied /\ Prepared(i)
  BY DEF MutationInv, JournalSound, Journal
<1>5. RowsSound'
  BY <1>2, <1>3 DEF MutationInv, RowsSound
<1>6. JournalSound'
  <2>1. ops'[i].base = Built' /\ HasStage(i)' /\ <<i, "staged">> \in stage'
    BY <1>3, <1>4 DEF Prepared, HasStage
  <2>2. Prepared(i)'
    BY <1>2, <1>4, <2>1, PreparedKept
  <2>3. Applied(i)'
    BY <1>2, <1>4 DEF Applied, SameScope
  <2>4. Journal(i)'
    BY <2>2, <2>3 DEF Journal, SameScope
  <2> QED
    BY <2>4 DEF JournalSound
<1>7. PublicSound'
  <2>1. CASE ops'[i].manifest = "staged"
    BY <1>2, <2>1, PublicKept
  <2>2. CASE ops'[i].manifest = "frozen"
    BY <2>2 DEF PublicSound, Frozen
  <2> QED
    BY <2>1, <2>2
<1>8. TracesSound'
  <2>1. \A p \in pending : objects[p] = "pending" \/ p \in ops[i].dropped
    BY <1>4, AppliedTraces
  <2> QED
    BY <1>2, <2>1 DEF TracesSound
<1> QED
  BY <1>5, <1>6, <1>7, <1>8 DEF MutationInv

\* A build begins, or goes on with its frozen plan.
LEMMA BeginBuildStep ==
  ASSUME MutationInv, NEW i \in Operation, BeginBuild(i)
  PROVE  MutationInv'
<1>1. /\ Typed /\ pc.at = "drop" /\ pc.op = i /\ {"link", "render"} \subseteq Step
      /\ ops[i].dropped \intersect pending = {} /\ ~ops[i].skip /\ ops[i].buildDists # {}
      /\ UNCHANGED <<config, ledger, store, live, stage, staged>>
  BY DEF BeginBuild, At, MutationInv, Step
<1>2. i \in Pending /\ ops[i].state = "applied"
  BY <1>1 DEF MutationInv, CommandSound, Step, Between, Closing
<1>3. i \in 1 .. Len(ops) /\ i = Len(ops) /\ Pending = {i} /\ ops[i] \in OperationRecord
  BY <1>1, <1>2, OnlyPending
<1>4. ops[i].applied /\ Prepared(i) /\ ops[i].manifest # "none"
  BY <1>2 DEF MutationInv, JournalSound, Journal
<1>5. CASE ops[i].manifest = "frozen"
  <2>1. Go("link") /\ UNCHANGED <<ops, trees>>
    BY <1>5 DEF BeginBuild
  <2>2. pc'.at = "link" /\ pc'.op = i /\ pc' \in PcType
    BY <1>1, <2>1, Moved
  <2>3. pending' = pending /\ UNCHANGED <<config, ledger, store, live, ops, work>>
    BY <1>1, <2>1 DEF store, work
  <2>4. Pending' = Pending /\ ops' = ops
    BY <2>1 DEF Pending, Operation
  <2>5. CommandSound'
    BY <1>1, <1>2, <1>5, <2>2, <2>3, <2>4
       DEF CommandSound, Step, Between, Closing, Rendering, Placing
  <2> QED
    BY <1>1, <2>2, <2>3, <2>5, OnlyCommand DEF Typed, TypeOK
<1>6. CASE ops[i].manifest # "frozen"
  <2>1. /\ ops' = [ops EXCEPT ![i].rendering = TRUE]
        /\ trees' = {x \in trees : x[1] # i}
        /\ Go("render")
    BY <1>6 DEF BeginBuild
  <2>2. pc'.at = "render" /\ pc'.op = i /\ pc' \in PcType
    BY <1>1, <2>1, Moved
  <2>3. PICK r : r = [ops[i] EXCEPT !.rendering = TRUE]
    OBVIOUS
  <2>4. /\ r \in OperationRecord /\ r.state = "applied" /\ r.applied
        /\ r.dropped = ops[i].dropped /\ r.manifest = "staged" /\ r.base = ops[i].base
        /\ r.kind = ops[i].kind /\ r.config = ops[i].config /\ r.skip = ops[i].skip
        /\ r.dists = ops[i].dists /\ r.inputs = ops[i].inputs /\ r.objects = ops[i].objects
        /\ r.desired = ops[i].desired /\ r.buildDists = ops[i].buildDists
    BY <1>2, <1>3, <1>4, <1>6, <2>3 DEF OperationRecord
  <2>5. /\ ops' \in Seq(OperationRecord) /\ Len(ops') = Len(ops) /\ ops'[i] = r
        /\ Pending' = {i} /\ Operation' = Operation
    <3>1. r.state \notin Terminal
      BY <2>4 DEF Terminal
    <3>2. ops' = [ops EXCEPT ![i] = r]
      BY <2>1, <2>3
    <3> QED
      BY <1>1, <1>3, <2>4, <3>1, <3>2, Updated
  <2>6. ops[i].manifest = "staged"
    BY <1>3, <1>4, <1>6 DEF OperationRecord
  <2>7. Typed'
    <3>1. TypeOK'
      BY <1>1, <2>1, <2>2, <2>5 DEF Typed, TypeOK, PcType, ledger, store
    <3> QED
      BY <1>1, <1>3, <2>5, <3>1 DEF Typed, ledger
  <2>8. PrivateSound'
    BY <1>1, <2>1, <2>2, <2>5 DEF MutationInv, PrivateSound, HasStage
  <2>9. CommandSound'
    BY <1>1, <2>2, <2>4, <2>5
       DEF CommandSound, Step, Between, Closing, Rendering, Placing, store
  <2>10. SameScope(i) /\ ops'[i].base = Built
    BY <1>4, <2>4, <2>5 DEF SameScope, Prepared
  <2> QED
    BY <1>1, <1>2, <2>4, <2>5, <2>6, <2>7, <2>8, <2>9, <2>10, BuildStepsPrivate
<1> QED
  BY <1>5, <1>6

\* What a build that renders may count on.
LEMMA RenderingFacts ==
  ASSUME MutationInv, pc.at \in Rendering
  PROVE  /\ Typed /\ pc.op \in Pending /\ pc.op \in 1 .. Len(ops) /\ pc.op = Len(ops)
         /\ Pending = {pc.op} /\ ops[pc.op] \in OperationRecord
         /\ ops[pc.op].state = "applied" /\ ops[pc.op].manifest = "staged" /\ ops[pc.op].applied
         /\ ~ops[pc.op].skip /\ ops[pc.op].buildDists # {}
         /\ ops[pc.op].dropped \intersect pending = {}
         /\ ops[pc.op].base = Built /\ HasStage(pc.op)
         /\ Public = Built /\ unsynced = {}
<1>1. /\ pc.op \in Pending /\ ops[pc.op].state = "applied" /\ ops[pc.op].manifest = "staged"
      /\ ~ops[pc.op].skip /\ ops[pc.op].buildDists # {}
      /\ ops[pc.op].dropped \intersect pending = {}
  BY DEF MutationInv, CommandSound, Step, Between, Closing, Rendering
<1>2. /\ Typed /\ pc.op \in 1 .. Len(ops) /\ pc.op = Len(ops) /\ Pending = {pc.op}
      /\ ops[pc.op] \in OperationRecord
  BY <1>1, OnlyPending DEF MutationInv
<1>3. ops[pc.op].applied /\ Prepared(pc.op)
  BY <1>1 DEF MutationInv, JournalSound, Journal
<1>4. ops[pc.op].base = Built /\ HasStage(pc.op)
  BY <1>3 DEF Prepared
<1>5. Public = Built /\ unsynced = {}
  BY <1>1, <1>2 DEF MutationInv, PublicSound, Frozen
<1> QED
  BY <1>1, <1>2, <1>3, <1>4, <1>5

\* A rendered tree.
LEMMA RenderedTyped ==
  ASSUME Typed, NEW i \in Nat, NEW d \in Dist
  PROVE  Rendered(i, d) \in Tree
  BY DEF Typed, TypeOK, Rendered, Tree

\* One dist is rendered.
LEMMA RenderDistStep ==
  ASSUME MutationInv, NEW i \in Operation, NEW d \in Dist, RenderDist(i, d)
  PROVE  MutationInv'
<1>1. pc.at = "render" /\ pc.op = i /\ pc.at \in Rendering
  BY DEF RenderDist, At, Rendering
<1>2. /\ Typed /\ i \in Pending /\ i \in 1 .. Len(ops) /\ i = Len(ops)
      /\ Pending = {i} /\ ops[i] \in OperationRecord
      /\ ops[i].state = "applied" /\ ops[i].manifest = "staged" /\ ops[i].applied
      /\ ~ops[i].skip /\ ops[i].buildDists # {} /\ ops[i].dropped \intersect pending = {}
      /\ ops[i].base = Built /\ HasStage(i)
  BY <1>1, RenderingFacts
<1>3. /\ trees' = trees \union {<<i, d, Rendered(i, d)>>}
      /\ UNCHANGED <<config, ledger, store, live, ops, stage, staged, pc>>
  BY DEF RenderDist
<1>4. Rendered(i, d) \in Tree
  BY <1>2, RenderedTyped
<1>5. Pending' = {i} /\ Operation' = Operation /\ pending' = pending
  BY <1>2, <1>3 DEF Pending, Operation, store
<1>6. Typed'
  <2>1. TypeOK'
    BY <1>2, <1>3, <1>4, <1>5 DEF Typed, TypeOK, ledger, store, Operation
  <2> QED
    BY <1>2, <1>3, <1>5, <2>1 DEF Typed, ledger
<1>7. PrivateSound'
  BY <1>2, <1>3 DEF MutationInv, PrivateSound, HasStage
<1>8. CommandSound'
  BY <1>1, <1>2, <1>3, <1>5 DEF CommandSound, Step, Between, Closing, Rendering, Placing
<1>9. SameScope(i)
  BY <1>3 DEF SameScope
<1> QED
  BY <1>2, <1>3, <1>5, <1>6, <1>7, <1>8, <1>9, BuildStepsPrivate

\* The manifest with the plan is written.
LEMMA PersistBuildPlanStep ==
  ASSUME MutationInv, NEW i \in Operation, PersistBuildPlan(i)
  PROVE  MutationInv'
<1>1. pc.at = "render" /\ pc.op = i /\ pc.at \in Rendering /\ "freeze" \in Step
  BY DEF PersistBuildPlan, At, Rendering, Step
<1>2. /\ Typed /\ i \in Pending /\ i \in 1 .. Len(ops) /\ i = Len(ops)
      /\ Pending = {i} /\ ops[i] \in OperationRecord
      /\ ops[i].state = "applied" /\ ops[i].manifest = "staged" /\ ops[i].applied
      /\ ~ops[i].skip /\ ops[i].buildDists # {} /\ ops[i].dropped \intersect pending = {}
      /\ ops[i].base = Built /\ HasStage(i)
  BY <1>1, RenderingFacts
<1>3. /\ AllRendered(i) /\ stage' = stage \union {<<i, "frozen">>}
      /\ UNCHANGED <<config, ledger, store, live, ops, staged, trees>>
  BY DEF PersistBuildPlan
<1>4. pc' \in PcType /\ pc'.at = "freeze" /\ pc'.op = i
  BY <1>1, <1>2, Moved DEF PersistBuildPlan
<1>5. Pending' = {i} /\ Operation' = Operation /\ pending' = pending
  BY <1>2, <1>3 DEF Pending, Operation, store
<1>6. Typed'
  <2>1. TypeOK'
    BY <1>2, <1>3, <1>4, <1>5 DEF Typed, TypeOK, PcType, ledger, store, Operation
  <2> QED
    BY <1>2, <1>3, <1>5, <2>1 DEF Typed, ledger
<1>7. PrivateSound'
  BY <1>2, <1>3, <1>4 DEF MutationInv, PrivateSound, HasStage
<1>8. CommandSound'
  <2>1. AllRendered(i)' /\ <<i, "frozen">> \in stage'
    BY <1>3 DEF AllRendered, Rendered, ledger
  <2> QED
    BY <1>2, <1>3, <1>4, <1>5, <2>1 DEF CommandSound, Step, Between, Closing, Rendering, Placing
<1>9. SameScope(i)
  BY <1>3 DEF SameScope
<1> QED
  BY <1>2, <1>3, <1>5, <1>6, <1>7, <1>8, <1>9, BuildStepsPrivate

\* The operation names the plan: from here on it can only be carried out.
LEMMA FreezeBuildPlanStep ==
  ASSUME MutationInv, NEW i \in Operation, FreezeBuildPlan(i)
  PROVE  MutationInv'
<1>1. pc.at = "freeze" /\ pc.op = i /\ pc.at \in Rendering /\ "frozen" \in Step
  BY DEF FreezeBuildPlan, At, Rendering, Step
<1>2. /\ Typed /\ i \in Pending /\ i \in 1 .. Len(ops) /\ i = Len(ops)
      /\ Pending = {i} /\ ops[i] \in OperationRecord
      /\ ops[i].state = "applied" /\ ops[i].manifest = "staged" /\ ops[i].applied
      /\ ~ops[i].skip /\ ops[i].buildDists # {} /\ ops[i].dropped \intersect pending = {}
      /\ ops[i].base = Built /\ HasStage(i) /\ Public = Built /\ unsynced = {}
  BY <1>1, RenderingFacts
<1>3. AllRendered(i) /\ <<i, "frozen">> \in stage
  BY <1>1 DEF MutationInv, CommandSound
<1>4. PICK tree : tree = [d \in Dist |-> IF d \in ops[i].buildDists THEN Rendered(i, d) ELSE EmptyTree]
  OBVIOUS
<1>5. PICK r : r = [ops[i] EXCEPT !.manifest = "frozen", !.tree = tree, !.pooled = PlanPooled(i),
                                  !.base = Public]
  OBVIOUS
<1>6. tree \in [Dist -> Tree]
  <2>1. EmptyTree \in Tree
    BY DEF EmptyTree, Tree
  <2>2. \A d \in Dist : Rendered(i, d) \in Tree
    BY <1>2, RenderedTyped
  <2> QED
    BY <1>4, <2>1, <2>2
<1>7. PlanPooled(i) \in SUBSET Package /\ Public \in [live : [Dist -> Tree], pool : SUBSET Package]
  <2>1. memberships \in [Dist -> SUBSET Package] /\ ops[i].buildDists \subseteq Dist
    BY <1>2 DEF Typed, TypeOK, OperationRecord
  <2> QED
    BY <1>2, <2>1, NewOperationParts DEF PlanPooled
<1>8. /\ r \in OperationRecord /\ r.state = "applied" /\ r.applied /\ r.dropped = ops[i].dropped
      /\ r.manifest = "frozen" /\ r.base = Public /\ r.tree = tree /\ r.pooled = PlanPooled(i)
      /\ r.kind = ops[i].kind /\ r.config = ops[i].config /\ r.skip = ops[i].skip
      /\ r.dists = ops[i].dists /\ r.inputs = ops[i].inputs /\ r.objects = ops[i].objects
      /\ r.desired = ops[i].desired /\ r.buildDists = ops[i].buildDists
  BY <1>2, <1>5, <1>6, <1>7 DEF OperationRecord
<1>9. /\ UNCHANGED <<config, ledger, store, live, work>>
      /\ ops' = [ops EXCEPT ![i].manifest = "frozen", ![i].tree = tree,
                            ![i].pooled = PlanPooled(i), ![i].base = Public]
  BY <1>4 DEF FreezeBuildPlan
<1>10. ops' = [ops EXCEPT ![i] = r]
  BY <1>2, <1>5, <1>9 DEF Typed, TypeOK
<1>11. /\ ops' \in Seq(OperationRecord) /\ Len(ops') = Len(ops) /\ ops'[i] = r
       /\ Pending' = {i} /\ Operation' = Operation
  <2>1. r.state \notin Terminal /\ r \in OperationRecord
    BY <1>8 DEF Terminal
  <2>2. Typed /\ i \in 1 .. Len(ops) /\ Pending = {i}
    BY <1>2
  <2> QED
    BY <1>10, <2>1, <2>2, Updated
<1>12. pc' \in PcType /\ pc'.at = "frozen" /\ pc'.op = i
  BY <1>1, <1>2, Moved DEF FreezeBuildPlan
<1>13. /\ memberships' = memberships /\ revision' = revision /\ built' = built
       /\ objects' = objects /\ generations' = generations /\ pending' = pending
       /\ pool' = pool /\ unsynced' = unsynced /\ live' = live /\ config' = config
       /\ stage' = stage /\ staged' = staged /\ trees' = trees /\ Built' = Built
  BY <1>9 DEF ledger, store, work, Built
<1>14. Typed'
  BY <1>2, <1>11, <1>12, <1>13 DEF Typed, TypeOK, PcType
<1>15. PrivateSound'
  BY <1>11, <1>12, <1>13 DEF MutationInv, PrivateSound, HasStage
<1>16. Plan(i)'
  <2>1. live = Built.live /\ pool = Built.pool
    BY <1>2, BuiltTyped
  <2>2. PlanPooled(i)' = PlanPooled(i)
    BY <1>8, <1>11, <1>13 DEF PlanPooled
  <2>3. ops[i].buildDists \subseteq Dist
    BY <1>2 DEF OperationRecord
  <2>4. \A d \in ops[i].buildDists :
          /\ tree[d] = [by |-> i, pkgs |-> memberships[d], prior |-> Built.live[d].by]
          /\ <<i, d, tree[d]>> \in trees
    BY <1>3, <1>4, <2>1, <2>3 DEF AllRendered, Rendered
  <2> QED
    BY <1>2, <1>8, <1>11, <1>13, <2>1, <2>2, <2>4 DEF Plan
<1>17. CommandSound'
  BY <1>2, <1>8, <1>11, <1>12, <1>13 DEF CommandSound, Step, Between, Closing, Rendering, Placing
<1>18. SameScope(i)
  BY <1>8, <1>11 DEF SameScope
<1> QED
  BY <1>2, <1>3, <1>8, <1>9, <1>11, <1>13, <1>14, <1>15, <1>16, <1>17, <1>18, BuildStepsPrivate

-----------------------------------------------------------------------------
(* Payloads are promoted and dists exchanged *)

\* What holds of a frozen plan, whoever carries it on.
LEMMA FrozenFacts ==
  ASSUME MutationInv, NEW i \in Pending, ops[i].manifest = "frozen"
  PROVE  /\ Typed /\ i \in 1 .. Len(ops) /\ i = Len(ops) /\ Pending = {i}
         /\ ops[i] \in OperationRecord /\ ops[i].buildDists \subseteq Dist
         /\ Plan(i) /\ Journal(i) /\ Prepared(i) /\ Applied(i) /\ ops[i].applied
         /\ \A p \in ops[i].pooled : objects[p] = "pending" /\ p \in Package /\ p \notin Built.pool
<1>1. Plan(i) /\ Journal(i)
  BY DEF MutationInv, PublicSound, Frozen, JournalSound
<1>2. ops[i].applied /\ Applied(i) /\ Prepared(i)
  BY <1>1 DEF Journal
<1>3. Typed /\ i \in 1 .. Len(ops) /\ i = Len(ops) /\ Pending = {i} /\ ops[i] \in OperationRecord
  BY OnlyPending DEF MutationInv
<1>4. ops[i].buildDists \subseteq Dist /\ memberships \in [Dist -> SUBSET Package]
  BY <1>3 DEF OperationRecord, Typed, TypeOK
<1>5. \A p \in ops[i].pooled : objects[p] = "pending" /\ p \in Package
  BY <1>1, <1>4 DEF Plan, PlanPooled
<1>6. \A p \in ops[i].pooled : p \notin Built.pool
  BY <1>5 DEF MutationInv, RowsSound
<1> QED
  BY <1>1, <1>2, <1>3, <1>4, <1>5, <1>6

\* A step that carries a frozen plan on changes the store and the public tree
\* only as far as the plan says.
LEMMA FrozenStep ==
  ASSUME MutationInv, NEW i \in Pending, ops[i].manifest = "frozen",
         UNCHANGED <<config, ledger, ops, stage, staged>>,
         Typed', PrivateSound', Plan(i)', CommandSound',
         \A p \in Package : objects[p] = "pending" => p \in pending' \union pool',
         \A p \in pending' : p \in pending \/ objects[p] = "pending"
  PROVE  MutationInv'
<1>1. /\ Typed /\ i \in 1 .. Len(ops) /\ i = Len(ops) /\ Pending = {i}
      /\ Journal(i) /\ Prepared(i) /\ Applied(i) /\ ops[i].applied
  BY FrozenFacts
<1>2. /\ memberships' = memberships /\ built' = built /\ objects' = objects
      /\ generations' = generations /\ ops' = ops /\ stage' = stage /\ staged' = staged
  BY DEF ledger
<1>3. Built' = Built /\ Pending' = {i}
  BY <1>1, <1>2 DEF Built, Pending, Operation
<1>4. RowsSound'
  <2>1. RowsSound /\ pending' \subseteq Package
    BY DEF MutationInv, Typed, TypeOK
  <2>2. \A p \in Built.pool : p \notin pending'
    BY <2>1 DEF RowsSound
  <2> QED
    BY <1>2, <1>3, <2>1, <2>2 DEF RowsSound
<1>5. JournalSound'
  <2>1. SameScope(i) /\ ops'[i].base = Built' /\ HasStage(i)' /\ <<i, "staged">> \in stage'
    BY <1>1, <1>2, <1>3 DEF SameScope, Prepared, HasStage
  <2>2. Prepared(i)'
    BY <1>1, <1>2, <2>1, PreparedKept
  <2>3. Applied(i)'
    BY <1>1, <1>2 DEF Applied
  <2>4. Journal(i)'
    BY <1>1, <1>2, <2>2, <2>3 DEF Journal
  <2> QED
    BY <1>3, <2>4 DEF JournalSound
<1>6. PublicSound'
  BY <1>2, <1>3 DEF PublicSound, Frozen
<1>7. TracesSound'
  <2>1. \A p \in pending' : objects[p] = "pending" \/ p \in ops[i].dropped
    BY <1>1, AppliedTraces
  <2>2. ops[i].state # "planned"
    BY <1>1 DEF Journal
  <2> QED
    BY <1>1, <1>2, <1>3, <2>1, <2>2 DEF TracesSound
<1> QED
  BY <1>4, <1>5, <1>6, <1>7 DEF MutationInv

\* What the command that carries a plan out may count on.
LEMMA PlacingFacts ==
  ASSUME MutationInv, pc.at \in Placing
  PROVE  /\ pc.op \in Pending /\ ops[pc.op].manifest = "frozen" /\ ops[pc.op].state = "applied"
         /\ ~ops[pc.op].skip /\ ops[pc.op].dropped \intersect pending = {}
  BY DEF MutationInv, CommandSound, Step, Between, Closing, Placing

\* A payload gets its public name, not on disk yet.
LEMMA LinkPayloadStep ==
  ASSUME MutationInv, NEW i \in Operation, NEW p \in Package, LinkPayload(i, p)
  PROVE  MutationInv'
<1>1. pc.at = "link" /\ pc.op = i /\ pc.at \in Placing
  BY DEF LinkPayload, At, Placing
<1>2. /\ i \in Pending /\ ops[i].manifest = "frozen" /\ ops[i].state = "applied"
      /\ ~ops[i].skip /\ ops[i].dropped \intersect pending = {}
  BY <1>1, PlacingFacts
<1>3. /\ Typed /\ Pending = {i} /\ Plan(i)
  BY <1>2, FrozenFacts
<1>4. p \in ops[i].pooled /\ p \notin pool /\ p \in pending
  BY DEF LinkPayload, ToLink
<1>5. /\ pool' = pool \union {p} /\ unsynced' = unsynced \union {<<"link", p>>} /\ pending' = pending
      /\ live' = live /\ trees' = trees /\ pc' = pc
      /\ UNCHANGED <<config, ledger, ops, stage, staged>>
  BY DEF LinkPayload, work
<1>6. Pending' = {i} /\ Operation' = Operation /\ ops' = ops
  BY <1>3, <1>5 DEF Pending, Operation
<1>7. /\ memberships' = memberships /\ objects' = objects /\ Built' = Built
  BY <1>5 DEF ledger, Built
<1>8. Typed'
  <2>1. TypeOK'
    BY <1>3, <1>5, <1>6 DEF Typed, TypeOK, ledger
  <2> QED
    BY <1>3, <1>5, <1>6, <2>1 DEF Typed, ledger
<1>9. PrivateSound'
  BY <1>5 DEF MutationInv, PrivateSound, HasStage
<1>10. Plan(i)'
  <2>1. live = Built.live
    BY <1>3, <1>4 DEF Plan, Promoted
  <2>2. PlanPooled(i)' = PlanPooled(i)
    BY <1>6, <1>7 DEF PlanPooled
  <2>3. \A x \in unsynced' : x[2] \in ops[i].pooled /\ (x[1] = "link" => x[2] \in pending)
    BY <1>3, <1>4, <1>5 DEF Plan
  <2> QED
    BY <1>3, <1>4, <1>5, <1>6, <1>7, <2>1, <2>2, <2>3 DEF Plan
<1>11. CommandSound'
  BY <1>1, <1>2, <1>5, <1>6 DEF CommandSound, Step, Between, Closing, Rendering, Placing
<1>12. \A q \in Package : objects[q] = "pending" => q \in pending' \union pool'
  BY <1>5 DEF MutationInv, RowsSound
<1> QED
  BY <1>2, <1>5, <1>8, <1>9, <1>10, <1>11, <1>12, FrozenStep

\* The public names are on disk before the first pending name goes.
LEMMA SyncTargetsStep ==
  ASSUME MutationInv, NEW i \in Operation, SyncTargets(i)
  PROVE  MutationInv'
<1>1. pc.at = "link" /\ pc.op = i /\ pc.at \in Placing /\ "unlink" \in Step
  BY DEF SyncTargets, At, Placing, Step
<1>2. /\ i \in Pending /\ ops[i].manifest = "frozen" /\ ops[i].state = "applied"
      /\ ~ops[i].skip /\ ops[i].dropped \intersect pending = {}
  BY <1>1, PlacingFacts
<1>3. /\ Typed /\ Pending = {i} /\ Plan(i)
  BY <1>2, FrozenFacts
<1>4. /\ unsynced' = unsynced \ {<<"link", p>> : p \in ops[i].pooled} /\ pending' = pending
      /\ live' = live /\ trees' = trees /\ pool' = pool /\ ops[i].pooled \subseteq pool
      /\ UNCHANGED <<config, ledger, ops, stage, staged>>
  BY DEF SyncTargets, work
<1>5. pc' \in PcType /\ pc'.at = "unlink" /\ pc'.op = i
  BY <1>1, <1>3, Moved DEF SyncTargets
<1>6. Pending' = {i} /\ Operation' = Operation /\ ops' = ops
  BY <1>3, <1>4 DEF Pending, Operation
<1>7. /\ memberships' = memberships /\ objects' = objects /\ Built' = Built
  BY <1>4 DEF ledger, Built
<1>8. \A x \in unsynced' : x[1] # "link"
  <2>1. \A x \in unsynced : x = <<x[1], x[2]>> /\ x[2] \in ops[i].pooled
    BY <1>3 DEF Typed, TypeOK, Plan
  <2> QED
    BY <1>4, <2>1
<1>9. Typed'
  <2>1. TypeOK'
    BY <1>3, <1>4, <1>5, <1>6 DEF Typed, TypeOK, PcType, ledger
  <2> QED
    BY <1>3, <1>4, <1>6, <2>1 DEF Typed, ledger
<1>10. PrivateSound'
  BY <1>4, <1>5 DEF MutationInv, PrivateSound, HasStage
<1>11. Plan(i)'
  <2>1. PlanPooled(i)' = PlanPooled(i)
    BY <1>6, <1>7 DEF PlanPooled
  <2>2. \A x \in unsynced' : x[2] \in ops[i].pooled /\ (x[1] = "link" => x[2] \in pending)
    BY <1>3, <1>4 DEF Plan
  <2>3. Promoted(i) => Promoted(i)'
    BY <1>4, <1>6 DEF Promoted
  <2> QED
    BY <1>3, <1>4, <1>6, <1>7, <2>1, <2>2, <2>3 DEF Plan
<1>12. CommandSound'
  BY <1>2, <1>4, <1>5, <1>6, <1>8 DEF CommandSound, Step, Between, Closing, Rendering, Placing
<1>13. \A q \in Package : objects[q] = "pending" => q \in pending' \union pool'
  BY <1>4 DEF MutationInv, RowsSound
<1> QED
  BY <1>2, <1>4, <1>9, <1>10, <1>11, <1>12, <1>13, FrozenStep

\* A public payload loses its pending name.
LEMMA UnlinkPendingStep ==
  ASSUME MutationInv, NEW i \in Operation, NEW p \in Package, UnlinkPending(i, p)
  PROVE  MutationInv'
<1>1. pc.at = "unlink" /\ pc.op = i /\ pc.at \in Placing
  BY DEF UnlinkPending, At, Placing
<1>2. /\ i \in Pending /\ ops[i].manifest = "frozen" /\ ops[i].state = "applied"
      /\ ~ops[i].skip /\ ops[i].dropped \intersect pending = {}
  BY <1>1, PlacingFacts
<1>3. ops[i].pooled \subseteq pool /\ \A x \in unsynced : x[1] # "link"
  BY <1>1 DEF MutationInv, CommandSound
<1>4. /\ Typed /\ Pending = {i} /\ Plan(i)
  BY <1>2, FrozenFacts
<1>5. p \in ops[i].pooled /\ p \in pending /\ p \in pool
  BY DEF UnlinkPending
<1>6. /\ unsynced' = unsynced \union {<<"unlink", p>>} /\ pending' = pending \ {p}
      /\ live' = live /\ trees' = trees /\ pool' = pool /\ pc' = pc
      /\ UNCHANGED <<config, ledger, ops, stage, staged>>
  BY DEF UnlinkPending, work
<1>7. Pending' = {i} /\ Operation' = Operation /\ ops' = ops
  BY <1>4, <1>6 DEF Pending, Operation
<1>8. /\ memberships' = memberships /\ objects' = objects /\ Built' = Built
  BY <1>6 DEF ledger, Built
<1>9. Typed'
  <2>1. TypeOK'
    BY <1>4, <1>6, <1>7 DEF Typed, TypeOK, ledger
  <2> QED
    BY <1>4, <1>6, <1>7, <2>1 DEF Typed, ledger
<1>10. PrivateSound'
  BY <1>6 DEF MutationInv, PrivateSound, HasStage
<1>11. \A x \in unsynced' : x[2] \in ops[i].pooled /\ x[1] # "link"
  BY <1>3, <1>4, <1>5, <1>6 DEF Plan
<1>12. Plan(i)'
  <2>1. live = Built.live
    BY <1>4, <1>5 DEF Plan, Promoted
  <2>2. PlanPooled(i)' = PlanPooled(i)
    BY <1>7, <1>8 DEF PlanPooled
  <2> QED
    BY <1>4, <1>6, <1>7, <1>8, <1>11, <2>1, <2>2 DEF Plan
<1>13. CommandSound'
  BY <1>1, <1>2, <1>3, <1>6, <1>7, <1>11
     DEF CommandSound, Step, Between, Closing, Rendering, Placing
<1>14. \A q \in Package : objects[q] = "pending" => q \in pending' \union pool'
  BY <1>5, <1>6 DEF MutationInv, RowsSound
<1> QED
  BY <1>2, <1>6, <1>9, <1>10, <1>12, <1>13, <1>14, FrozenStep

\* The pending names are gone from the disk before the first dist changes.
LEMMA SyncPendingStep ==
  ASSUME MutationInv, NEW i \in Operation, SyncPending(i)
  PROVE  MutationInv'
<1>1. pc.at = "unlink" /\ pc.op = i /\ pc.at \in Placing /\ "exchange" \in Step
  BY DEF SyncPending, At, Placing, Step
<1>2. /\ i \in Pending /\ ops[i].manifest = "frozen" /\ ops[i].state = "applied"
      /\ ~ops[i].skip /\ ops[i].dropped \intersect pending = {}
  BY <1>1, PlacingFacts
<1>3. ops[i].pooled \subseteq pool /\ \A x \in unsynced : x[1] # "link"
  BY <1>1 DEF MutationInv, CommandSound
<1>4. /\ Typed /\ Pending = {i} /\ Plan(i)
  BY <1>2, FrozenFacts
<1>5. /\ unsynced' = {x \in unsynced : x[1] # "unlink"} /\ pending' = pending
      /\ live' = live /\ trees' = trees /\ pool' = pool /\ ops[i].pooled \intersect pending = {}
      /\ UNCHANGED <<config, ledger, ops, stage, staged>>
  BY DEF SyncPending, work
<1>6. unsynced' = {}
  <2>1. unsynced \subseteq {"link", "unlink"} \X Package
    BY <1>4 DEF Typed, TypeOK
  <2>2. \A x \in unsynced : x[1] \in {"link", "unlink"}
    BY <2>1
  <2> QED
    BY <1>3, <1>5, <2>2
<1>7. pc' \in PcType /\ pc'.at = "exchange" /\ pc'.op = i
  BY <1>1, <1>4, Moved DEF SyncPending
<1>8. Pending' = {i} /\ Operation' = Operation /\ ops' = ops
  BY <1>4, <1>5 DEF Pending, Operation
<1>9. /\ memberships' = memberships /\ objects' = objects /\ Built' = Built
  BY <1>5 DEF ledger, Built
<1>10. Promoted(i)'
  BY <1>3, <1>5, <1>6, <1>8 DEF Promoted
<1>11. Typed'
  <2>1. TypeOK'
    BY <1>4, <1>5, <1>6, <1>7, <1>8 DEF Typed, TypeOK, PcType, ledger
  <2> QED
    BY <1>4, <1>5, <1>8, <2>1 DEF Typed, ledger
<1>12. PrivateSound'
  BY <1>5, <1>7 DEF MutationInv, PrivateSound, HasStage
<1>13. Plan(i)'
  <2>1. PlanPooled(i)' = PlanPooled(i)
    BY <1>8, <1>9 DEF PlanPooled
  <2> QED
    BY <1>4, <1>5, <1>6, <1>8, <1>9, <1>10, <2>1 DEF Plan
<1>14. CommandSound'
  BY <1>2, <1>5, <1>7, <1>8, <1>10 DEF CommandSound, Step, Between, Closing, Rendering, Placing
<1>15. \A q \in Package : objects[q] = "pending" => q \in pending' \union pool'
  BY <1>5 DEF MutationInv, RowsSound
<1> QED
  BY <1>2, <1>5, <1>11, <1>12, <1>13, <1>14, <1>15, FrozenStep

\* A dist is exchanged for its staged tree.
LEMMA ExchangeDistStep ==
  ASSUME MutationInv, NEW i \in Operation, NEW d \in Dist, ExchangeDist(i, d)
  PROVE  MutationInv'
<1>1. pc.at = "exchange" /\ pc.op = i /\ pc.at \in Placing
  BY DEF ExchangeDist, At, Placing
<1>2. /\ i \in Pending /\ ops[i].manifest = "frozen" /\ ops[i].state = "applied"
      /\ ~ops[i].skip /\ ops[i].dropped \intersect pending = {}
  BY <1>1, PlacingFacts
<1>3. Promoted(i)
  BY <1>1 DEF MutationInv, CommandSound
<1>4. /\ Typed /\ Pending = {i} /\ Plan(i) /\ i \in 1 .. Len(ops) /\ i = Len(ops)
      /\ ops[i] \in OperationRecord
  BY <1>2, FrozenFacts
<1>5. d \in ops[i].buildDists /\ live[d] # ops[i].tree[d] /\ <<i, d, ops[i].tree[d]>> \in trees
  BY DEF ExchangeDist
<1>6. /\ live' = [live EXCEPT ![d] = ops[i].tree[d]]
      /\ trees' = (trees \ {<<i, d, ops[i].tree[d]>>}) \union {<<i, d, live[d]>>}
      /\ unsynced' = unsynced /\ pending' = pending /\ pool' = pool /\ pc' = pc
      /\ UNCHANGED <<config, ledger, ops, stage, staged>>
  BY DEF ExchangeDist, store
<1>7. Pending' = {i} /\ Operation' = Operation /\ ops' = ops
  BY <1>4, <1>6 DEF Pending, Operation
<1>8. /\ memberships' = memberships /\ objects' = objects /\ Built' = Built
  BY <1>6 DEF ledger, Built
<1>9. ops[i].tree \in [Dist -> Tree] /\ live \in [Dist -> Tree] /\ i \in Operation
  BY <1>4 DEF OperationRecord, Typed, TypeOK, Operation
<1>10. Typed'
  <2>1. live' \in [Dist -> Tree] /\ trees' \subseteq Operation \X Dist \X Tree
    BY <1>4, <1>6, <1>9 DEF Typed, TypeOK
  <2>2. TypeOK'
    BY <1>4, <1>6, <1>7, <2>1 DEF Typed, TypeOK, ledger
  <2> QED
    BY <1>4, <1>6, <1>7, <2>2 DEF Typed, ledger
<1>11. PrivateSound'
  <2>1. PrivateSound
    BY DEF MutationInv
  <2>2. HasStage(i) /\ \A x \in trees' : x[1] = i
    BY <1>4, <1>5, <1>6, <2>1 DEF PrivateSound
  <2> QED
    BY <1>4, <1>6, <2>1, <2>2 DEF PrivateSound, HasStage
<1>12. Promoted(i)'
  BY <1>3, <1>6, <1>7 DEF Promoted
<1>13. Plan(i)'
  <2>1. PlanPooled(i)' = PlanPooled(i)
    BY <1>7, <1>8 DEF PlanPooled
  <2>2. live[d] = Built.live[d]
    BY <1>4, <1>5 DEF Plan
  <2>3. live'[d] = ops[i].tree[d] /\ <<i, d, Built.live[d]>> \in trees'
    BY <1>6, <1>9, <2>2
  <2>4. ASSUME NEW e \in ops[i].buildDists
        PROVE  \/ live'[e] = Built.live[e] /\ <<i, e, ops[i].tree[e]>> \in trees'
               \/ live'[e] = ops[i].tree[e] /\ <<i, e, Built.live[e]>> \in trees'
    <3>1. CASE e = d
      BY <2>3, <3>1
    <3>2. CASE e # d
      <4>1. e \in Dist
        BY <1>4 DEF OperationRecord
      <4>2. live'[e] = live[e]
        BY <1>6, <1>9, <3>2, <4>1
      <4>3. \A t : <<i, e, t>> \in trees => <<i, e, t>> \in trees'
        BY <1>6, <3>2
      <4> QED
        BY <1>4, <4>2, <4>3 DEF Plan
    <3> QED
      BY <3>1, <3>2
  <2>5. \A e \in Dist \ ops[i].buildDists : live'[e] = Built.live[e]
    BY <1>4, <1>5, <1>6, <1>9 DEF Plan
  <2> QED
    BY <1>4, <1>6, <1>7, <1>8, <1>12, <2>1, <2>4, <2>5 DEF Plan
<1>14. CommandSound'
  BY <1>1, <1>2, <1>6, <1>7, <1>12 DEF CommandSound, Step, Between, Closing, Rendering, Placing
<1>15. \A q \in Package : objects[q] = "pending" => q \in pending' \union pool'
  BY <1>6 DEF MutationInv, RowsSound
<1> QED
  BY <1>2, <1>6, <1>10, <1>11, <1>13, <1>14, <1>15, FrozenStep

\* Of the updates that are not on disk any may be lost; what is public and what
\* has a row is not among them.
LEMMA PowerLossStep ==
  ASSUME MutationInv, PowerLoss
  PROVE  MutationInv'
<1>1. unsynced # {} /\ UNCHANGED <<config, ledger, ops, stage, staged>> /\ unsynced' = {}
      /\ live' = live /\ trees' = trees /\ pc' = [at |-> "idle", op |-> 0, recovering |-> FALSE]
  BY DEF PowerLoss, work
<1>2. PICK i \in Pending : ops[i].manifest = "frozen"
  BY <1>1 DEF MutationInv, PublicSound, Frozen
<1>3. /\ Typed /\ i \in 1 .. Len(ops) /\ i = Len(ops) /\ Pending = {i} /\ Plan(i)
      /\ \A p \in ops[i].pooled : objects[p] = "pending" /\ p \in Package /\ p \notin Built.pool
  BY <1>2, FrozenFacts
<1>4. PICK lost \in SUBSET unsynced :
        /\ pool' = pool \ {x[2] : x \in {y \in lost : y[1] = "link"}}
        /\ pending' = pending \union {x[2] : x \in {y \in lost : y[1] = "unlink"}}
  BY DEF PowerLoss
<1>5. \A p \in pool : p \in pool' \/ (p \in ops[i].pooled /\ p \in pending)
  BY <1>3, <1>4 DEF Plan
<1>6. \A p \in pending' : p \in pending \/ p \in ops[i].pooled
  BY <1>3, <1>4 DEF Plan
<1>7. pool' \subseteq pool /\ pending \subseteq pending'
  BY <1>4
<1>8. Pending' = {i} /\ Operation' = Operation /\ ops' = ops
  BY <1>1, <1>3 DEF Pending, Operation
<1>9. /\ memberships' = memberships /\ objects' = objects /\ Built' = Built
  BY <1>1 DEF ledger, Built
<1>10. pc'.at = "idle" /\ pc' \in PcType
  BY <1>1, <1>3 DEF PcType, Step
<1>11. Typed'
  <2>1. pool' \subseteq Package /\ pending' \subseteq Package
    BY <1>3, <1>6, <1>7 DEF Typed, TypeOK
  <2>2. TypeOK'
    BY <1>1, <1>3, <1>8, <1>10, <2>1 DEF Typed, TypeOK, PcType, ledger
  <2> QED
    BY <1>1, <1>3, <1>8, <2>2 DEF Typed, ledger
<1>12. PrivateSound'
  BY <1>1, <1>10 DEF MutationInv, PrivateSound, HasStage
<1>13. Plan(i)'
  <2>1. live = Built.live
    BY <1>1, <1>3 DEF Plan, Promoted
  <2>2. PlanPooled(i)' = PlanPooled(i)
    BY <1>8, <1>9 DEF PlanPooled
  <2>3. Built.pool \subseteq pool'
    BY <1>3, <1>5 DEF Plan
  <2> QED
    BY <1>1, <1>3, <1>7, <1>8, <1>9, <2>1, <2>2, <2>3 DEF Plan
<1>14. CommandSound'
  BY <1>10 DEF CommandSound, Step, Between, Closing, Rendering, Placing
<1>15. \A q \in Package : objects[q] = "pending" => q \in pending' \union pool'
  BY <1>5, <1>7 DEF MutationInv, RowsSound
<1>16. \A p \in pending' : p \in pending \/ objects[p] = "pending"
  BY <1>3, <1>6
<1> QED
  BY <1>1, <1>2, <1>11, <1>12, <1>13, <1>14, <1>15, <1>16, FrozenStep

\* A generation appended to the ledger is the last one.
LEMMA GenerationAppended ==
  ASSUME Typed, generations' = Append(generations, Public)
  PROVE  generations' \in Seq(PublicTree) /\ Len(generations') > 0 /\ Built' = Public
<1>1. generations \in Seq(PublicTree)
  BY DEF Typed, TypeOK, PublicTree
<1>2. Public \in PublicTree
  BY BuiltTyped
<1>3. /\ generations' \in Seq(PublicTree) /\ Len(generations') = Len(generations) + 1
      /\ generations'[Len(generations) + 1] = Public /\ Len(generations) \in Nat
  BY <1>1, <1>2
<1> QED
  BY <1>3 DEF Built

\* The ledger records the generation that is public.
LEMMA FinalizeBuildStep ==
  ASSUME MutationInv, NEW i \in Operation, FinalizeBuild(i)
  PROVE  MutationInv'
<1>1. pc.at = "finalize" /\ pc.op = i /\ "cleanup" \in Step
  BY DEF FinalizeBuild, At, Step
<1>2. /\ i \in Pending /\ ops[i].manifest = "frozen" /\ Promoted(i)
      /\ ops[i].dropped \intersect pending = {}
      /\ \A d \in ops[i].buildDists : live[d] = ops[i].tree[d]
  BY <1>1 DEF MutationInv, CommandSound, Step, Between, Closing, Placing
<1>3. /\ Typed /\ i \in 1 .. Len(ops) /\ i = Len(ops) /\ Pending = {i} /\ Plan(i)
      /\ ops[i] \in OperationRecord /\ ops[i].buildDists \subseteq Dist /\ ops[i].applied
      /\ \A p \in ops[i].pooled : objects[p] = "pending" /\ p \in Package /\ p \notin Built.pool
  BY <1>2, FrozenFacts
<1>4. /\ built' = [d \in Dist |-> IF d \in ops[i].buildDists
                                 THEN [pkgs |-> memberships[d], policy |-> ops[i].config[d]]
                                 ELSE built[d]]
      /\ objects' = [p \in Package |-> IF p \in ops[i].pooled THEN "pool" ELSE objects[p]]
      /\ generations' = Append(generations, Public)
      /\ SetState(i, "done") /\ Go("cleanup")
      /\ memberships' = memberships /\ revision' = revision /\ config' = config
      /\ pending' = pending /\ pool' = pool /\ unsynced' = unsynced /\ live' = live
      /\ stage' = stage /\ staged' = staged /\ trees' = trees
  BY DEF FinalizeBuild, store, work
<1>5. "done" \in Terminal
  BY DEF Terminal
<1>6. ops' \in Seq(OperationRecord) /\ Len(ops') = Len(ops) /\ Pending' = {} /\ Operation' = Operation
  BY <1>3, <1>4, <1>5, StateSet
<1>7. generations' \in Seq(PublicTree) /\ Len(generations') > 0 /\ Built' = Public
  BY <1>3, <1>4, GenerationAppended
<1>8. Public.live = live /\ Public.pool = pool
  BY <1>3, BuiltTyped
<1>9. pc' \in PcType /\ pc'.at = "cleanup" /\ pc'.op = i
  BY <1>1, <1>3, <1>4, Moved
<1>10. Typed'
  <2>1. memberships \in [Dist -> SUBSET Package] /\ built \in [Dist -> [pkgs : SUBSET Package, policy : Policy]]
        /\ objects \in [Package -> {"none", "pending", "pool"}] /\ ops[i].config \in [Dist -> Policy]
    BY <1>3 DEF Typed, TypeOK, OperationRecord
  <2>2. built' \in [Dist -> [pkgs : SUBSET Package, policy : Policy]]
    BY <1>4, <2>1
  <2>3. objects' \in [Package -> {"none", "pending", "pool"}]
    BY <1>4, <2>1
  <2>4. generations' \in Seq([live : [Dist -> Tree], pool : SUBSET Package])
    BY <1>7 DEF PublicTree
  <2> QED
    BY <1>3, <1>4, <1>6, <1>7, <1>9, <2>2, <2>3, <2>4 DEF Typed, TypeOK, PcType
<1>11. PrivateSound'
  BY <1>4, <1>6, <1>9 DEF MutationInv, PrivateSound, HasStage
<1>12. RowsSound'
  <2>1. RowsSound
    BY DEF MutationInv
  <2>2. pool = Built.pool \union ops[i].pooled
    BY <1>2, <1>3 DEF Plan, Promoted
  <2>3. memberships \in [Dist -> SUBSET Package]
    BY <1>3 DEF Typed, TypeOK
  <2>4. \A d \in Dist : \A p \in memberships[d] : objects'[p] # "none"
    BY <1>4, <2>1, <2>3 DEF RowsSound
  <2>5. \A p \in Package : objects'[p] = "pending" =>
          (\E d \in Dist : p \in memberships[d]) /\ p \in pending \union pool
    BY <1>4, <2>1 DEF RowsSound
  <2>6. \A p \in Package : objects'[p] = "pool" <=> p \in pool
    BY <1>4, <2>1, <2>2 DEF RowsSound
  <2>7. \A p \in pool : p \notin pending
    BY <1>2, <2>1, <2>2 DEF RowsSound, Promoted
  <2>8. ASSUME NEW d \in Dist
        PROVE  built'[d].pkgs = live[d].pkgs /\ built'[d].pkgs \subseteq pool
    <3>1. CASE d \in ops[i].buildDists
      <4>1. built'[d].pkgs = memberships[d] /\ live[d].pkgs = memberships[d]
        <5>1. built'[d] = [pkgs |-> memberships[d], policy |-> ops[i].config[d]]
          BY <1>4, <3>1
        <5>2. live[d] = [by |-> i, pkgs |-> memberships[d], prior |-> Built.live[d].by]
          BY <1>2, <1>3, <3>1 DEF Plan
        <5> QED
          BY <5>1, <5>2
      <4>2. \A p \in memberships[d] : objects[p] \in {"pending", "pool"} /\ p \in Package
        BY <1>3, <2>1, <2>3 DEF RowsSound, Typed, TypeOK
      <4>3. \A p \in memberships[d] : p \in pool
        BY <1>3, <2>1, <2>2, <3>1, <4>2 DEF RowsSound, Plan, PlanPooled
      <4> QED
        BY <4>1, <4>3
    <3>2. CASE d \notin ops[i].buildDists
      BY <1>3, <1>4, <2>1, <2>2, <3>2 DEF RowsSound, Plan
    <3> QED
      BY <3>1, <3>2
  <2> QED
    BY <1>4, <1>7, <1>8, <2>4, <2>5, <2>6, <2>7, <2>8 DEF RowsSound
<1>13. JournalSound'
  BY <1>6 DEF JournalSound
<1>14. PublicSound'
  <2>1. Public' = Public /\ unsynced' = {}
    BY <1>2, <1>4 DEF Public, Promoted
  <2> QED
    BY <1>6, <1>7, <2>1 DEF PublicSound
<1>15. TracesSound'
  <2>1. ASSUME NEW p \in pending
        PROVE  objects'[p] = "pending"
    <3>1. objects[p] = "pending" /\ p \notin ops[i].pooled
      BY <1>2, <1>3, AppliedTraces DEF Promoted
    <3>2. p \in Package
      BY <1>3 DEF Typed, TypeOK
    <3> QED
      BY <1>4, <3>1, <3>2
  <2> QED
    BY <1>4, <2>1 DEF TracesSound
<1>16. CommandSound'
  <2>1. i > 0
    BY <1>3
  <2> QED
    BY <1>3, <1>6, <1>9, <2>1 DEF CommandSound, Step, Between, Closing, Rendering, Placing
<1> QED
  BY <1>10, <1>11, <1>12, <1>13, <1>14, <1>15, <1>16 DEF MutationInv

-----------------------------------------------------------------------------
(* The invariant *)

\* A new repository: one empty generation, an empty ledger and no command.
LEMMA MutationInvInit ==
  ASSUME Init
  PROVE  MutationInv
<1>1. Len(ops) = 0 /\ Operation = {} /\ Pending = {}
  BY DEF Init, Operation, Pending
<1>2. EmptyTree \in Tree
  BY DEF EmptyTree, Tree
<1>3. generations = <<[live |-> [d \in Dist |-> EmptyTree], pool |-> {}]>>
      /\ Len(generations) = 1 /\ Built = [live |-> [d \in Dist |-> EmptyTree], pool |-> {}]
  BY DEF Init, Built
<1>4. Built \in PublicTree /\ Built.live = [d \in Dist |-> EmptyTree] /\ Built.pool = {}
  BY <1>2, <1>3 DEF PublicTree
<1>5. TypeOK
  <2>1. generations \in Seq([live : [Dist -> Tree], pool : SUBSET Package])
    BY <1>3, <1>4 DEF PublicTree
  <2>2. /\ ops \in Seq(OperationRecord)
        /\ pc \in [at : Step, op : 0 .. Len(ops), recovering : BOOLEAN]
    BY <1>1 DEF Init, Step
  <2>3. live \in [Dist -> Tree]
    BY <1>2 DEF Init
  <2>4. built \in [Dist -> [pkgs : SUBSET Package, policy : Policy]]
    BY DEF Init, Policy
  <2>5. config \in [Dist -> Policy] /\ memberships \in [Dist -> SUBSET Package]
    BY DEF Init, Policy
  <2>6. objects \in [Package -> {"none", "pending", "pool"}] /\ revision \in Nat
    BY DEF Init
  <2> QED
    BY <2>1, <2>2, <2>3, <2>4, <2>5, <2>6 DEF Init, TypeOK
<1>6. Typed
  BY <1>1, <1>3, <1>5 DEF Typed
<1>7. PrivateSound
  BY DEF Init, PrivateSound
<1>8. RowsSound
  <2>1. \A d \in Dist : built[d].pkgs = {} /\ memberships[d] = {} /\ Built.live[d].pkgs = {}
    BY <1>4 DEF Init, EmptyTree
  <2>2. \A p \in Package : objects[p] = "none"
    BY DEF Init
  <2> QED
    BY <1>4, <2>1, <2>2 DEF RowsSound
<1>9. PublicSound
  <2>1. Public = Built
    BY <1>3 DEF Init, Public
  <2> QED
    BY <1>1, <2>1 DEF Init, PublicSound
<1>10. JournalSound /\ TracesSound
  BY <1>1 DEF JournalSound, TracesSound, Init
<1>11. CommandSound
  <2>1. pc.at = "idle"
    BY DEF Init
  <2> QED
    BY <2>1 DEF CommandSound, Step, Between, Closing, Rendering, Placing
<1> QED
  BY <1>6, <1>7, <1>8, <1>9, <1>10, <1>11 DEF MutationInv

\* Nothing happens.
LEMMA MutationInvStutter ==
  ASSUME MutationInv, UNCHANGED vars
  PROVE  MutationInv'
<1>1. /\ memberships' = memberships /\ built' = built
      /\ objects' = objects /\ generations' = generations /\ pending' = pending
      /\ pool' = pool /\ unsynced' = unsynced /\ live' = live /\ ops' = ops
      /\ stage' = stage /\ staged' = staged /\ trees' = trees /\ pc' = pc /\ config' = config
  BY DEF vars, ledger, store, work
<1>2. config' \in [Dist -> Policy] /\ pc' \in PcType
  BY <1>1 DEF MutationInv, Typed, TypeOK, PcType
<1>3. CommandSound'
  <2>1. Prepared(pc.op)' = Prepared(pc.op)
    BY <1>1 DEF Prepared, HasStage, Built, Wanted, DistsNeedingBuild
  <2>2. Unapplied(pc.op)' = Unapplied(pc.op) /\ Promoted(pc.op)' = Promoted(pc.op)
    BY <1>1 DEF Unapplied, Promoted
  <2>3. Drafted(pc.op)' = Drafted(pc.op)
    BY <1>1 DEF Drafted, HasStage, Built, DistsNeedingBuild
  <2>4. AllRendered(pc.op)' = AllRendered(pc.op) /\ Pending' = Pending
    BY <1>1 DEF AllRendered, Rendered, Pending, Operation
  <2>5. CommandSound
    BY DEF MutationInv
  <2> QED
    BY <1>1, <2>1, <2>2, <2>3, <2>4, <2>5 DEF CommandSound
<1> QED
  BY <1>1, <1>2, <1>3, OnlyCommand DEF vars, MutationInv, PrivateSound

\* Every step keeps the invariant.
LEMMA MutationInvNext ==
  ASSUME MutationInv, [Next]_vars
  PROVE  MutationInv'
<1>1. CASE Start \/ Stop \/ PowerLoss \/ (\E i \in Operation : Fail(i))
           \/ (\E d \in Dist : EditConfig(d)) \/ UNCHANGED vars
  BY <1>1, StartStep, StopStep, PowerLossStep, FailStep, EditConfigStep, MutationInvStutter
<1>2. CASE Recover
  <2>1. CASE RecoverNone \/ Ready
    BY <2>1, RecoverNoneStep, ReadyStep
  <2>2. ASSUME NEW i \in Operation, TakeUpPlanned(i) \/ TakeUp(i) \/ Admit(i) \/ RollBack(i)
        PROVE  MutationInv'
    BY <2>2, TakeUpPlannedStep, TakeUpStep, AdmitStep, RollBackStep
  <2>3. ASSUME NEW i \in Operation,
               FinishUnapplied(i) \/ FinishUnbuilt(i) \/ Cleanup(i) \/ CleanupDone(i)
        PROVE  MutationInv'
    BY <2>3, FinishUnappliedStep, FinishUnbuiltStep, CleanupStep, CleanupDoneStep
  <2> QED
    BY <1>2, <2>1, <2>2, <2>3 DEF Recover
<1>3. CASE Begin
  <2>1. PICK D \in SUBSET Dist :
          Build(D) \/ \E p \in Package, skip \in BOOLEAN :
                        Add(D, {p}, skip) \/ Remove(D, {p}, skip)
    BY <1>3 DEF Begin
  <2>2. CASE Build(D)
    BY <2>2, BuildStep
  <2>3. ASSUME NEW p \in Package, NEW skip \in BOOLEAN, Add(D, {p}, skip) \/ Remove(D, {p}, skip)
        PROVE  MutationInv'
    <3>1. {p} \in SUBSET Package
      OBVIOUS
    <3> QED
      BY <2>3, <3>1, AddStep, RemoveStep
  <2> QED
    BY <2>1, <2>2, <2>3
<1>4. CASE Apply
  <2>1. ASSUME NEW i \in Operation,
               StageInputs(i) \/ RejectInputs(i) \/ WriteManifest(i) \/ BindManifest(i)
        PROVE  MutationInv'
    BY <2>1, StageInputsStep, RejectInputsStep, WriteManifestStep, BindManifestStep
  <2>2. ASSUME NEW i \in Operation,
               SetStaged(i) \/ ApplyDesiredMutation(i) \/ CompleteSkipped(i) \/ FinalizeNoopBuild(i)
        PROVE  MutationInv'
    BY <2>2, SetStagedStep, ApplyDesiredMutationStep, CompleteSkippedStep, FinalizeNoopBuildStep
  <2>3. ASSUME NEW i \in Operation, NEW p \in Package,
               LinkPendingObject(i, p) \/ InstallPendingObject(i, p) \/ RemoveDroppedPending(i, p)
        PROVE  MutationInv'
    BY <2>3, LinkPendingObjectStep, InstallPendingObjectStep, RemoveDroppedPendingStep
  <2> QED
    BY <1>4, <2>1, <2>2, <2>3 DEF Apply
<1>5. CASE BuildApplied
  <2>1. ASSUME NEW i \in Operation,
               BeginBuild(i) \/ PersistBuildPlan(i) \/ PlanTooLarge(i) \/ FreezeBuildPlan(i)
        PROVE  MutationInv'
    BY <2>1, BeginBuildStep, PersistBuildPlanStep, PlanTooLargeStep, FreezeBuildPlanStep
  <2>2. ASSUME NEW i \in Operation,
               LoadPlan(i) \/ SyncTargets(i) \/ SyncPending(i) \/ SetBuilt(i) \/ FinalizeBuild(i)
        PROVE  MutationInv'
    BY <2>2, LoadPlanStep, SyncTargetsStep, SyncPendingStep, SetBuiltStep, FinalizeBuildStep
  <2>3. ASSUME NEW i \in Operation, NEW d \in Dist, RenderDist(i, d) \/ ExchangeDist(i, d)
        PROVE  MutationInv'
    BY <2>3, RenderDistStep, ExchangeDistStep
  <2>4. ASSUME NEW i \in Operation, NEW p \in Package, LinkPayload(i, p) \/ UnlinkPending(i, p)
        PROVE  MutationInv'
    BY <2>4, LinkPayloadStep, UnlinkPendingStep
  <2> QED
    BY <1>5, <2>1, <2>2, <2>3, <2>4 DEF BuildApplied
<1> QED
  BY <1>1, <1>2, <1>3, <1>4, <1>5 DEF Next

\* Whatever commands are given, killed, cut off by a power loss or recovered,
\* and however sow.yml is edited meanwhile, the ledger, the store, the private
\* directories and the public tree stay in agreement.
THEOREM Invariance == Spec => []MutationInv
<1>1. Init => MutationInv
  BY MutationInvInit
<1>2. MutationInv /\ [Next]_vars => MutationInv'
  BY MutationInvNext
<1> QED
  BY <1>1, <1>2, PTL DEF Spec

-----------------------------------------------------------------------------
(* Safety *)

\* The pool holds the last generation, and public dists name nothing else.
LEMMA PoolServes ==
  ASSUME MutationInv
  PROVE  Built.pool \subseteq pool /\ ReaderClosure
<1>1. Typed /\ RowsSound /\ PublicSound
  BY DEF MutationInv
<1>2. CASE \A i \in Pending : ~Frozen(i)
  <2>1. Built.pool = pool /\ Built.live = live
    BY <1>1, <1>2, BuiltTyped DEF PublicSound
  <2> QED
    BY <1>1, <2>1 DEF ReaderClosure, RowsSound
<1>3. CASE \E i \in Pending : Frozen(i)
  <2>1. PICK i \in Pending : Frozen(i) /\ Plan(i)
    BY <1>1, <1>3 DEF PublicSound
  <2>2. Built.pool \subseteq pool
    BY <2>1 DEF Plan
  <2>3. ASSUME NEW d \in Dist
        PROVE  live[d].pkgs \subseteq pool
    <3>1. CASE live[d] = Built.live[d]
      BY <1>1, <2>2, <3>1 DEF RowsSound
    <3>2. CASE live[d] # Built.live[d]
      <4>1. d \in ops[i].buildDists /\ live[d].pkgs = memberships[d] /\ Promoted(i)
        <5>1. d \in ops[i].buildDists /\ live[d] = ops[i].tree[d]
          BY <2>1, <3>2 DEF Plan
        <5>2. ops[i].tree[d] = [by |-> i, pkgs |-> memberships[d], prior |-> Built.live[d].by]
          BY <2>1, <5>1 DEF Plan
        <5>3. live # Built.live
          BY <3>2
        <5>4. Promoted(i)
          BY <2>1, <5>3 DEF Plan
        <5> QED
          BY <5>1, <5>2, <5>4
      <4>2. ASSUME NEW p \in memberships[d]
            PROVE  p \in pool
        <5>1. objects[p] \in {"pending", "pool"} /\ p \in Package
          BY <1>1 DEF RowsSound, Typed, TypeOK
        <5>2. CASE objects[p] = "pool"
          BY <1>1, <2>2, <5>1, <5>2 DEF RowsSound
        <5>3. CASE objects[p] = "pending"
          BY <2>1, <4>1, <5>1, <5>3 DEF Plan, PlanPooled, Promoted
        <5> QED
          BY <5>1, <5>2, <5>3
      <4> QED
        BY <4>1, <4>2
    <3> QED
      BY <3>1, <3>2
  <2> QED
    BY <2>2, <2>3 DEF ReaderClosure
<1> QED
  BY <1>2, <1>3

\* A row has its bytes.
LEMMA RowsAvailable ==
  ASSUME MutationInv, NEW p \in Package, objects[p] # "none"
  PROVE  Available(p)
<1>1. objects[p] \in {"pending", "pool"}
  BY DEF MutationInv, Typed, TypeOK
<1>2. CASE objects[p] = "pending"
  <2>1. p \in pending \union pool
    BY <1>2 DEF MutationInv, RowsSound
  <2> QED
    BY <1>2, <2>1 DEF Available
<1>3. CASE objects[p] = "pool"
  <2>1. p \in pool
    BY <1>3, PoolServes DEF MutationInv, RowsSound
  <2> QED
    BY <1>3, <2>1 DEF Available
<1> QED
  BY <1>1, <1>2, <1>3

\* No payload that anybody owns is lost, and none is left without an owner.
LEMMA OwnersFound ==
  ASSUME MutationInv
  PROVE  PayloadOwned
<1>1. ASSUME NEW d \in Dist, NEW p \in memberships[d]
      PROVE  Available(p)
  <2>1. p \in Package /\ objects[p] # "none"
    BY DEF MutationInv, RowsSound, Typed, TypeOK
  <2> QED
    BY <2>1, RowsAvailable
<1>2. ASSUME NEW p \in pending, objects[p] # "pending"
      PROVE  \E i \in Operation :
               \/ i \in Pending /\ p \in ops[i].objects \union ops[i].dropped
               \/ p \in FailedPending(i)
  <2>1. \/ \E i \in Pending : p \in ops[i].objects \union ops[i].dropped
        \/ Len(ops) > 0 /\ p \in FailedPending(Len(ops))
    BY <1>2 DEF MutationInv, TracesSound
  <2>2. Len(ops) \in Nat
    BY DEF MutationInv, Typed, TypeOK
  <2>3. Pending \subseteq Operation /\ (Len(ops) > 0 => Len(ops) \in Operation)
    BY <2>2 DEF Pending, Operation
  <2> QED
    BY <2>1, <2>3
<1> QED
  BY <1>1, <1>2, RowsAvailable DEF PayloadOwned

\* With nothing open the public tree is the generation the ledger records.
LEMMA SettledHolds ==
  ASSUME MutationInv
  PROVE  Settled
<1>1. ASSUME Pending = {}
      PROVE  Public = Built /\ \A d \in Dist : live[d].pkgs = built[d].pkgs
  <2>1. Public = Built
    BY <1>1 DEF MutationInv, PublicSound
  <2>2. live = Built.live
    BY <2>1, BuiltTyped DEF MutationInv
  <2> QED
    BY <2>1, <2>2 DEF MutationInv, RowsSound
<1> QED
  BY <1>1 DEF Settled

\* Through kills, power losses and edits of sow.yml clients never read an
\* index that names a package the pool lacks, no payload that anybody owns is
\* lost, and no operation is closed before the public tree is the generation
\* the ledger records: for every set of dists and packages.
THEOREM MutationSafeHolds == Spec => []MutationSafe
<1>1. MutationInv => MutationSafe
  BY PoolServes, OwnersFound, SettledHolds DEF MutationSafe, MutationInv, Typed
<1> QED
  BY <1>1, Invariance, PTL

\* The dists a frozen or staged operation has to render are those its manifest
\* names, once sow.yml is what it was.
LEMMA ScopeFound ==
  ASSUME MutationInv, NEW i \in Pending, ops[i].state # "planned", config = ops[i].config,
         ~ops[i].skip
  PROVE  RequiredBuildDists(i) = ops[i].buildDists
<1>1. Prepared(i)
  BY DEF MutationInv, JournalSound, Journal
<1>2. /\ ops[i].buildDists \subseteq ops[i].dists
      /\ ops[i].buildDists = {d \in ops[i].dists : \/ ops[i].desired[d] # built[d].pkgs
                                                   \/ ops[i].config[d] # built[d].policy}
  BY <1>1 DEF Prepared, DistsNeedingBuild
<1> QED
  BY <1>2 DEF RequiredBuildDists

\* An operation whose manifest is bound can always be carried on once sow.yml
\* is what it was: recovery finds the manifest, the objects, the same build
\* scope, and each dist of a frozen plan either public or staged.
THEOREM RecoveryAdmittedHolds == Spec => []RecoveryAdmitted
<1>1. ASSUME MutationInv, pc.at = "idle", NEW i \in Pending, ops[i].state # "planned",
             config = ops[i].config
      PROVE  /\ Admitted(i)
             /\ ops[i].manifest = "frozen" =>
                  \A d \in ops[i].buildDists :
                    live[d] = ops[i].tree[d] \/ <<i, d, ops[i].tree[d]>> \in trees
  <2>1. Journal(i) /\ Prepared(i) /\ ops[i].manifest \in {"staged", "frozen"}
    BY <1>1, OnlyPending DEF MutationInv, JournalSound, Journal, OperationRecord
  <2>2. ManifestOf(i) \in stage
    BY <2>1 DEF Journal, Prepared, ManifestOf
  <2>3. ASSUME NEW p \in ops[i].objects
        PROVE  p \in pending \union pool \/ <<i, p>> \in staged
    <3>1. CASE ~ops[i].applied
      BY <1>1, <2>1, <3>1 DEF Journal, Unapplied
    <3>2. CASE ops[i].applied
      <4>1. objects[p] = "pending" /\ p \in Package
        BY <1>1, <2>1, <3>2, OnlyPending DEF Journal, Applied, MutationInv, OperationRecord
      <4> QED
        BY <1>1, <4>1 DEF MutationInv, RowsSound
    <3> QED
      BY <3>1, <3>2
  <2>4. ~ops[i].skip => RequiredBuildDists(i) = ops[i].buildDists
    BY <1>1, ScopeFound
  <2>5. Admitted(i)
    BY <1>1, <2>2, <2>3, <2>4 DEF Admitted
  <2>6. ops[i].manifest = "frozen" => Plan(i)
    BY <1>1 DEF MutationInv, PublicSound, Frozen
  <2> QED
    BY <2>5, <2>6 DEF Plan
<1>2. MutationInv => RecoveryAdmitted
  BY <1>1 DEF RecoveryAdmitted
<1> QED
  BY <1>2, Invariance, PTL

-----------------------------------------------------------------------------
(* The contract *)

Shown == [d \in Dist |-> live[d].pkgs]

\* Seen from outside nothing happens.
Silent == memberships' = memberships /\ Shown' = Shown /\ Owed' = Owed

\* Without a frozen plan nothing is owed.
LEMMA OwesNothing ==
  ASSUME Typed, NEW i \in Pending, ops[i].manifest # "frozen"
  PROVE  Owed = {}
<1>1. Pending = {i}
  BY OnlyPending
<1> QED
  BY <1>1 DEF Owed

\* The steps between which no plan is frozen.
Calm == Closing \union Rendering \union
          {"tidy", "ready", "rollback", "stage", "manifest", "bind", "bound"}

LEMMA CalmOwesNothing == MutationInv /\ pc.at \in Calm => Owed = {}
<1> SUFFICES ASSUME MutationInv, pc.at \in Calm, NEW i \in Pending, ops[i].manifest = "frozen"
             PROVE  FALSE
  BY DEF Owed
<1>1. CommandSound /\ Journal(i)
  BY DEF MutationInv, JournalSound
<1>2. pc.at \notin Closing \union {"tidy", "ready"}
  BY <1>1 DEF CommandSound
<1>3. pc.op = i
  BY <1>1, <1>2, OnlyPending
     DEF MutationInv, Calm, CommandSound, Step, Between, Closing, Rendering
<1>4. ops[i].state # "planned"
  BY <1>1 DEF Journal
<1> QED
  BY <1>1, <1>2, <1>3, <1>4 DEF Calm, CommandSound, Drafted, Rendering

LEMMA CalmOwesNothingNext == (MutationInv /\ pc.at \in Calm => Owed = {})'
  BY CalmOwesNothing, PTL

\* Neither before nor after the step anything is owed.
LEMMA QuietStep ==
  ASSUME UNCHANGED <<memberships, live>>, Owed = {}, Owed' = {}
  PROVE  Silent
  BY DEF Silent, Shown

\* Steps that leave the ledger and the public tree alone.
LEMMA SilentSteps ==
  ASSUME \/ Start \/ RecoverNone \/ Ready \/ Stop \/ PowerLoss \/ UNCHANGED vars
         \/ \E d \in Dist : EditConfig(d)
         \/ \E i \in Operation : \/ TakeUpPlanned(i) \/ Admit(i) \/ StageInputs(i)
                                 \/ PersistBuildPlan(i) \/ LoadPlan(i) \/ SyncTargets(i)
                                 \/ SyncPending(i)
         \/ \E i \in Operation, p \in Package :
              \/ LinkPendingObject(i, p) \/ InstallPendingObject(i, p)
              \/ RemoveDroppedPending(i, p) \/ LinkPayload(i, p) \/ UnlinkPending(i, p)
         \/ \E i \in Operation, d \in Dist : RenderDist(i, d)
  PROVE  Silent
<1>1. UNCHANGED <<memberships, live, ops>>
  BY DEF Start, RecoverNone, Ready, Stop, PowerLoss, EditConfig, TakeUpPlanned, Admit, StageInputs,
         PersistBuildPlan, LoadPlan, SyncTargets, SyncPending, LinkPendingObject,
         InstallPendingObject, RemoveDroppedPending, LinkPayload, UnlinkPending, RenderDist,
         vars, ledger
<1> QED
  BY <1>1 DEF Silent, Shown, Owed, Pending, Operation

\* An open operation goes on with what it was bound to.
LEMMA OnwardSilent ==
  ASSUME MutationInv, NEW i \in Operation, TakeUp(i) \/ SetStaged(i) \/ SetBuilt(i)
  PROVE  Silent
<1>1. UNCHANGED <<memberships, live>>
  BY DEF TakeUp, SetStaged, SetBuilt, ledger
<1>2. i \in Pending
  BY DEF TakeUp, SetStaged, SetBuilt, At, MutationInv, CommandSound, Step, Between, Closing
<1>3. PICK s \in {"recovering", "staged", "built"} : SetState(i, s)
  BY DEF TakeUp, SetStaged, SetBuilt
<1>4. Typed /\ i \in 1 .. Len(ops) /\ Pending = {i} /\ s \notin Terminal
  BY <1>2, <1>3, OnlyPending DEF MutationInv, Terminal
<1>5. Pending' = {i} /\ SameScope(i) /\ SamePlan(i) /\ ops'[i].manifest = ops[i].manifest
  BY <1>3, <1>4, StateSet
<1> QED
  BY <1>1, <1>4, <1>5 DEF Silent, Shown, Owed, SameScope, SamePlan

\* A plan that is carried out owes nothing more.
LEMMA PlacedOwesNothing ==
  ASSUME MutationInv, pc.at = "finalize"
  PROVE  Owed = {}
<1>1. pc.op \in Pending /\ \A d \in ops[pc.op].buildDists : live[d] = ops[pc.op].tree[d]
  BY DEF MutationInv, CommandSound, Step, Between, Closing
<1>2. Pending = {pc.op}
  BY <1>1, OnlyPending DEF MutationInv
<1> QED
  BY <1>1, <1>2 DEF Owed

\* An operation is closed.
LEMMA CloseSilent ==
  ASSUME MutationInv, MutationInv', NEW i \in Operation,
         \/ FinishUnapplied(i) \/ FinishUnbuilt(i) \/ RejectInputs(i) \/ Fail(i)
         \/ CompleteSkipped(i) \/ FinalizeNoopBuild(i) \/ PlanTooLarge(i) \/ FinalizeBuild(i)
  PROVE  Silent
<1>1. UNCHANGED <<memberships, live>>
  BY DEF FinishUnapplied, FinishUnbuilt, RejectInputs, Fail, CompleteSkipped, FinalizeNoopBuild,
         PlanTooLarge, FinalizeBuild, ledger
<1>2. PICK s \in Closing : Go(s)
  BY DEF FinishUnapplied, FinishUnbuilt, RejectInputs, Fail, CompleteSkipped, FinalizeNoopBuild,
         PlanTooLarge, FinalizeBuild, Closing
<1>3. pc'.at \in Calm
  <2>1. Typed /\ s \in Step
    BY DEF MutationInv, Closing, Step
  <2> QED
    BY <1>2, <2>1, Moved DEF Calm
<1>4. Owed' = {}
  BY <1>3, CalmOwesNothingNext
<1>5. Owed = {}
  <2>1. CASE FinalizeBuild(i)
    BY <2>1, PlacedOwesNothing DEF FinalizeBuild, At
  <2>2. CASE ~FinalizeBuild(i)
    <3>1. pc.op = i /\ pc.at \in {"admit", "stage", "manifest", "bind", "bound", "install", "drop",
                                  "render"}
      BY <2>2 DEF FinishUnapplied, FinishUnbuilt, Unbuildable, RejectInputs, Fail, CompleteSkipped,
                  FinalizeNoopBuild, PlanTooLarge, At
    <3>2. i \in Pending /\ Journal(i) /\ Typed
      BY <3>1 DEF MutationInv, JournalSound, CommandSound, Step, Between, Closing
    <3>3. CASE pc.at \in Calm
      BY <3>3, CalmOwesNothing
    <3>4. CASE FinishUnapplied(i) \/ FinishUnbuilt(i)
      <4>1. ops[i].manifest = "staged"
        BY <3>4 DEF FinishUnapplied, FinishUnbuilt, Unbuildable
      <4> QED
        BY <3>2, <4>1, OwesNothing
    <3>5. CASE Fail(i)
      <4>1. ops[i].state \in {"planned", "staged"}
        BY <3>5 DEF Fail
      <4> QED
        BY <3>2, <4>1, OwesNothing DEF Journal
    <3>6. CASE CompleteSkipped(i) \/ FinalizeNoopBuild(i)
      <4>1. ops[i].skip \/ ops[i].buildDists = {}
        BY <3>6 DEF CompleteSkipped, FinalizeNoopBuild
      <4> QED
        BY <3>2, <4>1, OwesNothing DEF Journal
    <3>7. CASE RejectInputs(i) \/ PlanTooLarge(i)
      BY <3>3, <3>7 DEF RejectInputs, PlanTooLarge, At, Calm, Rendering
    <3> QED
      BY <2>2, <3>4, <3>5, <3>6, <3>7
  <2> QED
    BY <2>1, <2>2
<1> QED
  BY <1>1, <1>4, <1>5, QuietStep

\* An operation is begun and planned, and what a closed one left is removed.
LEMMA CalmSilent ==
  ASSUME MutationInv, MutationInv',
         \/ Begin
         \/ \E i \in Operation : Cleanup(i) \/ WriteManifest(i) \/ BindManifest(i)
  PROVE  Silent
<1>1. UNCHANGED <<memberships, live>>
  BY DEF Begin, Build, Add, Remove, BeginOperation, Cleanup, RemoveStageEntry, RemoveFailedPending,
         WriteManifest, BindManifest, ledger
<1>2. pc.at \in Calm /\ pc'.at \in Calm
  <2>1. CASE Begin
    <3>1. \E r : BeginOperation(r)
      BY <2>1 DEF Begin, Build, Add, Remove
    <3>2. pc.at = "ready" /\ pc'.at = "stage"
      BY <3>1 DEF BeginOperation
    <3> QED
      BY <3>2 DEF Calm
  <2>2. CASE \E i \in Operation : Cleanup(i)
    BY <2>2 DEF Cleanup, RemoveStageEntry, RemoveFailedPending, Calm, Closing
  <2>3. CASE \E i \in Operation : WriteManifest(i) \/ BindManifest(i)
    <3>1. Typed /\ {"bind", "bound"} \subseteq Step
      BY DEF MutationInv, Step
    <3>2. PICK s \in {"bind", "bound"} : Go(s)
      BY <2>3 DEF WriteManifest, BindManifest
    <3>3. pc'.at = s
      BY <3>1, <3>2, Moved
    <3> QED
      BY <2>3, <3>2, <3>3 DEF WriteManifest, BindManifest, At, Calm
  <2> QED
    BY <2>1, <2>2, <2>3
<1> QED
  BY <1>1, <1>2, CalmOwesNothing, CalmOwesNothingNext, QuietStep

\* The directory of a closed operation is gone, or an open one is undone.
LEMMA EndSilent ==
  ASSUME MutationInv, NEW i \in Operation, CleanupDone(i) \/ RollBack(i)
  PROVE  Silent
<1>1. UNCHANGED <<memberships, live>>
  BY DEF CleanupDone, RollBack, ledger
<1>2. pc.at \in Calm /\ pc.op = i
  BY DEF CleanupDone, RollBack, At, Calm, Closing
<1>3. Typed /\ i \in 1 .. Len(ops) /\ Pending \subseteq {i} /\ ops[i] \in OperationRecord
  <2>1. i = Len(ops)
    BY <1>2, OnlyPending DEF CleanupDone, RollBack, At, MutationInv, CommandSound, Step, Between,
                             Closing
  <2> QED
    BY <2>1, OpTyped DEF MutationInv, Typed, Operation
<1>4. Pending' = {}
  <2>1. Forgotten(ops[i]) \in OperationRecord /\ Forgotten(ops[i]).state = ops[i].state
    BY <1>3, ForgottenTyped
  <2>2. CASE CleanupDone(i)
    <3>1. ops[i].state \in Terminal
      BY <2>2 DEF CleanupDone, MutationInv, CommandSound, Closing, Pending
    <3>2. ops' = [ops EXCEPT ![i] = Forgotten(ops[i])]
      BY <2>2 DEF CleanupDone
    <3> QED
      BY <1>3, <2>1, <3>1, <3>2, Updated
  <2>3. CASE RollBack(i)
    <3>1. PICK r : r = [Forgotten(ops[i]) EXCEPT !.state = "rolled_back"]
      OBVIOUS
    <3>2. r \in OperationRecord /\ r.state \in Terminal
      BY <2>1, <3>1 DEF OperationRecord, Terminal
    <3>3. ops' = [ops EXCEPT ![i] = r]
      BY <2>3, <3>1 DEF RollBack
    <3> QED
      BY <1>3, <3>2, <3>3, Updated
  <2> QED
    BY <2>2, <2>3
<1>5. Owed' = {}
  BY <1>4 DEF Owed
<1> QED
  BY <1>1, <1>2, <1>5, CalmOwesNothing, QuietStep

\* A build takes up its frozen plan, or renders the dists afresh.
LEMMA BeginBuildSilent ==
  ASSUME MutationInv, MutationInv', NEW i \in Operation, BeginBuild(i)
  PROVE  Silent
<1>1. UNCHANGED <<memberships, live>>
  BY DEF BeginBuild, ledger
<1>2. CASE ops[i].manifest = "frozen"
  <2>1. ops' = ops
    BY <1>2 DEF BeginBuild
  <2> QED
    BY <1>1, <2>1 DEF Silent, Shown, Owed, Pending, Operation
<1>3. CASE ops[i].manifest # "frozen"
  <2>1. Go("render") /\ Typed /\ "render" \in Step
    BY <1>3 DEF BeginBuild, MutationInv, Step
  <2>2. pc'.at \in Calm
    BY <2>1, Moved DEF Calm, Rendering
  <2>3. i \in Pending
    BY DEF BeginBuild, At, MutationInv, CommandSound, Step, Between, Closing
  <2>4. Owed = {} /\ Owed' = {}
    BY <1>3, <2>1, <2>2, <2>3, OwesNothing, CalmOwesNothingNext
  <2> QED
    BY <1>1, <2>4, QuietStep
<1> QED
  BY <1>2, <1>3

\* Desired is applied for the first time, or once more by recovery.
LEMMA ApplyDecides ==
  ASSUME MutationInv, MutationInv', NEW i \in Operation, ApplyDesiredMutation(i)
  PROVE  Silent \/ Contract!Decide
<1>1. i \in Pending /\ Typed /\ Journal(i)
  BY DEF ApplyDesiredMutation, At, MutationInv, JournalSound, CommandSound, Step, Between, Closing
<1>2. i \in 1 .. Len(ops) /\ Pending = {i} /\ ops[i] \in OperationRecord
  BY <1>1, OnlyPending
<1>3. /\ memberships' = [d \in Dist |-> IF d \in ops[i].dists THEN ops[i].desired[d]
                                        ELSE memberships[d]]
      /\ live' = live
  BY DEF ApplyDesiredMutation
<1>4. PICK dropped : ops' = [ops EXCEPT ![i].state = "applied", ![i].applied = TRUE,
                                        ![i].dropped = @ \union dropped]
  BY DEF ApplyDesiredMutation
<1>5. PICK r : r = [ops[i] EXCEPT !.state = "applied", !.applied = TRUE,
                                  !.dropped = @ \union dropped]
  OBVIOUS
<1>6. ops' = [ops EXCEPT ![i] = r]
  BY <1>4, <1>5
<1>7. r.manifest = ops[i].manifest /\ r.buildDists = ops[i].buildDists /\ r.tree = ops[i].tree
      /\ r.state = "applied"
  BY <1>2, <1>5 DEF OperationRecord
<1>8. ops \in Seq(OperationRecord)
  BY <1>1 DEF Typed, TypeOK
<1>9. ops'[i] = r /\ Len(ops') = Len(ops) /\ \A j \in 1 .. Len(ops) : j # i => ops'[j] = ops[j]
  BY <1>2, <1>6, <1>8
<1>10. Pending' = {i}
  BY <1>2, <1>7, <1>9 DEF Pending, Operation, Terminal
<1>11. Owed' = Owed
  BY <1>2, <1>3, <1>7, <1>9, <1>10 DEF Owed
<1>12. Shown' = Shown
  BY <1>3 DEF Shown
<1>13. CASE ops[i].manifest = "frozen"
  <2>1. \A d \in ops[i].dists : memberships[d] = ops[i].desired[d]
    BY <1>1, <1>13 DEF Journal, Applied
  <2>2. memberships \in [Dist -> SUBSET Package]
    BY <1>1 DEF Typed, TypeOK
  <2>3. memberships' = memberships
    BY <1>3, <2>1, <2>2
  <2> QED
    BY <1>11, <1>12, <2>3 DEF Silent
<1>14. CASE ops[i].manifest # "frozen"
  <2>1. Owed = {}
    BY <1>1, <1>14, OwesNothing
  <2>2. memberships' \in [Dist -> SUBSET Package]
    BY DEF MutationInv, Typed, TypeOK
  <2> QED
    BY <1>11, <1>12, <2>1, <2>2 DEF Contract!Decide, Shown
<1> QED
  BY <1>13, <1>14

\* The plan is frozen: its dists are owed from now on.
LEMMA FreezeCommits ==
  ASSUME MutationInv, NEW i \in Operation, FreezeBuildPlan(i)
  PROVE  Contract!Commit
<1>1. Owed = {}
  BY CalmOwesNothing DEF FreezeBuildPlan, At, Calm, Rendering
<1>2. memberships' = memberships /\ live' = live
  BY DEF FreezeBuildPlan, ledger
<1>3. Owed' \in SUBSET Dist
  BY DEF Owed
<1> QED
  BY <1>1, <1>2, <1>3 DEF Contract!Commit

\* Clients see a dist of the plan, exactly as it was decided.
LEMMA ExchangeShows ==
  ASSUME MutationInv, NEW i \in Operation, NEW d \in Dist, ExchangeDist(i, d)
  PROVE  Contract!Show(d)
<1>1. /\ pc.at \in Placing /\ pc.op = i /\ d \in ops[i].buildDists /\ live[d] # ops[i].tree[d]
      /\ live' = [live EXCEPT ![d] = ops[i].tree[d]] /\ ops' = ops /\ memberships' = memberships
  BY DEF ExchangeDist, At, Placing, ledger
<1>2. i \in Pending /\ ops[i].manifest = "frozen"
  BY <1>1, PlacingFacts
<1>3. Pending = {i} /\ Plan(i) /\ Typed
  BY <1>2, FrozenFacts
<1>4. live \in [Dist -> Tree]
  BY <1>3 DEF Typed, TypeOK
<1>5. ops[i].tree[d] = [by |-> i, pkgs |-> memberships[d], prior |-> Built.live[d].by]
  BY <1>1, <1>3 DEF Plan
<1>6. ops[i].tree[d].pkgs = memberships[d]
  BY <1>5
<1>7. live'[d] = ops[i].tree[d] /\ \A e \in Dist : e # d => live'[e] = live[e]
  BY <1>1, <1>4
<1>8. Pending' = {i}
  BY <1>1, <1>3 DEF Pending, Operation
<1>9. Owed = {e \in Dist : e \in ops[i].buildDists /\ live[e] # ops[i].tree[e]}
  BY <1>2, <1>3 DEF Owed
<1>10. Owed' = {e \in Dist : e \in ops[i].buildDists /\ live'[e] # ops[i].tree[e]}
  BY <1>1, <1>2, <1>8 DEF Owed
<1>11. d \in Owed /\ Owed' = Owed \ {d}
  BY <1>1, <1>7, <1>9, <1>10
<1>12. Shown' = [Shown EXCEPT ![d] = memberships[d]]
  BY <1>6, <1>7 DEF Shown
<1> QED
  BY <1>1, <1>11, <1>12 DEF Contract!Show, Shown

\* Seen from outside, decisions are never taken back, a dist changes in one
\* step to what is then desired, and once the dists of a build begin to change
\* all of them do before anything else is decided, whatever is interrupted.
THEOREM MutationContractHolds == Spec => ContractKept
<1>1. Init => Contract!Init
  BY DEF Init, Contract!Init, Owed, Pending, Operation, EmptyTree
<1>2. ASSUME MutationInv, MutationInv', [Next]_vars
      PROVE  [Contract!Next]_<<memberships, Shown, Owed>>
  <2>1. CASE \/ Start \/ Recover \/ Begin \/ (\E i \in Operation : Fail(i)) \/ Stop \/ PowerLoss
             \/ (\E d \in Dist : EditConfig(d)) \/ UNCHANGED vars
    <3>1. Silent
      BY <1>2, <2>1, SilentSteps, OnwardSilent, CloseSilent, CalmSilent, EndSilent DEF Recover
    <3> QED
      BY <3>1 DEF Silent
  <2>2. CASE Apply
    <3>1. Silent \/ Contract!Decide
      BY <1>2, <2>2, SilentSteps, OnwardSilent, CloseSilent, CalmSilent, ApplyDecides DEF Apply
    <3> QED
      BY <3>1 DEF Silent, Contract!Next
  <2>3. CASE BuildApplied
    <3>1. Silent \/ Contract!Commit \/ \E d \in Dist : Contract!Show(d)
      BY <1>2, <2>3, SilentSteps, OnwardSilent, CloseSilent, BeginBuildSilent, FreezeCommits,
         ExchangeShows DEF BuildApplied
    <3> QED
      BY <3>1 DEF Silent, Contract!Next
  <2> QED
    BY <1>2, <2>1, <2>2, <2>3 DEF Next
<1> QED
  BY <1>1, <1>2, Invariance, PTL DEF Spec, ContractKept, Contract!Spec, Shown

-----------------------------------------------------------------------------
(* rm --check *)

\* No row but j changes, and j is done only if it was.
LEMMA OneRow ==
  ASSUME Typed, NEW j \in 1 .. Len(ops), NEW r, ops' = [ops EXCEPT ![j] = r],
         NEW i \in Operation, ops[i].state # "done", ops'[i].state = "done"
  PROVE  i = j /\ r.state = "done"
<1>1. ops \in Seq(OperationRecord) /\ i \in 1 .. Len(ops)
  BY DEF Typed, TypeOK, Operation
<1>2. ops'[i] = IF i = j THEN r ELSE ops[i]
  BY <1>1
<1> QED
  BY <1>2

\* A step that does not touch the ledger's rows, or appends one, ends nothing.
LEMMA RowsKept ==
  ASSUME MutationInv, NEW i \in Operation, ops[i].state # "done",
         \/ ops' = ops
         \/ Begin
  PROVE  ops'[i].state # "done"
<1>1. CASE ops' = ops
  BY <1>1
<1>2. CASE Begin
  <2>1. PICK r : ops' = Append(ops, r)
    BY <1>2 DEF Begin, Build, Add, Remove, BeginOperation
  <2>2. ops \in Seq(OperationRecord) /\ i \in 1 .. Len(ops)
    BY DEF MutationInv, Typed, TypeOK, Operation
  <2>3. ops'[i] = ops[i]
    BY <2>1, <2>2
  <2> QED
    BY <2>3
<1> QED
  BY <1>1, <1>2

\* SetState ends an operation with "done" only if that is what it sets.
LEMMA StateSetEnds ==
  ASSUME MutationInv, NEW i \in Operation, NEW j \in Operation, ops[i].state # "done",
         NEW s, SetState(j, s), ops'[i].state = "done"
  PROVE  i = j /\ s = "done"
<1>1. Typed /\ j \in 1 .. Len(ops) /\ ops[j] \in OperationRecord
  BY OpTyped DEF MutationInv, Typed, Operation
<1>2. PICK r : r = [ops[j] EXCEPT !.state = s]
  OBVIOUS
<1>3. r.state = s
  BY <1>1, <1>2 DEF OperationRecord
<1>4. ops' = [ops EXCEPT ![j] = r]
  BY <1>2 DEF SetState
<1> QED
  BY <1>1, <1>3, <1>4, OneRow

\* Steps that change a row without ending its operation.
LEMMA RowGoesOn ==
  ASSUME MutationInv, NEW i \in Operation, NEW j \in Operation, ops[i].state # "done",
         \/ WriteManifest(j) \/ BindManifest(j) \/ ApplyDesiredMutation(j)
         \/ FreezeBuildPlan(j) \/ BeginBuild(j)
         \/ Cleanup(j) \/ CleanupDone(j) \/ RollBack(j)
  PROVE  ops'[i].state # "done"
<1>1. Typed /\ j \in 1 .. Len(ops) /\ ops[j] \in OperationRecord
  BY OpTyped DEF MutationInv, Typed, Operation
<1>2. ASSUME NEW r, ops' = [ops EXCEPT ![j] = r], r.state \in {ops[j].state, "applied", "rolled_back"}
      PROVE  ops'[i].state # "done"
  BY <1>1, <1>2, OneRow
<1>3. CASE WriteManifest(j)
  <2>1. Planned(j).state = ops[j].state
    BY <1>1 DEF Planned, OperationRecord
  <2> QED
    BY <1>2, <1>3, <2>1 DEF WriteManifest
<1>4. CASE BindManifest(j)
  <2>1. PICK r : r = [ops[j] EXCEPT !.manifest = "staged"]
    OBVIOUS
  <2>2. r.state = ops[j].state
    BY <1>1, <2>1 DEF OperationRecord
  <2>3. ops' = [ops EXCEPT ![j] = r]
    BY <1>4, <2>1 DEF BindManifest
  <2> QED
    BY <1>2, <2>2, <2>3
<1>5. CASE ApplyDesiredMutation(j)
  <2>1. PICK dropped : ops' = [ops EXCEPT ![j].state = "applied", ![j].applied = TRUE,
                                          ![j].dropped = @ \union dropped]
    BY <1>5 DEF ApplyDesiredMutation
  <2>2. PICK r : r = [ops[j] EXCEPT !.state = "applied", !.applied = TRUE,
                                    !.dropped = @ \union dropped]
    OBVIOUS
  <2>3. r.state = "applied"
    BY <1>1, <2>2 DEF OperationRecord
  <2>4. ops' = [ops EXCEPT ![j] = r]
    BY <2>1, <2>2
  <2> QED
    BY <1>2, <2>3, <2>4
<1>6. CASE FreezeBuildPlan(j)
  <2>1. PICK t : t = [d \in Dist |-> IF d \in ops[j].buildDists THEN Rendered(j, d) ELSE EmptyTree]
    OBVIOUS
  <2>2. PICK r : r = [ops[j] EXCEPT !.manifest = "frozen", !.tree = t, !.pooled = PlanPooled(j),
                                    !.base = Public]
    OBVIOUS
  <2>3. r.state = ops[j].state
    BY <1>1, <2>2 DEF OperationRecord
  <2>4. ops' = [ops EXCEPT ![j] = r]
    BY <1>6, <2>1, <2>2 DEF FreezeBuildPlan
  <2> QED
    BY <1>2, <2>3, <2>4
<1>7. CASE BeginBuild(j)
  <2>1. PICK r : r = [ops[j] EXCEPT !.rendering = TRUE]
    OBVIOUS
  <2>2. r.state = ops[j].state
    BY <1>1, <2>1 DEF OperationRecord
  <2>3. ops' = ops \/ ops' = [ops EXCEPT ![j] = r]
    BY <1>7, <2>1 DEF BeginBuild
  <2> QED
    BY <1>2, <2>2, <2>3
<1>8. /\ Forgotten(ops[j]).state = ops[j].state /\ Forgotten(ops[j]) \in OperationRecord
      /\ WithoutManifest(ops[j]).state = ops[j].state
  BY <1>1, ForgottenTyped
<1>9. CASE Cleanup(j)
  <2>1. \/ ops' = ops
        \/ ops' = [ops EXCEPT ![j] = Forgotten(ops[j])]
        \/ ops' = [ops EXCEPT ![j] = WithoutManifest(ops[j])]
    BY <1>9 DEF Cleanup, RemoveStageEntry, RemoveFailedPending
  <2> QED
    BY <1>2, <1>8, <2>1
<1>10. CASE CleanupDone(j)
  BY <1>2, <1>8, <1>10 DEF CleanupDone
<1>11. CASE RollBack(j)
  <2>1. PICK r : r = [Forgotten(ops[j]) EXCEPT !.state = "rolled_back"]
    OBVIOUS
  <2>2. r.state = "rolled_back"
    BY <1>8, <2>1 DEF OperationRecord
  <2>3. ops' = [ops EXCEPT ![j] = r]
    BY <1>11, <2>1 DEF RollBack
  <2> QED
    BY <1>2, <2>2, <2>3
<1> QED
  BY <1>3, <1>4, <1>5, <1>6, <1>7, <1>9, <1>10, <1>11

\* An operation without --skip is done when its build is finalized, and
\* nowhere else.
LEMMA DoneByBuild ==
  ASSUME MutationInv, [Next]_vars, NEW i \in Operation, ~ops[i].skip, ops[i].state # "done",
         ops'[i].state = "done"
  PROVE  FinalizeNoopBuild(i) \/ FinalizeBuild(i)
<1>1. CASE Start \/ Stop \/ PowerLoss \/ UNCHANGED vars \/ RecoverNone \/ Ready
           \/ \E d \in Dist : EditConfig(d)
  <2>1. ops' = ops
    BY <1>1 DEF Start, Stop, PowerLoss, vars, RecoverNone, Ready, EditConfig
  <2> QED
    BY <2>1, RowsKept
<1>2. CASE Begin
  BY <1>2, RowsKept
<1>3. ASSUME NEW j \in Operation,
             \/ TakeUpPlanned(j) \/ Admit(j) \/ StageInputs(j) \/ PersistBuildPlan(j) \/ LoadPlan(j)
             \/ SyncTargets(j) \/ SyncPending(j)
             \/ \E p \in Package :
                  \/ LinkPendingObject(j, p) \/ InstallPendingObject(j, p)
                  \/ RemoveDroppedPending(j, p) \/ LinkPayload(j, p) \/ UnlinkPending(j, p)
             \/ \E d \in Dist : RenderDist(j, d) \/ ExchangeDist(j, d)
      PROVE  FALSE
  <2>1. ops' = ops
    BY <1>3 DEF TakeUpPlanned, Admit, StageInputs, PersistBuildPlan, LoadPlan, SyncTargets,
                SyncPending, LinkPendingObject, InstallPendingObject, RemoveDroppedPending,
                LinkPayload, UnlinkPending, RenderDist, ExchangeDist
  <2> QED
    BY <2>1, RowsKept
<1>4. ASSUME NEW j \in Operation,
             \/ WriteManifest(j) \/ BindManifest(j) \/ ApplyDesiredMutation(j)
             \/ FreezeBuildPlan(j) \/ BeginBuild(j)
             \/ Cleanup(j) \/ CleanupDone(j) \/ RollBack(j)
      PROVE  FALSE
  BY <1>4, RowGoesOn
<1>5. ASSUME NEW j \in Operation,
             \/ TakeUp(j) \/ FinishUnapplied(j) \/ FinishUnbuilt(j) \/ RejectInputs(j)
             \/ SetStaged(j) \/ PlanTooLarge(j) \/ SetBuilt(j) \/ Fail(j)
      PROVE  FALSE
  <2>1. PICK s \in {"recovering", "failed", "done_dirty", "staged", "built"} : SetState(j, s)
    BY <1>5 DEF TakeUp, FinishUnapplied, FinishUnbuilt, RejectInputs, SetStaged, PlanTooLarge,
                SetBuilt, Fail
  <2> QED
    BY <2>1, StateSetEnds
<1>6. ASSUME NEW j \in Operation,
             CompleteSkipped(j) \/ FinalizeNoopBuild(j) \/ FinalizeBuild(j)
      PROVE  FinalizeNoopBuild(i) \/ FinalizeBuild(i)
  <2>1. PICK s : SetState(j, s)
    BY <1>6 DEF CompleteSkipped, FinalizeNoopBuild, FinalizeBuild
  <2>2. i = j
    BY <2>1, StateSetEnds
  <2> QED
    BY <1>6, <2>2 DEF CompleteSkipped
<1>7. CASE Recover
  BY <1>1, <1>3, <1>4, <1>5, <1>7 DEF Recover
<1>8. CASE Apply
  BY <1>3, <1>4, <1>5, <1>6, <1>8 DEF Apply
<1>9. CASE BuildApplied
  BY <1>3, <1>4, <1>5, <1>6, <1>9 DEF BuildApplied
<1> QED
  BY <1>1, <1>2, <1>5, <1>7, <1>8, <1>9 DEF Next

\* What is public and how dirty the repository is, after the step that ended i.
Outcome(i) ==
  [public |-> Public', dirty |-> \E d \in Dist : \/ memberships'[d] # built'[d].pkgs
                                                 \/ ops[i].config[d] # built'[d].policy]

\* A removal with nothing to render changes nothing public.
LEMMA NoopForetold ==
  ASSUME MutationInv, NEW i \in Operation, FinalizeNoopBuild(i)
  PROVE  PreviewRemove(i) = Outcome(i)
<1>1. i \in Pending /\ ops[i].state = "applied"
  BY DEF FinalizeNoopBuild, At, MutationInv, CommandSound, Step, Between, Closing
<1>2. Prepared(i) /\ Applied(i) /\ Typed
  BY <1>1 DEF MutationInv, JournalSound, Journal
<1>3. ops[i].base = Public /\ ops[i].buildDists = {}
  BY <1>2 DEF FinalizeNoopBuild, Prepared
<1>4. ops[i].base.live = live /\ ops[i].base.pool = pool /\ live \in [Dist -> Tree]
  BY <1>2, <1>3, BuiltTyped DEF Typed, TypeOK
<1>5. /\ live' = live /\ pool' = pool /\ memberships' = memberships /\ built' = built
  BY DEF FinalizeNoopBuild, ledger, store
<1>6. PreviewChanges(i) = Public'
  <2>1. [d \in Dist |-> IF d \in ops[i].buildDists THEN PreviewTree(i, d)
                        ELSE ops[i].base.live[d]] = live
    BY <1>3, <1>4
  <2>2. ops[i].base.pool \union
          {p \in UNION {ops[i].desired[d] : d \in ops[i].buildDists} : objects[p] = "pending"} = pool
    BY <1>3, <1>4
  <2> QED
    BY <1>5, <2>1, <2>2 DEF PreviewChanges, Public
<1>7. PredictedDirty(i) = \E d \in Dist : \/ memberships'[d] # built'[d].pkgs
                                          \/ ops[i].config[d] # built'[d].policy
  BY <1>2, <1>3, <1>5 DEF PredictedDirty, Applied
<1> QED
  BY <1>6, <1>7 DEF PreviewRemove, Outcome

\* A removal that is built makes the tree and the pool it announced.
LEMMA BuildForetold ==
  ASSUME MutationInv, NEW i \in Operation, FinalizeBuild(i)
  PROVE  PreviewRemove(i) = Outcome(i)
<1>1. /\ i \in Pending /\ ops[i].manifest = "frozen" /\ Promoted(i)
      /\ \A d \in ops[i].buildDists : live[d] = ops[i].tree[d]
  BY DEF FinalizeBuild, At, MutationInv, CommandSound, Step, Between, Closing
<1>2. /\ Plan(i) /\ Prepared(i) /\ Applied(i) /\ Typed /\ ops[i] \in OperationRecord
      /\ ops[i].buildDists \subseteq Dist
  BY <1>1, FrozenFacts
<1>3. ops[i].base = Built /\ ops[i].buildDists \subseteq ops[i].dists
  BY <1>2 DEF Prepared
<1>4. \A d \in ops[i].buildDists : memberships[d] = ops[i].desired[d]
  BY <1>2, <1>3 DEF Applied
<1>5. live \in [Dist -> Tree] /\ live' = live /\ pool' = pool /\ memberships' = memberships
  BY <1>2 DEF Typed, TypeOK, FinalizeBuild, store
<1>6. PreviewChanges(i) = Public'
  <2>1. ASSUME NEW d \in Dist
        PROVE  live[d] = IF d \in ops[i].buildDists THEN PreviewTree(i, d) ELSE ops[i].base.live[d]
    <3>1. CASE d \in ops[i].buildDists
      <4>1. live[d] = [by |-> i, pkgs |-> memberships[d], prior |-> Built.live[d].by]
        BY <1>1, <1>2, <3>1 DEF Plan
      <4> QED
        BY <1>3, <1>4, <3>1, <4>1 DEF PreviewTree
    <3>2. CASE d \notin ops[i].buildDists
      BY <1>2, <1>3, <3>2 DEF Plan
    <3> QED
      BY <3>1, <3>2
  <2>2. live = [d \in Dist |-> IF d \in ops[i].buildDists THEN PreviewTree(i, d)
                               ELSE ops[i].base.live[d]]
    BY <1>5, <2>1
  <2>3. {p \in UNION {ops[i].desired[d] : d \in ops[i].buildDists} : objects[p] = "pending"} =
          ops[i].pooled
    BY <1>2, <1>4 DEF Plan, PlanPooled
  <2>4. pool = ops[i].base.pool \union ops[i].pooled
    BY <1>1, <1>2, <1>3 DEF Plan, Promoted
  <2> QED
    BY <1>5, <2>2, <2>3, <2>4 DEF PreviewChanges, Public
<1>7. PredictedDirty(i) = \E d \in Dist : \/ memberships'[d] # built'[d].pkgs
                                          \/ ops[i].config[d] # built'[d].policy
  <2>1. built' = [d \in Dist |-> IF d \in ops[i].buildDists
                                 THEN [pkgs |-> memberships[d], policy |-> ops[i].config[d]]
                                 ELSE built[d]]
    BY DEF FinalizeBuild
  <2>2. \A d \in ops[i].buildDists : memberships'[d] = built'[d].pkgs
                                     /\ ops[i].config[d] = built'[d].policy
    BY <1>2, <1>5, <2>1
  <2>3. \A d \in Dist \ ops[i].buildDists :
          /\ memberships'[d] = IF d \in ops[i].dists THEN ops[i].desired[d] ELSE memberships[d]
          /\ built'[d] = built[d]
    BY <1>2, <1>5, <2>1 DEF Applied
  <2> QED
    BY <2>2, <2>3 DEF PredictedDirty
<1> QED
  BY <1>6, <1>7 DEF PreviewRemove, Outcome

\* A removal that is carried out, at once or by recovery after any number of
\* interruptions, makes exactly the public tree `rm --check` announced for it
\* and leaves the repository as dirty as announced.
THEOREM PreviewExactHolds == Spec => PreviewExact
<1>1. ASSUME MutationInv, [Next]_vars, NEW i \in Operation, ~ops[i].skip,
             ops[i].state # "done", ops'[i].state = "done"
      PROVE  PreviewRemove(i) = Outcome(i)
  BY <1>1, DoneByBuild, NoopForetold, BuildForetold
<1>2. MutationInv /\ [Next]_vars =>
        [\A i \in Operation :
           ops[i].kind = "rm" /\ ~ops[i].skip /\ ops[i].state # "done" /\ ops'[i].state = "done" =>
             PreviewRemove(i) =
               [public |-> Public',
                dirty |-> \E d \in Dist : \/ memberships'[d] # built'[d].pkgs
                                          \/ ops[i].config[d] # built'[d].policy]]_vars
  BY <1>1 DEF Outcome
<1> QED
  BY <1>2, Invariance, PTL DEF Spec, PreviewExact

-----------------------------------------------------------------------------
(* The age of public trees *)

\* The trees of the last generation were rendered by closed operations.
Aged ==
  \A d \in Dist : /\ Built.live[d].by <= Len(ops)
                  /\ Len(ops) \in Pending => Built.live[d].by < Len(ops)

\* A step that adds no operation and no generation and reopens nothing.
LEMMA AgedKept ==
  ASSUME Aged, generations' = generations, Len(ops') = Len(ops),
         Len(ops) \in Pending' => Len(ops) \in Pending
  PROVE  Aged'
<1>1. Built' = Built
  BY DEF Built
<1> QED
  BY <1>1 DEF Aged

\* One row is replaced, and not reopened.
LEMMA RowKept ==
  ASSUME Typed, Aged, generations' = generations, NEW j \in Operation, NEW r,
         ops' = [ops EXCEPT ![j] = r], r.state \notin Terminal => j \in Pending
  PROVE  Aged'
<1>1. ops \in Seq(OperationRecord) /\ j \in 1 .. Len(ops)
  BY DEF Typed, TypeOK, Operation
<1>2. Len(ops') = Len(ops) /\ \A k \in 1 .. Len(ops) : ops'[k] = IF k = j THEN r ELSE ops[k]
  BY <1>1
<1>3. Len(ops) \in Pending' => Len(ops) \in Pending
  BY <1>1, <1>2 DEF Pending, Operation
<1> QED
  BY <1>2, <1>3, AgedKept

\* SetState closes an operation or goes on with an open one.
LEMMA StateSetAged ==
  ASSUME Typed, Aged, generations' = generations, NEW j \in Operation, NEW s, SetState(j, s),
         s \notin Terminal => j \in Pending
  PROVE  Aged'
<1>1. ops[j] \in OperationRecord
  BY OpTyped DEF Typed, Operation
<1>2. PICK r : r = [ops[j] EXCEPT !.state = s]
  OBVIOUS
<1>3. r.state = s
  BY <1>1, <1>2 DEF OperationRecord
<1>4. ops' = [ops EXCEPT ![j] = r]
  BY <1>2 DEF SetState
<1> QED
  BY <1>3, <1>4, RowKept

\* Steps that leave the ledger alone.
LEMMA SameLedgerAged ==
  ASSUME Aged, generations' = generations, ops' = ops
  PROVE  Aged'
  BY AgedKept DEF Pending, Operation

\* Steps that set a state.
LEMMA StateStepAged ==
  ASSUME MutationInv, Aged, NEW j \in Operation,
         \/ TakeUp(j) \/ FinishUnapplied(j) \/ FinishUnbuilt(j) \/ RejectInputs(j)
         \/ SetStaged(j) \/ PlanTooLarge(j) \/ SetBuilt(j) \/ Fail(j)
         \/ CompleteSkipped(j) \/ FinalizeNoopBuild(j)
  PROVE  Aged'
<1>1. generations' = generations
  BY DEF TakeUp, FinishUnapplied, FinishUnbuilt, RejectInputs, SetStaged, PlanTooLarge, SetBuilt,
         Fail, CompleteSkipped, FinalizeNoopBuild, ledger
<1>2. CASE TakeUp(j) \/ SetStaged(j) \/ SetBuilt(j)
  <2>1. j \in Pending
    BY <1>2 DEF TakeUp, SetStaged, SetBuilt, At, MutationInv, CommandSound, Step, Between, Closing
  <2>2. PICK s : SetState(j, s)
    BY <1>2 DEF TakeUp, SetStaged, SetBuilt
  <2> QED
    BY <1>1, <2>1, <2>2, StateSetAged DEF MutationInv
<1>3. CASE \/ FinishUnapplied(j) \/ FinishUnbuilt(j) \/ RejectInputs(j) \/ PlanTooLarge(j)
           \/ Fail(j) \/ CompleteSkipped(j) \/ FinalizeNoopBuild(j)
  <2>1. PICK s \in Terminal : SetState(j, s)
    BY <1>3 DEF FinishUnapplied, FinishUnbuilt, RejectInputs, PlanTooLarge, Fail, CompleteSkipped,
                FinalizeNoopBuild, Terminal
  <2> QED
    BY <1>1, <2>1, StateSetAged DEF MutationInv
<1> QED
  BY <1>2, <1>3

\* Steps that change what a row says besides its state.
LEMMA RowStepAged ==
  ASSUME MutationInv, Aged, NEW j \in Operation,
         \/ WriteManifest(j) \/ BindManifest(j) \/ ApplyDesiredMutation(j)
         \/ FreezeBuildPlan(j) \/ BeginBuild(j)
         \/ Cleanup(j) \/ CleanupDone(j) \/ RollBack(j)
  PROVE  Aged'
<1>1. Typed /\ ops[j] \in OperationRecord
  BY OpTyped DEF MutationInv, Typed, Operation
<1>2. generations' = generations
  BY DEF WriteManifest, BindManifest, ApplyDesiredMutation, FreezeBuildPlan, BeginBuild, Cleanup,
         RemoveStageEntry, RemoveFailedPending, CleanupDone, RollBack, ledger
<1>3. CASE \/ WriteManifest(j) \/ BindManifest(j) \/ ApplyDesiredMutation(j)
           \/ FreezeBuildPlan(j) \/ BeginBuild(j)
  <2>1. j \in Pending
    BY <1>3 DEF WriteManifest, BindManifest, ApplyDesiredMutation, FreezeBuildPlan, BeginBuild, At,
                MutationInv, CommandSound, Step, Between, Closing
  <2>2. ops' = ops \/ \E r : ops' = [ops EXCEPT ![j] = r]
    BY <1>3 DEF WriteManifest, BindManifest, ApplyDesiredMutation, FreezeBuildPlan, BeginBuild
  <2> QED
    BY <1>1, <1>2, <2>1, <2>2, RowKept, SameLedgerAged
<1>4. /\ Forgotten(ops[j]) \in OperationRecord /\ Forgotten(ops[j]).state = ops[j].state
      /\ WithoutManifest(ops[j]).state = ops[j].state
  BY <1>1, ForgottenTyped
<1>5. ops[j].state \notin Terminal => j \in Pending
  BY DEF Pending
<1>6. CASE Cleanup(j) \/ CleanupDone(j)
  <2>1. \/ ops' = ops
        \/ ops' = [ops EXCEPT ![j] = Forgotten(ops[j])]
        \/ ops' = [ops EXCEPT ![j] = WithoutManifest(ops[j])]
    BY <1>6 DEF Cleanup, RemoveStageEntry, RemoveFailedPending, CleanupDone
  <2> QED
    BY <1>1, <1>2, <1>4, <1>5, <2>1, RowKept, SameLedgerAged
<1>7. CASE RollBack(j)
  <2>1. PICK r : r = [Forgotten(ops[j]) EXCEPT !.state = "rolled_back"]
    OBVIOUS
  <2>2. r.state \in Terminal
    BY <1>4, <2>1 DEF OperationRecord, Terminal
  <2>3. ops' = [ops EXCEPT ![j] = r]
    BY <1>7, <2>1 DEF RollBack
  <2> QED
    BY <1>1, <1>2, <2>2, <2>3, RowKept
<1> QED
  BY <1>3, <1>6, <1>7

\* A new operation is later than every tree.
LEMMA BeginAged ==
  ASSUME MutationInv, Aged, Begin
  PROVE  Aged'
<1>1. PICK r : ops' = Append(ops, r)
  BY DEF Begin, Build, Add, Remove, BeginOperation
<1>2. ops \in Seq(OperationRecord) /\ Len(ops) \in Nat
  BY DEF MutationInv, Typed, TypeOK
<1>3. Len(ops') = Len(ops) + 1
  BY <1>1, <1>2
<1>4. generations' = generations
  BY DEF Begin, Build, Add, Remove, BeginOperation, ledger
<1>5. Built' = Built
  BY <1>4 DEF Built
<1>6. \A d \in Dist : Built.live[d].by \in Nat
  <2>1. Built.live \in [Dist -> Tree]
    BY BuiltTyped DEF MutationInv
  <2> QED
    BY <2>1 DEF Tree
<1> QED
  BY <1>2, <1>3, <1>5, <1>6 DEF Aged

\* The new generation's trees were rendered by this operation or before.
LEMMA FinalizeAged ==
  ASSUME MutationInv, Aged, NEW i \in Operation, FinalizeBuild(i)
  PROVE  Aged'
<1>1. i \in Pending /\ ops[i].manifest = "frozen" /\ "done" \in Terminal
  BY DEF FinalizeBuild, At, MutationInv, CommandSound, Step, Between, Closing, Terminal
<1>2. Typed /\ i \in 1 .. Len(ops) /\ i = Len(ops) /\ Pending = {i} /\ Plan(i)
  BY <1>1, FrozenFacts
<1>3. Len(ops') = Len(ops) /\ Pending' = {}
  BY <1>1, <1>2, StateSet DEF FinalizeBuild
<1>4. Built' = Public
  <2>1. generations \in Seq(PublicTree) /\ Public \in PublicTree
    BY <1>2, BuiltTyped DEF Typed, TypeOK, PublicTree
  <2>2. generations' = Append(generations, Public)
    BY DEF FinalizeBuild
  <2> QED
    BY <2>1, <2>2 DEF Built
<1>5. Built'.live = live
  BY <1>2, <1>4, BuiltTyped
<1>6. ASSUME NEW d \in Dist
      PROVE  live[d].by <= Len(ops)
  <2>1. CASE live[d] = Built.live[d]
    BY <2>1 DEF Aged
  <2>2. CASE live[d] # Built.live[d]
    <3>1. live[d] = [by |-> i, pkgs |-> memberships[d], prior |-> Built.live[d].by]
      BY <1>2, <2>2 DEF Plan
    <3>2. live[d].by = i
      BY <3>1
    <3> QED
      BY <1>2, <3>2
  <2> QED
    BY <2>1, <2>2
<1> QED
  BY <1>3, <1>5, <1>6 DEF Aged

\* A tree of the last generation was not rendered by an open operation.
THEOREM AgedHolds == Spec => []Aged
<1>1. Init => Aged
  <2> SUFFICES ASSUME Init
               PROVE  Aged
    OBVIOUS
  <2>1. Built = [live |-> [d \in Dist |-> EmptyTree], pool |-> {}] /\ Len(ops) = 0
    BY DEF Init, Built
  <2>2. Pending = {} /\ \A d \in Dist : Built.live[d].by = 0
    BY <2>1 DEF EmptyTree, Pending, Operation
  <2> QED
    BY <2>1, <2>2 DEF Aged
<1>2. ASSUME MutationInv, Aged, [Next]_vars
      PROVE  Aged'
  <2>1. CASE Start \/ Stop \/ PowerLoss \/ UNCHANGED vars \/ RecoverNone \/ Ready
             \/ \E d \in Dist : EditConfig(d)
    <3>1. ops' = ops /\ generations' = generations
      BY <2>1 DEF Start, Stop, PowerLoss, vars, RecoverNone, Ready, EditConfig, ledger
    <3> QED
      BY <1>2, <3>1, SameLedgerAged
  <2>2. ASSUME NEW j \in Operation,
               \/ TakeUpPlanned(j) \/ Admit(j) \/ StageInputs(j) \/ PersistBuildPlan(j)
               \/ LoadPlan(j) \/ SyncTargets(j) \/ SyncPending(j)
               \/ \E p \in Package :
                    \/ LinkPendingObject(j, p) \/ InstallPendingObject(j, p)
                    \/ RemoveDroppedPending(j, p) \/ LinkPayload(j, p) \/ UnlinkPending(j, p)
               \/ \E d \in Dist : RenderDist(j, d) \/ ExchangeDist(j, d)
        PROVE  Aged'
    <3>1. ops' = ops /\ generations' = generations
      BY <2>2 DEF TakeUpPlanned, Admit, StageInputs, PersistBuildPlan, LoadPlan, SyncTargets,
                  SyncPending, LinkPendingObject, InstallPendingObject, RemoveDroppedPending,
                  LinkPayload, UnlinkPending, RenderDist, ExchangeDist, ledger
    <3> QED
      BY <1>2, <3>1, SameLedgerAged
  <2>3. CASE Recover
    BY <1>2, <2>1, <2>2, <2>3, StateStepAged, RowStepAged DEF Recover
  <2>4. CASE Apply
    BY <1>2, <2>2, <2>4, StateStepAged, RowStepAged DEF Apply
  <2>5. CASE BuildApplied
    BY <1>2, <2>2, <2>5, StateStepAged, RowStepAged, FinalizeAged DEF BuildApplied
  <2> QED
    BY <1>2, <2>1, <2>3, <2>4, <2>5, StateStepAged, BeginAged DEF Next
<1> QED
  BY <1>1, <1>2, Invariance, PTL DEF Spec

-----------------------------------------------------------------------------
(* check, changes, dist show and repo show *)

\* The operation check finds open can be bound to its journal.
LEMMA JournalBound ==
  ASSUME MutationInv, NEW i \in Pending, config = ops[i].config, ~UndoInterrupted(i)
  PROVE  BoundJournal(i)
<1>1. Journal(i) /\ ops[i].manifest \in {"none", "staged", "frozen"}
  BY OnlyPending DEF MutationInv, JournalSound, OperationRecord
<1>2. CASE ops[i].manifest = "none"
  BY <1>1, <1>2 DEF BoundJournal, Journal
<1>3. CASE ops[i].manifest # "none" /\ ops[i].state = "planned"
  BY <1>3 DEF BoundJournal, UndoInterrupted
<1>4. CASE ops[i].manifest # "none" /\ ops[i].state # "planned"
  BY <1>1, <1>4 DEF BoundJournal, Journal, Prepared, ManifestOf
<1> QED
  BY <1>2, <1>3, <1>4

\* A tree of the plan is not one of the last generation.
LEMMA PlanIsNew ==
  ASSUME MutationInv, Aged, NEW i \in Pending, ops[i].manifest = "frozen",
         NEW d \in ops[i].buildDists
  PROVE  ops[i].tree[d] # Built.live[d]
<1>1. Plan(i) /\ i = Len(ops) /\ Pending = {i} /\ d \in Dist
  BY FrozenFacts
<1>2. ops[i].tree[d] = [by |-> i, pkgs |-> memberships[d], prior |-> Built.live[d].by]
  BY <1>1 DEF Plan
<1>3. Built.live[d].by < i /\ i \in Nat
  BY <1>1 DEF Aged, Pending, Operation
<1>4. ops[i].tree[d].by = i /\ Built.live[d].by # i
  <2>1. Built.live[d].by \in Nat
    <3>1. Built.live \in [Dist -> Tree]
      BY BuiltTyped DEF MutationInv
    <3> QED
      BY <1>1, <3>1 DEF Tree
  <2> QED
    BY <1>2, <1>3, <2>1
<1> QED
  BY <1>4

\* Whatever a build was interrupted at, check permits the mixture it left.
LEMMA MixPermitted ==
  ASSUME MutationInv, Aged, NEW i \in Pending, ops[i].manifest = "frozen"
  PROVE  PermittedMix(i)
<1>1. /\ Typed /\ Pending = {i} /\ ops[i] \in OperationRecord /\ ops[i].buildDists \subseteq Dist
      /\ Plan(i) /\ Journal(i) /\ Prepared(i) /\ ops[i].applied
      /\ \A p \in ops[i].pooled : objects[p] = "pending" /\ p \in Package
  BY FrozenFacts
<1>2. FrozenBinding(i)
  <2>1. ops[i].state \notin Terminal \union {"planned", "staged"}
    BY <1>1, OnlyPending DEF Journal
  <2>2. ops[i].state \in {"applied", "built", "recovering"}
    BY <1>1, <2>1 DEF OperationRecord
  <2> QED
    BY <1>1, <2>2 DEF FrozenBinding, Prepared
<1>3. PayloadsFound(i)
  BY <1>1 DEF PayloadsFound, MutationInv, RowsSound
<1>4. ops[i].base = Built
  BY <1>1 DEF Prepared
<1>5. DistsOldOrNew(i)
  <2>1. ASSUME NEW d \in NewDists(i)
        PROVE  <<i, d, ops[i].base.live[d]>> \in trees
    <3>1. d \in ops[i].buildDists /\ live[d] = ops[i].tree[d]
      BY DEF NewDists
    <3>2. live[d] # Built.live[d]
      BY <3>1, PlanIsNew
    <3> QED
      BY <1>1, <1>4, <3>1, <3>2 DEF Plan
  <2>2. ASSUME NEW d \in ops[i].buildDists \ NewDists(i)
        PROVE  live[d] = ops[i].base.live[d] /\ <<i, d, ops[i].tree[d]>> \in trees
    BY <1>1, <1>4 DEF NewDists, Plan
  <2> QED
    BY <2>1, <2>2 DEF DistsOldOrNew
<1>6. NothingElse(i)
  <2>1. ASSUME NewDists(i) # {}
        PROVE  ops[i].pooled \subseteq pool
    <3>1. PICK d \in ops[i].buildDists : live[d] = ops[i].tree[d]
      BY <2>1 DEF NewDists
    <3>2. live # Built.live
      BY <3>1, PlanIsNew
    <3> QED
      BY <1>1, <3>2 DEF Plan, Promoted
  <2>2. pool = Built.pool \union (ops[i].pooled \intersect pool)
    BY <1>1 DEF Plan
  <2>3. \A d \in Dist \ ops[i].buildDists : live[d] = Built.live[d]
    BY <1>1 DEF Plan
  <2> QED
    BY <1>4, <2>1, <2>2, <2>3 DEF NothingElse
<1> QED
  BY <1>2, <1>3, <1>5, <1>6 DEF PermittedMix

\* At most one operation is open.
LEMMA OneOpen ==
  ASSUME MutationInv
  PROVE  ~(Cardinality(Pending) > 1)
<1>1. CASE Pending = {}
  BY <1>1, FS_EmptySet
<1>2. CASE Pending # {}
  <2>1. PICK i \in Pending : TRUE
    BY <1>2
  <2>2. Pending = {i}
    BY OnlyPending DEF MutationInv
  <2>3. Cardinality(Pending) = 1
    BY <2>2, FS_Singleton
  <2> QED
    BY <2>3
<1> QED
  BY <1>1, <1>2

\* As long as sow.yml is the one the open operation is bound to and its undoing
\* was not interrupted, check accepts the journal.
JournalReadable == \A i \in Pending : config = ops[i].config /\ ~UndoInterrupted(i)

LEMMA NotRefused ==
  ASSUME MutationInv, Aged, JournalReadable
  PROVE  /\ ~RecoveryRefused /\ ~JournalUnreadable
         /\ View = {i \in Pending : ops[i].manifest = "frozen"}
<1>1. \A i \in Pending : BoundJournal(i)
  BY JournalBound DEF JournalReadable
<1>2. ~RecoveryRefused
  BY <1>1, OneOpen, MixPermitted DEF RecoveryRefused
<1>3. ~JournalUnreadable
  BY <1>1 DEF JournalUnreadable, BoundJournal
<1> QED
  BY <1>2, <1>3 DEF View

\* The ledger's rows agree with each other.
LEMMA SemanticsHold ==
  ASSUME MutationInv
  PROVE  SemanticState
<1>1. Typed /\ RowsSound
  BY DEF MutationInv
<1>2. \A d \in Dist : built[d].pkgs \subseteq Package
  BY <1>1 DEF Typed, TypeOK
<1>3. \A d \in Dist : \A p \in built[d].pkgs : objects[p] = "pool"
  BY <1>1, <1>2 DEF RowsSound
<1> QED
  BY <1>1, <1>2, <1>3 DEF SemanticState, RowsSound

\* The manifest of an open or unfinished add accounts for its objects.
LEMMA ManifestCounts ==
  ASSUME NEW i \in Pending \union CleanupOperations, NEW p \in ops[i].objects,
         ops[i].kind = "add", ops[i].manifest # "none", ManifestOf(i) \in stage
  PROVE  p \in JournalPending
  BY DEF JournalPending

\* Pending bytes are accounted for by a row or by the journal.
LEMMA TracesJournaled ==
  ASSUME MutationInv, NEW p \in pending, objects[p] # "pending"
  PROVE  p \in JournalPending /\ (Pending = {} => CleanupOperations # {})
<1>1. CASE \E i \in Pending : /\ ops[i].state # "planned"
                              /\ p \in IF ops[i].applied THEN ops[i].dropped ELSE ops[i].objects
  <2>1. PICK i \in Pending : /\ ops[i].state # "planned"
                             /\ p \in IF ops[i].applied THEN ops[i].dropped ELSE ops[i].objects
    BY <1>1
  <2>2. Journal(i) /\ Prepared(i) /\ ops[i].manifest \in {"staged", "frozen"}
    BY <2>1, OnlyPending DEF MutationInv, JournalSound, Journal, OperationRecord
  <2>3. ManifestOf(i) \in stage
    BY <2>2 DEF Journal, Prepared, ManifestOf
  <2>4. CASE ops[i].applied
    BY <2>1, <2>4 DEF JournalPending
  <2>5. CASE ~ops[i].applied
    <3>1. ops[i].kind = "add" /\ p \in ops[i].objects
      BY <2>1, <2>2, <2>5 DEF Prepared
    <3> QED
      BY <2>2, <2>3, <3>1, ManifestCounts
  <2> QED
    BY <2>1, <2>4, <2>5
<1>2. CASE Len(ops) > 0 /\ p \in FailedPending(Len(ops))
  <2>1. PICK n : n = Len(ops)
    OBVIOUS
  <2>2. n \in Operation
    BY <1>2, <2>1 DEF MutationInv, Typed, TypeOK, Operation
  <2>3. /\ ops[n].kind = "add" /\ ops[n].state = "failed" /\ ManifestOf(n) \in stage
        /\ p \in ops[n].objects
    BY <1>2, <2>1 DEF FailedPending
  <2>4. HasStage(n)
    BY <2>1, <2>3 DEF MutationInv, PrivateSound
  <2>5. n \in CleanupOperations
    BY <2>2, <2>3, <2>4 DEF CleanupOperations, Terminal
  <2>6. ops[n].manifest # "none"
    BY <2>3 DEF MutationInv, Typed, TypeOK, ManifestOf
  <2> QED
    BY <2>3, <2>5, <2>6, ManifestCounts
<1> QED
  BY <1>1, <1>2 DEF MutationInv, TracesSound

\* Everything check looks at has a row and its bytes.
LEMMA CheckedFound ==
  ASSUME MutationInv
  PROVE  /\ BytesFound
         /\ \A p \in CheckedObjects : p \in Package /\ objects[p] # "none"
<1>1. Typed /\ RowsSound
  BY DEF MutationInv
<1>2. /\ \A d \in Dist : memberships[d] \subseteq Package /\ built[d].pkgs \subseteq Package
      /\ \A d \in Dist : \A p \in memberships[d] : objects[p] # "none"
      /\ \A d \in Dist : \A p \in built[d].pkgs : objects[p] = "pool"
  <2>1. \A d \in Dist : \A p \in built[d].pkgs : objects[p] = "pool"
    BY SemanticsHold DEF SemanticState
  <2> QED
    BY <1>1, <2>1 DEF Typed, TypeOK, RowsSound
<1>3. \A p \in CheckedObjects : p \in Package /\ objects[p] # "none"
  BY <1>2 DEF CheckedObjects
<1> QED
  BY <1>3, RowsAvailable DEF BytesFound

\* The pool is the rows of the pool and what the accepted plan has promoted.
LEMMA PoolAccounted ==
  ASSUME MutationInv, Aged, JournalReadable
  PROVE  PoolBijection
<1>1. View = {i \in Pending : ops[i].manifest = "frozen"}
  BY NotRefused
<1>2. Built.pool = {p \in Package : objects[p] = "pool"}
  BY BuiltTyped DEF MutationInv, RowsSound
<1>3. CASE \E i \in Pending : Frozen(i)
  <2>1. PICK i \in Pending : ops[i].manifest = "frozen"
    BY <1>3 DEF Frozen
  <2>2. Pending = {i} /\ Plan(i)
    BY <2>1, FrozenFacts
  <2>3. View = {i}
    BY <1>1, <2>1, <2>2
  <2>4. PooledPublic = pool \intersect ops[i].pooled
    BY <2>3 DEF PooledPublic
  <2> QED
    BY <1>2, <2>2, <2>4 DEF PoolBijection, Plan
<1>4. CASE \A i \in Pending : ~Frozen(i)
  <2>1. pool = Built.pool
    BY <1>4, BuiltTyped DEF MutationInv, PublicSound
  <2>2. PooledPublic = {}
    BY <1>1, <1>4 DEF PooledPublic, Frozen
  <2> QED
    BY <1>2, <2>1, <2>2 DEF PoolBijection
<1> QED
  BY <1>3, <1>4

\* Index files name what was built, or what is desired where the plan's tree
\* is public already.
LEMMA IndexAccounted ==
  ASSUME MutationInv, Aged, JournalReadable
  PROVE  IndexLayer /\ GenerationLayer
<1>1. View = {i \in Pending : ops[i].manifest = "frozen"}
  BY NotRefused
<1>2. \A d \in Dist : built[d].pkgs = Built.live[d].pkgs
  BY DEF MutationInv, RowsSound
<1>3. CASE \E i \in Pending : Frozen(i)
  <2>1. PICK i \in Pending : ops[i].manifest = "frozen"
    BY <1>3 DEF Frozen
  <2>2. Pending = {i} /\ Plan(i)
    BY <2>1, FrozenFacts
  <2>3. View = {i}
    BY <1>1, <2>1, <2>2
  <2>4. ASSUME NEW d \in Dist
        PROVE  live[d].pkgs = ValidationObjects(d)
    <3>1. TargetPublic(d) <=> d \in ops[i].buildDists /\ live[d] = ops[i].tree[d]
      BY <2>3 DEF TargetPublic, NewDists
    <3>2. CASE TargetPublic(d)
      <4>1. ops[i].tree[d] = [by |-> i, pkgs |-> memberships[d], prior |-> Built.live[d].by]
        BY <2>2, <3>1, <3>2 DEF Plan
      <4>2. live[d].pkgs = memberships[d]
        BY <3>1, <3>2, <4>1
      <4> QED
        BY <3>2, <4>2 DEF ValidationObjects
    <3>3. CASE ~TargetPublic(d)
      <4>1. live[d] = Built.live[d]
        BY <2>2, <3>1, <3>3 DEF Plan
      <4> QED
        BY <1>2, <3>3, <4>1 DEF ValidationObjects
    <3> QED
      BY <3>2, <3>3
  <2> QED
    BY <2>3, <2>4 DEF IndexLayer, GenerationLayer
<1>4. CASE \A i \in Pending : ~Frozen(i)
  <2>1. Public = Built /\ live = Built.live
    BY <1>4, BuiltTyped DEF MutationInv, PublicSound
  <2>2. View = {}
    BY <1>1, <1>4 DEF Frozen
  <2> QED
    BY <1>2, <2>1, <2>2 DEF IndexLayer, GenerationLayer, ValidationObjects, TargetPublic
<1> QED
  BY <1>3, <1>4

\* What interrupted commands leave is never taken for damage.
LEMMA IntegrityHolds ==
  ASSUME MutationInv, Aged, JournalReadable, MembershipLayer
  PROVE  Integrity
<1>1. StateLayer
  BY SemanticsHold, NotRefused DEF StateLayer
<1>2. PendingStore
  <2>1. \A p \in pending : objects[p] = "pending" \/ p \in JournalPending
    BY TracesJournaled
  <2>2. ASSUME NEW p \in CheckedObjects, objects[p] = "pending"
        PROVE  p \in pending \union PooledPublic
    <3>1. p \in Package /\ p \in pending \union pool
      BY <2>2, CheckedFound DEF MutationInv, RowsSound
    <3> QED
      BY <2>2, <3>1, PoolAccounted DEF PoolBijection
  <2> QED
    BY <2>1, <2>2 DEF PendingStore
<1> QED
  BY <1>1, <1>2, CheckedFound, PoolAccounted, IndexAccounted DEF Integrity

\* A dist no open operation selects, built as it is desired, shows what it is
\* to hold, with every payload.
LEMMA UntouchedShown ==
  ASSUME MutationInv, NEW d \in Dist, \A i \in Pending : d \notin ops[i].dists,
         memberships[d] = built[d].pkgs
  PROVE  live[d].pkgs = memberships[d] /\ memberships[d] \subseteq pool
<1>1. built[d].pkgs = Built.live[d].pkgs /\ built[d].pkgs \subseteq Built.pool
  BY DEF MutationInv, RowsSound
<1>2. live[d] = Built.live[d]
  <2>1. CASE \E i \in Pending : Frozen(i)
    <3>1. PICK i \in Pending : ops[i].manifest = "frozen"
      BY <2>1 DEF Frozen
    <3>2. Plan(i) /\ Prepared(i)
      BY <3>1, FrozenFacts
    <3> QED
      BY <3>2 DEF Plan, Prepared
  <2>2. CASE \A i \in Pending : ~Frozen(i)
    <3>1. live = Built.live
      BY <2>2, BuiltTyped DEF MutationInv, PublicSound
    <3> QED
      BY <3>1
  <2> QED
    BY <2>1, <2>2
<1> QED
  BY <1>1, <1>2, PoolServes

LEMMA CheckIsHonest ==
  ASSUME MutationInv, Aged
  PROVE  CheckHonest
<1>1. JournalReadable /\ MembershipLayer => Integrity
  BY IntegrityHolds
<1>2. ASSUME CheckStatus = "clean", NEW d \in Dist
      PROVE  live[d].pkgs = memberships[d] /\ memberships[d] \subseteq pool
  <2>1. Pending = {} /\ ~Dirty(config)
    BY <1>2 DEF CheckStatus
  <2> QED
    BY <2>1, UntouchedShown DEF Dirty
<1>3. ASSUME Pending = {}, CleanupOperations = {}, MembershipLayer
      PROVE  ChangesGiven
  <2>1. Integrity
    BY <1>1, <1>3 DEF JournalReadable
  <2>2. ~\E p \in pending : objects[p] # "pending"
    BY <1>3, TracesJournaled
  <2> QED
    BY <1>3, <2>1, <2>2 DEF ChangesGiven, CheckStatus
<1> QED
  BY <1>1, <1>2, <1>3 DEF CheckHonest, JournalReadable

LEMMA ShownIsClean ==
  ASSUME MutationInv
  PROVE  ShownClean
<1>1. ASSUME NEW d \in Dist, DistInfo(d) = "clean"
      PROVE  live[d].pkgs = memberships[d] /\ memberships[d] \subseteq pool
  <2>1. (\A i \in Pending : d \notin ops[i].dists) /\ memberships[d] = built[d].pkgs
    BY <1>1 DEF DistInfo
  <2> QED
    BY <2>1, UntouchedShown
<1>2. ASSUME RepositoryInfo = "clean"
      PROVE  Public = Built
  <2>1. Pending = {}
    BY <1>2 DEF RepositoryInfo
  <2> QED
    BY <2>1 DEF MutationInv, PublicSound
<1> QED
  BY <1>1, <1>2 DEF ShownClean

\* What `check`, `changes`, `dist show` and `repo show` tell the operator after
\* any interruption agrees with what clients are served and recovery can do:
\* work to recover is never reported as damage, and what is reported clean
\* shows exactly the packages wanted.
THEOREM ReportsHonestHolds == Spec => []ReportsHonest
<1>1. MutationInv /\ Aged => ReportsHonest
  BY CheckIsHonest, ShownIsClean DEF ReportsHonest
<1> QED
  BY <1>1, Invariance, AgedHolds, PTL

-----------------------------------------------------------------------------
(* status *)

\* The rows that stay open are bound to the sow.yml they were bound to, and a
\* new one is bound to the present one.
Bound ==
  \A i \in Pending' :
    \/ i \in Pending /\ ops'[i].config = ops[i].config
    \/ ops'[i].config = config

\* One row is replaced, and not bound anew while it is open.
LEMMA RowBound ==
  ASSUME Typed, NEW j \in Operation, NEW r, ops' = [ops EXCEPT ![j] = r],
         r.state \notin Terminal => j \in Pending /\ r.config = ops[j].config
  PROVE  Bound
<1>1. ops \in Seq(OperationRecord) /\ j \in 1 .. Len(ops)
  BY DEF Typed, TypeOK, Operation
<1>2. Len(ops') = Len(ops) /\ \A k \in 1 .. Len(ops) : ops'[k] = IF k = j THEN r ELSE ops[k]
  BY <1>1
<1> QED
  BY <1>1, <1>2 DEF Bound, Pending, Operation

\* SetState closes an operation or goes on with an open one.
LEMMA StateSetBound ==
  ASSUME Typed, NEW j \in Operation, NEW s, SetState(j, s), s \notin Terminal => j \in Pending
  PROVE  Bound
<1>1. ops[j] \in OperationRecord
  BY OpTyped DEF Typed, Operation
<1>2. PICK r : r = [ops[j] EXCEPT !.state = s]
  OBVIOUS
<1>3. r.state = s /\ r.config = ops[j].config
  BY <1>1, <1>2 DEF OperationRecord
<1>4. ops' = [ops EXCEPT ![j] = r]
  BY <1>2 DEF SetState
<1> QED
  BY <1>3, <1>4, RowBound

\* Steps that leave the ledger's rows alone.
LEMMA SameRowsBound ==
  ASSUME ops' = ops
  PROVE  Bound
  BY DEF Bound, Pending, Operation

\* Steps that set a state.
LEMMA StateStepBound ==
  ASSUME MutationInv, NEW j \in Operation,
         \/ TakeUp(j) \/ FinishUnapplied(j) \/ FinishUnbuilt(j) \/ RejectInputs(j)
         \/ SetStaged(j) \/ PlanTooLarge(j) \/ SetBuilt(j) \/ Fail(j)
         \/ CompleteSkipped(j) \/ FinalizeNoopBuild(j) \/ FinalizeBuild(j)
  PROVE  Bound
<1>1. CASE TakeUp(j) \/ SetStaged(j) \/ SetBuilt(j)
  <2>1. j \in Pending
    BY <1>1 DEF TakeUp, SetStaged, SetBuilt, At, MutationInv, CommandSound, Step, Between, Closing
  <2>2. PICK s : SetState(j, s)
    BY <1>1 DEF TakeUp, SetStaged, SetBuilt
  <2> QED
    BY <2>1, <2>2, StateSetBound DEF MutationInv
<1>2. CASE \/ FinishUnapplied(j) \/ FinishUnbuilt(j) \/ RejectInputs(j) \/ PlanTooLarge(j)
           \/ Fail(j) \/ CompleteSkipped(j) \/ FinalizeNoopBuild(j) \/ FinalizeBuild(j)
  <2>1. PICK s \in Terminal : SetState(j, s)
    BY <1>2 DEF FinishUnapplied, FinishUnbuilt, RejectInputs, PlanTooLarge, Fail, CompleteSkipped,
                FinalizeNoopBuild, FinalizeBuild, Terminal
  <2> QED
    BY <2>1, StateSetBound DEF MutationInv
<1> QED
  BY <1>1, <1>2

\* Steps that change what a row says besides its state.
LEMMA RowStepBound ==
  ASSUME MutationInv, NEW j \in Operation,
         \/ WriteManifest(j) \/ BindManifest(j) \/ ApplyDesiredMutation(j)
         \/ FreezeBuildPlan(j) \/ BeginBuild(j)
         \/ Cleanup(j) \/ CleanupDone(j) \/ RollBack(j)
  PROVE  Bound
<1>1. Typed /\ ops[j] \in OperationRecord
  BY OpTyped DEF MutationInv, Typed, Operation
<1>2. CASE \/ WriteManifest(j) \/ BindManifest(j) \/ ApplyDesiredMutation(j)
           \/ FreezeBuildPlan(j) \/ BeginBuild(j)
  <2>1. j \in Pending
    BY <1>2 DEF WriteManifest, BindManifest, ApplyDesiredMutation, FreezeBuildPlan, BeginBuild, At,
                MutationInv, CommandSound, Step, Between, Closing
  <2>2. CASE WriteManifest(j)
    <3>1. Planned(j).config = ops[j].config
      BY <1>1 DEF Planned, OperationRecord
    <3>2. ops' = [ops EXCEPT ![j] = Planned(j)]
      BY <2>2 DEF WriteManifest
    <3> QED
      BY <1>1, <2>1, <3>1, <3>2, RowBound
  <2>3. CASE BindManifest(j)
    <3>1. PICK r : r = [ops[j] EXCEPT !.manifest = "staged"]
      OBVIOUS
    <3>2. r.config = ops[j].config /\ ops' = [ops EXCEPT ![j] = r]
      BY <1>1, <2>3, <3>1 DEF BindManifest, OperationRecord
    <3> QED
      BY <1>1, <2>1, <3>2, RowBound
  <2>4. CASE ApplyDesiredMutation(j)
    <3>1. PICK dropped : ops' = [ops EXCEPT ![j].state = "applied", ![j].applied = TRUE,
                                            ![j].dropped = @ \union dropped]
      BY <2>4 DEF ApplyDesiredMutation
    <3>2. PICK r : r = [ops[j] EXCEPT !.state = "applied", !.applied = TRUE,
                                      !.dropped = @ \union dropped]
      OBVIOUS
    <3>3. r.config = ops[j].config
      BY <1>1, <3>2 DEF OperationRecord
    <3>4. ops' = [ops EXCEPT ![j] = r]
      BY <3>1, <3>2
    <3> QED
      BY <1>1, <2>1, <3>3, <3>4, RowBound
  <2>5. CASE FreezeBuildPlan(j)
    <3>1. PICK t : t = [d \in Dist |-> IF d \in ops[j].buildDists THEN Rendered(j, d) ELSE EmptyTree]
      OBVIOUS
    <3>2. PICK r : r = [ops[j] EXCEPT !.manifest = "frozen", !.tree = t, !.pooled = PlanPooled(j),
                                      !.base = Public]
      OBVIOUS
    <3>3. r.config = ops[j].config
      BY <1>1, <3>2 DEF OperationRecord
    <3>4. ops' = [ops EXCEPT ![j] = r]
      BY <2>5, <3>1, <3>2 DEF FreezeBuildPlan
    <3> QED
      BY <1>1, <2>1, <3>3, <3>4, RowBound
  <2>6. CASE BeginBuild(j) /\ ops' # ops
    <3>1. PICK r : r = [ops[j] EXCEPT !.rendering = TRUE]
      OBVIOUS
    <3>2. r.config = ops[j].config /\ ops' = [ops EXCEPT ![j] = r]
      BY <1>1, <2>6, <3>1 DEF BeginBuild, OperationRecord
    <3> QED
      BY <1>1, <2>1, <3>2, RowBound
  <2> QED
    BY <1>2, <2>2, <2>3, <2>4, <2>5, <2>6, SameRowsBound
<1>3. /\ Forgotten(ops[j]) \in OperationRecord /\ Forgotten(ops[j]).state = ops[j].state
      /\ WithoutManifest(ops[j]).state = ops[j].state
  BY <1>1, ForgottenTyped
<1>4. ops[j].state \notin Terminal => j \in Pending
  BY DEF Pending
<1>5. CASE ops' = [ops EXCEPT ![j] = Forgotten(ops[j])] /\ ops[j].state \in Terminal
  BY <1>1, <1>3, <1>5, RowBound
<1>6. CASE ops' = [ops EXCEPT ![j] = WithoutManifest(ops[j])]
  <2>1. WithoutManifest(ops[j]).config = ops[j].config
    BY <1>1 DEF WithoutManifest, OperationRecord
  <2> QED
    BY <1>1, <1>3, <1>4, <1>6, <2>1, RowBound
<1>7. CASE Cleanup(j)
  <2>1. \/ ops' = ops
        \/ ops' = [ops EXCEPT ![j] = IF @.state \in Terminal THEN Forgotten(@) ELSE WithoutManifest(@)]
    BY <1>7 DEF Cleanup, RemoveStageEntry, RemoveFailedPending
  <2>2. \/ ops' = ops
        \/ ops' = [ops EXCEPT ![j] = Forgotten(ops[j])] /\ ops[j].state \in Terminal
        \/ ops' = [ops EXCEPT ![j] = WithoutManifest(ops[j])]
    BY <2>1
  <2> QED
    BY <1>5, <1>6, <2>2, SameRowsBound
<1>8. CASE CleanupDone(j)
  <2>1. ops' = [ops EXCEPT ![j] = Forgotten(ops[j])]
    BY <1>8 DEF CleanupDone
  <2>2. Pending = {}
    BY <1>8 DEF CleanupDone, MutationInv, CommandSound, Closing
  <2> QED
    BY <1>4, <1>5, <2>1, <2>2
<1>9. CASE RollBack(j)
  <2>1. PICK r : r = [Forgotten(ops[j]) EXCEPT !.state = "rolled_back"]
    OBVIOUS
  <2>2. r.state \in Terminal
    BY <1>3, <2>1 DEF OperationRecord, Terminal
  <2>3. ops' = [ops EXCEPT ![j] = r]
    BY <1>9, <2>1 DEF RollBack
  <2> QED
    BY <1>1, <2>2, <2>3, RowBound
<1> QED
  BY <1>2, <1>7, <1>8, <1>9

\* A new operation is bound to the present sow.yml.
LEMMA BeginBound ==
  ASSUME MutationInv, Begin
  PROVE  Bound
<1>1. PICK r : ops' = Append(ops, r) /\ r.config = config
  <2>1. ASSUME NEW D \in SUBSET Dist, Build(D)
        PROVE  \E r : ops' = Append(ops, r) /\ r.config = config
    <3>1. PICK desired, B : BeginOperation(NewOperation("build", D, desired, B, FALSE))
      BY <2>1 DEF Build
    <3>2. NewOperation("build", D, desired, B, FALSE).config = config
      BY DEF NewOperation
    <3> QED
      BY <3>1, <3>2 DEF BeginOperation
  <2>2. ASSUME NEW D \in SUBSET Dist, NEW P, NEW skip \in BOOLEAN, Remove(D, P, skip)
        PROVE  \E r : ops' = Append(ops, r) /\ r.config = config
    <3>1. PICK desired, B : BeginOperation(NewOperation("rm", D, desired, B, skip))
      BY <2>2 DEF Remove
    <3>2. NewOperation("rm", D, desired, B, skip).config = config
      BY DEF NewOperation
    <3> QED
      BY <3>1, <3>2 DEF BeginOperation
  <2>3. ASSUME NEW D \in SUBSET Dist, NEW P, NEW skip \in BOOLEAN, Add(D, P, skip)
        PROVE  \E r : ops' = Append(ops, r) /\ r.config = config
    <3>1. PICK q : q = NewOperation("add", D, [d \in Dist |-> {}], {}, skip)
      OBVIOUS
    <3>2. q.config = config
      BY <3>1 DEF NewOperation
    <3>3. PICK r : r = [q EXCEPT !.inputs = P]
      OBVIOUS
    <3>4. r.config = config
      BY <3>1, <3>2, <3>3 DEF NewOperation
    <3>5. ops' = Append(ops, r)
      BY <2>3, <3>1, <3>3 DEF Add, BeginOperation
    <3> QED
      BY <3>4, <3>5
  <2> QED
    BY <2>1, <2>2, <2>3 DEF Begin
<1>2. ops \in Seq(OperationRecord) /\ Len(ops) \in Nat
  BY DEF MutationInv, Typed, TypeOK
<1>3. /\ Len(ops') = Len(ops) + 1 /\ ops'[Len(ops) + 1].config = config
      /\ \A k \in 1 .. Len(ops) : ops'[k] = ops[k]
  BY <1>1, <1>2
<1> QED
  BY <1>2, <1>3 DEF Bound, Pending, Operation

\* What recovery finds was bound when it was begun.
LEMMA NextBound ==
  ASSUME MutationInv, [Next]_vars
  PROVE  Bound
<1>1. CASE Start \/ Stop \/ PowerLoss \/ UNCHANGED vars \/ RecoverNone \/ Ready
           \/ \E d \in Dist : EditConfig(d)
  <2>1. ops' = ops
    BY <1>1 DEF Start, Stop, PowerLoss, vars, RecoverNone, Ready, EditConfig
  <2> QED
    BY <2>1, SameRowsBound
<1>2. ASSUME NEW j \in Operation,
             \/ TakeUpPlanned(j) \/ Admit(j) \/ StageInputs(j) \/ PersistBuildPlan(j)
             \/ LoadPlan(j) \/ SyncTargets(j) \/ SyncPending(j)
             \/ \E p \in Package :
                  \/ LinkPendingObject(j, p) \/ InstallPendingObject(j, p)
                  \/ RemoveDroppedPending(j, p) \/ LinkPayload(j, p) \/ UnlinkPending(j, p)
             \/ \E d \in Dist : RenderDist(j, d) \/ ExchangeDist(j, d)
      PROVE  Bound
  <2>1. ops' = ops
    BY <1>2 DEF TakeUpPlanned, Admit, StageInputs, PersistBuildPlan, LoadPlan, SyncTargets,
                SyncPending, LinkPendingObject, InstallPendingObject, RemoveDroppedPending,
                LinkPayload, UnlinkPending, RenderDist, ExchangeDist
  <2> QED
    BY <2>1, SameRowsBound
<1>3. CASE Recover
  BY <1>1, <1>2, <1>3, StateStepBound, RowStepBound DEF Recover
<1>4. CASE Apply
  BY <1>2, <1>4, StateStepBound, RowStepBound DEF Apply
<1>5. CASE BuildApplied
  BY <1>2, <1>5, StateStepBound, RowStepBound DEF BuildApplied
<1> QED
  BY <1>1, <1>3, <1>4, <1>5, StateStepBound, BeginBound DEF Next

\* What Summary counts only grows, and what status compares does not change
\* without it.
LEMMA Counted ==
  ASSUME MutationInv, [Next]_vars
  PROVE  /\ revision \in Nat /\ revision' \in Nat /\ revision <= revision'
         /\ revision' = revision => memberships' = memberships
         /\ Len(generations) \in Nat /\ Len(generations') \in Nat
         /\ Len(generations) <= Len(generations')
         /\ Len(generations') = Len(generations) => built' = built
<1>1. /\ Typed /\ revision \in Nat /\ generations \in Seq(PublicTree) /\ Len(generations) \in Nat
      /\ Public \in PublicTree
  BY BuiltTyped DEF MutationInv, Typed, TypeOK, PublicTree
<1>2. CASE UNCHANGED <<memberships, revision, built, generations>>
  BY <1>1, <1>2
<1>3. ASSUME NEW i \in Operation, ApplyDesiredMutation(i)
      PROVE  /\ revision' \in Nat /\ revision <= revision' /\ generations' = generations /\ built' = built
             /\ revision' = revision => memberships' = memberships
  <2>1. /\ generations' = generations /\ built' = built
        /\ revision' = revision + 1 \/ revision' = revision
        /\ revision' = revision + 1 \/ memberships' = memberships
    BY <1>3 DEF ApplyDesiredMutation
  <2> QED
    BY <1>1, <2>1
<1>4. ASSUME NEW i \in Operation, FinalizeBuild(i)
      PROVE  /\ revision' = revision /\ memberships' = memberships
             /\ Len(generations') = Len(generations) + 1
  BY <1>1, <1>4 DEF FinalizeBuild
<1>5. CASE Start \/ Stop \/ PowerLoss \/ UNCHANGED vars \/ (\E d \in Dist : EditConfig(d)) \/ Begin
  BY <1>2, <1>5 DEF Start, Stop, PowerLoss, vars, EditConfig, Begin, Build, Add, Remove,
                    BeginOperation, ledger
<1>6. CASE Recover \/ \E i \in Operation : Fail(i)
  <2>1. UNCHANGED ledger
    BY <1>6 DEF Recover, RecoverNone, Ready, TakeUpPlanned, TakeUp, Admit, RollBack,
                FinishUnapplied, FinishUnbuilt, Cleanup, RemoveStageEntry, RemoveFailedPending,
                CleanupDone, Fail
  <2> QED
    BY <1>2, <2>1 DEF ledger
<1>7. CASE Apply
  <2>1. UNCHANGED ledger \/ \E i \in Operation : ApplyDesiredMutation(i)
    BY <1>7 DEF Apply, StageInputs, RejectInputs, WriteManifest, BindManifest, SetStaged,
                CompleteSkipped, FinalizeNoopBuild, LinkPendingObject, InstallPendingObject,
                RemoveDroppedPending
  <2> QED
    BY <1>1, <1>2, <1>3, <2>1 DEF ledger
<1>8. CASE BuildApplied
  <2>1. UNCHANGED ledger \/ \E i \in Operation : FinalizeBuild(i)
    BY <1>8 DEF BuildApplied, BeginBuild, PersistBuildPlan, PlanTooLarge, FreezeBuildPlan,
                LoadPlan, SyncTargets, SyncPending, SetBuilt, RenderDist, ExchangeDist,
                LinkPayload, UnlinkPending
  <2> QED
    BY <1>1, <1>2, <1>4, <2>1 DEF ledger
<1> QED
  BY <1>5, <1>6, <1>7, <1>8 DEF Next

\* After the summary.
Looking == {"dists", "built", "lock", "again"}

\* Nothing the summary counts has changed since it was read clean, and nobody
\* has edited sow.yml.
Unmoved ==
  obs.clean /\ ~obs.edited /\ revision = obs.summary[1] /\ Len(generations) = obs.summary[2]

\* The dists whose build has been compared with sow.yml.
Compared == Dist \ (obs.left \union {d \in Dist : obs.at = "built" /\ d = obs.dist})

\* What status knows: as long as nothing has moved, the dists are built as they
\* are desired, those it has compared under the policies it read, and after its
\* look at the open operations each open one was begun under those policies.
StatusInv ==
  /\ DOMAIN obs = {"at", "config", "edited", "locked", "summary", "left", "dist", "want",
                   "clean", "ready"}
  /\ obs.at # "none" => (obs.edited <=> config # obs.config)
  /\ obs.at \in Looking => obs.summary[1] <= revision /\ obs.summary[2] <= Len(generations)
  /\ obs.at \in Looking => obs.summary[1] \in Nat /\ obs.summary[2] \in Nat
  /\ obs.at \in Looking /\ Unmoved =>
       /\ \A d \in Dist : memberships[d] = built[d].pkgs
       /\ \A d \in Compared : obs.config[d] = built[d].policy
  /\ obs.at \in {"lock", "again"} => obs.left = {}
  /\ obs.at \in {"lock", "again"} /\ Unmoved => \A i \in Pending : ops[i].config = obs.config

\* No plan is frozen for dists that are built as they are desired under the
\* policies the operation is bound to.
LEMMA NothingToBuild ==
  ASSUME MutationInv, NEW i \in Pending, \A d \in Dist : memberships[d] = built[d].pkgs,
         \A d \in Dist : ops[i].config[d] = built[d].policy
  PROVE  ~Frozen(i)
<1> SUFFICES ASSUME Frozen(i)
             PROVE  FALSE
  OBVIOUS
<1>1. ops[i] \in OperationRecord /\ Journal(i)
  BY OnlyPending DEF MutationInv, JournalSound
<1>2. /\ ops[i].buildDists # {} /\ Applied(i) /\ Prepared(i)
      /\ ops[i].buildDists = DistsNeedingBuild(ops[i].dists, ops[i].desired, ops[i].config)
  BY <1>1 DEF Frozen, Journal, Prepared
<1>3. PICK d \in ops[i].dists : \/ ops[i].desired[d] # built[d].pkgs
                                \/ ops[i].config[d] # built[d].policy
  BY <1>2 DEF DistsNeedingBuild
<1>4. d \in Dist /\ memberships[d] = ops[i].desired[d]
  BY <1>1, <1>2 DEF OperationRecord, Applied
<1> QED
  BY <1>3, <1>4

\* What status knows while it looks at the ledger for the last time.
LEMMA UnmovedPublic ==
  ASSUME MutationInv, StatusInv, obs.at = "again", Unmoved
  PROVE  /\ Public = Built
         /\ \A d \in Dist : live[d].pkgs = memberships[d] /\ obs.config[d] = built[d].policy
<1>1. /\ \A d \in Dist : memberships[d] = built[d].pkgs
      /\ \A d \in Dist : obs.config[d] = built[d].policy
      /\ \A i \in Pending : ops[i].config = obs.config
  BY DEF StatusInv, Looking, Compared
<1>2. \A i \in Pending : ~Frozen(i)
  BY <1>1, NothingToBuild
<1>3. Public = Built
  BY <1>2 DEF MutationInv, PublicSound
<1>4. live = Built.live /\ \A d \in Dist : built[d].pkgs = Built.live[d].pkgs
  BY <1>3, BuiltTyped DEF MutationInv, RowsSound
<1> QED
  BY <1>1, <1>3, <1>4

\* A step of a command, seen or unseen.
LEMMA MeanwhileKnown ==
  ASSUME MutationInv, StatusInv, [Next]_vars,
         \/ obs' = obs /\ (config' = config \/ obs.at = "none")
         \/ ~obs.edited /\ obs' = [obs EXCEPT !.edited = TRUE] /\ config' # config /\ obs.at # "none"
  PROVE  StatusInv'
<1>1. CASE obs' = obs /\ (config' = config \/ obs.at = "none")
  <2>1. Unmoved' /\ obs.at \in Looking =>
          /\ Unmoved /\ config = obs.config /\ memberships' = memberships /\ built' = built
    BY <1>1, Counted DEF Unmoved, StatusInv, Looking
  <2>2. obs.at \in {"lock", "again"} /\ Unmoved' => \A i \in Pending' : ops'[i].config = obs.config
    BY <2>1, NextBound DEF StatusInv, Bound, Looking
  <2>3. obs.at \in Looking => obs.summary[1] <= revision' /\ obs.summary[2] <= Len(generations)'
    BY Counted DEF StatusInv
  <2>4. obs.at # "none" => (obs.edited <=> config' # obs.config)
    BY <1>1 DEF StatusInv
  <2>5. Compared' = Compared
    BY <1>1 DEF Compared
  <2> QED
    BY <1>1, <2>1, <2>2, <2>3, <2>4, <2>5 DEF StatusInv, Looking
<1>2. CASE ~obs.edited /\ obs' = [obs EXCEPT !.edited = TRUE] /\ config' # config /\ obs.at # "none"
  <2>1. /\ obs'.at = obs.at /\ obs'.config = obs.config /\ obs'.summary = obs.summary
        /\ obs'.left = obs.left /\ obs'.edited = TRUE /\ DOMAIN obs' = DOMAIN obs
    BY <1>2 DEF StatusInv
  <2>2. ~Unmoved'
    BY <2>1 DEF Unmoved
  <2>3. config = obs.config
    BY <1>2 DEF StatusInv
  <2>4. obs.at \in Looking => obs.summary[1] <= revision' /\ obs.summary[2] <= Len(generations)'
    BY Counted DEF StatusInv
  <2> QED
    BY <1>2, <2>1, <2>2, <2>3, <2>4 DEF StatusInv, Looking
<1> QED
  BY <1>1, <1>2

\* A step of status itself.
LEMMA StatusKnown ==
  ASSUME MutationInv, StatusInv, Status
  PROVE  StatusInv'
<1>1. /\ config' = config /\ memberships' = memberships /\ revision' = revision /\ built' = built
      /\ generations' = generations /\ ops' = ops
  BY DEF Status, BeginStatus, Probe, ReadSummary, ReadDesired, ReadBuilt, ReadPending, FinalProbe,
         FinalSummary, Report, vars, ledger
<1>2. Pending' = Pending
  BY <1>1 DEF Pending, Operation
<1>3. revision \in Nat /\ Len(generations) \in Nat
  BY DEF MutationInv, Typed, TypeOK
<1>4. CASE BeginStatus \/ Report
  <2>1. obs'.at \in {"none", "probe"} /\ obs'.config = config /\ obs'.edited = FALSE
    BY <1>4 DEF BeginStatus, Report, NoObservation
  <2>2. DOMAIN obs' = {"at", "config", "edited", "locked", "summary", "left", "dist", "want",
                       "clean", "ready"}
    BY <1>4 DEF BeginStatus, Report, NoObservation
  <2> QED
    BY <1>1, <2>1, <2>2 DEF StatusInv, Looking
<1>5. CASE Probe
  <2>1. /\ obs'.at = "summary" /\ obs'.config = obs.config /\ obs'.edited = obs.edited
        /\ obs.at = "probe" /\ DOMAIN obs' = DOMAIN obs
    BY <1>5 DEF Probe, StatusInv
  <2> QED
    BY <1>1, <2>1 DEF StatusInv, Looking
<1>6. CASE ReadSummary
  <2>1. /\ obs'.at = "dists" /\ obs'.config = obs.config /\ obs'.edited = obs.edited
        /\ obs'.left = Dist /\ obs'.summary = Summary /\ obs.at = "summary"
        /\ DOMAIN obs' = DOMAIN obs /\ obs'.clean = (~Summary[3] /\ SemanticState)
    BY <1>6 DEF ReadSummary, StatusInv
  <2>2. /\ Summary[1] = revision /\ Summary[2] = Len(generations)
        /\ Summary[3] = \E d \in Dist : memberships[d] # built[d].pkgs
    BY DEF Summary
  <2>3. obs'.clean => \A d \in Dist : memberships[d] = built[d].pkgs
    BY <2>1, <2>2
  <2>4. Compared' = {}
    BY <2>1 DEF Compared
  <2> QED
    BY <1>1, <1>3, <2>1, <2>2, <2>3, <2>4 DEF StatusInv, Looking, Unmoved
<1>7. ASSUME NEW d \in Dist, ReadDesired(d)
      PROVE  StatusInv'
  <2>1. /\ obs'.at = "built" /\ obs'.config = obs.config /\ obs'.edited = obs.edited
        /\ obs'.left = obs.left \ {d} /\ obs'.dist = d /\ obs'.summary = obs.summary
        /\ obs.at = "dists" /\ DOMAIN obs' = DOMAIN obs /\ obs'.clean = obs.clean
    BY <1>7 DEF ReadDesired, StatusInv
  <2>2. Compared' \subseteq Compared
    BY <2>1 DEF Compared
  <2>3. Unmoved' => Unmoved
    BY <1>1, <2>1 DEF Unmoved
  <2> QED
    BY <1>1, <2>1, <2>2, <2>3 DEF StatusInv, Looking
<1>8. ASSUME NEW d \in Dist, ReadBuilt(d)
      PROVE  StatusInv'
  <2>1. /\ obs'.at = "dists" /\ obs'.config = obs.config /\ obs'.edited = obs.edited
        /\ obs'.left = obs.left /\ obs'.summary = obs.summary
        /\ obs.at = "built" /\ obs.dist = d /\ DOMAIN obs' = DOMAIN obs
        /\ obs'.clean = (obs.clean /\ obs.want = built[d].pkgs /\ obs.config[d] = built[d].policy)
    BY <1>8 DEF ReadBuilt, StatusInv
  <2>2. Compared' \subseteq Compared \union {d}
    BY <2>1 DEF Compared
  <2>3. Unmoved' => Unmoved /\ obs.config[d] = built[d].policy
    BY <1>1, <2>1 DEF Unmoved
  <2> QED
    BY <1>1, <2>1, <2>2, <2>3 DEF StatusInv, Looking
<1>9. CASE ReadPending
  <2>1. /\ obs'.at = "lock" /\ obs'.config = obs.config /\ obs'.edited = obs.edited
        /\ obs'.left = {} /\ obs.left = {} /\ obs'.summary = obs.summary
        /\ obs.at = "dists" /\ DOMAIN obs' = DOMAIN obs
        /\ obs'.clean = (obs.clean /\ Pending = {})
    BY <1>9 DEF ReadPending, StatusInv
  <2>2. Compared' = Compared
    BY <2>1 DEF Compared
  <2>3. Unmoved' => Unmoved /\ Pending = {}
    BY <1>1, <2>1 DEF Unmoved
  <2> QED
    BY <1>1, <1>2, <2>1, <2>2, <2>3 DEF StatusInv, Looking
<1>10. CASE FinalProbe
  <2>1. /\ obs'.at = "again" /\ obs'.config = obs.config /\ obs'.edited = obs.edited
        /\ obs'.left = obs.left /\ obs'.summary = obs.summary
        /\ obs.at = "lock" /\ DOMAIN obs' = DOMAIN obs /\ obs'.clean = obs.clean
    BY <1>10 DEF FinalProbe, StatusInv
  <2>2. Compared' = Compared
    BY <2>1 DEF Compared
  <2>3. Unmoved' => Unmoved
    BY <1>1, <2>1 DEF Unmoved
  <2> QED
    BY <1>1, <1>2, <2>1, <2>2, <2>3 DEF StatusInv, Looking
<1>11. CASE FinalSummary
  <2>1. /\ obs'.at = "config" /\ obs'.config = obs.config /\ obs'.edited = obs.edited
        /\ obs.at = "again" /\ DOMAIN obs' = DOMAIN obs
    BY <1>11 DEF FinalSummary, StatusInv
  <2> QED
    BY <1>1, <2>1 DEF StatusInv, Looking
<1> QED
  BY <1>4, <1>5, <1>6, <1>7, <1>8, <1>9, <1>10, <1>11 DEF Status

\* The last look at the ledger.
LEMMA FinalSummaryTrue ==
  ASSUME MutationInv, StatusInv, FinalSummary, obs.clean, ~obs'.locked, config = obs.config
  PROVE  /\ Public = Built
         /\ \A d \in Dist : live[d].pkgs = memberships[d] /\ obs.config[d] = built[d].policy
<1>1. obs.at = "again" /\ obs' = [obs EXCEPT !.at = "config", !.locked = @ \/ Summary # obs.summary]
  BY DEF FinalSummary
<1>2. Summary = obs.summary
  BY <1>1 DEF StatusInv
<1>3. Summary[1] = revision /\ Summary[2] = Len(generations)
  BY DEF Summary
<1>4. ~obs.edited
  BY <1>1 DEF StatusInv
<1> QED
  BY <1>1, <1>2, <1>3, <1>4, UnmovedPublic DEF Unmoved

\* Beside the observer the commands are those of MutationBuild.
LEMMA StatusStepIsNext ==
  ASSUME [Status \/ Meanwhile]_statusVars
  PROVE  [Next]_vars
<1>1. CASE Status
  BY <1>1 DEF Status, BeginStatus, Probe, ReadSummary, ReadDesired, ReadBuilt, ReadPending,
              FinalProbe, FinalSummary, Report
<1>2. CASE Meanwhile
  BY <1>2 DEF Meanwhile
<1>3. CASE UNCHANGED statusVars
  BY <1>3 DEF statusVars
<1> QED
  BY <1>1, <1>2, <1>3

\* Whatever commands run beside it, status knows what StatusInv says.
THEOREM StatusKnowledge == StatusSpec => [](MutationInv /\ StatusInv)
<1>1. StatusInit => Init /\ StatusInv
  <2> SUFFICES ASSUME StatusInit
               PROVE  Init /\ StatusInv
    OBVIOUS
  <2>1. Init /\ obs = NoObservation
    BY DEF StatusInit
  <2>2. /\ obs.at = "none"
        /\ DOMAIN obs = {"at", "config", "edited", "locked", "summary", "left", "dist", "want",
                         "clean", "ready"}
    BY <2>1 DEF NoObservation
  <2> QED
    BY <2>1, <2>2 DEF StatusInv, Looking
<1>2. ASSUME MutationInv, StatusInv, [Status \/ Meanwhile]_statusVars
      PROVE  StatusInv'
  <2>1. CASE Status
    BY <1>2, <2>1, StatusKnown
  <2>2. CASE Meanwhile
    <3>1. \/ obs' = obs /\ (config' = config \/ obs.at = "none")
          \/ /\ ~obs.edited /\ obs' = [obs EXCEPT !.edited = TRUE]
             /\ config' # config /\ obs.at # "none"
      BY <2>2 DEF Meanwhile
    <3>2. [Next]_vars
      BY <2>2 DEF Meanwhile
    <3> QED
      BY <1>2, <3>1, <3>2, MeanwhileKnown
  <2>3. CASE UNCHANGED statusVars
    <3>1. obs' = obs /\ UNCHANGED vars
      BY <2>3 DEF statusVars
    <3>2. config' = config
      BY <3>1 DEF vars
    <3> QED
      BY <1>2, <3>1, <3>2, MeanwhileKnown
  <2> QED
    BY <1>2, <2>1, <2>2, <2>3
<1>3. StatusSpec => Spec
  BY <1>1, StatusStepIsNext, PTL DEF StatusSpec, Spec
<1> QED
  BY <1>1, <1>2, <1>3, Invariance, PTL DEF StatusSpec

\* `status` answers "ready to copy" only if, when it looked at the ledger for
\* the last time, the public tree was the last generation and every dist showed
\* the packages wanted under the policies status had read, whatever commands
\* began, finished or were killed while it looked.
THEOREM StatusTrueHolds == StatusSpec => StatusTrue
<1>1. ASSUME MutationInv, StatusInv
      PROVE  [FinalSummary /\ obs.clean /\ ~obs'.locked /\ config = obs.config =>
                /\ Public = Built
                /\ \A d \in Dist :
                     live[d].pkgs = memberships[d] /\ obs.config[d] = built[d].policy]_statusVars
  BY <1>1, FinalSummaryTrue
<1> QED
  BY <1>1, StatusKnowledge, PTL DEF StatusTrue
=============================================================================
