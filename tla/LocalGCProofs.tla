--------------------------- MODULE LocalGCProofs ---------------------------
(***************************************************************************)
(* Safety of LocalGC for every set of payloads and every bound.  GCInv is  *)
(* the inductive invariant: while a gc is pending the ledger still has the *)
(* generation it started from, and what the pool lacks is in quarantine;   *)
(* otherwise pool, rows and generation agree.                              *)
(***************************************************************************)
EXTENDS LocalGC, TLAPS

OperationState == {"none", "planned", "staged", "applied", "done", "rolled_back"}

CommandStep ==
  {"idle", "recover", "tidy", "plan", "mkdir", "write", "stage", "apply", "finalize", "cleanup",
   "ready", "retain", "copy", "manifest.tsv", "record.json", "commit", "undo", "inspect",
   "move", "remove", "unplan"}

CommandRecord ==
  [name : {"none", "gc", "write", "retain add", "retain rm"}, at : CommandStep, gen : 0 .. gen]

\* The records have all their fields.
Typed ==
  /\ TypeOK
  /\ op \in [state : OperationState, entries : SUBSET Payload, base : 0 .. gen]
  /\ cmd \in CommandRecord

\* The quarantine directory follows the operation: it is made with the plan,
\* holds nothing before the operation is staged, and is emptied once it is done.
QuarantineSound ==
  /\ quarantine.plan # "absent" \/ quarantine.payloads # {} => quarantine.dir
  /\ op.state \in {"none", "rolled_back"} => ~quarantine.dir
  /\ op.state = "planned" => quarantine.payloads = {}
  /\ op.state \in {"staged", "applied"} => quarantine.plan = "whole"
  /\ op.state = "applied" => op.entries \subseteq quarantine.payloads \ pool
  /\ op.state = "done" => quarantine.plan = "whole" \/ quarantine.payloads = {}

\* What ledger and pool have in common, with and without a pending gc.
TreeSound ==
  /\ rows = manifest[gen]
  /\ ~Pending => pool = rows
  /\ Pending =>
       /\ gen = op.base /\ gen < MaxGen
       /\ Clean
       /\ op.entries \subseteq rows \ MembershipRoots
       /\ pool \subseteq rows
       /\ rows \ pool \subseteq op.entries \intersect quarantine.payloads

\* A pending gc takes nothing a publication or a retained generation needs.
RootsKept ==
  /\ PayloadsOf(attempt) \subseteq pool
  /\ \A g \in retained \ late : manifest[g] \subseteq pool
  /\ Pending =>
       /\ op.entries \intersect PublicationRoots = {}
       /\ \A g \in retained \ late : op.entries \intersect manifest[g] = {}

\* What a command may count on where it is.
Admitted(name, at, g) ==
  /\ at \in {"recover", "ready", "apply", "finalize", "cleanup"} => name \in {"gc", "write"}
  /\ name = "gc" /\ at \in {"tidy", "plan"} => ~Pending /\ ~quarantine.dir
  /\ at = "ready" => ~Pending /\ ~quarantine.dir
  /\ at \in {"mkdir", "write", "stage"} => op.state = "planned"
  /\ at = "write" => quarantine.dir
  /\ at = "stage" => quarantine.plan = "whole"
  /\ at = "apply" => op.state \in {"staged", "applied"}
  /\ at = "finalize" => op.state = "applied"
  /\ at = "cleanup" => op.state \in {"done", "rolled_back"}
  /\ name \in {"retain add", "retain rm"} => g # 0
  /\ name = "retain add" /\ at \in {"copy", "manifest.tsv", "record.json", "commit"} => g = gen
  /\ name = "retain rm" /\ at \in {"plan", "unplan"} => Parts(tomb, g) = {}
  /\ name = "retain rm" /\ at \in {"move", "remove"} => rmPlan[g] = "whole"

CommandSound ==
  /\ cmd.name = "none" <=> cmd = Idle
  /\ Admitted(cmd.name, cmd.at, cmd.gen)

GCInv ==
  /\ Typed
  /\ QuarantineSound
  /\ TreeSound
  /\ RootsKept
  /\ CommandSound
  /\ RemovalReplayable

-----------------------------------------------------------------------------
(* Entries of a retained generation *)

\* The entry that goes next is one that is there.
LEMMA FirstThere ==
  ASSUME NEW dir, NEW g, Parts(dir, g) # {}
  PROVE  FirstEntry(dir, g) \in Parts(dir, g)
<1> DEFINE There(k) == <<g, Entry[k]>> \in dir
           First(k) == There(k) /\ \A j \in 1 .. k - 1 : ~There(j)
<1>1. \E k \in 1 .. 4 : There(k)
  BY DEF Parts, Part
<1>2. There(1) \/ There(2) \/ There(3) \/ There(4)
  <2>1. PICK k \in 1 .. 4 : There(k)
    BY <1>1
  <2>2. k = 1 \/ k = 2 \/ k = 3 \/ k = 4
    OBVIOUS
  <2> QED
    BY <2>1, <2>2
<1> HIDE DEF There
<1>3. \E k \in 1 .. 4 : First(k)
  <2>1. CASE There(1)
    BY <2>1
  <2>2. CASE ~There(1) /\ There(2)
    BY <2>2
  <2>3. CASE ~There(1) /\ ~There(2) /\ There(3)
    BY <2>3
  <2>4. CASE ~There(1) /\ ~There(2) /\ ~There(3) /\ There(4)
    BY <2>4
  <2> QED
    BY <1>2, <2>1, <2>2, <2>3, <2>4
<1> DEFINE c == CHOOSE k \in 1 .. 4 : First(k)
<1>4. c \in 1 .. 4 /\ First(c)
  BY <1>3
<1>5. FirstEntry(dir, g) = Entry[c]
  BY DEF FirstEntry, There
<1> HIDE DEF c
<1> QED
  BY <1>4, <1>5 DEF Parts, Part, There

\* Once only the directory is left it is the one that goes.
LEMMA LastEntry ==
  ASSUME NEW dir, NEW g, Parts(dir, g) = {"dir"}
  PROVE  Parts(dir \ {<<g, FirstEntry(dir, g)>>}, g) = {}
<1>1. FirstEntry(dir, g) = "dir"
  BY FirstThere
<1> QED
  BY <1>1 DEF Parts

-----------------------------------------------------------------------------
(* Frames *)

\* Generations and interruptions are counted by naturals.
LEMMA Numbers ==
  ASSUME GCInv
  PROVE  /\ gen \in Nat /\ 1 <= gen /\ gen <= MaxGen /\ MaxGen \in Nat
         /\ stops \in Nat /\ stops <= MaxStops /\ MaxStops \in Nat
<1>1. gen \in Gen /\ stops \in 0 .. MaxStops
  BY DEF GCInv, Typed, TypeOK
<1>2. MaxGen \in Nat /\ MaxStops \in Nat
  BY LocalGCAssumption
<1> QED
  BY <1>1, <1>2 DEF Gen

\* No command runs.
LEMMA IdleFields == Idle.name = "none" /\ Idle.at = "idle" /\ Idle.gen = 0
  BY DEF Idle

\* The idle command has the type of a command.
LEMMA IdleTyped ==
  ASSUME GCInv
  PROVE  Idle \in CommandRecord
<1>1. 0 \in 0 .. gen
  BY Numbers
<1> QED
  BY <1>1 DEF Idle, CommandRecord, CommandStep

\* Only the running command and the stages of `retain add` change.
LEMMA CommandMoves ==
  ASSUME GCInv,
         UNCHANGED <<ledger, pool, op, quarantine, retained, tomb, rmPlan, late, publication>>,
         stops' \in 0 .. MaxStops, stage' \subseteq (1 .. gen) \X Part,
         cmd' \in CommandRecord, CommandSound'
  PROVE  GCInv'
<1>1. Pending' = Pending /\ Clean' = Clean /\ MembershipRoots' = MembershipRoots
  BY DEF Pending, Clean, MembershipRoots, ledger
<1>2. Typed'
  BY DEF GCInv, Typed, TypeOK, CommandRecord, ledger, publication
<1>3. QuarantineSound'
  BY DEF GCInv, QuarantineSound
<1>4. TreeSound'
  BY <1>1 DEF GCInv, TreeSound, ledger
<1>5. RootsKept'
  BY <1>1 DEF GCInv, RootsKept, PublicationRoots, PayloadsOf, ledger, publication
<1>6. RemovalReplayable'
  BY DEF GCInv, RemovalReplayable, Parts
<1> QED
  BY <1>2, <1>3, <1>4, <1>5, <1>6 DEF GCInv

\* A command that ends, or is stopped, leaves nothing to count on.
LEMMA CommandEnds ==
  ASSUME GCInv, End, stops' \in 0 .. MaxStops, stage' \subseteq (1 .. gen) \X Part,
         UNCHANGED <<ledger, pool, op, quarantine, retained, tomb, rmPlan, late, publication>>
  PROVE  GCInv'
<1>1. cmd' = Idle
  BY DEF End
<1>2. CommandSound'
  BY <1>1, IdleFields DEF CommandSound, Admitted
<1> QED
  BY <1>1, <1>2, IdleTyped, CommandMoves

\* The running command moves to a place where it is admitted.
LEMMA CommandGoes ==
  ASSUME GCInv, cmd.name # "none", NEW step \in CommandStep, Go(step), gen' = gen,
         Admitted(cmd.name, step, cmd.gen)'
  PROVE  /\ cmd' \in CommandRecord
         /\ cmd'.name = cmd.name /\ cmd'.gen = cmd.gen /\ cmd'.at = step
         /\ CommandSound'
<1>1. /\ cmd' \in CommandRecord
      /\ cmd'.name = cmd.name /\ cmd'.gen = cmd.gen /\ cmd'.at = step
  BY DEF Go, GCInv, Typed, CommandRecord
<1> QED
  BY <1>1, IdleFields DEF CommandSound

\* That is all the step does, but for a stage.
LEMMA CommandGoesOn ==
  ASSUME GCInv, cmd.name # "none", NEW step \in CommandStep, Go(step),
         UNCHANGED <<ledger, pool, op, quarantine, retained, tomb, rmPlan, late, publication, stops>>,
         stage' \subseteq (1 .. gen) \X Part,
         Admitted(cmd.name, step, cmd.gen)
  PROVE  GCInv'
<1>1. cmd'.name = cmd.name /\ cmd'.gen = cmd.gen
  BY DEF Go, GCInv, Typed, CommandRecord
<1>2. Admitted(cmd.name, step, cmd.gen)'
  BY <1>1 DEF Admitted, Pending, Parts, ledger
<1>3. stops' \in 0 .. MaxStops
  BY DEF GCInv, Typed, TypeOK
<1> QED
  BY <1>2, <1>3, CommandGoes, CommandMoves DEF ledger

\* Start takes up a command with nothing done yet.
LEMMA StartSafe ==
  ASSUME GCInv, UNCHANGED stops,
         NEW name \in {"gc", "write", "retain add", "retain rm"}, NEW g \in 0 .. gen,
         Start(name, g)
  PROVE  GCInv'
<1>1. /\ cmd'.name = name /\ cmd'.gen = g
      /\ cmd'.at = IF name \in {"gc", "write"} THEN "recover"
                   ELSE IF name = "retain add" THEN "tidy" ELSE "inspect"
      /\ name \notin {"gc", "write"} => g # 0
  BY DEF Start
<1>2. cmd' \in CommandRecord
  BY DEF Start, CommandRecord, CommandStep
<1>3. CommandSound'
  <2>1. cmd'.name # "none" /\ cmd' # Idle
    BY <1>1, IdleFields
  <2>2. cmd'.at \in {"recover", "tidy", "inspect"}
    BY <1>1
  <2> QED
    BY <1>1, <2>1, <2>2 DEF CommandSound, Admitted
<1>4. stops' \in 0 .. MaxStops /\ stage' \subseteq (1 .. gen) \X Part
  BY DEF Start, GCInv, Typed, TypeOK, retention
<1>5. UNCHANGED <<ledger, pool, op, quarantine, retained, tomb, rmPlan, late, publication>>
  BY DEF Start, retention
<1> QED
  BY <1>2, <1>3, <1>4, <1>5, CommandMoves

\* Stop
LEMMA StopSafe ==
  ASSUME GCInv, Stop
  PROVE  GCInv'
<1>1. stops' \in 0 .. MaxStops
  BY Numbers DEF Stop
<1>2. stage' \subseteq (1 .. gen) \X Part
  BY DEF Stop, GCInv, Typed, TypeOK, retention
<1> QED
  BY <1>1, <1>2, CommandEnds DEF Stop, retention

\* Only gc's operation, its quarantine and the running command change; the
\* plan's entries stay those that were roots of nothing.
LEMMA OperationMoves ==
  ASSUME GCInv, UNCHANGED <<ledger, pool, retention, publication, stops>>,
         op' \in [state : OperationState, entries : SUBSET Payload, base : 0 .. gen],
         quarantine' \in [dir : BOOLEAN, plan : PlanFile, payloads : SUBSET op'.entries],
         cmd' \in CommandRecord,
         QuarantineSound', CommandSound',
         Pending' => Pending,
         Pending' => op'.entries = op.entries /\ op'.base = op.base
                     /\ quarantine.payloads \subseteq quarantine'.payloads,
         Pending /\ ~Pending' => pool = rows
  PROVE  GCInv'
<1>1. Clean' = Clean /\ MembershipRoots' = MembershipRoots
  BY DEF Clean, MembershipRoots, ledger
<1>2. Typed'
  BY DEF GCInv, Typed, TypeOK, OperationState, CommandRecord, ledger, publication, retention
<1>3. TreeSound'
  BY <1>1 DEF GCInv, TreeSound, ledger
<1>4. RootsKept'
  BY <1>1 DEF GCInv, RootsKept, PublicationRoots, PayloadsOf, ledger, publication, retention
<1>5. RemovalReplayable'
  BY DEF GCInv, RemovalReplayable, Parts, retention
<1> QED
  BY <1>2, <1>3, <1>4, <1>5 DEF GCInv

-----------------------------------------------------------------------------
(* Recovery of a gc operation *)

\* recoverLocalGCOperation without a plan
LEMMA RecoverPlanlessSafe ==
  ASSUME GCInv, RecoverPlanless, UNCHANGED stops
  PROVE  GCInv'
<1>1. /\ op \in [state : OperationState, entries : SUBSET Payload, base : 0 .. gen]
      /\ quarantine \in [dir : BOOLEAN, plan : PlanFile, payloads : SUBSET op.entries]
      /\ cmd \in CommandRecord
  BY DEF GCInv, Typed, TypeOK
<1>2. quarantine.payloads = {} /\ pool = rows
  BY DEF RecoverPlanless, GCInv, QuarantineSound, TreeSound, Pending
<1>3. CASE quarantine.dir
  <2>1. /\ op' = op /\ cmd' = cmd /\ quarantine' \in [dir : BOOLEAN, plan : PlanFile, payloads : SUBSET op.entries]
        /\ quarantine'.dir = FALSE /\ quarantine'.plan = "absent" /\ quarantine'.payloads = {}
    BY <1>1, <1>2, <1>3 DEF RecoverPlanless
  <2>2. QuarantineSound'
    BY <2>1 DEF RecoverPlanless, QuarantineSound
  <2>3. CommandSound'
    BY <2>1 DEF RecoverPlanless, GCInv, CommandSound, Admitted, Pending, retention, ledger
  <2>4. Pending' = Pending
    BY <2>1 DEF Pending
  <2>5. cmd' \in CommandRecord /\ op' \in [state : OperationState, entries : SUBSET Payload, base : 0 .. gen]
    BY <1>1, <2>1
  <2> QED
    BY <1>2, <2>1, <2>2, <2>3, <2>4, <2>5, OperationMoves DEF RecoverPlanless
<1>4. CASE ~quarantine.dir
  <2>1. /\ op' \in [state : OperationState, entries : SUBSET Payload, base : 0 .. gen]
        /\ op'.state = "rolled_back" /\ op'.entries = op.entries
        /\ quarantine' = quarantine /\ cmd' = cmd
    BY <1>1, <1>4 DEF RecoverPlanless, SetState, OperationState
  <2>2. QuarantineSound'
    BY <1>2, <1>4, <2>1 DEF RecoverPlanless, QuarantineSound
  <2>3. CommandSound'
    BY <2>1 DEF RecoverPlanless, GCInv, CommandSound, Admitted, Pending, retention, ledger
  <2>4. ~Pending'
    BY <2>1 DEF Pending
  <2>5. cmd' \in CommandRecord /\ quarantine' \in [dir : BOOLEAN, plan : PlanFile, payloads : SUBSET op'.entries]
    BY <1>1, <2>1
  <2> QED
    BY <1>2, <2>1, <2>2, <2>3, <2>4, <2>5, OperationMoves DEF RecoverPlanless
<1> QED
  BY <1>3, <1>4

\* recoverLocalGCOperation with a plan
LEMMA RecoverPlannedSafe ==
  ASSUME GCInv, RecoverPlanned, UNCHANGED stops
  PROVE  GCInv'
<1>1. /\ op \in [state : OperationState, entries : SUBSET Payload, base : 0 .. gen]
      /\ quarantine \in [dir : BOOLEAN, plan : PlanFile, payloads : SUBSET op.entries]
  BY DEF GCInv, Typed, TypeOK
<1>2. /\ op' \in [state : OperationState, entries : SUBSET Payload, base : 0 .. gen]
      /\ op'.state = IF op.state = "planned" THEN "staged" ELSE op.state
      /\ op'.entries = op.entries /\ op'.base = op.base
      /\ quarantine' = quarantine
  BY <1>1 DEF RecoverPlanned, SetState, OperationState
<1>3. op'.state \in {"staged", "applied"} /\ Pending' /\ Pending
  BY <1>2 DEF RecoverPlanned, Pending
<1>4. QuarantineSound'
  BY <1>2, <1>3 DEF RecoverPlanned, GCInv, QuarantineSound
<1>5. cmd' \in CommandRecord /\ CommandSound'
  <2>1. cmd.name \in {"gc", "write"}
    BY DEF RecoverPlanned, GCInv, CommandSound, Admitted
  <2>2. Admitted(cmd.name, "apply", cmd.gen)'
    BY <1>3, <2>1 DEF RecoverPlanned, Admitted, Go, GCInv, Typed, CommandRecord
  <2> QED
    BY <2>1, <2>2, CommandGoes DEF RecoverPlanned, CommandStep, ledger
<1>6. quarantine' \in [dir : BOOLEAN, plan : PlanFile, payloads : SUBSET op'.entries]
  BY <1>1, <1>2
<1> QED
  BY <1>2, <1>3, <1>4, <1>5, <1>6, OperationMoves DEF RecoverPlanned

\* The operation, its quarantine and the command have their types.
LEMMA Records ==
  ASSUME GCInv
  PROVE  /\ op \in [state : OperationState, entries : SUBSET Payload, base : 0 .. gen]
         /\ quarantine \in [dir : BOOLEAN, plan : PlanFile, payloads : SUBSET op.entries]
         /\ cmd \in CommandRecord
  BY DEF GCInv, Typed, TypeOK

\* A command that recovers is a gc or another command that writes.
LEMMA Recovering ==
  ASSUME GCInv, cmd.at \in {"recover", "apply", "finalize", "cleanup"}
  PROVE  cmd.name \in {"gc", "write"} /\ cmd.name # "none"
  BY DEF GCInv, CommandSound, Admitted

\* The stages stay as they are.
LEMMA StageTyped ==
  ASSUME GCInv
  PROVE  stage \subseteq (1 .. gen) \X Part /\ stops \in 0 .. MaxStops
  BY DEF GCInv, Typed, TypeOK

\* recoverDoneLocalGCCleanup
LEMMA RecoverDoneSafe ==
  ASSUME GCInv, RecoverDone, UNCHANGED stops
  PROVE  GCInv'
<1>1. Admitted(cmd.name, "cleanup", cmd.gen)
  BY Recovering DEF RecoverDone, Admitted
<1> QED
  BY <1>1, Recovering, StageTyped, CommandGoesOn DEF RecoverDone, CommandStep, retention

\* Nothing to recover
LEMMA RecoverNoneSafe ==
  ASSUME GCInv, RecoverNone, UNCHANGED stops
  PROVE  GCInv'
<1> DEFINE step == IF cmd.name = "gc" THEN "tidy" ELSE "ready"
<1>1. Admitted(cmd.name, step, cmd.gen)
  BY Recovering DEF RecoverNone, Admitted
<1>2. step \in CommandStep /\ Go(step)
  BY DEF RecoverNone, CommandStep
<1> HIDE DEF step
<1> QED
  BY <1>1, <1>2, Recovering, StageTyped, CommandGoesOn DEF RecoverNone, retention

\* A torn plan
LEMMA RecoverRefusedSafe ==
  ASSUME GCInv, RecoverRefused, UNCHANGED stops
  PROVE  GCInv'
  BY StageTyped, CommandEnds DEF RecoverRefused, retention

-----------------------------------------------------------------------------
(* gc *)

\* cleanupRetainedAddStagesLocked
LEMMA TidySafe ==
  ASSUME GCInv, Tidy, UNCHANGED stops
  PROVE  GCInv'
<1>1. cmd.name # "none"
  BY IdleFields DEF Tidy, GCInv, CommandSound
<1>2. CASE stage = {}
  <2> DEFINE step == IF cmd.name = "gc" THEN "plan" ELSE "retain"
  <2>1. Admitted(cmd.name, step, cmd.gen)
    BY DEF Tidy, GCInv, CommandSound, Admitted
  <2>2. step \in CommandStep /\ Go(step)
    BY <1>2 DEF Tidy, CommandStep
  <2>3. stage' \subseteq (1 .. gen) \X Part
    BY <1>2, StageTyped DEF Tidy
  <2> HIDE DEF step
  <2> QED
    BY <1>1, <2>1, <2>2, <2>3, CommandGoesOn DEF Tidy
<1>3. CASE stage # {}
  <2>1. stage' \subseteq stage /\ cmd' = cmd
    BY <1>3 DEF Tidy
  <2>2. cmd' \in CommandRecord
    BY <2>1 DEF GCInv, Typed
  <2>3. CommandSound'
    BY <2>1 DEF Tidy, GCInv, CommandSound, Admitted, Pending, Parts, ledger
  <2> QED
    BY <2>1, <2>2, <2>3, StageTyped, CommandMoves DEF Tidy
<1> QED
  BY <1>2, <1>3

\* Nothing to collect
LEMMA NoopSafe ==
  ASSUME GCInv, Noop, UNCHANGED stops
  PROVE  GCInv'
  BY StageTyped, CommandEnds DEF Noop, retention

\* Candidates are rows nothing refers to.
LEMMA CandidatesFree ==
  /\ Candidates \subseteq rows
  /\ Candidates \intersect MembershipRoots = {}
  /\ Candidates \intersect PublicationRoots = {}
  /\ \A g \in retained : Candidates \intersect manifest[g] = {}
  BY DEF Candidates, RetainedRoots

\* buildLocalGCPlan and BeginOperation: the plan names what nothing refers to.
LEMMA BeginOperationSafe ==
  ASSUME GCInv, BeginOperation, UNCHANGED stops
  PROVE  GCInv'
<1>1. /\ op'.state = "planned" /\ op'.entries = Candidates /\ op'.base = gen
      /\ op' \in [state : OperationState, entries : SUBSET Payload, base : 0 .. gen]
  <2>1. gen \in 0 .. gen
    BY Numbers
  <2>2. Candidates \subseteq Payload
    BY CandidatesFree DEF GCInv, Typed, TypeOK
  <2> QED
    BY <2>1, <2>2 DEF BeginOperation, OperationState
<1>2. /\ cmd' \in CommandRecord
      /\ cmd'.name = "gc" /\ cmd'.at = "mkdir"
  <2>1. gen \in 0 .. gen
    BY Numbers
  <2> QED
    BY <2>1, Records DEF BeginOperation, Running, CommandRecord, CommandStep
<1>3. ~Pending /\ ~quarantine.dir /\ Pending'
  BY <1>1 DEF BeginOperation, Running, GCInv, CommandSound, Admitted, Pending
<1>4. quarantine.plan = "absent" /\ quarantine.payloads = {}
  BY <1>3 DEF GCInv, QuarantineSound
<1>5. UNCHANGED <<ledger, pool, quarantine, retention, publication>>
  BY DEF BeginOperation
<1>6. Typed'
  <2>1. quarantine' \in [dir : BOOLEAN, plan : PlanFile, payloads : SUBSET op'.entries]
    BY <1>4, <1>5 DEF GCInv, Typed, TypeOK
  <2> QED
    BY <1>1, <1>2, <1>5, <2>1
       DEF GCInv, Typed, TypeOK, OperationState, CommandRecord, ledger, publication, retention
<1>7. QuarantineSound'
  BY <1>1, <1>4, <1>5 DEF GCInv, QuarantineSound
<1>8. TreeSound'
  <2>1. rows = pool /\ gen < MaxGen /\ Clean
    BY <1>3 DEF BeginOperation, Collectable, GCInv, TreeSound
  <2> QED
    BY <1>1, <1>3, <1>5, <2>1, CandidatesFree
       DEF GCInv, TreeSound, MembershipRoots, Clean, ledger
<1>9. RootsKept'
  BY <1>1, <1>5, CandidatesFree
     DEF GCInv, RootsKept, PublicationRoots, PayloadsOf, ledger, publication, retention
<1>10. CommandSound'
  BY <1>1, <1>2, IdleFields DEF CommandSound, Admitted
<1>11. RemovalReplayable'
  BY <1>5 DEF GCInv, RemovalReplayable, Parts, retention
<1> QED
  BY <1>6, <1>7, <1>8, <1>9, <1>10, <1>11 DEF GCInv

\* The quarantine directory is made while the operation is planned.
LEMMA MakeQuarantineSafe ==
  ASSUME GCInv, MakeQuarantine, UNCHANGED stops
  PROVE  GCInv'
<1>1. op.state = "planned" /\ op' = op
  BY DEF MakeQuarantine, Running, GCInv, CommandSound, Admitted
<1>2. /\ quarantine' \in [dir : BOOLEAN, plan : PlanFile, payloads : SUBSET op'.entries]
      /\ quarantine'.dir /\ quarantine'.plan = quarantine.plan
      /\ quarantine'.payloads = quarantine.payloads
  BY <1>1, Records DEF MakeQuarantine
<1>3. QuarantineSound'
  BY <1>1, <1>2 DEF GCInv, QuarantineSound
<1>4. cmd' \in CommandRecord /\ CommandSound'
  <2>1. Admitted(cmd.name, "write", cmd.gen)'
    BY <1>1, <1>2, Records DEF MakeQuarantine, Running, Admitted, Go, CommandRecord
  <2> QED
    BY <2>1, CommandGoes DEF MakeQuarantine, Running, CommandStep, ledger
<1>5. Pending' = Pending
  BY <1>1 DEF Pending
<1> QED
  BY <1>1, <1>2, <1>3, <1>4, <1>5, Records, OperationMoves DEF MakeQuarantine

\* writeRootedNewRegular fills the plan in two steps, still planned.
LEMMA WritePlanSafe ==
  ASSUME GCInv, WritePlan, UNCHANGED stops
  PROVE  GCInv'
<1>1. op.state = "planned" /\ op' = op /\ quarantine.dir
  BY DEF WritePlan, Running, GCInv, CommandSound, Admitted
<1>2. /\ quarantine' \in [dir : BOOLEAN, plan : PlanFile, payloads : SUBSET op'.entries]
      /\ quarantine'.dir /\ quarantine'.payloads = quarantine.payloads
      /\ quarantine.plan # "absent" => quarantine'.plan = "whole"
  BY <1>1, Records DEF WritePlan, PlanFile
<1>3. QuarantineSound'
  BY <1>1, <1>2 DEF GCInv, QuarantineSound
<1>4. cmd' \in CommandRecord /\ CommandSound'
  <2>1. PICK step \in {"write", "stage"} : Go(step) /\ (step = "stage" => quarantine'.plan = "whole")
    BY <1>2 DEF WritePlan
  <2>2. Admitted(cmd.name, step, cmd.gen)'
    BY <1>1, <1>2, <2>1, Records DEF WritePlan, Running, Admitted, Go, CommandRecord
  <2> QED
    BY <2>1, <2>2, CommandGoes DEF WritePlan, Running, CommandStep, ledger
<1>5. Pending' = Pending
  BY <1>1 DEF Pending
<1> QED
  BY <1>1, <1>2, <1>3, <1>4, <1>5, Records, OperationMoves DEF WritePlan

\* The operation is staged with a whole plan.
LEMMA SetStagedSafe ==
  ASSUME GCInv, SetStaged, UNCHANGED stops
  PROVE  GCInv'
<1>1. op.state = "planned" /\ quarantine.plan = "whole" /\ quarantine' = quarantine
  BY DEF SetStaged, Running, GCInv, CommandSound, Admitted
<1>2. /\ op' \in [state : OperationState, entries : SUBSET Payload, base : 0 .. gen]
      /\ op'.state = "staged" /\ op'.entries = op.entries /\ op'.base = op.base
  BY Records DEF SetStaged, SetState, OperationState
<1>3. QuarantineSound'
  BY <1>1, <1>2 DEF GCInv, QuarantineSound
<1>4. cmd' \in CommandRecord /\ CommandSound'
  <2>1. Admitted(cmd.name, "apply", cmd.gen)'
    BY <1>1, <1>2, Records DEF SetStaged, Running, Admitted, Go, CommandRecord
  <2> QED
    BY <2>1, CommandGoes DEF SetStaged, Running, CommandStep, ledger
<1>5. Pending' /\ Pending
  BY <1>1, <1>2 DEF Pending
<1>6. quarantine' \in [dir : BOOLEAN, plan : PlanFile, payloads : SUBSET op'.entries]
  BY <1>1, <1>2, Records
<1> QED
  BY <1>1, <1>2, <1>3, <1>4, <1>5, <1>6, OperationMoves DEF SetStaged

-----------------------------------------------------------------------------
(* Carrying out a plan *)

\* A payload is linked into the quarantine.
LEMMA QuarantineSafe ==
  ASSUME GCInv, Quarantine, UNCHANGED stops
  PROVE  GCInv'
<1>1. op.state \in {"staged", "applied"} /\ op' = op /\ cmd' = cmd /\ pool' = pool
  BY DEF Quarantine, GCInv, CommandSound, Admitted
<1>2. PICK p \in (op.entries \intersect pool) \ quarantine.payloads :
        quarantine' = [quarantine EXCEPT !.payloads = @ \union {p}]
  BY DEF Quarantine
<1>3. /\ quarantine' \in [dir : BOOLEAN, plan : PlanFile, payloads : SUBSET op'.entries]
      /\ quarantine'.dir = quarantine.dir /\ quarantine'.plan = quarantine.plan
      /\ quarantine.payloads \subseteq quarantine'.payloads
      /\ quarantine'.payloads # {}
  BY <1>1, <1>2, Records
<1>4. QuarantineSound'
  BY <1>1, <1>3 DEF GCInv, QuarantineSound
<1>5. CommandSound'
  BY <1>1, <1>3 DEF Quarantine, GCInv, CommandSound, Admitted
<1>6. Pending' = Pending
  BY <1>1 DEF Pending
<1>7. cmd' \in CommandRecord /\ op' \in [state : OperationState, entries : SUBSET Payload, base : 0 .. gen]
  BY <1>1, Records
<1> QED
  BY <1>1, <1>3, <1>4, <1>5, <1>6, <1>7, OperationMoves DEF Quarantine

\* A payload that is in both places leaves the pool.
LEMMA DetachSafe ==
  ASSUME GCInv, Detach, UNCHANGED stops
  PROVE  GCInv'
<1>1. PICK p \in op.entries \intersect pool \intersect quarantine.payloads : pool' = pool \ {p}
  BY DEF Detach
<1>2. UNCHANGED <<ledger, op, quarantine, retention, publication, cmd>>
  BY DEF Detach
<1>3. Pending /\ op.state \in {"staged", "applied"}
  BY DEF Detach, GCInv, CommandSound, Admitted, Pending
<1>4. Typed'
  BY <1>1, <1>2 DEF GCInv, Typed, TypeOK, CommandRecord, ledger, publication, retention
<1>5. QuarantineSound'
  BY <1>1, <1>2 DEF GCInv, QuarantineSound
<1>6. TreeSound'
  BY <1>1, <1>2, <1>3 DEF GCInv, TreeSound, Pending, Clean, MembershipRoots, ledger
<1>7. RootsKept'
  BY <1>1, <1>2, <1>3
     DEF GCInv, RootsKept, PublicationRoots, PayloadsOf, Pending, ledger, publication, retention
<1>8. CommandSound'
  BY <1>2 DEF GCInv, CommandSound, Admitted, Pending, Parts, ledger, retention
<1>9. RemovalReplayable'
  BY <1>2 DEF GCInv, RemovalReplayable, Parts, retention
<1> QED
  BY <1>4, <1>5, <1>6, <1>7, <1>8, <1>9 DEF GCInv

\* The operation is applied once each entry is in the quarantine only.
LEMMA SetAppliedSafe ==
  ASSUME GCInv, SetApplied, UNCHANGED stops
  PROVE  GCInv'
<1>1. op.state \in {"staged", "applied"} /\ quarantine' = quarantine /\ pool' = pool
  BY DEF SetApplied, GCInv, CommandSound, Admitted
<1>2. /\ op' \in [state : OperationState, entries : SUBSET Payload, base : 0 .. gen]
      /\ op'.state = "applied" /\ op'.entries = op.entries /\ op'.base = op.base
  BY Records DEF SetApplied, SetState, OperationState
<1>3. QuarantineSound'
  BY <1>1, <1>2 DEF SetApplied, GCInv, QuarantineSound
<1>4. cmd' \in CommandRecord /\ CommandSound'
  <2>1. cmd.name \in {"gc", "write"} /\ cmd.name # "none"
    BY Recovering DEF SetApplied
  <2>2. Admitted(cmd.name, "finalize", cmd.gen)'
    BY <1>2, <2>1, Records DEF SetApplied, Admitted, Go, CommandRecord
  <2> QED
    BY <2>1, <2>2, CommandGoes DEF SetApplied, CommandStep, ledger
<1>5. Pending' /\ Pending
  BY <1>1, <1>2 DEF Pending
<1>6. quarantine' \in [dir : BOOLEAN, plan : PlanFile, payloads : SUBSET op'.entries]
  BY <1>1, <1>2, Records
<1> QED
  BY <1>1, <1>2, <1>3, <1>4, <1>5, <1>6, OperationMoves DEF SetApplied

\* FinalizeLocalGC records the generation without the entries: what is left in
\* the pool is what it lists.
LEMMA FinalizeLocalGCSafe ==
  ASSUME GCInv, FinalizeLocalGC, UNCHANGED stops
  PROVE  GCInv'
<1>1. op.state = "applied" /\ Pending /\ gen < MaxGen
  BY DEF FinalizeLocalGC, GCInv, CommandSound, Admitted, Pending, TreeSound
<1>2. gen + 1 \in Gen /\ gen' = gen + 1 /\ 0 .. gen \subseteq 0 .. gen' /\ 1 .. gen \subseteq 1 .. gen'
      /\ 1 .. gen \subseteq Gen
  BY <1>1, Numbers DEF FinalizeLocalGC, Gen
<1>3. manifest' \in [Gen -> SUBSET Payload] /\ manifest'[gen'] = manifest[gen] \ op.entries
      /\ \A g \in 1 .. gen : manifest'[g] = manifest[g]
  <2>1. manifest \in [Gen -> SUBSET Payload] /\ gen \in Gen
    BY DEF GCInv, Typed, TypeOK
  <2>2. \A g \in 1 .. gen : g # gen + 1
    BY Numbers
  <2> QED
    BY <1>2, <2>1, <2>2 DEF FinalizeLocalGC, SubtractLocalGCObjects
<1>4. /\ op' \in [state : OperationState, entries : SUBSET Payload, base : 0 .. gen]
      /\ op'.state = "done" /\ op'.entries = op.entries /\ op'.base = op.base
  BY Records DEF FinalizeLocalGC, SetState, OperationState
<1>5. ~Pending' /\ UNCHANGED <<member, built, prior, pool, quarantine, retention, publication>>
  BY <1>4 DEF FinalizeLocalGC, Pending
<1>6. /\ cmd.name \in {"gc", "write"} /\ cmd'.name = cmd.name /\ cmd'.at = "cleanup"
      /\ cmd'.gen = cmd.gen
      /\ cmd' \in [name : {"none", "gc", "write", "retain add", "retain rm"}, at : CommandStep,
                   gen : 0 .. gen]
  BY Recovering, Records DEF FinalizeLocalGC, Go, CommandRecord, CommandStep
<1>7. Typed'
  <2>1. op' \in [state : OperationState, entries : SUBSET Payload, base : 0 .. gen']
        /\ cmd' \in CommandRecord'
    BY <1>2, <1>4, <1>6 DEF CommandRecord
  <2>2. gen' \in Gen /\ rows' \subseteq Payload /\ member' \union built' \union prior' \subseteq rows'
    BY <1>2, <1>5 DEF FinalizeLocalGC, Finalizable, MembershipRoots, GCInv, Typed, TypeOK
  <2>3. retained' \subseteq 1 .. gen' /\ stage' \union tomb' \subseteq (1 .. gen') \X Part
        /\ attempt' \in 0 .. gen' /\ grace' \in 0 .. gen'
    BY <1>2, <1>5 DEF GCInv, Typed, TypeOK, retention, publication
  <2> QED
    BY <1>3, <1>4, <1>5, <2>1, <2>2, <2>3
       DEF GCInv, Typed, TypeOK, OperationState, retention
<1>8. QuarantineSound'
  BY <1>1, <1>4, <1>5 DEF GCInv, QuarantineSound
<1>9. TreeSound'
  <2>1. rows \ pool \subseteq op.entries /\ pool \subseteq rows /\ op.entries \intersect pool = {}
        /\ rows = manifest[gen]
    BY <1>1 DEF GCInv, TreeSound, QuarantineSound
  <2> QED
    BY <1>3, <1>5, <2>1 DEF FinalizeLocalGC, TreeSound
<1>10. RootsKept'
  <2>1. attempt \in 0 .. gen /\ retained \subseteq 1 .. gen
    BY DEF GCInv, Typed, TypeOK
  <2>2. attempt # 0 => attempt \in 1 .. gen
    BY <2>1, Numbers
  <2>3. PayloadsOf(attempt)' = PayloadsOf(attempt)
    BY <1>3, <1>5, <2>2 DEF PayloadsOf, publication
  <2>4. \A g \in retained : manifest'[g] = manifest[g]
    BY <1>3, <2>1
  <2> QED
    BY <1>5, <2>3, <2>4 DEF GCInv, RootsKept, retention
<1>11. CommandSound'
  BY <1>4, <1>6, IdleFields DEF CommandSound, Admitted
<1>12. RemovalReplayable'
  BY <1>5 DEF GCInv, RemovalReplayable, Parts, retention
<1> QED
  BY <1>7, <1>8, <1>9, <1>10, <1>11, <1>12 DEF GCInv

\* cleanupLocalGCPlan: a finished operation's quarantine goes in its order.
LEMMA CleanupSafe ==
  ASSUME GCInv, Cleanup, UNCHANGED stops
  PROVE  GCInv'
<1>1. op.state \in {"done", "rolled_back"} /\ op' = op /\ ~Pending /\ ~Pending' /\ pool' = pool
  BY DEF Cleanup, GCInv, CommandSound, Admitted, Pending
<1>2. /\ quarantine' \in [dir : BOOLEAN, plan : PlanFile, payloads : SUBSET op'.entries]
      /\ QuarantineSound'
  <2>1. CASE quarantine.payloads # {}
    <3>1. PICK p \in quarantine.payloads : quarantine' = [quarantine EXCEPT !.payloads = @ \ {p}]
      BY <2>1 DEF Cleanup
    <3>2. /\ quarantine' \in [dir : BOOLEAN, plan : PlanFile, payloads : SUBSET op'.entries]
          /\ quarantine'.dir = quarantine.dir /\ quarantine'.plan = quarantine.plan
          /\ quarantine'.payloads \subseteq quarantine.payloads
      BY <1>1, <3>1, Records
    <3> QED
      BY <1>1, <3>2 DEF GCInv, QuarantineSound
  <2>2. CASE quarantine.payloads = {} /\ quarantine.plan # "absent"
    <3>1. /\ quarantine' \in [dir : BOOLEAN, plan : PlanFile, payloads : SUBSET op'.entries]
          /\ quarantine'.dir = quarantine.dir /\ quarantine'.plan = "absent"
          /\ quarantine'.payloads = {}
      BY <1>1, <2>2, Records DEF Cleanup, PlanFile
    <3> QED
      BY <1>1, <3>1 DEF GCInv, QuarantineSound
  <2>3. CASE quarantine.payloads = {} /\ quarantine.plan = "absent"
    <3>1. /\ quarantine' \in [dir : BOOLEAN, plan : PlanFile, payloads : SUBSET op'.entries]
          /\ quarantine'.dir = FALSE /\ quarantine'.plan = "absent"
          /\ quarantine'.payloads = {}
      BY <1>1, <2>3, Records DEF Cleanup
    <3> QED
      BY <1>1, <3>1 DEF GCInv, QuarantineSound
  <2> QED
    BY <2>1, <2>2, <2>3
<1>3. cmd.name \in {"gc", "write"} /\ cmd.name # "none"
  BY Recovering DEF Cleanup
<1>4. cmd' \in CommandRecord /\ CommandSound'
  <2>1. CASE UNCHANGED cmd
    BY <1>1, <2>1, Records DEF Cleanup, GCInv, CommandSound, Admitted, CommandRecord, ledger
  <2>2. CASE Go("recover")
    <3>1. Admitted(cmd.name, "recover", cmd.gen)'
      BY <1>3, <2>2, Records DEF Cleanup, Admitted, Go, CommandRecord
    <3> QED
      BY <1>3, <2>2, <3>1, CommandGoes DEF Cleanup, CommandStep, ledger
  <2>3. CASE End
    BY <2>3, IdleTyped, IdleFields DEF Cleanup, End, CommandSound, Admitted, CommandRecord, ledger
  <2> QED
    BY <2>1, <2>2, <2>3 DEF Cleanup
<1> QED
  BY <1>1, <1>2, <1>4, Records, OperationMoves DEF Cleanup

-----------------------------------------------------------------------------
(* Other commands *)

\* A command that is ready found nothing pending.
LEMMA Ready ==
  ASSUME GCInv, Running("write", "ready")
  PROVE  ~Pending /\ ~quarantine.dir /\ pool = rows /\ rows = manifest[gen]
  BY DEF Running, GCInv, CommandSound, Admitted, TreeSound

\* A mutation that ends without its build
LEMMA ApplyDesiredSafe ==
  ASSUME GCInv, ApplyDesired, UNCHANGED stops
  PROVE  GCInv'
<1>1. ~Pending /\ pool = rows /\ rows = manifest[gen]
  BY Ready DEF ApplyDesired
<1>2. UNCHANGED <<rows, built, prior, gen, manifest, pool, op, quarantine, retention, publication>>
      /\ member' \subseteq rows /\ cmd' = Idle /\ ~Pending'
  BY <1>1 DEF ApplyDesired, End, Pending
<1>3. Typed'
  BY <1>2, IdleTyped DEF GCInv, Typed, TypeOK, CommandRecord, publication, retention
<1>4. QuarantineSound' /\ TreeSound' /\ RemovalReplayable'
  BY <1>1, <1>2 DEF GCInv, QuarantineSound, TreeSound, RemovalReplayable, Parts, retention
<1>5. RootsKept'
  BY <1>2 DEF GCInv, RootsKept, PayloadsOf, publication, retention
<1>6. CommandSound'
  BY <1>2, IdleFields DEF CommandSound, Admitted
<1> QED
  BY <1>3, <1>4, <1>5, <1>6 DEF GCInv

\* FinalizeBuild: rows, pool and the new generation grow together.
LEMMA FinalizeBuildSafe ==
  ASSUME GCInv, FinalizeBuild, UNCHANGED stops
  PROVE  GCInv'
<1>1. ~Pending /\ pool = rows /\ rows = manifest[gen]
  BY Ready DEF FinalizeBuild
<1>2. PICK m \in SUBSET Payload :
        /\ member' = m /\ built' = m /\ prior' = built
        /\ rows' = rows \union m /\ pool' = pool \union m
        /\ manifest' = [manifest EXCEPT ![gen + 1] = pool \union m]
  BY DEF FinalizeBuild
<1>3. gen + 1 \in Gen /\ gen' = gen + 1 /\ 0 .. gen \subseteq 0 .. gen' /\ 1 .. gen \subseteq 1 .. gen'
      /\ 1 .. gen \subseteq Gen
  BY Numbers DEF FinalizeBuild, Gen
<1>4. manifest' \in [Gen -> SUBSET Payload] /\ manifest'[gen'] = rows'
      /\ \A g \in 1 .. gen : manifest'[g] = manifest[g]
  <2>1. manifest \in [Gen -> SUBSET Payload] /\ pool \subseteq Payload
    BY DEF GCInv, Typed, TypeOK
  <2>2. \A g \in 1 .. gen : g # gen + 1
    BY Numbers
  <2> QED
    BY <1>1, <1>2, <1>3, <2>1, <2>2
<1>5. cmd' = Idle /\ UNCHANGED <<op, quarantine, retention, publication>> /\ ~Pending'
  BY <1>1 DEF FinalizeBuild, End, Pending
<1>6. Typed'
  <2>1. op' \in [state : OperationState, entries : SUBSET Payload, base : 0 .. gen']
        /\ cmd' \in CommandRecord'
    BY <1>3, <1>5, Records, IdleTyped DEF CommandRecord
  <2>2. /\ gen' \in Gen /\ rows' \subseteq Payload /\ pool' \subseteq Payload
        /\ member' \union built' \union prior' \subseteq rows'
    BY <1>2, <1>3 DEF GCInv, Typed, TypeOK
  <2>3. retained' \subseteq 1 .. gen' /\ stage' \union tomb' \subseteq (1 .. gen') \X Part
        /\ attempt' \in 0 .. gen' /\ grace' \in 0 .. gen'
    BY <1>3, <1>5 DEF GCInv, Typed, TypeOK, retention, publication
  <2> QED
    BY <1>4, <1>5, <2>1, <2>2, <2>3
       DEF GCInv, Typed, TypeOK, OperationState, retention
<1>7. QuarantineSound'
  BY <1>1, <1>5 DEF GCInv, QuarantineSound, Pending
<1>8. TreeSound'
  BY <1>1, <1>2, <1>4, <1>5 DEF TreeSound
<1>9. RootsKept'
  <2>1. attempt \in 0 .. gen /\ retained \subseteq 1 .. gen
    BY DEF GCInv, Typed, TypeOK
  <2>2. attempt # 0 => attempt \in 1 .. gen
    BY <2>1, Numbers
  <2>3. PayloadsOf(attempt)' = PayloadsOf(attempt)
    BY <1>4, <1>5, <2>2 DEF PayloadsOf, publication
  <2>4. \A g \in retained : manifest'[g] = manifest[g]
    BY <1>4, <2>1
  <2> QED
    BY <1>2, <1>5, <2>3, <2>4 DEF GCInv, RootsKept, retention
<1>10. CommandSound'
  BY <1>5, IdleFields DEF CommandSound, Admitted
<1>11. RemovalReplayable'
  BY <1>5 DEF GCInv, RemovalReplayable, Parts, retention
<1> QED
  BY <1>6, <1>7, <1>8, <1>9, <1>10, <1>11 DEF GCInv

\* A publication pins or frees a generation while nothing is pending.
LEMMA PublicationMoves ==
  ASSUME GCInv, UNCHANGED stops, Running("write", "ready"), End,
         UNCHANGED <<ledger, pool, op, quarantine, retention>>,
         attempt' \in 0 .. gen, grace' \in 0 .. gen, PayloadsOf(attempt') \subseteq pool
  PROVE  GCInv'
<1>1. ~Pending /\ ~Pending'
  BY Ready DEF Pending
<1>2. cmd' = Idle
  BY DEF End
<1>3. Typed'
  BY <1>2, IdleTyped DEF GCInv, Typed, TypeOK, CommandRecord, ledger, retention
<1>4. QuarantineSound' /\ TreeSound' /\ RemovalReplayable'
  BY <1>1 DEF GCInv, QuarantineSound, TreeSound, RemovalReplayable, Parts, retention, ledger
<1>5. RootsKept'
  BY <1>1 DEF GCInv, RootsKept, PayloadsOf, retention, ledger
<1>6. CommandSound'
  BY <1>2, IdleFields DEF CommandSound, Admitted
<1> QED
  BY <1>3, <1>4, <1>5, <1>6 DEF GCInv

\* BeginAttempt, EndAttempt and EndGrace
LEMMA PublicationSafe ==
  ASSUME GCInv, UNCHANGED stops,
         BeginAttempt \/ EndAttempt(TRUE) \/ EndAttempt(FALSE) \/ EndGrace
  PROVE  GCInv'
<1>1. attempt \in 0 .. gen /\ grace \in 0 .. gen /\ 0 \in 0 .. gen /\ gen \in 0 .. gen /\ gen # 0
  BY Numbers DEF GCInv, Typed, TypeOK
<1>2. PayloadsOf(0) = {} /\ PayloadsOf(attempt) \subseteq pool
  BY DEF PayloadsOf, GCInv, RootsKept
<1>3. CASE BeginAttempt
  <2>1. PayloadsOf(gen) \subseteq pool
    BY <1>1, <1>3, Ready DEF BeginAttempt, PayloadsOf
  <2> QED
    BY <1>1, <1>3, <2>1, PublicationMoves DEF BeginAttempt
<1>4. ASSUME NEW applied \in BOOLEAN, EndAttempt(applied)
      PROVE  GCInv'
  <2>1. attempt' = 0 /\ grace' \in 0 .. gen
    BY <1>1, <1>4 DEF EndAttempt
  <2> QED
    BY <1>1, <1>2, <1>4, <2>1, PublicationMoves DEF EndAttempt
<1>5. CASE EndGrace
  BY <1>1, <1>2, <1>5, PublicationMoves DEF EndGrace
<1> QED
  BY <1>3, <1>4, <1>5

\* A command that has nothing to do
LEMMA LeaveSafe ==
  ASSUME GCInv, Leave, UNCHANGED stops
  PROVE  GCInv'
  BY StageTyped, CommandEnds DEF Leave, retention

-----------------------------------------------------------------------------
(* retain add *)

\* A generation up to the current one, but for the 0 that stands for none.
LEMMA Recorded ==
  ASSUME NEW n \in Nat, NEW m \in Nat, n <= m, m = MaxGen, NEW g \in 0 .. n, g # 0
  PROVE  g \in 1 .. n /\ g \in Gen
  BY DEF Gen

\* The generation a `retain` command names is one that was recorded.
LEMMA RetainedGeneration ==
  ASSUME GCInv, cmd.name \in {"retain add", "retain rm"}
  PROVE  cmd.gen \in 1 .. gen /\ cmd.gen \in Gen /\ cmd.name # "none"
<1>1. cmd.gen # 0
  BY DEF GCInv, CommandSound, Admitted
<1>2. cmd.gen \in 0 .. gen
  BY Records DEF CommandRecord
<1>3. gen \in Nat /\ 1 <= gen /\ gen <= MaxGen /\ MaxGen \in Nat
  BY Numbers
<1> QED
  BY <1>1, <1>2, <1>3, Recorded

\* An entry of the stage is made.
LEMMA StageGrows ==
  ASSUME GCInv, cmd.name = "retain add", NEW q \in Part
  PROVE  stage \union {<<cmd.gen, q>>} \subseteq (1 .. gen) \X Part
<1>1. cmd.gen \in 1 .. gen
  BY RetainedGeneration
<1>2. <<cmd.gen, q>> \in (1 .. gen) \X Part
  BY <1>1
<1> QED
  BY <1>2, StageTyped

\* The entries of a retained generation by name.
LEMMA PartNames == Part = {"manifest.tsv", "metadata", "record.json", "dir"}
<1>1. 1 .. 4 = {1, 2, 3, 4}
  OBVIOUS
<1>2. Entry[1] = "manifest.tsv" /\ Entry[2] = "metadata" /\ Entry[3] = "record.json" /\ Entry[4] = "dir"
  BY DEF Entry
<1> QED
  BY <1>1, <1>2 DEF Part

\* Only the current generation is staged.
LEMMA BeginRetainSafe ==
  ASSUME GCInv, BeginRetain, UNCHANGED stops
  PROVE  GCInv'
<1>1. cmd.name = "retain add" /\ cmd.name # "none"
  BY DEF BeginRetain, Running
<1>2. CASE cmd.gen = gen /\ cmd.gen \notin retained
  <2>1. Admitted(cmd.name, "copy", cmd.gen)
    BY <1>1, <1>2, RetainedGeneration DEF Admitted, GCInv, CommandSound
  <2>2. stage' \subseteq (1 .. gen) \X Part
    BY <1>1, <1>2, StageGrows, PartNames DEF BeginRetain
  <2> QED
    BY <1>1, <1>2, <2>1, <2>2, CommandGoesOn DEF BeginRetain, CommandStep
<1>3. CASE ~(cmd.gen = gen /\ cmd.gen \notin retained)
  BY <1>3, StageTyped, CommandEnds DEF BeginRetain
<1> QED
  BY <1>2, <1>3

\* The metadata is copied once the payloads are verified.
LEMMA CopyMetadataSafe ==
  ASSUME GCInv, CopyMetadata, UNCHANGED stops
  PROVE  GCInv'
<1>1. cmd.name = "retain add" /\ cmd.name # "none" /\ cmd.gen = gen /\ cmd.gen # 0
  BY DEF CopyMetadata, Running, GCInv, CommandSound, Admitted
<1>2. CASE Verified(cmd.gen)
  <2>1. Admitted(cmd.name, "manifest.tsv", cmd.gen)
    BY <1>1 DEF Admitted
  <2>2. stage' \subseteq (1 .. gen) \X Part
    BY <1>1, <1>2, StageGrows, PartNames DEF CopyMetadata
  <2> QED
    BY <1>1, <1>2, <2>1, <2>2, CommandGoesOn DEF CopyMetadata, CommandStep
<1>3. CASE ~Verified(cmd.gen)
  <2>1. Admitted(cmd.name, "undo", cmd.gen)
    BY <1>1 DEF Admitted
  <2> QED
    BY <1>1, <1>3, <2>1, StageTyped, CommandGoesOn DEF CopyMetadata, CommandStep
<1> QED
  BY <1>2, <1>3

\* manifest.tsv and record.json are written.
LEMMA WriteRecordSafe ==
  ASSUME GCInv, WriteRecord, UNCHANGED stops
  PROVE  GCInv'
<1>1. cmd.name = "retain add" /\ cmd.name # "none" /\ cmd.gen = gen /\ cmd.gen # 0
  BY DEF WriteRecord, GCInv, CommandSound, Admitted
<1>2. PICK step \in {"record.json", "commit"} : Go(step)
  BY DEF WriteRecord
<1>3. Admitted(cmd.name, step, cmd.gen) /\ step \in CommandStep
  BY <1>1, <1>2 DEF Admitted, CommandStep
<1>4. stage' \subseteq (1 .. gen) \X Part
  BY <1>1, StageGrows, PartNames DEF WriteRecord
<1> QED
  BY <1>1, <1>2, <1>3, <1>4, CommandGoesOn DEF WriteRecord

\* durableRename: with no gc pending the generation's payloads are in the pool,
\* otherwise it counts as retained late.
LEMMA CommitRetainSafe ==
  ASSUME GCInv, CommitRetain, UNCHANGED stops
  PROVE  GCInv'
<1>1. cmd.name = "retain add" /\ cmd.gen = gen /\ cmd.gen \in 1 .. gen /\ cmd.gen \in Gen
  BY RetainedGeneration DEF CommitRetain, Running, GCInv, CommandSound, Admitted
<1>2. /\ UNCHANGED <<ledger, pool, op, quarantine, tomb, rmPlan, publication>>
      /\ cmd' = Idle /\ stage' \subseteq stage /\ retained' = retained \union {cmd.gen}
      /\ late' = IF Pending THEN late \union {cmd.gen} ELSE late \ {cmd.gen}
  BY DEF CommitRetain, End
<1>3. Pending' = Pending /\ Clean' = Clean /\ MembershipRoots' = MembershipRoots
  BY <1>2 DEF Pending, Clean, MembershipRoots, ledger
<1>4. Typed'
  <2>1. late' \subseteq Gen /\ retained' \subseteq 1 .. gen /\ stage' \union tomb' \subseteq (1 .. gen) \X Part
    BY <1>1, <1>2 DEF GCInv, Typed, TypeOK
  <2> QED
    BY <1>2, <2>1, IdleTyped DEF GCInv, Typed, TypeOK, CommandRecord, publication, ledger
<1>5. QuarantineSound' /\ RemovalReplayable'
  BY <1>2 DEF GCInv, QuarantineSound, RemovalReplayable, Parts
<1>6. TreeSound'
  BY <1>2, <1>3 DEF GCInv, TreeSound, ledger
<1>7. RootsKept'
  <2>1. PublicationRoots' = PublicationRoots /\ PayloadsOf(attempt)' = PayloadsOf(attempt)
    BY <1>2 DEF PublicationRoots, PayloadsOf, publication, ledger
  <2>2. CASE Pending
    <3>1. retained' \ late' \subseteq retained \ late
      BY <1>2, <2>2
    <3> QED
      BY <1>2, <1>3, <2>1, <3>1 DEF GCInv, RootsKept, ledger
  <2>3. CASE ~Pending
    <3>1. manifest[cmd.gen] \subseteq pool
      BY <1>1, <2>3 DEF GCInv, TreeSound
    <3>2. \A g \in retained' \ late' : g = cmd.gen \/ g \in retained \ late
      BY <1>2, <2>3
    <3> QED
      BY <1>2, <1>3, <2>1, <2>3, <3>1, <3>2 DEF GCInv, RootsKept, ledger
  <2> QED
    BY <2>2, <2>3
<1>8. CommandSound'
  BY <1>2, IdleFields DEF CommandSound, Admitted
<1> QED
  BY <1>4, <1>5, <1>6, <1>7, <1>8 DEF GCInv

\* removeOwnedDirectory after a failure
LEMMA UndoRetainSafe ==
  ASSUME GCInv, UndoRetain, UNCHANGED stops
  PROVE  GCInv'
<1>1. CASE Parts(stage, cmd.gen) = {}
  BY <1>1, StageTyped, CommandEnds DEF UndoRetain
<1>2. CASE Parts(stage, cmd.gen) # {}
  <2>1. stage' \subseteq stage /\ cmd' = cmd
    BY <1>2 DEF UndoRetain
  <2>2. cmd' \in CommandRecord
    BY <2>1, Records
  <2>3. CommandSound'
    BY <2>1 DEF UndoRetain, GCInv, CommandSound, Admitted, Pending, Parts, ledger
  <2> QED
    BY <2>1, <2>2, <2>3, StageTyped, CommandMoves DEF UndoRetain
<1> QED
  BY <1>1, <1>2

-----------------------------------------------------------------------------
(* retain rm *)

\* What is found decides: the tombstone and the plan are what the next step needs.
LEMMA InspectSafe ==
  ASSUME GCInv, Inspect, UNCHANGED stops
  PROVE  GCInv'
<1>1. cmd.name = "retain rm" /\ cmd.name # "none" /\ cmd.gen # 0
  BY DEF Inspect, Running, GCInv, CommandSound, Admitted
<1>2. CASE End
  BY <1>2, StageTyped, CommandEnds DEF Inspect, retention
<1>3. ASSUME NEW step \in {"plan", "move", "remove", "unplan"}, Go(step),
             step \in {"plan", "unplan"} => Parts(tomb, cmd.gen) = {},
             step \in {"move", "remove"} => rmPlan[cmd.gen] = "whole"
      PROVE  GCInv'
  <2>1. Admitted(cmd.name, step, cmd.gen) /\ step \in CommandStep
    BY <1>1, <1>3 DEF Admitted, CommandStep
  <2> QED
    BY <1>1, <1>3, <2>1, StageTyped, CommandGoesOn DEF Inspect, retention
<1> DEFINE target == cmd.gen \in retained
           dead == Parts(tomb, cmd.gen) # {}
           plan == rmPlan[cmd.gen]
<1>4. \/ Go("plan") /\ ~dead
      \/ Go("move") /\ plan = "whole"
      \/ Go("remove") /\ plan = "whole"
      \/ Go("unplan") /\ ~dead
      \/ End
  <2>1. CASE target /\ ~dead /\ plan = "absent" /\ Verified(cmd.gen)
    BY <2>1 DEF Inspect
  <2>2. CASE target /\ ~dead /\ plan = "whole" /\ Verified(cmd.gen)
    BY <2>2 DEF Inspect
  <2>3. CASE ~target /\ dead /\ plan = "whole"
    BY <2>3 DEF Inspect
  <2>4. CASE ~target /\ ~dead /\ plan = "whole"
    BY <2>4 DEF Inspect
  <2>5. CASE /\ ~(target /\ ~dead /\ plan = "absent" /\ Verified(cmd.gen))
             /\ ~(target /\ ~dead /\ plan = "whole" /\ Verified(cmd.gen))
             /\ ~(~target /\ dead /\ plan = "whole")
             /\ ~(~target /\ ~dead /\ plan = "whole")
    BY <2>5 DEF Inspect
  <2> QED
    BY <2>1, <2>2, <2>3, <2>4, <2>5
<1> QED
  BY <1>2, <1>3, <1>4

\* Only `retain rm` state changes: tombstones and their plans.
LEMMA RemovalMoves ==
  ASSUME GCInv, UNCHANGED stops, cmd.name = "retain rm",
         UNCHANGED <<ledger, pool, op, quarantine, stage, late, publication>>,
         retained' \subseteq retained, tomb' \subseteq (1 .. gen) \X Part,
         rmPlan' \in [Gen -> PlanFile],
         cmd' \in CommandRecord, CommandSound', RemovalReplayable'
  PROVE  GCInv'
<1>1. Pending' = Pending /\ Clean' = Clean /\ MembershipRoots' = MembershipRoots
  BY DEF Pending, Clean, MembershipRoots, ledger
<1>2. Typed'
  BY DEF GCInv, Typed, TypeOK, CommandRecord, publication, ledger
<1>3. QuarantineSound' /\ TreeSound'
  BY <1>1 DEF GCInv, QuarantineSound, TreeSound, ledger
<1>4. RootsKept'
  BY <1>1 DEF GCInv, RootsKept, PublicationRoots, PayloadsOf, publication, ledger
<1> QED
  BY <1>2, <1>3, <1>4 DEF GCInv

\* The removal's plan is written while there is no tombstone.
LEMMA PlanRemovalSafe ==
  ASSUME GCInv, PlanRemoval, UNCHANGED stops
  PROVE  GCInv'
<1>1. cmd.name = "retain rm" /\ cmd.name # "none" /\ cmd.gen \in Gen /\ Parts(tomb, cmd.gen) = {}
      /\ cmd.gen # 0
  BY RetainedGeneration DEF PlanRemoval, Running, GCInv, CommandSound, Admitted
<1>2. UNCHANGED <<ledger, pool, op, quarantine, retained, stage, tomb, late, publication>>
  BY DEF PlanRemoval
<1>3. rmPlan \in [Gen -> PlanFile]
  BY DEF GCInv, Typed, TypeOK
<1>4. /\ rmPlan' \in [Gen -> PlanFile]
      /\ rmPlan[cmd.gen] # "absent" => rmPlan'[cmd.gen] = "whole"
      /\ \A g \in Gen : g # cmd.gen => rmPlan'[g] = rmPlan[g]
  BY <1>1, <1>3 DEF PlanRemoval, PlanFile
<1>5. RemovalReplayable'
  BY <1>1, <1>2, <1>4 DEF GCInv, RemovalReplayable, Parts
<1>6. PICK step \in {"plan", "move"} : Go(step) /\ (step = "move" => rmPlan[cmd.gen] # "absent")
  BY DEF PlanRemoval
<1>7. cmd'.name = cmd.name /\ cmd'.gen = cmd.gen
  BY <1>6, Records DEF Go, CommandRecord
<1>8. Admitted(cmd.name, step, cmd.gen)'
  BY <1>1, <1>2, <1>4, <1>6, <1>7 DEF Admitted, Parts
<1>9. cmd' \in CommandRecord /\ CommandSound'
  BY <1>1, <1>2, <1>6, <1>8, CommandGoes DEF CommandStep, ledger
<1>10. tomb' \subseteq (1 .. gen) \X Part
  BY <1>2 DEF GCInv, Typed, TypeOK
<1> QED
  BY <1>1, <1>2, <1>4, <1>5, <1>9, <1>10, RemovalMoves

\* durableRename to the tombstone, which its plan describes.
LEMMA MoveToTombSafe ==
  ASSUME GCInv, MoveToTomb, UNCHANGED stops
  PROVE  GCInv'
<1>1. cmd.name = "retain rm" /\ cmd.name # "none" /\ cmd.gen \in 1 .. gen /\ rmPlan[cmd.gen] = "whole"
      /\ cmd.gen # 0
  BY RetainedGeneration DEF MoveToTomb, Running, GCInv, CommandSound, Admitted
<1>2. UNCHANGED <<ledger, pool, op, quarantine, stage, rmPlan, late, publication>>
      /\ retained' \subseteq retained /\ tomb' = tomb \union ({cmd.gen} \X Part) /\ Go("remove")
  BY DEF MoveToTomb
<1>3. tomb' \subseteq (1 .. gen) \X Part
  BY <1>1, <1>2 DEF GCInv, Typed, TypeOK
<1>4. RemovalReplayable'
  <2>1. \A g \in Gen : g # cmd.gen => Parts(tomb, g)' = Parts(tomb, g)
    BY <1>2 DEF Parts
  <2> QED
    BY <1>1, <1>2, <2>1 DEF GCInv, RemovalReplayable
<1>5. cmd'.name = cmd.name /\ cmd'.gen = cmd.gen
  BY <1>2, Records DEF Go, CommandRecord
<1>6. Admitted(cmd.name, "remove", cmd.gen)'
  BY <1>1, <1>2, <1>5 DEF Admitted
<1>7. cmd' \in CommandRecord /\ CommandSound'
  BY <1>1, <1>2, <1>6, CommandGoes DEF CommandStep, ledger
<1>8. rmPlan' \in [Gen -> PlanFile]
  BY <1>2 DEF GCInv, Typed, TypeOK
<1> QED
  BY <1>1, <1>2, <1>3, <1>4, <1>7, <1>8, RemovalMoves

\* One entry of the tombstone goes; after the directory there is none left.
LEMMA RemoveTombSafe ==
  ASSUME GCInv, RemoveTomb, UNCHANGED stops
  PROVE  GCInv'
<1>1. cmd.name = "retain rm" /\ cmd.name # "none" /\ cmd.gen # 0
  BY DEF RemoveTomb, Running, GCInv, CommandSound, Admitted
<1>2. UNCHANGED <<ledger, pool, op, quarantine, retained, stage, rmPlan, late, publication>>
      /\ tomb' = tomb \ {<<cmd.gen, FirstEntry(tomb, cmd.gen)>>}
  BY DEF RemoveTomb
<1>3. tomb' \subseteq (1 .. gen) \X Part /\ rmPlan' \in [Gen -> PlanFile]
  BY <1>2 DEF GCInv, Typed, TypeOK
<1>4. RemovalReplayable'
  BY <1>2 DEF GCInv, RemovalReplayable, Parts
<1>5. cmd' \in CommandRecord /\ CommandSound'
  <2>1. CASE Parts(tomb, cmd.gen) = {"dir"}
    <3>1. Go("unplan") /\ cmd'.name = cmd.name /\ cmd'.gen = cmd.gen
      BY <2>1, Records DEF RemoveTomb, Go, CommandRecord
    <3>2. Parts(tomb', cmd.gen) = {}
      BY <1>2, <2>1, LastEntry
    <3>3. Admitted(cmd.name, "unplan", cmd.gen)'
      BY <1>1, <3>1, <3>2 DEF Admitted, Parts
    <3> QED
      BY <1>1, <1>2, <3>1, <3>3, CommandGoes DEF CommandStep, ledger
  <2>2. CASE Parts(tomb, cmd.gen) # {"dir"}
    <3>1. cmd' = cmd
      BY <2>2 DEF RemoveTomb
    <3> QED
      BY <1>1, <1>2, <3>1, Records
         DEF RemoveTomb, Running, GCInv, CommandSound, Admitted, CommandRecord, ledger
  <2> QED
    BY <2>1, <2>2
<1> QED
  BY <1>1, <1>2, <1>3, <1>4, <1>5, RemovalMoves

\* The plan goes when there is no tombstone any more.
LEMMA RemovePlanSafe ==
  ASSUME GCInv, RemovePlan, UNCHANGED stops
  PROVE  GCInv'
<1>1. cmd.name = "retain rm" /\ cmd.gen \in Gen /\ Parts(tomb, cmd.gen) = {}
  BY RetainedGeneration DEF RemovePlan, Running, GCInv, CommandSound, Admitted
<1>2. UNCHANGED <<ledger, pool, op, quarantine, retained, stage, tomb, late, publication>>
      /\ cmd' = Idle
  BY DEF RemovePlan, End
<1>3. rmPlan \in [Gen -> PlanFile] /\ tomb' \subseteq (1 .. gen) \X Part
  BY <1>2 DEF GCInv, Typed, TypeOK
<1>4. rmPlan' \in [Gen -> PlanFile] /\ \A g \in Gen : g # cmd.gen => rmPlan'[g] = rmPlan[g]
  BY <1>1, <1>3 DEF RemovePlan, PlanFile
<1>5. RemovalReplayable'
  BY <1>1, <1>2, <1>4 DEF GCInv, RemovalReplayable, Parts
<1>6. CommandSound'
  BY <1>2, IdleFields DEF CommandSound, Admitted
<1> QED
  BY <1>1, <1>2, <1>3, <1>4, <1>5, <1>6, IdleTyped, RemovalMoves

-----------------------------------------------------------------------------
(* Every step, and what the invariant gives *)

\* A repository that was built and has nothing pending.
LEMMA InitSafe ==
  ASSUME Init
  PROVE  GCInv
<1>1. 1 \in Gen /\ MaxStops \in Nat /\ 0 \in 0 .. 1 /\ 0 \in 0 .. MaxStops
  BY LocalGCAssumption DEF Gen
<1>2. /\ op.state = "none" /\ op.entries = {} /\ op.base = 0
      /\ quarantine.dir = FALSE /\ quarantine.plan = "absent" /\ quarantine.payloads = {}
      /\ cmd = Idle /\ gen = 1 /\ manifest[1] = Payload
  BY <1>1 DEF Init
<1>3. ~Pending
  BY <1>2 DEF Pending
<1>4. Typed
  <2>1. manifest \in [Gen -> SUBSET Payload] /\ rmPlan \in [Gen -> PlanFile]
    BY DEF Init, PlanFile
  <2>2. op \in [state : OperationState, entries : SUBSET Payload, base : 0 .. gen]
        /\ quarantine \in [dir : BOOLEAN, plan : PlanFile, payloads : SUBSET op.entries]
    BY <1>1, <1>2 DEF Init, OperationState, PlanFile
  <2>3. cmd \in CommandRecord
    BY <1>1, <1>2 DEF Idle, CommandRecord, CommandStep
  <2> QED
    BY <1>1, <1>2, <2>1, <2>2, <2>3 DEF Init, Typed, TypeOK
<1>5. QuarantineSound /\ TreeSound
  BY <1>2, <1>3 DEF Init, QuarantineSound, TreeSound
<1>6. RootsKept /\ RemovalReplayable
  BY <1>3 DEF Init, RootsKept, PayloadsOf, RemovalReplayable, Parts
<1>7. CommandSound
  BY <1>2, IdleFields DEF CommandSound, Admitted
<1> QED
  BY <1>4, <1>5, <1>6, <1>7 DEF GCInv

\* A step that changes nothing
LEMMA StutterSafe ==
  ASSUME GCInv, UNCHANGED vars
  PROVE  GCInv'
<1>1. UNCHANGED <<ledger, pool, op, quarantine, retained, tomb, rmPlan, late, publication, cmd, stage, stops>>
  BY DEF vars, retention
<1>2. CommandSound'
  BY <1>1 DEF GCInv, CommandSound, Admitted, Pending, Parts, ledger
<1> QED
  BY <1>1, <1>2, StageTyped, Records, CommandMoves

\* GCInv is inductive.
THEOREM Invariance == Spec => []GCInv
<1>1. Init => GCInv
  BY InitSafe
<1>2. GCInv /\ [Next]_vars => GCInv'
  <2> SUFFICES ASSUME GCInv, [Next]_vars PROVE GCInv'
    OBVIOUS
  <2>1. ASSUME NEW name \in {"gc", "write", "retain add", "retain rm"}, Begin(name)
        PROVE  GCInv'
    BY <2>1, StartSafe DEF Begin
  <2>2. ASSUME UNCHANGED stops, Recover
        PROVE  GCInv'
    BY <2>2, RecoverPlanlessSafe, RecoverPlannedSafe, RecoverDoneSafe, RecoverNoneSafe,
       RecoverRefusedSafe DEF Recover
  <2>3. ASSUME UNCHANGED stops, Collect
        PROVE  GCInv'
    BY <2>3, NoopSafe, BeginOperationSafe, MakeQuarantineSafe, WritePlanSafe, SetStagedSafe,
       QuarantineSafe, DetachSafe, SetAppliedSafe, FinalizeLocalGCSafe, CleanupSafe DEF Collect
  <2>4. ASSUME UNCHANGED stops, Write
        PROVE  GCInv'
    BY <2>4, ApplyDesiredSafe, FinalizeBuildSafe, PublicationSafe, LeaveSafe DEF Write
  <2>5. ASSUME UNCHANGED stops, RetainAdd
        PROVE  GCInv'
    BY <2>5, BeginRetainSafe, CopyMetadataSafe, WriteRecordSafe, CommitRetainSafe,
       UndoRetainSafe DEF RetainAdd
  <2>6. ASSUME UNCHANGED stops, RetainRemove
        PROVE  GCInv'
    BY <2>6, InspectSafe, PlanRemovalSafe, MoveToTombSafe, RemoveTombSafe,
       RemovePlanSafe DEF RetainRemove
  <2> QED
    BY <2>1, <2>2, <2>3, <2>4, <2>5, <2>6, TidySafe, StopSafe, StutterSafe DEF Next, Run, Step
<1> QED
  BY <1>1, <1>2, PTL DEF Spec

\* However a gc is cut short, no payload that is referred to leaves the pool, none
\* is lost before its row, and afterwards pool, rows and generation agree.
THEOREM GCSafeHolds == Spec => []GCSafe
<1>1. ASSUME GCInv PROVE GCSafe
  <2>1. TypeOK
    BY <1>1 DEF GCInv, Typed
  <2>2. TreeIsGeneration
    BY <1>1 DEF GCInv, TreeSound, TreeIsGeneration
  <2>3. rows \ pool \subseteq quarantine.payloads
    BY <1>1 DEF GCInv, TreeSound
  <2>4. quarantine.payloads \subseteq rows \/ op.state = "done"
    <3>1. CASE Pending
      BY <1>1, <3>1 DEF GCInv, Typed, TypeOK, TreeSound
    <3>2. CASE op.state \in {"none", "rolled_back"}
      BY <1>1, <3>2 DEF GCInv, QuarantineSound
    <3> QED
      BY <2>1, <3>1, <3>2 DEF TypeOK, Pending
  <2>5. MembershipRoots \subseteq pool
    BY <1>1, <2>1 DEF GCInv, TypeOK, TreeSound, MembershipRoots
  <2>6. PublicationRoots \subseteq pool
    <3>1. PayloadsOf(attempt) \subseteq pool
      BY <1>1 DEF GCInv, RootsKept
    <3>2. CASE ~Pending
      BY <1>1, <3>1, <3>2 DEF GCInv, TreeSound, PublicationRoots
    <3>3. CASE Pending
      BY <1>1, <3>1, <3>3 DEF GCInv, TreeSound, RootsKept, PublicationRoots
    <3> QED
      BY <3>2, <3>3
  <2>7. UNION {manifest[g] : g \in retained \ late} \subseteq pool
    BY <1>1 DEF GCInv, RootsKept
  <2> QED
    BY <2>1, <2>2, <2>3, <2>4, <2>5, <2>6, <2>7 DEF GCSafe, RootsServed, LastCopyKept
<1> QED
  BY <1>1, Invariance, PTL

\* An interrupted gc can be taken up where it stopped, and the ledger will accept
\* it; an interrupted removal of a retained generation has its plan.
THEOREM ReplayableHolds == Spec => []Replayable
<1>1. ASSUME GCInv PROVE Replayable
  <2>1. Pending => op.state \in {"planned", "staged", "applied"}
    BY DEF Pending
  <2>2. Pending => op.entries \subseteq pool \union quarantine.payloads
    BY <1>1 DEF GCInv, TreeSound
  <2>3. ReplayAdmitted
    BY <1>1, <2>1, <2>2 DEF ReplayAdmitted, GCInv, QuarantineSound, TreeSound
  <2> QED
    BY <1>1, <2>3 DEF Replayable, GCInv
<1> QED
  BY <1>1, Invariance, PTL
=============================================================================
