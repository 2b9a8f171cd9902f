----------------------------- MODULE Migration -----------------------------
(***************************************************************************)
(* `repo migrate` and `repo migrate --abort`: the move of a repository     *)
(* from the layout in which every RPM view has its own alias of a payload  *)
(* to the layout with a single copy in the pool.                           *)
(*                                                                         *)
(* The state is in three places that no transaction spans: the ledger (the *)
(* layout, the anchored plan with its commit time and deadline, the        *)
(* receipt), the transition journal (the phase, the state of each pointer  *)
(* and alias) and the public tree with the private stage, whose repodata   *)
(* directories are exchanged view by view.  A command may stop between any *)
(* two steps; the next one resumes from whatever it finds, after checking  *)
(* that the three places agree (validateTransitionBinding).                *)
(*                                                                         *)
(* Commands hold the workspace and the repository lock exclusively, so one *)
(* runs at a time.  A command reads the clock once, when it starts.        *)
(***************************************************************************)
EXTENDS Naturals, FiniteSets

CONSTANTS View,       \* the RPM views of the repository
          Alias,      \* the legacy copies of payloads
          Grace,      \* the shortest grace, 30 days
          LongGrace,  \* a longer one an operator may ask for
          None,       \* absent
          MaxTime,    \* bound on the clock while no deadline is awaited
          MaxStops,   \* bound on stopped commands
          MaxAborts   \* bound on abort commands

ASSUME MigrationAssumption ==
  /\ {Grace, LongGrace} \subseteq Nat
  /\ Grace > 0 /\ LongGrace >= Grace
  /\ {MaxTime, MaxStops, MaxAborts} \subseteq Nat
  /\ MaxTime > 0

VARIABLES ledger,   \* repository_state and layout_transition_control
          journal,  \* transitions/c2-to-single-v1.json
          live,     \* the repodata each view serves
          stage,    \* the repodata in stage/c2-to-single-v1
          aliases,  \* the legacy aliases present
          conf,     \* sow.yml: its schema, and whether its signers are the Built ones
          now,      \* the clock
          run,      \* the command that runs
          stops, aborts

disk == <<journal, live, stage, aliases>>
vars == <<ledger, journal, live, stage, aliases, conf, now, run, stops, aborts>>

-----------------------------------------------------------------------------
(* Plans, phases and the ledger *)

Phase == <<"planned", "staged", "commit_intent", "pointer_rollforward", "grace",
           "alias_delete", "final_manifest", "done">>

Rank(phase) == CHOOSE k \in 1 .. 8 : Phase[k] = phase

\* Rendering is deterministic: the planning time identifies a plan, and the
\* metadata of a view is the old one or the render of a plan.
Plan == 1 .. MaxTime

Old == 0

Base == 1
Next1 == 2

\* The generations ordinary commands build once the layout is single.
Later == 3

Idle == [cmd |-> "none", at |-> "idle", now |-> 0, grace |-> 0, plan |-> None]

At(cmd, step) == run.cmd = cmd /\ run.at = step

Go(step) == run' = [run EXCEPT !.at = step]

Exit == run' = Idle

Committed == ledger.control # None /\ ledger.control.notBefore # None

Control(plan) == [plan |-> plan, notBefore |-> None]

PlannedJournal(plan) ==
  [phase |-> "planned", plan |-> plan, deadline |-> None,
   pointer |-> [v \in View |-> "old"], alias |-> [a \in Alias |-> "present"]]

ControlRecord == [plan : Plan, notBefore : {None} \cup Nat]

JournalRecord ==
  [phase : {Phase[k] : k \in 1 .. 8}, plan : Plan, deadline : {None} \cup Nat,
   pointer : [View -> {"old", "new"}], alias : [Alias -> {"present", "deleted"}]]

StageTree == [View -> {None, Old} \cup Plan]

ASSUME NoneAssumption ==
  None \notin Nat /\ None \notin ControlRecord /\ None \notin JournalRecord /\ None \notin StageTree

In(phase) == journal # None /\ journal.phase = phase

SetPhase(phase) == journal' = [journal EXCEPT !.phase = phase]

-----------------------------------------------------------------------------
(* validateTransitionBinding *)

\* The ledger is where the phase says; final_manifest is allowed on both
\* sides of the ledger's commit.
LedgerBound ==
  LET before == ledger.layout = "c2_to_single" /\ ledger.gen = Base /\ ~ledger.receipt
      after == ledger.layout = "single" /\ ledger.gen = Next1 /\ ledger.receipt
  IN  before \/ (after /\ Rank(journal.phase) >= Rank("final_manifest"))

\* Mutant: recovery needs the signers even after the commit.
ControlBoundSigner ==
  /\ ledger.control # None
  /\ ledger.control.plan = journal.plan
  /\ conf.signer
  /\ IF Committed
       THEN Rank(journal.phase) >= Rank("staged")
       ELSE Rank(journal.phase) < Rank("commit_intent")

ControlBound ==
  /\ ledger.control # None
  /\ ledger.control.plan = journal.plan
  /\ IF Committed
       THEN /\ Rank(journal.phase) >= Rank("staged")
            /\ (Rank(journal.phase) >= Rank("grace")
                  => journal.deadline = ledger.control.notBefore)
       ELSE Rank(journal.phase) < Rank("commit_intent") /\ conf.signer

PointersBound ==
  \A v \in View :
    /\ Rank(journal.phase) < Rank("pointer_rollforward") =>
         live[v] = Old /\ journal.pointer[v] = "old"
    /\ journal.phase = "pointer_rollforward" =>
         (journal.pointer[v] = "new" => live[v] # Old)
    /\ Rank(journal.phase) > Rank("pointer_rollforward") =>
         live[v] # Old /\ journal.pointer[v] = "new"

AliasesBound ==
  \A a \in Alias :
    /\ Rank(journal.phase) < Rank("alias_delete") =>
         a \in aliases /\ journal.alias[a] = "present"
    /\ journal.phase = "alias_delete" =>
         (journal.alias[a] = "deleted" => a \notin aliases)
    /\ Rank(journal.phase) > Rank("alias_delete") =>
         a \notin aliases /\ journal.alias[a] = "deleted"

\* Public tree and stage hold, between them, the old and the new of every view.
TreesBound ==
  /\ stage # None
  /\ \A v \in View : \/ live[v] = Old /\ stage[v] = journal.plan
                     \/ live[v] = journal.plan /\ stage[v] = Old

Bound == /\ LedgerBound /\ ControlBound /\ PointersBound
         /\ AliasesBound /\ TreesBound

-----------------------------------------------------------------------------
(* Entry and planning *)

StartMigrate(grace) ==
  /\ run = Idle
  /\ run' = [Idle EXCEPT !.cmd = "migrate", !.at = "open", !.now = now, !.grace = grace]
  /\ UNCHANGED <<ledger, disk, conf, now, stops, aborts>>

\* The layout is single already: all that is left is the journal.
RepairDone ==
  /\ At("migrate", "open")
  /\ ledger.layout = "single"
  /\ In("final_manifest")
  /\ Bound
  /\ SetPhase("done")
  /\ Go("repaired")
  /\ UNCHANGED <<ledger, live, stage, aliases, conf, now, stops, aborts>>

ClearTerminal ==
  /\ \/ At("migrate", "repaired")
     \/ At("migrate", "open") /\ ledger.layout = "single" /\ In("done") /\ Bound
  /\ journal' = None
  /\ Exit
  /\ UNCHANGED <<ledger, live, stage, aliases, conf, now, stops, aborts>>

AlreadyDone ==
  /\ At("migrate", "open")
  /\ ledger.layout = "single"
  /\ journal = None
  /\ Exit
  /\ UNCHANGED <<ledger, disk, conf, now, stops, aborts>>

\* sow.yml in the schema of the older version is rewritten before anything else.
WriteConfig ==
  /\ At("migrate", "open")
  /\ ledger.layout # "single"
  /\ conf.legacy
  /\ conf' = [conf EXCEPT !.legacy = FALSE]
  /\ UNCHANGED <<ledger, disk, now, run, stops, aborts>>

Resume ==
  /\ At("migrate", "open")
  /\ ledger.layout # "single" /\ ~conf.legacy
  /\ journal # None
  /\ Go("loop")
  /\ UNCHANGED <<ledger, disk, conf, now, stops, aborts>>

\* preserveMigrationStage: an empty stage is removed, another is kept aside in
\* abandoned/, outside what anything looks at.  An anchored plan is planned
\* again with its own planning time.
PreserveStage ==
  /\ At("migrate", "open")
  /\ ledger.layout # "single" /\ ~conf.legacy
  /\ journal = None
  /\ ~Committed
  /\ stage' = None
  /\ run' = [run EXCEPT !.at = "plan",
               !.plan = IF ledger.control = None THEN run.now ELSE ledger.control.plan]
  /\ UNCHANGED <<ledger, journal, live, aliases, conf, now, stops, aborts>>

\* planC2Transition, up to the signers: the public tree must be the Built
\* generation's, whose manifest is recorded now if an older version did not.
MakeStage ==
  /\ At("migrate", "plan")
  /\ aliases = Alias
  /\ \A v \in View : live[v] = Old
  /\ ledger' = [ledger EXCEPT !.recorded = TRUE]
  /\ stage' = [v \in View |-> None]
  /\ Go("render")
  /\ UNCHANGED <<journal, live, aliases, conf, now, stops, aborts>>

RenderView(v) ==
  /\ At("migrate", "render")
  /\ conf.signer
  /\ stage[v] = None
  /\ stage' = [stage EXCEPT ![v] = run.plan]
  /\ UNCHANGED <<ledger, journal, live, aliases, conf, now, run, stops, aborts>>

Rendered == \A v \in View : stage[v] = run.plan

AnchorLayoutTransitionPlan ==
  /\ At("migrate", "render")
  /\ Rendered
  /\ ledger.layout = "c2_to_single" /\ ledger.gen = Base
  /\ ledger.control \in {None, Control(run.plan)}
  /\ ledger' = [ledger EXCEPT !.control = Control(run.plan)]
  /\ Go("anchored")
  /\ UNCHANGED <<disk, conf, now, stops, aborts>>

PersistPlanned ==
  /\ At("migrate", "anchored")
  /\ journal' = PlannedJournal(run.plan)
  /\ Go("loop")
  /\ UNCHANGED <<ledger, live, stage, aliases, conf, now, stops, aborts>>

-----------------------------------------------------------------------------
(* The phases: each turn of the loop checks the binding first *)

Turn(phase) == At("migrate", "loop") /\ In(phase) /\ Bound

SetStaged ==
  /\ Turn("planned")
  /\ SetPhase("staged")
  /\ UNCHANGED <<ledger, live, stage, aliases, conf, now, run, stops, aborts>>

\* The deadline counts from the command's clock; a committed one is kept.
CommitLayoutTransitionPlan ==
  /\ Turn("staged")
  /\ ~Committed
  /\ ledger' = [ledger EXCEPT !.control.notBefore = run.now + run.grace]
  /\ UNCHANGED <<disk, conf, now, run, stops, aborts>>

\* Mutant: the journal says commit before the ledger does.
SetCommitIntentFirst ==
  /\ Turn("staged")
  /\ SetPhase("commit_intent")
  /\ UNCHANGED <<ledger, live, stage, aliases, conf, now, run, stops, aborts>>

SetCommitIntent ==
  /\ Turn("staged")
  /\ Committed
  /\ SetPhase("commit_intent")
  /\ UNCHANGED <<ledger, live, stage, aliases, conf, now, run, stops, aborts>>

SetRollForward ==
  /\ Turn("commit_intent")
  /\ SetPhase("pointer_rollforward")
  /\ UNCHANGED <<ledger, live, stage, aliases, conf, now, run, stops, aborts>>

\* A view whose exchange the journal does not know yet is journaled before
\* the next one is exchanged.
Unjournaled == {v \in View : live[v] # Old /\ journal.pointer[v] = "old"}

\* exchangeRootedDirectories: one system call, then the fsync of both parents.
Exchange(v) == live' = [live EXCEPT ![v] = stage[v]] /\ stage' = [stage EXCEPT ![v] = live[v]]

ExchangeView(v) ==
  /\ Turn("pointer_rollforward")
  /\ Unjournaled = {}
  /\ live[v] = Old
  /\ Exchange(v)
  /\ UNCHANGED <<ledger, journal, aliases, conf, now, run, stops, aborts>>

SetPointer(v) ==
  /\ Turn("pointer_rollforward")
  /\ v \in Unjournaled
  /\ journal' = [journal EXCEPT !.pointer[v] = "new"]
  /\ UNCHANGED <<ledger, live, stage, aliases, conf, now, run, stops, aborts>>

SetGrace ==
  /\ Turn("pointer_rollforward")
  /\ \A v \in View : journal.pointer[v] = "new"
  /\ journal' = [journal EXCEPT !.phase = "grace", !.deadline = ledger.control.notBefore]
  /\ UNCHANGED <<ledger, live, stage, aliases, conf, now, run, stops, aborts>>

\* Mutant: the last unit of the grace is cut off.
GraceOverShort == Alias = {} \/ run.now + 1 >= journal.deadline

GraceOver == Alias = {} \/ run.now >= journal.deadline

\* ErrNotReady: the aliases stay.
AwaitGrace ==
  /\ Turn("grace")
  /\ ~GraceOver
  /\ Exit
  /\ UNCHANGED <<ledger, disk, conf, now, stops, aborts>>

SetAliasDelete ==
  /\ Turn("grace")
  /\ GraceOver
  /\ SetPhase("alias_delete")
  /\ UNCHANGED <<ledger, live, stage, aliases, conf, now, run, stops, aborts>>

\* deleteLegacyAliases goes through the aliases in order.
UnjournaledAliases == {a \in Alias \ aliases : journal.alias[a] = "present"}

RemoveAlias(a) ==
  /\ Turn("alias_delete")
  /\ UnjournaledAliases = {}
  /\ a \in aliases
  /\ aliases' = aliases \ {a}
  /\ UNCHANGED <<ledger, journal, live, stage, conf, now, run, stops, aborts>>

SetAliasDeleted(a) ==
  /\ Turn("alias_delete")
  /\ a \in UnjournaledAliases
  /\ journal' = [journal EXCEPT !.alias[a] = "deleted"]
  /\ UNCHANGED <<ledger, live, stage, aliases, conf, now, run, stops, aborts>>

SetFinalManifest ==
  /\ Turn("alias_delete")
  /\ \A a \in Alias : journal.alias[a] = "deleted"
  /\ SetPhase("final_manifest")
  /\ UNCHANGED <<ledger, live, stage, aliases, conf, now, run, stops, aborts>>

CompleteLayoutTransition ==
  /\ Turn("final_manifest")
  /\ ledger.layout = "c2_to_single"
  /\ Committed
  /\ ledger' = [ledger EXCEPT !.layout = "single", !.gen = Next1, !.receipt = TRUE]
  /\ Go("completed")
  /\ UNCHANGED <<disk, conf, now, stops, aborts>>

PersistDone ==
  /\ At("migrate", "completed")
  /\ SetPhase("done")
  /\ Go("loop")
  /\ UNCHANGED <<ledger, live, stage, aliases, conf, now, stops, aborts>>

ClearTransitionJournal ==
  /\ Turn("done")
  /\ ledger.layout = "single" /\ ledger.receipt
  /\ journal' = None
  /\ Go("unstage")
  /\ UNCHANGED <<ledger, live, stage, aliases, conf, now, stops, aborts>>

RemoveStage ==
  /\ At("migrate", "unstage")
  /\ stage' = None
  /\ Exit
  /\ UNCHANGED <<ledger, journal, live, aliases, conf, now, stops, aborts>>

\* Every check that fails ends the command with what it has written so far.
Refused ==
  \/ At("migrate", "open") /\ ledger.layout = "single" /\ journal # None /\ ~Bound
  \/ At("migrate", "open") /\ ledger.layout # "single" /\ journal = None /\ Committed
  \/ At("migrate", "plan") /\ ~(aliases = Alias /\ \A v \in View : live[v] = Old)
  \/ At("migrate", "render") /\ ~conf.signer
  \/ At("migrate", "render") /\ Rendered
       /\ ledger.control \notin {None, Control(run.plan)}
  \/ At("migrate", "loop") /\ ~Bound

Refuse ==
  /\ Refused
  /\ Exit
  /\ UNCHANGED <<ledger, disk, conf, now, stops, aborts>>

-----------------------------------------------------------------------------
(* Abort *)

\* AbandonRepositoryMigration, up to validateMigrationAbandon.
Abandonable ==
  /\ ledger.layout = "c2_to_single" /\ ~ledger.receipt
  /\ ~Committed
  /\ journal # None =>
       /\ Rank(journal.phase) < Rank("commit_intent")
       /\ \A v \in View : journal.pointer[v] = "old"
       /\ \A a \in Alias : journal.alias[a] = "present"
       /\ (ledger.control # None => ledger.control.plan = journal.plan)

StartAbandon ==
  /\ run = Idle
  /\ aborts < MaxAborts
  /\ aborts' = aborts + 1
  /\ run' = IF Abandonable THEN [Idle EXCEPT !.cmd = "abandon", !.at = "stage"] ELSE Idle
  /\ UNCHANGED <<ledger, disk, conf, now, stops>>

\* That the stage cannot be moved aside is only a warning.
AbandonStage ==
  /\ At("abandon", "stage")
  /\ stage' \in {None, stage}
  /\ Go("state")
  /\ UNCHANGED <<ledger, journal, live, aliases, conf, now, stops, aborts>>

AbandonLayoutTransition ==
  /\ At("abandon", "state")
  /\ ledger' = [ledger EXCEPT !.control = None]
  /\ Go("journal")
  /\ UNCHANGED <<disk, conf, now, stops, aborts>>

AbandonJournal ==
  /\ At("abandon", "journal")
  /\ journal' = None
  /\ Exit
  /\ UNCHANGED <<ledger, live, stage, aliases, conf, now, stops, aborts>>

-----------------------------------------------------------------------------
(* Around the commands *)

\* The command is killed, or a step of it fails.
Stop ==
  /\ run # Idle
  /\ stops < MaxStops
  /\ stops' = stops + 1
  /\ Exit
  /\ UNCHANGED <<ledger, disk, conf, now, aborts>>

\* Time passes, also while a command runs.
Tick ==
  /\ \/ now < MaxTime
     \/ Committed /\ now < ledger.control.notBefore
  /\ now' = now + 1
  /\ UNCHANGED <<ledger, disk, conf, run, stops, aborts>>

\* sow.yml or a signing key is changed, or changed back.
ChangeSigner ==
  /\ conf' = [conf EXCEPT !.signer = ~@]
  /\ UNCHANGED <<ledger, disk, now, run, stops, aborts>>

\* An ordinary command (RequireTerminalLayout) builds a generation.
BuildGeneration ==
  /\ run = Idle
  /\ ledger.layout = "single"
  /\ ledger.gen < Later
  /\ ledger' = [ledger EXCEPT !.gen = Later]
  /\ UNCHANGED <<disk, conf, now, run, stops, aborts>>

-----------------------------------------------------------------------------
(* Specification *)

Init ==
  /\ \E recorded \in BOOLEAN :
       ledger = [layout |-> "c2_to_single", gen |-> Base, recorded |-> recorded,
                 receipt |-> FALSE, control |-> None]
  /\ journal = None
  /\ live = [v \in View |-> Old]
  /\ stage = None
  /\ aliases = Alias
  /\ \E legacy \in BOOLEAN : conf = [legacy |-> legacy, signer |-> TRUE]
  /\ now = 1
  /\ run = Idle
  /\ stops = 0 /\ aborts = 0

Step ==
  \/ RepairDone \/ ClearTerminal \/ AlreadyDone \/ WriteConfig \/ Resume
  \/ PreserveStage \/ MakeStage \/ AnchorLayoutTransitionPlan \/ PersistPlanned
  \/ SetStaged \/ CommitLayoutTransitionPlan \/ SetCommitIntent \/ SetRollForward
  \/ SetGrace \/ AwaitGrace \/ SetAliasDelete \/ SetFinalManifest
  \/ CompleteLayoutTransition \/ PersistDone \/ ClearTransitionJournal \/ RemoveStage
  \/ Refuse
  \/ AbandonStage \/ AbandonLayoutTransition \/ AbandonJournal
  \/ \E v \in View : RenderView(v) \/ ExchangeView(v) \/ SetPointer(v)
  \/ \E a \in Alias : RemoveAlias(a) \/ SetAliasDeleted(a)

Next ==
  \/ Step
  \/ \E grace \in {Grace, LongGrace} : StartMigrate(grace)
  \/ StartAbandon \/ Stop \/ Tick \/ ChangeSigner \/ BuildGeneration

Spec == Init /\ [][Next]_vars

\* A command that runs takes its next step, the operator runs `repo migrate`
\* again when none runs, and time passes.
FairSpec ==
  /\ Spec
  /\ WF_vars(Step)
  /\ WF_vars(\E grace \in {Grace, LongGrace} : StartMigrate(grace))
  /\ WF_vars(Tick)

-----------------------------------------------------------------------------
(* Properties *)

\* Every variable has its type; in particular a view always serves metadata,
\* the old one or the render of a plan.
TypeOK ==
  /\ ledger \in [layout : {"c2_to_single", "single"}, gen : {Base, Next1, Later},
                 recorded : BOOLEAN, receipt : BOOLEAN,
                 control : {None} \cup ControlRecord]
  /\ journal \in {None} \cup JournalRecord
  /\ live \in [View -> {Old} \cup Plan]
  /\ stage \in {None} \cup StageTree
  /\ aliases \subseteq Alias
  /\ conf \in [legacy : BOOLEAN, signer : BOOLEAN]
  /\ now \in Nat
  /\ run.cmd \in {"none", "migrate", "abandon"} /\ run.plan \in {None} \cup Plan
  /\ stops \in 0 .. MaxStops /\ aborts \in 0 .. MaxAborts

\* Wherever a command stopped, the next one is admitted: a committed migration
\* passes the check of `repo migrate` (migrate.go:880) whatever became of the
\* signers, unless an ordinary command built a generation meanwhile; one that
\* is not committed can be aborted; and a committed plan is never left
\* without a journal while the layout is not single (migrate.go:180).
ResumeAdmitted ==
  run = Idle =>
    /\ (journal # None /\ Committed) => (Bound \/ ledger.gen = Later)
    /\ (journal # None /\ ~Committed) => Abandonable
    /\ (journal = None /\ Committed) => ledger.layout = "single"

\* After any stop a view serves whole metadata, and the next command is admitted.
MigrationSafe == TypeOK /\ ResumeAdmitted

\* The repair of a journal that a stop left at final_manifest: the comment at
\* migrate.go:327 says the next `repo migrate` can always advance it.
RepairPossible == (run = Idle /\ journal # None /\ Committed) => Bound

\* What readers are promised, see MigrationContract.
CommittedPlan == IF Committed THEN ledger.control ELSE None

Single == ledger.layout = "single"

Contract == INSTANCE MigrationContract WITH
  plan <- CommittedPlan, served <- live, done <- Single

\* Views change to the committed plan's metadata only, each at once, and no alias
\* goes before the grace period recorded with the commit is over.
ContractKept == Contract!Spec

\* A committed migration ends, with the journal cleared, even if the signers
\* it was planned with are gone, provided no ordinary command builds first.
CommittedEnds ==
  Committed ~> ((ledger.layout = "single" /\ journal = None) \/ ledger.gen = Later)

\* An abort that stopped half way: only another abort helps.
HalfAborted ==
  journal # None /\ ~Committed /\ (ledger.control = None \/ stage = None)

\* Once the signers stay those of the Built state, every migration ends.
Converges ==
  <>[](conf.signer) =>
    <>[](\/ ledger.layout = "single" /\ journal = None
        \/ HalfAborted
        \/ ledger.gen = Later)

\* A migration comes to its end: once committed without help from its signers,
\* and otherwise as soon as they are back.
MigrationEnds == CommittedEnds /\ Converges

=============================================================================
